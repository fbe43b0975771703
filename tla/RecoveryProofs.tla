-------------------------- MODULE RecoveryProofs --------------------------
(***************************************************************************)
(* Theorems about Recovery, for any number of entries, files, failures and *)
(* crashes: the database can always be opened again, and what is found is  *)
(* what was promised, provided the kernel writes no manifest on its own    *)
(* before the name of it is synced (InOrder).                              *)
(***************************************************************************)
EXTENDS Recovery, FiniteSetTheorems, SequenceTheorems, WellFoundedInduction, TLAPS

InOrder == "MANIFEST" \notin Writeback
-----------------------------------------------------------------------------
(* What files and directories look like.                                   *)
Kinds == {"MANIFEST", "log", "table", "temp"}
Names == {CurrentFile} \cup Kinds \X Nat
Pairs == Nat \X Nat
Edits == [add : SUBSET Nat, del : SUBSET Nat, log : Nat, next : Nat, last : Nat]

IsWhole(file) == Len(file.content) = 1 /\ file.safe = 1

IsFile(kind, file) ==
    /\ kind = "MANIFEST" => file \in [content : Seq(Edits), safe : Nat] /\ file.safe <= Len(file.content)
    /\ kind = "log" => file \in [content : Seq(Pairs), safe : Nat] /\ file.safe <= Len(file.content)
    /\ kind = "table" => file \in [content : Seq(SUBSET Pairs), safe : Nat] /\ (file = NewFile \/ IsWhole(file))
    /\ kind \in {"CURRENT", "temp"} => file \in [content : Seq(Nat), safe : Nat] /\ IsWhole(file)

NamesInode(x, i) == i[1] = x \/ (x = CurrentFile /\ i[1][1] = "temp")

IsDirectory(d, g) == \A x \in DOMAIN d : x \in Names /\ d[x] \in DOMAIN g /\ NamesInode(x, d[x])

FilesOK(f) == /\ IsFiniteSet(DOMAIN f.data)
              /\ \A i \in DOMAIN f.data : i = <<i[1], i[2]>> /\ i[1] \in Names /\ IsFile(i[1][1], f.data[i])
              /\ \A d \in DirsOf(f) : IsDirectory(d, f.data)
-----------------------------------------------------------------------------
(* An image is a directory with the files it names.                        *)
Image(f, d) == [x \in DOMAIN d |-> f.data[d[x]]]
Now(f) == Image(f, f.dir)

Cur(m) == m[CurrentFile].content[1]
Man(m) == m[Manifest(Cur(m))]
Full(m) == SavedOf(Man(m).content)
Safely(m) == SavedOf(SubSeq(Man(m).content, 1, Man(m).safe))

(* CURRENT names a manifest, and one that is safe unless it is NewDB's.    *)
Rooted(m) == /\ Manifest(Cur(m)) \in DOMAIN m
             /\ Cur(m) = 1 \/ Man(m).safe >= 1

Stored(m, t) == UNION ToSet(m[Table(t)].content)
LogOf(m, n) == ToSet(m[LogName(n)].content)
SafeLogOf(m, n) == ToSet(SubSeq(m[LogName(n)].content, 1, m[LogName(n)].safe))
HasTable(m, t) == Table(t) \in DOMAIN m /\ IsWhole(m[Table(t)])
HasLog(m, n) == LogName(n) \in DOMAIN m

(* What a version v of the database needs is there, and no more.           *)
Holds(m, v, A) ==
    /\ v.log < v.next
    /\ \A t \in v.tables : t < v.next /\ HasTable(m, t) /\ \A e \in Stored(m, t) : e \in A /\ e[2] <= v.last
    /\ \A x \in DOMAIN m : x[1] = "log" /\ x[2] >= v.log => LogOf(m, x[2]) \subseteq A

Sane(m, v, A) == 0 < Cur(m) /\ Cur(m) < v.next /\ Holds(m, v, A)

InTables(m, v, e) == \E t \in v.tables : e \in Stored(m, t)
Keeps(m, v, e) == InTables(m, v, e) \/ \E x \in DOMAIN m : x[1] = "log" /\ x[2] >= v.log /\ e \in LogOf(m, x[2])
KeepsSafe(m, v, e) == InTables(m, v, e) \/ \E x \in DOMAIN m : x[1] = "log" /\ x[2] >= v.log /\ e \in SafeLogOf(m, x[2])
Misses(m, v, now, e) == \E x \in DOMAIN now \ DOMAIN m : x[1] = "log" /\ x[2] >= v.log /\ e \in LogOf(now, x[2])
-----------------------------------------------------------------------------
(* The disk, with A acknowledged and P promised.                           *)
Committed(d) == CurrentFile \in DOMAIN d

NowOK(m, A, P) ==
    /\ Rooted(m) /\ Man(m).content # <<>>
    /\ Sane(m, Full(m), A)
    /\ \A e \in A : Keeps(m, Full(m), e)
    /\ \A e \in P : KeepsSafe(m, Full(m), e)

(* What a crash of the machine can bring back.                             *)
ThenOK(m, now, A, P) ==
    /\ Rooted(m)
    /\ Man(m).safe # 0 => /\ Sane(m, Safely(m), A) /\ Safely(m).next <= Full(now).next
                          /\ \A e \in P : KeepsSafe(m, Safely(m), e) \/ Misses(m, Safely(m), now, e)

(* A file CURRENT names is not the temporary file of another attempt.      *)
TempsApart(f) == \A d \in DirsOf(f) : Committed(d) =>
                    /\ \A x \in DOMAIN f.dir : x[1] = "temp" => f.dir[x] # d[CurrentFile]
                    /\ \A x \in DOMAIN d : x[1] = "temp" => d[x] # d[CurrentFile]

DiskOK(f, A, P) ==
    /\ Committed(f.dir) => NowOK(Now(f), A, P)
    /\ \A d \in DirsOf(f) :
          IF Committed(d) THEN Committed(f.dir) /\ ThenOK(Image(f, d), Now(f), A, P)
          ELSE A = {} /\ \A x \in DOMAIN d : x[1] # "log"
    /\ TempsApart(f)

(* From some log on, logs are not removed.                                 *)
LogsStable(f, n) == \A d \in f.older : \A x \in DOMAIN d :
                       x[1] = "log" /\ x[2] >= n => x \in DOMAIN f.dir /\ f.dir[x] = d[x]

(* Nothing but names in X was added or changed since the last sync.        *)
SyncedBut(f, X) == \A d \in f.older : \A x \in DOMAIN f.dir \ X : x \in DOMAIN d /\ d[x] = f.dir[x]

LogNames(f) == {x \in DOMAIN f.dir : x[1] = "log"}
-----------------------------------------------------------------------------
(* Memory.                                                                 *)
Blank == /\ version = {} /\ kept = {} /\ logfile = 0 /\ logs = {} /\ edit = NoEdit
         /\ mem = {} /\ imm = {} /\ lastSeq = 0 /\ job = NoJob /\ pending = {} /\ bgError = FALSE

MemoryTypeOK ==
    /\ version \subseteq Nat /\ kept \subseteq Nat /\ logs \subseteq Nat /\ pending \subseteq Nat
    /\ numbers \in [next : Nat, log : Nat, manifest : Nat]
    /\ edit \in [add : SUBSET Nat, del : SUBSET Nat, log : Nat]
    /\ logfile \in Nat /\ lastSeq \in Nat /\ issued \in 0 .. MaxEntries /\ crashes \in 0 .. MaxCrashes
    /\ mem \subseteq acked /\ imm \subseteq acked /\ promised \subseteq acked
    /\ acked \subseteq (1 .. MaxEntries) \X Nat
    /\ \A e, x \in acked : e[2] = x[2] => e = x
    /\ bgError \in BOOLEAN
    /\ job \in [kind : {"none", "flush", "compact"}, number : Nat, inputs : SUBSET Nat, output : Nat,
                stage : {"none", "build", "append", "syncDir", "sync", "install", "clean"}]

First == [add |-> {}, del |-> {}, log |-> 0, next |-> 2, last |-> 0]

(* Closed, or creating the database.                                       *)
ClosedStates == {"closed", "new", "newCurrent", "newRename", "recover"}
ClosedOK ==
    /\ Blank
    /\ pc \in {"newCurrent", "newRename"} => numbers = [next |-> 2, log |-> 0, manifest |-> 1]
    /\ pc \in {"closed", "new"} => numbers = [next |-> 2, log |-> 0, manifest |-> 0]
    /\ pc \in {"new", "newCurrent", "newRename"} => ~Committed(dir)
    /\ pc = "recover" => Committed(dir)
    /\ pc \in {"newCurrent", "newRename"} => Manifest(1) \in DOMAIN dir /\ Now(Files)[Manifest(1)] = [content |-> <<First>>, safe |-> 0]
    /\ pc = "newRename" => Temp(1) \in DOMAIN dir /\ Now(Files)[Temp(1)].content = <<1>>
    /\ LogsStable(Files, IF Committed(dir) THEN Full(Now(Files)).log ELSE 0)

(* Recovering.                                                             *)
OpeningStates == {"logs", "snapshot", "syncDir", "sync", "current", "rename"}
NewTables(m) == \A t \in edit.add : t < numbers.next /\ HasTable(m, t)
                                    /\ \A e \in Stored(m, t) : e \in acked /\ e[2] <= lastSeq
InNewTables(m, n) == \A e \in LogOf(m, n) : \E t \in edit.add : e \in Stored(m, t)

OpeningMemory(v) ==
    /\ version = v.tables /\ numbers.log = v.log /\ numbers.manifest = v.next /\ v.next < numbers.next
    /\ v.last <= lastSeq /\ edit.del = {}
    /\ kept = {} /\ mem = {} /\ imm = {} /\ job = NoJob /\ pending = {} /\ bgError = FALSE

OpeningLogs(m, v) ==
    /\ pc = "logs" => /\ \A n \in logs : LogName(n) \in DOMAIN m /\ n >= v.log
                      /\ \A x \in DOMAIN m : x[1] = "log" /\ x[2] >= v.log =>
                            x[2] \in logs \/ (x[2] < numbers.next /\ InNewTables(m, x[2]))
    /\ pc # "logs" => /\ logs = {} /\ edit.log = logfile /\ v.next < logfile /\ logfile < numbers.next
                      /\ HasLog(m, logfile) /\ LogOf(m, logfile) = {}
                      /\ \A x \in DOMAIN m : x[1] = "log" /\ x[2] # logfile =>
                            x[2] < logfile /\ (x[2] >= v.log => InNewTables(m, x[2]))

OpeningManifest(m) ==
    pc \in {"syncDir", "sync", "current", "rename"} =>
       /\ ThisManifest \in DOMAIN m /\ m[ThisManifest].content # <<>>
       /\ SavedOf(m[ThisManifest].content)
             = [tables |-> version \cup edit.add, log |-> logfile, next |-> numbers.next, last |-> lastSeq]
       /\ pc \in {"current", "rename"} => m[ThisManifest].safe = Len(m[ThisManifest].content)
       /\ pc = "rename" => Temp(numbers.manifest) \in DOMAIN m /\ m[Temp(numbers.manifest)].content = <<numbers.manifest>>

OpeningOK ==
    /\ Committed(dir)
    /\ OpeningMemory(Full(Now(Files))) /\ NewTables(Now(Files))
    /\ OpeningLogs(Now(Files), Full(Now(Files))) /\ OpeningManifest(Now(Files))
    /\ LogsStable(Files, numbers.log)
    /\ pc \in {"sync", "current", "rename"} => SyncedBut(Files, {Temp(numbers.manifest)})

(* Running, or about to.                                                   *)
UpStates == {"install", "clean", "up"}
Stage == IF pc = "up" THEN job.stage ELSE pc
Saving == Stage \in {"syncDir", "sync", "install"}

Numbering(m) ==
    /\ Cur(m) = numbers.manifest /\ numbers.manifest < numbers.next
    /\ numbers.log <= Full(m).log /\ Full(m).log <= logfile /\ logfile < numbers.next
    /\ Full(m).next <= numbers.next /\ Full(m).last <= lastSeq
    /\ \A e \in acked : e[2] <= lastSeq

Memtables(m) ==
    /\ HasLog(m, logfile) /\ LogOf(m, logfile) = mem
    /\ \A x \in DOMAIN m : x[1] = "log" /\ x[2] # logfile =>
          x[2] < logfile /\ (pc # "install" /\ x[2] >= numbers.log => LogOf(m, x[2]) \subseteq imm)

GoodTable(m, t) == t < numbers.next /\ HasTable(m, t) /\ Stored(m, t) \subseteq acked
VersionOK(m) ==
    /\ \A t \in version \cup kept : GoodTable(m, t)
    /\ Saving => Full(m).log = edit.log
    /\ ~bgError => Full(m) = [Full(m) EXCEPT !.tables = IF Saving THEN (version \ edit.del) \cup edit.add ELSE version,
                                             !.log = IF Saving THEN edit.log ELSE numbers.log]

EditOK(m) ==
    /\ pc = "install" => edit.del = {} /\ edit.log = logfile /\ \A t \in edit.add : GoodTable(m, t)
    /\ pc = "up" /\ job.stage \in {"append", "syncDir", "sync", "install"} =>
         /\ \A t \in edit.add : GoodTable(m, t)
         /\ job.kind = "flush" => /\ edit.del = {} /\ edit.log = logfile
                                  /\ imm \subseteq UNION {Stored(m, t) : t \in edit.add}
         /\ job.kind = "compact" => /\ edit.del = job.inputs /\ edit.log = numbers.log
                                    /\ UNION {Stored(m, t) : t \in job.inputs} \subseteq UNION {Stored(m, t) : t \in edit.add}
    /\ pc # "install" /\ job.stage \in {"none", "build", "clean"} => edit = NoEdit

JobOK ==
    /\ pc # "up" => job = NoJob
    /\ job.kind = "none" => job = NoJob
    /\ job # NoJob => job.stage # "none"
    /\ job.kind = "compact" => job.output # 0
    /\ job.kind = "flush" /\ job.stage # "clean" => imm # {}
    /\ job.output # job.number \/ job = NoJob
    /\ ~(job.kind = "compact" /\ job.stage = "clean") => job.inputs \subseteq version

Building == (IF job.kind = "flush" /\ job.stage = "build" THEN {job.number} ELSE {})
            \cup (IF job.output # 0 /\ (job.kind = "flush" \/ job.stage = "build") THEN {job.output} ELSE {})

BuildingOK(f) ==
    \A b \in Building :
        /\ b < numbers.next /\ b \in pending /\ b \notin version \cup kept \cup edit.add
        /\ Table(b) \in DOMAIN f.dir /\ Now(f)[Table(b)] = NewFile
        /\ b \notin Full(Now(f)).tables
        /\ \A d \in DirsOf(f) : Man(Image(f, d)).safe # 0 => b \notin Safely(Image(f, d)).tables

SyncedOK(f) ==
    /\ pc # "up" => SyncedBut(f, {CurrentFile})
    /\ pc = "up" /\ job.stage \in {"sync", "install", "clean"} => SyncedBut(f, LogNames(f))
    /\ Stage \in {"install", "clean"} => Man(Now(f)).safe = Len(Man(Now(f)).content)
    /\ \A d \in DirsOf(f) : Committed(d) /\ (Man(Image(f, d)).safe # 0 => Safely(Image(f, d)).log <= logfile)

UpOK ==
    /\ Committed(dir) /\ logs = {}
    /\ Numbering(Now(Files)) /\ Memtables(Now(Files)) /\ VersionOK(Now(Files)) /\ EditOK(Now(Files))
    /\ JobOK /\ BuildingOK(Files) /\ SyncedOK(Files)
    /\ LogsStable(Files, numbers.log)

(* NewDB's manifest did not survive.                                       *)
LostOK == /\ pc \in {"closed", "recover", "corrupt"} /\ older = {}
          /\ Blank /\ numbers = [next |-> 2, log |-> 0, manifest |-> 0]
          /\ Committed(dir) /\ FirstManifestLost(Files)
          /\ Manifest(1) \in DOMAIN dir /\ Man(Now(Files)) = NewFile

RInv == /\ FilesOK(Files) /\ MemoryTypeOK
        /\ \/ LostOK
           \/ /\ DiskOK(Files, acked, promised)
              /\ \/ pc \in ClosedStates /\ ClosedOK
                 \/ pc \in OpeningStates /\ OpeningOK
                 \/ pc \in UpStates /\ UpOK
(* Names, and what the operations on files do to them.                     *)
Wrote(f, g, x, file) ==
    /\ DOMAIN g.dir = DOMAIN f.dir \cup {x} /\ \A y \in DOMAIN f.dir : g.dir[y] = f.dir[y]
    /\ IF x \in DOMAIN f.dir THEN g.older = f.older /\ DOMAIN g.data = DOMAIN f.data
       ELSE /\ g.older = DirsOf(f) /\ DOMAIN g.data = DOMAIN f.data \cup {g.dir[x]}
            /\ g.dir[x] \notin DOMAIN f.data /\ g.dir[x] = <<x, g.dir[x][2]>>
    /\ g.dir[x] \in DOMAIN g.data /\ g.data[g.dir[x]] = file
    /\ \A i \in DOMAIN f.data : i # g.dir[x] => g.data[i] = f.data[i]

(* Names of files say what kind of file they are, and no two kinds share a name. *)
LEMMA Kinded ==
  /\ \A n : /\ Manifest(n)[1] = "MANIFEST" /\ LogName(n)[1] = "log" /\ Table(n)[1] = "table" /\ Temp(n)[1] = "temp"
            /\ Manifest(n)[2] = n /\ LogName(n)[2] = n /\ Table(n)[2] = n /\ Temp(n)[2] = n
            /\ Manifest(n) # CurrentFile /\ LogName(n) # CurrentFile /\ Table(n) # CurrentFile /\ Temp(n) # CurrentFile
  /\ CurrentFile[1] = "CURRENT"
  /\ \A n \in Nat : Manifest(n) \in Names /\ LogName(n) \in Names /\ Table(n) \in Names /\ Temp(n) \in Names
  /\ CurrentFile \in Names
  /\ \A x \in Names : /\ x = <<x[1], x[2]>> /\ x[2] \in Nat
                      /\ x[1] = "CURRENT" => x = CurrentFile
                      /\ x[1] # "CURRENT" => x # CurrentFile /\ x[1] \in Kinds
BY DEF Manifest, LogName, Table, Temp, CurrentFile, Names, Kinds

(* There is always an inode that no file uses.                             *)
LEMMA NewInodeIsNew ==
  ASSUME NEW f, NEW x, IsFiniteSet(DOMAIN f.data)
  PROVE  /\ NewInode(f, x) \notin DOMAIN f.data
         /\ NewInode(f, x) = <<x, NewInode(f, x)[2]>>
<1> DEFINE S == DOMAIN f.data
           n == Cardinality(S)
           T == 1 .. n + 1
<1>1. n \in Nat
  BY FS_CardinalityType
<1>2. \E k \in T : <<x, k>> \notin S
  <2> SUFFICES ASSUME \A k \in T : <<x, k>> \in S PROVE FALSE
    OBVIOUS
  <2> DEFINE h == [k \in T |-> <<x, k>>]
  <2>1. h \in [T -> S]
    OBVIOUS
  <2>2. IsFiniteSet(T) /\ Cardinality(T) = n + 1
    BY <1>1, FS_Interval
  <2>3. PICK a \in T, b \in T : a # b /\ h[a] = h[b]
    <3> HIDE DEF S, T, h
    <3>1. Cardinality(S) < Cardinality(T)
      BY <1>1, <2>2
    <3>2. IsFiniteSet(S)
      BY DEF S
    <3>3. QED
      BY <2>1, <2>2, <3>1, <3>2, FS_PigeonHole
  <2>4. QED
    BY <2>3
<1> DEFINE k == CHOOSE j \in T : <<x, j>> \notin S
<1>3. <<x, k>> \notin S
  BY <1>2
<1>4. NewInode(f, x) = <<x, k>>
  BY DEF NewInode
<1>5. QED
  BY <1>3, <1>4

(* Changing a file that is there is a write.                               *)
LEMMA WroteOne ==
  ASSUME NEW f, NEW x, NEW file, x \in DOMAIN f.dir, f.dir[x] \in DOMAIN f.data
  PROVE  Wrote(f, SetFile(f, x, file), x, file)
BY DEF Wrote, SetFile, Put

(* Adding a file is a write.                                               *)
LEMMA WroteNew ==
  ASSUME NEW f, NEW x, x \notin DOMAIN f.dir, FilesOK(f)
  PROVE  Wrote(f, AddFile(f, x), x, NewFile)
<1>1. NewInode(f, x) \notin DOMAIN f.data /\ NewInode(f, x) = <<x, NewInode(f, x)[2]>>
  BY NewInodeIsNew DEF FilesOK
<1>2. QED
  BY <1>1 DEF Wrote, AddFile, Put

(* Two writes of one file are a write.                                     *)
LEMMA WroteTwice ==
  ASSUME NEW f, NEW g, NEW h, NEW x, NEW a, NEW b, Wrote(f, g, x, a), Wrote(g, h, x, b)
  PROVE  Wrote(f, h, x, b)
BY DEF Wrote

(* Opening a file for writing empties it or adds it.                       *)
LEMMA Creates ==
  ASSUME NEW f, NEW x, FilesOK(f)
  PROVE  Wrote(f, Create(f, x), x, NewFile)
BY WroteOne, WroteNew DEF Create, FilesOK, IsDirectory, DirsOf

(* Appending to a file and syncing it are writes.                          *)
LEMMA Writes ==
  ASSUME NEW f, NEW g, NEW x, NEW file, NEW e, Wrote(f, g, x, file)
  PROVE  /\ Wrote(f, WriteFile(g, x, e), x, [content |-> Append(file.content, e), safe |-> file.safe])
         /\ Wrote(f, Sync(g, x), x, [content |-> file.content, safe |-> Len(file.content)])
<1>1. x \in DOMAIN g.dir /\ g.dir[x] \in DOMAIN g.data /\ File(g, x) = file
  BY DEF Wrote, File
<1>2. \A k : Wrote(f, SetFile(g, x, k), x, k)
  BY <1>1, WroteOne, WroteTwice
<1>3. QED
  BY <1>1, <1>2 DEF WriteFile, Sync

(* A file that is written keeps its content.                               *)
LEMMA WroteSame ==
  ASSUME NEW f, NEW x, x \in DOMAIN f.dir, f.dir[x] \in DOMAIN f.data
  PROVE  Wrote(f, f, x, Now(f)[x])
BY DEF Wrote, Now, Image
(* What the edits of a manifest amount to.                                 *)
LEMMA SavedType ==
  ASSUME NEW s \in Seq(Edits), s # <<>>
  PROVE  /\ SavedOf(s).tables \subseteq Nat /\ SavedOf(s).log \in Nat
         /\ SavedOf(s).next \in Nat /\ SavedOf(s).last \in Nat
         /\ SavedOf(s) = [tables |-> SavedOf(s).tables, log |-> SavedOf(s).log,
                          next |-> SavedOf(s).next, last |-> SavedOf(s).last]
<1>1. Len(s) \in Nat \ {0} /\ \A i \in 1 .. Len(s) : s[i] \in Edits
  BY EmptySeq, ElementOfSeq
<1>2. s[Len(s)] \in Edits
  BY <1>1
<1>3. SavedOf(s).tables \subseteq Nat
  BY <1>1 DEF SavedOf, Edits
<1>4. QED
  BY <1>2, <1>3 DEF SavedOf, Edits

(* One more edit applies to the version that those before it amount to.    *)
LEMMA SavedAppend ==
  ASSUME NEW s \in Seq(Edits), NEW r \in Edits
  PROVE  SavedOf(Append(s, r)) = [tables |-> (SavedOf(s).tables \ r.del) \cup r.add,
                                  log |-> r.log, next |-> r.next, last |-> r.last]
<1> DEFINE a == Append(s, r)
           n == Len(s)
           Stays(u, t) == \E i \in 1 .. Len(u) : t \in u[i].add /\ \A j \in i + 1 .. Len(u) : t \notin u[j].del
<1>1. n \in Nat /\ Len(a) = n + 1 /\ a[n + 1] = r /\ \A i \in 1 .. n : a[i] = s[i]
  BY AppendProperties, LenProperties
<1>2. \A u, t : t \in SavedOf(u).tables <=> Stays(u, t)
  BY DEF SavedOf
<1>3. \A t : Stays(a, t) <=> (Stays(s, t) /\ t \notin r.del) \/ t \in r.add
  <2> HIDE DEF a
  <2> SUFFICES ASSUME NEW t PROVE Stays(a, t) <=> (Stays(s, t) /\ t \notin r.del) \/ t \in r.add
    OBVIOUS
  <2>1. ASSUME Stays(a, t) PROVE (Stays(s, t) /\ t \notin r.del) \/ t \in r.add
    <3>1. PICK i \in 1 .. n + 1 : t \in a[i].add /\ \A j \in i + 1 .. n + 1 : t \notin a[j].del
      BY <1>1, <2>1
    <3>2. CASE i = n + 1
      BY <1>1, <3>1, <3>2
    <3>3. CASE i \in 1 .. n
      <4>1. n + 1 \in i + 1 .. n + 1 /\ \A j \in i + 1 .. n : j \in i + 1 .. n + 1 /\ j \in 1 .. n
        BY <1>1, <3>3
      <4>2. QED
        BY <1>1, <3>1, <3>3, <4>1
    <3>4. QED
      BY <1>1, <3>1, <3>2, <3>3
  <2>2. ASSUME Stays(s, t), t \notin r.del PROVE Stays(a, t)
    <3>1. PICK i \in 1 .. n : t \in s[i].add /\ \A j \in i + 1 .. n : t \notin s[j].del
      BY <1>1, <2>2
    <3>2. i \in 1 .. n + 1 /\ \A j \in i + 1 .. n + 1 : j = n + 1 \/ (j \in i + 1 .. n /\ j \in 1 .. n)
      BY <1>1
    <3>3. QED
      BY <1>1, <2>2, <3>1, <3>2
  <2>3. ASSUME t \in r.add PROVE Stays(a, t)
    <3>1. n + 1 \in 1 .. Len(a) /\ (n + 1) + 1 .. Len(a) = {}
      BY <1>1
    <3>2. QED
      BY <1>1, <2>3, <3>1
  <2>4. QED
    BY <2>1, <2>2, <2>3
<1>4. SavedOf(a).tables = (SavedOf(s).tables \ r.del) \cup r.add
  <2> HIDE DEF Stays, a
  <2>1. QED
    BY <1>2, <1>3
<1>5. SavedOf(a) = [tables |-> SavedOf(a).tables, log |-> a[n + 1].log, next |-> a[n + 1].next, last |-> a[n + 1].last]
  <2> HIDE DEF a
  <2>1. QED
    BY <1>1 DEF SavedOf
<1>6. QED
  BY <1>1, <1>4, <1>5

(* A single edit is a version.                                             *)
LEMMA SavedOne ==
  ASSUME NEW r \in Edits
  PROVE  SavedOf(<<r>>) = [tables |-> r.add, log |-> r.log, next |-> r.next, last |-> r.last]
<1>1. SavedOf(<<>>).tables = {}
  BY DEF SavedOf
<1>2. <<>> \in Seq(Edits) /\ Append(<<>>, r) = <<r>>
  OBVIOUS
<1>3. SavedOf(Append(<<>>, r)) = [tables |-> ({} \ r.del) \cup r.add, log |-> r.log, next |-> r.next, last |-> r.last]
  BY <1>1, <1>2, SavedAppend
<1>4. QED
  BY <1>2, <1>3

(* A part of a sequence.                                                   *)
LEMMA Prefix ==
  ASSUME NEW S, NEW s \in Seq(S), NEW n \in Nat, n <= Len(s)
  PROVE  /\ SubSeq(s, 1, n) \in Seq(S) /\ Len(SubSeq(s, 1, n)) = n
         /\ ToSet(SubSeq(s, 1, n)) \subseteq ToSet(s)
         /\ n = Len(s) => SubSeq(s, 1, n) = s
         /\ \A e : Append(s, e) \in Seq(S) => SubSeq(Append(s, e), 1, n) = SubSeq(s, 1, n)
         /\ n = 0 => SubSeq(s, 1, n) = <<>>
<1>0. Len(s) \in Nat
  BY LenProperties
<1>1. \A i \in 1 .. n : i \in 1 .. Len(s) /\ s[i] \in S
  BY <1>0, ElementOfSeq
<1>2. /\ SubSeq(s, 1, n) \in Seq(S) /\ Len(SubSeq(s, 1, n)) = n
      /\ \A i \in 1 .. n : SubSeq(s, 1, n)[i] = s[i]
  <2>1. 1 \in Int /\ n \in Int
    OBVIOUS
  <2>2. /\ SubSeq(s,1,n) \in Seq(S)
        /\ Len(SubSeq(s,1,n)) = IF 1<=n THEN n-1+1 ELSE 0
        /\ \A i \in 1 .. n-1+1 : SubSeq(s,1,n)[i] = s[1+i-1]
    BY <1>1, <2>1, SubSeqProperties
  <2>3. QED
    BY <2>2
<1>3. ToSet(SubSeq(s, 1, n)) \subseteq ToSet(s)
  <2>1. DOMAIN SubSeq(s, 1, n) = 1 .. n /\ DOMAIN s = 1 .. Len(s)
    BY <1>2, LenProperties
  <2>2. QED
    BY <1>1, <1>2, <2>1 DEF ToSet
<1>4. n = Len(s) => SubSeq(s, 1, n) = s
  BY SubSeqFull
<1>5. ASSUME NEW e, Append(s, e) \in Seq(S)
      PROVE  SubSeq(Append(s, e), 1, n) = SubSeq(s, 1, n)
  <2>1. Len(Append(s, e)) = Len(s) + 1 /\ \A i \in 1 .. Len(s) : Append(s, e)[i] = s[i]
    BY <1>0
  <2>2. \A i \in 1 .. n : Append(s, e)[i] = s[i] /\ Append(s, e)[i] \in S
    BY <1>1, <2>1
  <2>3. /\ SubSeq(Append(s, e),1,n) \in Seq(S)
        /\ Len(SubSeq(Append(s, e),1,n)) = IF 1<=n THEN n-1+1 ELSE 0
        /\ \A i \in 1 .. n-1+1 : SubSeq(Append(s, e),1,n)[i] = Append(s, e)[1+i-1]
    BY <2>2, SubSeqProperties
  <2> DEFINE t == SubSeq(Append(s, e),1,n)
             u == SubSeq(s,1,n)
  <2>4. t \in Seq(S) /\ u \in Seq(S) /\ Len(u) = n /\ Len(t) = n /\ \A i \in 1 .. n : u[i] = s[i] /\ t[i] = s[i]
    BY <1>2, <2>2, <2>3
  <2> HIDE DEF t, u
  <2>5. t = u
    BY <2>4, SeqEqual
  <2>6. QED
    BY <2>5 DEF t, u
<1>6. n = 0 => SubSeq(s, 1, n) = <<>>
  BY SubSeqEmpty
<1>7. QED
  BY <1>2, <1>3, <1>4, <1>5, <1>6

(* The elements of sequences of none, one and one more.                    *)
LEMMA Elements ==
  /\ ToSet(<<>>) = {}
  /\ \A e : ToSet(<<e>>) = {e}
  /\ \A S : \A s \in Seq(S) : ToSet(s) \subseteq S
  /\ \A S : \A s \in Seq(S) : \A e : ToSet(Append(s, e)) = ToSet(s) \cup {e}
<1>1. ToSet(<<>>) = {} /\ \A e : ToSet(<<e>>) = {e}
  BY DEF ToSet
<1>2. ASSUME NEW S, NEW s \in Seq(S) PROVE ToSet(s) \subseteq S
  BY LenProperties, ElementOfSeq DEF ToSet
<1>3. ASSUME NEW S, NEW s \in Seq(S), NEW e
      PROVE  ToSet(Append(s, e)) = ToSet(s) \cup {e}
  <2>1. s \in Seq(S \cup {e})
    BY SeqMonotonic
  <2>2. /\ Append(s, e) \in Seq(S \cup {e}) /\ Len(Append(s, e)) = Len(s) + 1
        /\ \A i \in 1 .. Len(s) : Append(s, e)[i] = s[i]
        /\ Append(s, e)[Len(s) + 1] = e
    BY <2>1, AppendProperties
  <2>3. Len(s) \in Nat /\ DOMAIN s = 1 .. Len(s) /\ DOMAIN Append(s, e) = 1 .. Len(s) + 1
    BY <2>1, <2>2, LenProperties
  <2>4. QED
    BY <2>2, <2>3 DEF ToSet
<1>4. QED
  BY <1>1, <1>2, <1>3
-----------------------------------------------------------------------------
(* Directories and images that differ in some names only.                  *)
Near(f, c, g, d, X) == \A y : y \notin X => /\ y \in DOMAIN d <=> y \in DOMAIN c
                                            /\ y \in DOMAIN c => d[y] = c[y] /\ g.data[c[y]] = f.data[c[y]]
SameBut(m, k, X) == \A y : y \notin X => /\ y \in DOMAIN k <=> y \in DOMAIN m
                                         /\ y \in DOMAIN m => k[y] = m[y]

(* A temporary file that is written is not CURRENT.                        *)
Free(f, x) == x \in DOMAIN f.dir /\ x[1] = "temp" =>
                 \A d \in DirsOf(f) : Committed(d) => d[CurrentFile] # f.dir[x]

(* Directories that differ in X give images that differ in X.              *)
LEMMA NearIsSame ==
  ASSUME NEW f, NEW g, NEW c, NEW d, NEW X, Near(f, c, g, d, X)
  PROVE  SameBut(Image(f, c), Image(g, d), X)
BY DEF Near, SameBut, Image

(* A write changes the one file and what older directories say of it.      *)
LEMMA WroteNear ==
  ASSUME NEW f, NEW g, NEW x \in Names, NEW file, x # CurrentFile,
         FilesOK(f), Wrote(f, g, x, file), Free(f, x)
  PROVE  /\ Near(f, f.dir, g, g.dir, {x})
         /\ \A d \in g.older : d \in DirsOf(f) /\ Near(f, d, g, d, {x})
         /\ f.older \subseteq g.older
         /\ x \in DOMAIN g.dir /\ Now(g)[x] = file
<1>1. \A c \in DirsOf(f) : \A y \in DOMAIN c : y # x => c[y] # g.dir[x] /\ c[y] \in DOMAIN f.data
  <2> SUFFICES ASSUME NEW c \in DirsOf(f), NEW y \in DOMAIN c, y # x
               PROVE  c[y] # g.dir[x] /\ c[y] \in DOMAIN f.data
    OBVIOUS
  <2>1. c[y] \in DOMAIN f.data /\ NamesInode(y, c[y]) /\ y \in Names
    BY DEF FilesOK, IsDirectory
  <2>2. CASE x \notin DOMAIN f.dir
    BY <2>1, <2>2 DEF Wrote
  <2>3. CASE x \in DOMAIN f.dir
    <3>1. g.dir[x] = f.dir[x] /\ NamesInode(x, f.dir[x])
      BY <2>3 DEF Wrote, FilesOK, IsDirectory, DirsOf
    <3>2. CASE y # CurrentFile
      BY <2>1, <3>1, <3>2 DEF NamesInode
    <3>3. CASE y = CurrentFile
      <4>1. f.dir[x][1] = x
        BY <3>1 DEF NamesInode
      <4>2. CASE x[1] = "temp"
        BY <2>1, <2>3, <3>1, <3>3, <4>2 DEF Free, Committed
      <4>3. CASE x[1] # "temp"
        BY <2>1, <3>1, <3>3, <4>1, <4>3 DEF NamesInode
      <4>4. QED
        BY <4>2, <4>3
    <3>4. QED
      BY <3>2, <3>3
  <2>4. QED
    BY <2>2, <2>3
<1>2. \A i \in DOMAIN f.data : i # g.dir[x] => g.data[i] = f.data[i]
  BY DEF Wrote
<1>3. \A c \in DirsOf(f) : Near(f, c, g, c, {x})
  BY <1>1, <1>2 DEF Near
<1>4. Near(f, f.dir, g, g.dir, {x})
  <2>1. f.dir \in DirsOf(f)
    BY DEF DirsOf
  <2>2. \A y : y # x => (y \in DOMAIN g.dir <=> y \in DOMAIN f.dir) /\ (y \in DOMAIN f.dir => g.dir[y] = f.dir[y])
    BY DEF Wrote
  <2>3. QED
    BY <1>1, <1>2, <2>1, <2>2 DEF Near
<1>5. g.older \subseteq DirsOf(f) /\ f.older \subseteq g.older /\ x \in DOMAIN g.dir /\ g.data[g.dir[x]] = file
  BY DEF Wrote, DirsOf
<1>6. QED
  BY <1>3, <1>4, <1>5 DEF Now, Image

(* A write leaves files and directories well formed.                       *)
LEMMA WroteFilesOK ==
  ASSUME NEW f, NEW g, NEW x \in Names, NEW file, x # CurrentFile,
         FilesOK(f), Wrote(f, g, x, file), Free(f, x), IsFile(x[1], file)
  PROVE  FilesOK(g)
<1>1. IsFiniteSet(DOMAIN g.data)
  <2>1. DOMAIN g.data = DOMAIN f.data \/ DOMAIN g.data = DOMAIN f.data \cup {g.dir[x]}
    BY DEF Wrote
  <2>2. QED
    BY <2>1, FS_AddElement DEF FilesOK
<1>2. \A i \in DOMAIN g.data : i = <<i[1], i[2]>> /\ i[1] \in Names /\ IsFile(i[1][1], g.data[i])
  <2> SUFFICES ASSUME NEW i \in DOMAIN g.data
               PROVE  i = <<i[1], i[2]>> /\ i[1] \in Names /\ IsFile(i[1][1], g.data[i])
    OBVIOUS
  <2>1. CASE i = g.dir[x]
    <3>1. i[1] = x /\ i = <<i[1], i[2]>>
      <4>1. CASE x \in DOMAIN f.dir
        <5>1. i = f.dir[x] /\ NamesInode(x, f.dir[x]) /\ f.dir[x] \in DOMAIN f.data
          BY <2>1, <4>1 DEF Wrote, FilesOK, IsDirectory, DirsOf
        <5>2. QED
          BY <5>1 DEF NamesInode, FilesOK
      <4>2. CASE x \notin DOMAIN f.dir
        BY <2>1, <4>2 DEF Wrote
      <4>3. QED
        BY <4>1, <4>2
    <3>2. QED
      BY <2>1, <3>1 DEF Wrote
  <2>2. CASE i # g.dir[x]
    <3>1. i \in DOMAIN f.data /\ g.data[i] = f.data[i]
      BY <2>2 DEF Wrote
    <3>2. QED
      BY <3>1 DEF FilesOK
  <2>3. QED
    BY <2>1, <2>2
<1>3. \A d \in DirsOf(f) : IsDirectory(d, g.data)
  <2>1. DOMAIN f.data \subseteq DOMAIN g.data
    BY DEF Wrote
  <2>2. QED
    BY <2>1 DEF FilesOK, IsDirectory
<1>4. IsDirectory(g.dir, g.data)
  <2> SUFFICES ASSUME NEW y \in DOMAIN g.dir
               PROVE  y \in Names /\ g.dir[y] \in DOMAIN g.data /\ NamesInode(y, g.dir[y])
    BY DEF IsDirectory
  <2>1. CASE y \in DOMAIN f.dir
    <3>1. g.dir[y] = f.dir[y]
      BY <2>1 DEF Wrote
    <3>2. QED
      BY <1>3, <2>1, <3>1 DEF IsDirectory, DirsOf
  <2>2. CASE y \notin DOMAIN f.dir
    BY <2>2 DEF Wrote, NamesInode
  <2>3. QED
    BY <2>1, <2>2
<1>5. \A d \in DirsOf(g) : d = g.dir \/ d \in DirsOf(f)
  BY WroteNear DEF DirsOf
<1>6. QED
  BY <1>1, <1>2, <1>3, <1>4, <1>5 DEF FilesOK

(* A write does not touch the file that CURRENT names.                     *)
LEMMA WroteTempsApart ==
  ASSUME NEW f, NEW g, NEW x \in Names, NEW file, x # CurrentFile,
         FilesOK(f), Wrote(f, g, x, file), TempsApart(f)
  PROVE  TempsApart(g) /\ Free(f, x)
<1>1. Free(f, x)
  BY DEF TempsApart, Free
<1>2. Near(f, f.dir, g, g.dir, {x}) /\ \A d \in g.older : d \in DirsOf(f)
  BY <1>1, WroteNear
<1>3. \A d \in DirsOf(f) : Committed(d) => d[CurrentFile] \in DOMAIN f.data
  BY DEF FilesOK, IsDirectory, Committed
<1>4. x \in DOMAIN f.dir => g.dir[x] = f.dir[x]
  BY DEF Wrote
<1>5. x \notin DOMAIN f.dir => g.dir[x] \notin DOMAIN f.data
  BY DEF Wrote
<1>6. Committed(g.dir) <=> Committed(f.dir)
  BY <1>2 DEF Near, Committed
<1>7. Committed(f.dir) => g.dir[CurrentFile] = f.dir[CurrentFile]
  BY <1>2 DEF Near, Committed
<1>8. \A d \in DirsOf(f) : Committed(d) => \A y \in DOMAIN g.dir : y[1] = "temp" => g.dir[y] # d[CurrentFile]
  <2> SUFFICES ASSUME NEW d \in DirsOf(f), Committed(d), NEW y \in DOMAIN g.dir, y[1] = "temp"
               PROVE  g.dir[y] # d[CurrentFile]
    OBVIOUS
  <2>1. CASE y \in DOMAIN f.dir
    <3>1. g.dir[y] = f.dir[y]
      BY <2>1 DEF Wrote
    <3>2. QED
      BY <2>1, <3>1 DEF TempsApart
  <2>2. CASE y \notin DOMAIN f.dir
    <3>1. y = x
      BY <2>2 DEF Wrote
    <3>2. QED
      BY <1>3, <1>5, <2>2, <3>1
  <2>3. QED
    BY <2>1, <2>2
<1>9. f.dir \in DirsOf(f) /\ g.dir \in DirsOf(g) /\ \A d \in DirsOf(g) : d = g.dir \/ d \in DirsOf(f)
  BY <1>2 DEF DirsOf
<1>10. \A d \in DirsOf(f) : Committed(d) => \A y \in DOMAIN d : y[1] = "temp" => d[y] # d[CurrentFile]
  BY DEF TempsApart
<1>11. QED
  BY <1>1, <1>6, <1>7, <1>8, <1>9, <1>10 DEF TempsApart
(* Names that no version of the database refers to.                        *)
NoLogs(X) == CurrentFile \notin X /\ \A x \in X : x[1] # "log"

Unused(f, d, X) == Committed(d) => /\ Manifest(Cur(Image(f, d))) \notin X
                                   /\ Man(Image(f, d)).safe # 0 =>
                                         \A t \in Safely(Image(f, d)).tables : Table(t) \notin X
UnusedNow(f, X) == Unused(f, f.dir, X) /\ (Committed(f.dir) => \A t \in Full(Now(f)).tables : Table(t) \notin X)

(* Images that agree on CURRENT and its manifest agree on the version.     *)
LEMMA SameViews ==
  ASSUME NEW m, NEW k, NEW X, SameBut(m, k, X),
         CurrentFile \in DOMAIN m, Rooted(m), CurrentFile \notin X, Manifest(Cur(m)) \notin X
  PROVE  /\ CurrentFile \in DOMAIN k /\ Cur(k) = Cur(m) /\ Man(k) = Man(m)
         /\ Full(k) = Full(m) /\ Safely(k) = Safely(m) /\ Rooted(k)
<1>1. CurrentFile \in DOMAIN k /\ Cur(k) = Cur(m)
  BY DEF SameBut, Cur
<1>2. Manifest(Cur(m)) \in DOMAIN m /\ Manifest(Cur(m)) \in DOMAIN k /\ Man(k) = Man(m)
  BY <1>1 DEF SameBut, Man, Rooted
<1>3. QED
  BY <1>1, <1>2 DEF Full, Safely, Rooted

(* Tables that did not change hold what they held.                         *)
LEMMA SameTables ==
  ASSUME NEW m, NEW k, NEW X, SameBut(m, k, X), NEW T, \A t \in T : Table(t) \notin X
  PROVE  \A t \in T : Stored(k, t) = Stored(m, t) \/ Table(t) \notin DOMAIN m
<1>1. QED
  BY DEF SameBut, Stored

(* Logs that did not change hold what they held.                           *)
LEMMA SameLogs ==
  ASSUME NEW m, NEW k, NEW X, SameBut(m, k, X), NoLogs(X), \A x \in DOMAIN m \cup DOMAIN k : x \in Names
  PROVE  /\ \A x : x[1] = "log" => (x \in DOMAIN k <=> x \in DOMAIN m)
         /\ \A x \in DOMAIN m : x[1] = "log" => LogOf(k, x[2]) = LogOf(m, x[2]) /\ SafeLogOf(k, x[2]) = SafeLogOf(m, x[2])
<1>1. \A x : x[1] = "log" => x \notin X
  BY DEF NoLogs
<1>2. \A x \in DOMAIN m : x[1] = "log" => x = LogName(x[2]) /\ k[x] = m[x]
  BY <1>1, Kinded DEF SameBut, LogName
<1>3. QED
  BY <1>1, <1>2 DEF SameBut, LogOf, SafeLogOf

(* What a version needs is still there when other files change.            *)
LEMMA SameSane ==
  ASSUME NEW m, NEW k, NEW X, NEW v, NEW A, SameBut(m, k, X), NoLogs(X),
         \A x \in DOMAIN m \cup DOMAIN k : x \in Names,
         Cur(k) = Cur(m), \A t \in v.tables : Table(t) \notin X, Sane(m, v, A)
  PROVE  /\ Sane(k, v, A)
         /\ \A e : Keeps(m, v, e) => Keeps(k, v, e)
         /\ \A e : KeepsSafe(m, v, e) => KeepsSafe(k, v, e)
<1>1. \A t \in v.tables : HasTable(m, t) /\ HasTable(k, t) /\ Stored(k, t) = Stored(m, t)
  BY DEF SameBut, Sane, Holds, HasTable, Stored
<1>2. \A x : x[1] = "log" => (x \in DOMAIN k <=> x \in DOMAIN m)
  BY SameLogs
<1>3. \A x \in DOMAIN m : x[1] = "log" => LogOf(k, x[2]) = LogOf(m, x[2]) /\ SafeLogOf(k, x[2]) = SafeLogOf(m, x[2])
  BY SameLogs
<1>4. Sane(k, v, A)
  BY <1>1, <1>2, <1>3 DEF Sane, Holds
<1>5. \A e : InTables(m, v, e) => InTables(k, v, e)
  BY <1>1 DEF InTables
<1>6. QED
  BY <1>2, <1>3, <1>4, <1>5 DEF Keeps, KeepsSafe

(* The logs that an image misses are the same when other files change.     *)
LEMMA SameMisses ==
  ASSUME NEW m, NEW k, NEW X, SameBut(m, k, X), NoLogs(X),
         NEW n, NEW o, NEW Y, SameBut(n, o, Y), NoLogs(Y),
         \A x \in DOMAIN m \cup DOMAIN k \cup DOMAIN n \cup DOMAIN o : x \in Names,
         NEW v, NEW e, Misses(m, v, n, e)
  PROVE  Misses(k, v, o, e)
<1>1. \A x : x[1] = "log" => (x \in DOMAIN k <=> x \in DOMAIN m) /\ (x \in DOMAIN o <=> x \in DOMAIN n)
  BY SameLogs
<1>2. \A x \in DOMAIN n : x[1] = "log" => LogOf(o, x[2]) = LogOf(n, x[2])
  BY SameLogs
<1>3. QED
  BY <1>1, <1>2 DEF Misses

(* An image has the names of its directory.                                *)
LEMMA ImageNames ==
  ASSUME NEW f, NEW d, IsDirectory(d, f.data)
  PROVE  /\ DOMAIN Image(f, d) = DOMAIN d
         /\ \A x \in DOMAIN Image(f, d) : x \in Names
         /\ Committed(d) <=> CurrentFile \in DOMAIN Image(f, d)
BY DEF Image, IsDirectory, Committed

(* What changes unused names only leaves the disk as it should be.         *)
LEMMA DiskSame ==
  ASSUME NEW f, NEW g, NEW A, NEW P, NEW X, NEW Y,
         FilesOK(f), FilesOK(g), DiskOK(f, A, P), TempsApart(g), NoLogs(X), NoLogs(Y),
         Near(f, f.dir, g, g.dir, X), UnusedNow(f, X),
         \A d \in g.older : \E c \in DirsOf(f) : Near(f, c, g, d, Y) /\ Unused(f, c, Y)
  PROVE  /\ DiskOK(g, A, P)
         /\ Committed(g.dir) <=> Committed(f.dir)
         /\ Committed(f.dir) => /\ Full(Now(g)) = Full(Now(f)) /\ Man(Now(g)) = Man(Now(f))
                                /\ Cur(Now(g)) = Cur(Now(f))
<1> DEFINE m == Now(f)
           k == Now(g)
<1>1. SameBut(m, k, X)
  BY NearIsSame DEF Now
<1>2. /\ \A d \in DirsOf(f) : IsDirectory(d, f.data) /\ IsDirectory(f.dir, f.data)
      /\ \A d \in DirsOf(g) : IsDirectory(d, g.data) /\ IsDirectory(g.dir, g.data)
      /\ f.dir \in DirsOf(f) /\ g.dir \in DirsOf(g)
  BY DEF FilesOK, DirsOf
<1>3. /\ \A x \in DOMAIN m \cup DOMAIN k : x \in Names
      /\ Committed(f.dir) <=> CurrentFile \in DOMAIN m
      /\ Committed(g.dir) <=> CurrentFile \in DOMAIN k
  BY <1>2, ImageNames DEF Now
<1>4. Committed(g.dir) <=> Committed(f.dir)
  BY DEF Near, NoLogs, Committed
<1>5. ASSUME Committed(f.dir)
      PROVE  /\ Full(k) = Full(m) /\ Man(k) = Man(m) /\ Cur(k) = Cur(m) /\ Safely(k) = Safely(m)
             /\ NowOK(k, A, P)
  <2>1. NowOK(m, A, P)
    BY <1>5 DEF DiskOK
  <2>2. Manifest(Cur(m)) \notin X /\ \A t \in Full(m).tables : Table(t) \notin X
    BY <1>5 DEF UnusedNow, Unused, Now
  <2>3. /\ Cur(k) = Cur(m) /\ Man(k) = Man(m)
        /\ Full(k) = Full(m) /\ Safely(k) = Safely(m) /\ Rooted(k)
    <3>1. CurrentFile \in DOMAIN m /\ Rooted(m) /\ CurrentFile \notin X
      BY <1>3, <1>5, <2>1 DEF NowOK, NoLogs
    <3> HIDE DEF m, k
    <3>2. QED
      BY <1>1, <2>2, <3>1, SameViews
  <2>4. /\ Sane(k, Full(m), A)
        /\ \A e : Keeps(m, Full(m), e) => Keeps(k, Full(m), e)
        /\ \A e : KeepsSafe(m, Full(m), e) => KeepsSafe(k, Full(m), e)
    <3>1. Sane(m, Full(m), A)
      BY <2>1 DEF NowOK
    <3> DEFINE v == Full(m)
    <3>2. \A t \in v.tables : Table(t) \notin X
      BY <2>2
    <3> HIDE DEF m, k, v
    <3>3. Sane(m, v, A)
      BY <3>1 DEF v
    <3>4. /\ Sane(k, v, A)
          /\ \A e : Keeps(m, v, e) => Keeps(k, v, e)
          /\ \A e : KeepsSafe(m, v, e) => KeepsSafe(k, v, e)
      BY <1>1, <1>3, <2>3, <3>2, <3>3, SameSane
    <3>5. QED
      BY <3>4 DEF v
  <2> HIDE DEF m, k
  <2>5. QED
    BY <2>1, <2>3, <2>4 DEF NowOK
<1>6. ASSUME NEW c \in DirsOf(f), NEW d, IsDirectory(d, g.data), NEW Z, NoLogs(Z), Near(f, c, g, d, Z), Unused(f, c, Z)
      PROVE  IF Committed(d) THEN Committed(g.dir) /\ ThenOK(Image(g, d), k, A, P)
             ELSE A = {} /\ \A x \in DOMAIN d : x[1] # "log"
  <2>1. IF Committed(c) THEN Committed(f.dir) /\ ThenOK(Image(f, c), m, A, P)
        ELSE A = {} /\ \A x \in DOMAIN c : x[1] # "log"
    BY DEF DiskOK
  <2>2. Committed(d) <=> Committed(c)
    BY <1>6 DEF Near, NoLogs, Committed
  <2>3. CASE ~Committed(c)
    <3>1. \A x \in DOMAIN d : x[1] = "log" => x \in DOMAIN c
      BY <1>6 DEF Near, NoLogs
    <3>2. QED
      BY <2>1, <2>2, <2>3, <3>1
  <2>4. CASE Committed(c)
    <3> DEFINE a == Image(f, c)
               b == Image(g, d)
    <3>1. SameBut(a, b, Z)
      BY <1>6, NearIsSame
    <3>2. /\ \A x \in DOMAIN a \cup DOMAIN b : x \in Names
          /\ CurrentFile \in DOMAIN a
      BY <1>2, <1>6, <2>4, ImageNames
    <3>3. ThenOK(a, m, A, P) /\ Committed(f.dir)
      BY <2>1, <2>4
    <3>4. Full(k) = Full(m)
      BY <1>5, <3>3
    <3>5. Manifest(Cur(a)) \notin Z /\ (Man(a).safe # 0 => \A t \in Safely(a).tables : Table(t) \notin Z)
      BY <1>6, <2>4 DEF Unused
    <3> HIDE DEF a, b, m, k
    <3>6. CurrentFile \notin Z /\ Rooted(a)
      BY <1>6, <3>3 DEF NoLogs, ThenOK
    <3>7. Cur(b) = Cur(a) /\ Man(b) = Man(a) /\ Safely(b) = Safely(a) /\ Rooted(b)
      BY <3>1, <3>2, <3>5, <3>6, SameViews
    <3>8. CASE Man(a).safe = 0
      BY <1>4, <2>2, <2>4, <3>3, <3>7, <3>8 DEF ThenOK, b
    <3>9. CASE Man(a).safe # 0
      <4> DEFINE v == Safely(a)
      <4>1. Sane(a, v, A) /\ v.next <= Full(m).next /\ \A e \in P : KeepsSafe(a, v, e) \/ Misses(a, v, m, e)
        BY <3>3, <3>9 DEF ThenOK
      <4>2. \A t \in v.tables : Table(t) \notin Z
        BY <3>5, <3>9
      <4> HIDE DEF v
      <4>3. Sane(b, v, A) /\ \A e : KeepsSafe(a, v, e) => KeepsSafe(b, v, e)
        BY <1>6, <3>1, <3>2, <3>7, <4>1, <4>2, SameSane
      <4>4. \A e : Misses(a, v, m, e) => Misses(b, v, k, e)
        BY <1>1, <1>3, <1>6, <3>1, <3>2, SameMisses
      <4>5. Safely(b) = v
        BY <3>7 DEF v
      <4>6. ThenOK(b, k, A, P)
        BY <3>4, <3>7, <4>1, <4>3, <4>4, <4>5 DEF ThenOK
      <4>7. QED
        BY <1>4, <2>2, <2>4, <3>3, <4>6 DEF b
    <3>10. QED
      BY <3>8, <3>9
  <2>5. QED
    BY <2>3, <2>4
<1>7. \A d \in DirsOf(g) : IF Committed(d) THEN Committed(g.dir) /\ ThenOK(Image(g, d), k, A, P)
                           ELSE A = {} /\ \A x \in DOMAIN d : x[1] # "log"
  <2> SUFFICES ASSUME NEW d \in DirsOf(g)
               PROVE  IF Committed(d) THEN Committed(g.dir) /\ ThenOK(Image(g, d), k, A, P)
                      ELSE A = {} /\ \A x \in DOMAIN d : x[1] # "log"
    OBVIOUS
  <2> HIDE DEF m, k
  <2>1. IsDirectory(d, g.data)
    BY <1>2
  <2>2. CASE d = g.dir
    <3>1. Unused(f, f.dir, X)
      BY DEF UnusedNow
    <3>2. QED
      BY <1>2, <1>6, <2>1, <2>2, <3>1
  <2>3. CASE d \in g.older
    <3>1. PICK c \in DirsOf(f) : Near(f, c, g, d, Y) /\ Unused(f, c, Y)
      BY <2>3
    <3>2. QED
      BY <1>6, <2>1, <3>1
  <2>4. QED
    BY <2>2, <2>3 DEF DirsOf
<1>8. QED
  BY <1>4, <1>5, <1>7 DEF DiskOK
(* The types of what an image says.                                        *)
LEMMA ViewType ==
  ASSUME NEW f, NEW d \in DirsOf(f), FilesOK(f), Committed(d), Rooted(Image(f, d))
  PROVE  LET m == Image(f, d)
         IN  /\ CurrentFile \in DOMAIN m /\ Cur(m) \in Nat /\ m[CurrentFile].content = <<Cur(m)>>
             /\ IsFile("MANIFEST", Man(m))
             /\ Man(m).content \in Seq(Edits) /\ Man(m).safe \in Nat /\ Man(m).safe <= Len(Man(m).content)
             /\ Man(m).content # <<>> => Full(m).next \in Nat /\ Full(m).log \in Nat /\ Full(m).last \in Nat
                                         /\ Full(m).tables \subseteq Nat
             /\ Man(m).safe # 0 => Safely(m).next \in Nat /\ Safely(m).log \in Nat /\ Safely(m).last \in Nat
                                   /\ Safely(m).tables \subseteq Nat /\ Man(m).content # <<>>
<1> DEFINE m == Image(f, d)
<1>1. /\ d[CurrentFile] \in DOMAIN f.data /\ NamesInode(CurrentFile, d[CurrentFile])
      /\ m[CurrentFile] = f.data[d[CurrentFile]] /\ CurrentFile \in DOMAIN m
  BY DEF FilesOK, IsDirectory, Committed, Image
<1>2. m[CurrentFile] \in [content : Seq(Nat), safe : Nat] /\ IsWhole(m[CurrentFile])
  BY <1>1, Kinded DEF FilesOK, NamesInode, IsFile
<1>3. Cur(m) \in Nat /\ m[CurrentFile].content = <<Cur(m)>>
  <2> DEFINE c == m[CurrentFile].content
  <2>1. c \in Seq(Nat) /\ Len(c) = 1
    BY <1>2 DEF IsWhole
  <2>2. c[1] \in Nat /\ c = <<c[1]>>
    BY <2>1
  <2>3. QED
    BY <2>2 DEF Cur
<1>4. Manifest(Cur(m)) \in DOMAIN d /\ Man(m) = f.data[d[Manifest(Cur(m))]]
  BY DEF Rooted, Man, Image
<1>5. d[Manifest(Cur(m))] \in DOMAIN f.data /\ d[Manifest(Cur(m))][1] = Manifest(Cur(m))
  BY <1>4, Kinded DEF FilesOK, IsDirectory, NamesInode
<1>6. IsFile("MANIFEST", Man(m))
  BY <1>4, <1>5, Kinded DEF FilesOK
<1>7. Man(m).content \in Seq(Edits) /\ Man(m).safe \in Nat /\ Man(m).safe <= Len(Man(m).content)
  BY <1>6 DEF IsFile
<1> DEFINE s == SubSeq(Man(m).content, 1, Man(m).safe)
<1>8. s \in Seq(Edits) /\ Len(s) = Man(m).safe
  <2> DEFINE c == Man(m).content
             n == Man(m).safe
  <2>1. c \in Seq(Edits) /\ n \in Nat /\ n <= Len(c)
    BY <1>7
  <2> HIDE DEF c, n
  <2>2. SubSeq(c, 1, n) \in Seq(Edits) /\ Len(SubSeq(c, 1, n)) = n
    BY <2>1, Prefix
  <2>3. QED
    BY <2>2 DEF c, n
<1>9. Man(m).safe # 0 => s # <<>> /\ Man(m).content # <<>>
  BY <1>7, <1>8
<1>10. Man(m).content # <<>> => Full(m).next \in Nat /\ Full(m).log \in Nat /\ Full(m).last \in Nat
                                         /\ Full(m).tables \subseteq Nat
  BY <1>7, SavedType DEF Full
<1>11. Man(m).safe # 0 => Safely(m).next \in Nat /\ Safely(m).log \in Nat /\ Safely(m).last \in Nat
                                   /\ Safely(m).tables \subseteq Nat
  BY <1>8, <1>9, SavedType DEF Safely
<1> HIDE DEF m, s
<1>12. QED
  BY <1>1, <1>3, <1>6, <1>7, <1>9, <1>10, <1>11 DEF m

(* A number not given out yet is in no version, a temporary file never.    *)
LEMMA UnusedNumber ==
  ASSUME NEW f, NEW A, NEW P, FilesOK(f), DiskOK(f, A, P), NEW n \in Nat,
         Committed(f.dir) => Full(Now(f)).next <= n
  PROVE  /\ UnusedNow(f, {Table(n), Manifest(n)})
         /\ \A d \in DirsOf(f) : Unused(f, d, {Table(n), Manifest(n)})
<1>1. \A a, b : Manifest(a) = Manifest(b) => a = b
  BY DEF Manifest
<1>2. \A a, b : Table(a) = Table(b) => a = b
  BY DEF Table
<1>3. \A a, b : Table(a) # Manifest(b)
  BY DEF Table, Manifest
<1>4. ASSUME Committed(f.dir)
      PROVE  /\ NowOK(Now(f), A, P) /\ Full(Now(f)).next \in Nat /\ 2 <= Full(Now(f)).next
             /\ Cur(Now(f)) < Full(Now(f)).next
             /\ \A t \in Full(Now(f)).tables : t \in Nat /\ t < Full(Now(f)).next
  <2>1. NowOK(Now(f), A, P) /\ f.dir \in DirsOf(f)
    BY <1>4 DEF DiskOK, DirsOf
  <2>2. Sane(Now(f), Full(Now(f)), A) /\ Rooted(Image(f, f.dir)) /\ Man(Image(f, f.dir)).content # <<>>
    BY <2>1 DEF NowOK, Now
  <2>3. Cur(Now(f)) \in Nat /\ Full(Now(f)).next \in Nat /\ Full(Now(f)).tables \subseteq Nat
    BY <1>4, <2>1, <2>2, ViewType DEF Now
  <2>4. QED
    BY <2>1, <2>2, <2>3 DEF Sane, Holds
<1>5. ASSUME NEW d \in DirsOf(f) PROVE Unused(f, d, {Table(n), Manifest(n)})
  <2> SUFFICES ASSUME Committed(d)
               PROVE  /\ Manifest(Cur(Image(f, d))) # Manifest(n)
                      /\ Man(Image(f, d)).safe # 0 => \A t \in Safely(Image(f, d)).tables : Table(t) # Table(n)
    BY <1>3 DEF Unused
  <2>1. Committed(f.dir) /\ ThenOK(Image(f, d), Now(f), A, P)
    BY DEF DiskOK
  <2>2. Full(Now(f)).next <= n /\ Full(Now(f)).next \in Nat /\ 2 <= Full(Now(f)).next
    BY <1>4, <2>1
  <2>3. Rooted(Image(f, d))
    BY <2>1 DEF ThenOK
  <2>4. /\ Cur(Image(f, d)) \in Nat
        /\ Man(Image(f, d)).safe \in Nat
        /\ Man(Image(f, d)).safe # 0 => Safely(Image(f, d)).next \in Nat /\ Safely(Image(f, d)).tables \subseteq Nat
    BY <2>3, ViewType
  <2>5. CASE Man(Image(f, d)).safe = 0
    <3>1. Cur(Image(f, d)) = 1
      BY <2>3, <2>4, <2>5 DEF Rooted
    <3>2. QED
      BY <1>1, <2>2, <2>5, <3>1
  <2>6. CASE Man(Image(f, d)).safe # 0
    <3> DEFINE v == Safely(Image(f, d))
    <3>1. Sane(Image(f, d), v, A) /\ v.next <= Full(Now(f)).next
      BY <2>1, <2>6 DEF ThenOK
    <3>2. Cur(Image(f, d)) < v.next /\ \A t \in v.tables : t \in Nat /\ t < v.next
      BY <2>4, <2>6, <3>1 DEF Sane, Holds
    <3>3. QED
      BY <1>1, <1>2, <2>2, <2>4, <2>6, <3>1, <3>2
  <2>7. QED
    BY <2>5, <2>6
<1>6. Committed(f.dir) => \A t \in Full(Now(f)).tables : Table(t) \notin {Table(n), Manifest(n)}
  BY <1>2, <1>3, <1>4
<1>7. QED
  BY <1>5, <1>6 DEF UnusedNow, DirsOf

(* No version of the database needs a temporary file.                      *)
LEMMA UnusedTemp ==
  ASSUME NEW f, NEW n
  PROVE  UnusedNow(f, {Temp(n)}) /\ \A d \in DirsOf(f) : Unused(f, d, {Temp(n)})
<1>1. \A a : Manifest(a) # Temp(n) /\ Table(a) # Temp(n)
  BY DEF Manifest, Table, Temp
<1>2. QED
  BY <1>1 DEF UnusedNow, Unused

(* Part of what is not needed is not needed.                               *)
LEMMA UnusedLess ==
  ASSUME NEW f, NEW d, NEW X, NEW Z, Z \subseteq X
  PROVE  /\ UnusedNow(f, X) => UnusedNow(f, Z)
         /\ Unused(f, d, X) => Unused(f, d, Z)
BY DEF UnusedNow, Unused

(* Writing a file that is not in use.                                      *)
JunkWritten(f, g, x, A, P) ==
    /\ FilesOK(g) /\ DiskOK(g, A, P)
    /\ Committed(g.dir) <=> Committed(f.dir)
    /\ Committed(f.dir) => /\ Full(Now(g)) = Full(Now(f)) /\ Man(Now(g)) = Man(Now(f)) /\ Cur(Now(g)) = Cur(Now(f))
    /\ SameBut(Now(f), Now(g), {x}) /\ Near(f, f.dir, g, g.dir, {x})
    /\ f.older \subseteq g.older
    /\ \A d \in g.older : /\ d \in DirsOf(f) /\ Near(f, d, g, d, {x})
                          /\ Committed(d) => Man(Image(g, d)) = Man(Image(f, d)) /\ Safely(Image(g, d)) = Safely(Image(f, d))
    /\ \A n : LogsStable(f, n) => LogsStable(g, n)
    /\ x \in DOMAIN g.dir

(* Writing a file that nothing needs leaves the disk as good as it was.    *)
LEMMA JunkStep ==
  ASSUME NEW f, NEW g, NEW A, NEW P, NEW x \in Names, NEW file, x # CurrentFile, x[1] # "log",
         FilesOK(f), DiskOK(f, A, P), Wrote(f, g, x, file), IsFile(x[1], file),
         UnusedNow(f, {x}), \A d \in DirsOf(f) : Unused(f, d, {x})
  PROVE  JunkWritten(f, g, x, A, P)
<1>1. TempsApart(f)
  BY DEF DiskOK
<1>2. TempsApart(g) /\ Free(f, x)
  BY <1>1, WroteTempsApart
<1>3. FilesOK(g)
  BY <1>2, WroteFilesOK
<1>4. /\ Near(f, f.dir, g, g.dir, {x})
      /\ \A d \in g.older : d \in DirsOf(f) /\ Near(f, d, g, d, {x})
      /\ f.older \subseteq g.older
      /\ x \in DOMAIN g.dir
  BY <1>2, WroteNear
<1>5. NoLogs({x})
  BY DEF NoLogs
<1>6. /\ DiskOK(g, A, P)
      /\ Committed(g.dir) <=> Committed(f.dir)
      /\ Committed(f.dir) => /\ Full(Now(g)) = Full(Now(f)) /\ Man(Now(g)) = Man(Now(f)) /\ Cur(Now(g)) = Cur(Now(f))
  <2> DEFINE X == {x}
  <2>1. NoLogs(X) /\ Near(f, f.dir, g, g.dir, X) /\ UnusedNow(f, X)
        /\ \A d \in g.older : \E c \in DirsOf(f) : Near(f, c, g, d, X) /\ Unused(f, c, X)
    BY <1>4, <1>5
  <2> HIDE DEF X
  <2>2. QED
    BY <1>2, <1>3, <2>1, DiskSame
<1>7. SameBut(Now(f), Now(g), {x})
  BY <1>4, NearIsSame DEF Now
<1>8. ASSUME NEW d \in g.older, Committed(d)
      PROVE  Man(Image(g, d)) = Man(Image(f, d)) /\ Safely(Image(g, d)) = Safely(Image(f, d))
  <2> DEFINE a == Image(f, d)
             b == Image(g, d)
             X == {x}
  <2>1. SameBut(a, b, X)
    BY <1>4, NearIsSame
  <2>2. CurrentFile \in DOMAIN a /\ Rooted(a) /\ CurrentFile \notin X /\ Manifest(Cur(a)) \notin X
    BY <1>4, <1>8 DEF DiskOK, ThenOK, Unused, Committed, Image
  <2> HIDE DEF a, b, X
  <2>3. Man(b) = Man(a) /\ Safely(b) = Safely(a)
    BY <2>1, <2>2, SameViews
  <2>4. QED
    BY <2>3 DEF a, b
<1>9. ASSUME NEW n, LogsStable(f, n) PROVE LogsStable(g, n)
  <2> SUFFICES ASSUME NEW d \in g.older, NEW y \in DOMAIN d, y[1] = "log", y[2] >= n
               PROVE  y \in DOMAIN g.dir /\ g.dir[y] = d[y]
    BY DEF LogsStable
  <2>1. y # x
    OBVIOUS
  <2>2. y \in DOMAIN f.dir /\ f.dir[y] = d[y]
    BY <1>4, <1>9 DEF LogsStable, DirsOf
  <2>3. QED
    BY <1>4, <2>1, <2>2 DEF Near
<1>10. QED
  BY <1>3, <1>4, <1>6, <1>7, <1>8, <1>9 DEF JunkWritten
-----------------------------------------------------------------------------
(* A log that grows by the entries E.                                      *)
GrownBy(a, b, n, E) ==
    /\ SameBut(a, b, {LogName(n)})
    /\ HasLog(a, n) => HasLog(b, n) /\ LogOf(a, n) \subseteq LogOf(b, n) /\ SafeLogOf(a, n) \subseteq SafeLogOf(b, n)
    /\ HasLog(b, n) => LogOf(b, n) \subseteq (IF HasLog(a, n) THEN LogOf(a, n) ELSE {}) \cup E

(* A log that grows holds what it held, and what was added.                *)
LEMMA GrownLogs ==
  ASSUME NEW a, NEW b, NEW n, NEW E, GrownBy(a, b, n, E), \A x \in DOMAIN a \cup DOMAIN b : x \in Names
  PROVE  /\ \A x \in DOMAIN a : x[1] = "log" => /\ x \in DOMAIN b /\ LogOf(a, x[2]) \subseteq LogOf(b, x[2])
                                                /\ SafeLogOf(a, x[2]) \subseteq SafeLogOf(b, x[2])
         /\ \A x \in DOMAIN b : x[1] = "log" =>
                LogOf(b, x[2]) \subseteq (IF x \in DOMAIN a THEN LogOf(a, x[2]) ELSE {}) \cup E
<1>1. \A x \in DOMAIN a \cup DOMAIN b : x[1] = "log" => x = LogName(x[2])
  BY Kinded DEF LogName
<1>2. \A x : x[1] = "log" /\ x # LogName(n) => /\ x \in DOMAIN b <=> x \in DOMAIN a
                                               /\ x \in DOMAIN a => b[x] = a[x]
  BY DEF GrownBy, SameBut
<1>3. ASSUME NEW x \in DOMAIN a, x[1] = "log", x # LogName(n)
      PROVE  x \in DOMAIN b /\ LogOf(a, x[2]) = LogOf(b, x[2]) /\ SafeLogOf(a, x[2]) = SafeLogOf(b, x[2])
  BY <1>1, <1>2, <1>3 DEF LogOf, SafeLogOf
<1>4. LogName(n)[2] = n
  BY Kinded
<1>5. \A x \in DOMAIN a : x[1] = "log" => /\ x \in DOMAIN b /\ LogOf(a, x[2]) \subseteq LogOf(b, x[2])
                                          /\ SafeLogOf(a, x[2]) \subseteq SafeLogOf(b, x[2])
  BY <1>3, <1>4 DEF GrownBy, HasLog
<1>6. \A x \in DOMAIN b : x[1] = "log" =>
                LogOf(b, x[2]) \subseteq (IF x \in DOMAIN a THEN LogOf(a, x[2]) ELSE {}) \cup E
  <2> SUFFICES ASSUME NEW x \in DOMAIN b, x[1] = "log"
               PROVE  LogOf(b, x[2]) \subseteq (IF x \in DOMAIN a THEN LogOf(a, x[2]) ELSE {}) \cup E
    OBVIOUS
  <2>1. CASE x = LogName(n)
    BY <1>4, <2>1 DEF GrownBy, HasLog
  <2>2. CASE x # LogName(n)
    BY <1>2, <1>3, <2>2
  <2>3. QED
    BY <2>1, <2>2
<1>7. QED
  BY <1>5, <1>6

(* What a version needs is still there when a log grows.                   *)
LEMMA GrownSane ==
  ASSUME NEW a, NEW b, NEW n, NEW E, GrownBy(a, b, n, E), \A x \in DOMAIN a \cup DOMAIN b : x \in Names,
         NEW v, NEW A, Sane(a, v, A)
  PROVE  /\ Cur(b) = Cur(a) => Sane(b, v, A \cup E)
         /\ \A e : Keeps(a, v, e) => Keeps(b, v, e)
         /\ \A e : KeepsSafe(a, v, e) => KeepsSafe(b, v, e)
<1>1. \A t : Table(t) # LogName(n)
  BY DEF Table, LogName
<1>2. \A t \in v.tables : HasTable(a, t) /\ HasTable(b, t) /\ Stored(b, t) = Stored(a, t)
  BY <1>1 DEF GrownBy, SameBut, Sane, Holds, HasTable, Stored
<1>3. \A x \in DOMAIN a : x[1] = "log" => /\ x \in DOMAIN b /\ LogOf(a, x[2]) \subseteq LogOf(b, x[2])
                                          /\ SafeLogOf(a, x[2]) \subseteq SafeLogOf(b, x[2])
  BY GrownLogs
<1>4. \A x \in DOMAIN b : x[1] = "log" =>
                LogOf(b, x[2]) \subseteq (IF x \in DOMAIN a THEN LogOf(a, x[2]) ELSE {}) \cup E
  BY GrownLogs
<1>5. Cur(b) = Cur(a) => Sane(b, v, A \cup E)
  BY <1>2, <1>4 DEF Sane, Holds
<1>6. \A e : InTables(a, v, e) => InTables(b, v, e)
  BY <1>2 DEF InTables
<1>7. QED
  BY <1>3, <1>5, <1>6 DEF Keeps, KeepsSafe

CanGrow(f, g, A, P, E, Q, n, file) ==
    /\ n \in Nat
    /\ FilesOK(f)
    /\ DiskOK(f, A, P)
    /\ Wrote(f, g, LogName(n), file)
    /\ IsFile("log", file)
    /\ Committed(f.dir)
    /\ Full(Now(f)).log <= n
    /\ (\A d \in f.older : LogName(n) \in DOMAIN d => LogName(n) \in DOMAIN f.dir /\ d[LogName(n)] = f.dir[LogName(n)])
    /\ ToSet(file.content) = (IF HasLog(Now(f), n) THEN LogOf(Now(f), n) ELSE {}) \cup E
    /\ (IF HasLog(Now(f), n) THEN SafeLogOf(Now(f), n) ELSE {}) \cup Q \subseteq ToSet(SubSeq(file.content, 1, file.safe))
    /\ (E # {} => \A d \in DirsOf(f) : Committed(d) /\ (Man(Image(f, d)).safe # 0 => Safely(Image(f, d)).log <= n))
    /\ Q \subseteq E

LogGrown(f, g, A, P, n, file) ==
    /\ FilesOK(g) /\ DiskOK(g, A, P)
    /\ Committed(g.dir)
    /\ Full(Now(g)) = Full(Now(f)) /\ Man(Now(g)) = Man(Now(f)) /\ Cur(Now(g)) = Cur(Now(f))
    /\ SameBut(Now(f), Now(g), {LogName(n)}) /\ Near(f, f.dir, g, g.dir, {LogName(n)})
    /\ f.older \subseteq g.older
    /\ \A d \in g.older : /\ d \in DirsOf(f) /\ Near(f, d, g, d, {LogName(n)})
                          /\ Committed(d) => Man(Image(g, d)) = Man(Image(f, d))
                                             /\ Safely(Image(g, d)) = Safely(Image(f, d))
    /\ LogName(n) \in DOMAIN g.dir /\ Now(g)[LogName(n)] = file

(* Appending an entry to the newest log leaves the disk good.              *)
LEMMA LogGrows ==
  ASSUME NEW f, NEW g, NEW A, NEW P, NEW E, NEW Q, NEW n, NEW file, CanGrow(f, g, A, P, E, Q, n, file)
  PROVE  LogGrown(f, g, A \cup E, P \cup Q, n, file)
<1> SUFFICES /\ FilesOK(g) /\ DiskOK(g, A \cup E, P \cup Q)
             /\ Committed(g.dir)
             /\ Full(Now(g)) = Full(Now(f)) /\ Man(Now(g)) = Man(Now(f)) /\ Cur(Now(g)) = Cur(Now(f))
             /\ SameBut(Now(f), Now(g), {LogName(n)}) /\ Near(f, f.dir, g, g.dir, {LogName(n)})
             /\ f.older \subseteq g.older
             /\ \A d \in g.older : /\ d \in DirsOf(f) /\ Near(f, d, g, d, {LogName(n)})
                                   /\ Committed(d) => Man(Image(g, d)) = Man(Image(f, d))
                                                      /\ Safely(Image(g, d)) = Safely(Image(f, d))
             /\ LogName(n) \in DOMAIN g.dir /\ Now(g)[LogName(n)] = file
  BY DEF LogGrown
<1> n \in Nat
  BY DEF CanGrow
<1> FilesOK(f)
  BY DEF CanGrow
<1> DiskOK(f, A, P)
  BY DEF CanGrow
<1> Wrote(f, g, LogName(n), file)
  BY DEF CanGrow
<1> IsFile("log", file)
  BY DEF CanGrow
<1> Committed(f.dir)
  BY DEF CanGrow
<1> Full(Now(f)).log <= n
  BY DEF CanGrow
<1> \A d \in f.older : LogName(n) \in DOMAIN d => LogName(n) \in DOMAIN f.dir /\ d[LogName(n)] = f.dir[LogName(n)]
  BY DEF CanGrow
<1> ToSet(file.content) = (IF HasLog(Now(f), n) THEN LogOf(Now(f), n) ELSE {}) \cup E
  BY DEF CanGrow
<1> (IF HasLog(Now(f), n) THEN SafeLogOf(Now(f), n) ELSE {}) \cup Q \subseteq ToSet(SubSeq(file.content, 1, file.safe))
  BY DEF CanGrow
<1> E # {} => \A d \in DirsOf(f) : Committed(d) /\ (Man(Image(f, d)).safe # 0 => Safely(Image(f, d)).log <= n)
  BY DEF CanGrow
<1> Q \subseteq E
  BY DEF CanGrow
<1> DEFINE x == LogName(n)
           m == Now(f)
           k == Now(g)
<1>1. x \in Names /\ x # CurrentFile /\ x[1] = "log" /\ x[2] = n
  BY Kinded
<1>2. TempsApart(g) /\ Free(f, x)
  BY <1>1, WroteTempsApart DEF DiskOK
<1>3. FilesOK(g)
  BY <1>1, <1>2, WroteFilesOK
<1>4. /\ Near(f, f.dir, g, g.dir, {x})
      /\ \A d \in g.older : d \in DirsOf(f) /\ Near(f, d, g, d, {x})
      /\ f.older \subseteq g.older
      /\ x \in DOMAIN g.dir /\ Now(g)[x] = file
  BY <1>1, <1>2, WroteNear
<1>5. SameBut(m, k, {x}) /\ \A d \in g.older : SameBut(Image(f, d), Image(g, d), {x})
  BY <1>4, NearIsSame DEF Now
<1>6. /\ \A d \in DirsOf(f) : IsDirectory(d, f.data) /\ IsDirectory(f.dir, f.data)
      /\ \A d \in DirsOf(g) : IsDirectory(d, g.data) /\ IsDirectory(g.dir, g.data)
      /\ f.dir \in DirsOf(f) /\ g.dir \in DirsOf(g)
  BY <1>3 DEF FilesOK, DirsOf
<1>7. GrownBy(m, k, n, E)
  <2>1. LogOf(k, n) = ToSet(file.content) /\ SafeLogOf(k, n) = ToSet(SubSeq(file.content, 1, file.safe)) /\ HasLog(k, n)
    BY <1>4 DEF LogOf, SafeLogOf, HasLog, Now, Image
  <2>2. QED
    BY <1>5, <2>1 DEF GrownBy
<1>8. ASSUME NEW d \in g.older PROVE GrownBy(Image(f, d), Image(g, d), n, E)
  <2> DEFINE a == Image(f, d)
             b == Image(g, d)
  <2>1. SameBut(a, b, {x}) /\ d \in DirsOf(f)
    BY <1>4, <1>5
  <2>2. HasLog(a, n) <=> x \in DOMAIN d
    BY DEF HasLog, Image
  <2>3. HasLog(b, n) <=> x \in DOMAIN d
    BY DEF HasLog, Image
  <2>4. CASE x \notin DOMAIN d
    BY <2>1, <2>2, <2>3, <2>4 DEF GrownBy
  <2>5. CASE x \in DOMAIN d /\ x \in DOMAIN f.dir
    <3>1. d[x] = f.dir[x]
      BY <2>1, <2>5 DEF DirsOf
    <3>2. a[x] = m[x] /\ HasLog(m, n)
      BY <2>5, <3>1 DEF Now, Image, HasLog
    <3>3. b[x] = file
      BY <1>4, <2>5, <3>1 DEF Wrote, Now, Image
    <3>4. LogOf(a, n) = LogOf(m, n) /\ SafeLogOf(a, n) = SafeLogOf(m, n)
      BY <3>2 DEF LogOf, SafeLogOf
    <3>5. LogOf(b, n) = ToSet(file.content) /\ SafeLogOf(b, n) = ToSet(SubSeq(file.content, 1, file.safe))
      BY <3>3 DEF LogOf, SafeLogOf
    <3>6. QED
      BY <2>1, <2>2, <2>3, <2>5, <3>2, <3>4, <3>5 DEF GrownBy
  <2>6. CASE x \in DOMAIN d /\ x \notin DOMAIN f.dir
    BY <2>1, <2>6 DEF DirsOf
  <2>7. QED
    BY <2>4, <2>5, <2>6
<1>9. \A y \in DOMAIN m \cup DOMAIN k : y \in Names
  BY <1>6, ImageNames DEF Now
<1>10. NowOK(m, A, P) /\ Sane(m, Full(m), A) /\ Rooted(m)
  BY DEF DiskOK, NowOK
<1>11. /\ Cur(k) = Cur(m) /\ Man(k) = Man(m) /\ Full(k) = Full(m) /\ Safely(k) = Safely(m) /\ Rooted(k) /\ Committed(g.dir)
  <2>1. CurrentFile \in DOMAIN m /\ CurrentFile \notin {x} /\ Manifest(Cur(m)) \notin {x}
    BY DEF Committed, Now, Image, CurrentFile, Manifest, LogName
  <2> DEFINE X == {x}
  <2>2. SameBut(m, k, X) /\ CurrentFile \notin X /\ Manifest(Cur(m)) \notin X
    BY <1>5, <2>1
  <2> HIDE DEF X, m, k
  <2>3. CurrentFile \in DOMAIN k /\ Cur(k) = Cur(m) /\ Man(k) = Man(m) /\ Full(k) = Full(m) /\ Safely(k) = Safely(m) /\ Rooted(k)
    BY <1>10, <2>1, <2>2, SameViews
  <2>4. QED
    BY <2>3 DEF k, Now, Image, Committed
<1>12. ASSUME NEW v, Sane(m, v, A)
       PROVE  Sane(k, v, A \cup E) /\ (\A e : Keeps(m, v, e) => Keeps(k, v, e)) /\ (\A e : KeepsSafe(m, v, e) => KeepsSafe(k, v, e))
  <2> HIDE DEF m, k
  <2>1. QED
    BY <1>7, <1>9, <1>11, <1>12, GrownSane
<1>13. x \in DOMAIN k /\ k[x] = file /\ LogOf(k, n) = ToSet(file.content) /\ SafeLogOf(k, n) = ToSet(SubSeq(file.content, 1, file.safe))
  BY <1>4 DEF Now, Image, LogOf, SafeLogOf
<1>14. NowOK(k, A \cup E, P \cup Q)
  <2> DEFINE v == Full(m)
  <2>1. Sane(k, v, A \cup E) /\ (\A e : Keeps(m, v, e) => Keeps(k, v, e)) /\ (\A e : KeepsSafe(m, v, e) => KeepsSafe(k, v, e))
    BY <1>10, <1>12
  <2>2. \A e \in E : Keeps(k, v, e)
    BY <1>1, <1>13 DEF Keeps
  <2>3. \A e \in Q : KeepsSafe(k, v, e)
    BY <1>1, <1>13 DEF KeepsSafe
  <2> HIDE DEF m, k
  <2>4. QED
    BY <1>10, <1>11, <2>1, <2>2, <2>3 DEF NowOK
<1>15. ASSUME NEW d \in DirsOf(f), ~Committed(d) PROVE E = {} /\ Q = {} /\ A = {} /\ \A y \in DOMAIN d : y[1] # "log"
  BY <1>15 DEF DiskOK
<1>16. \A v, b, e : Misses(b, v, m, e) => Misses(b, v, k, e)
  <2>1. \A y \in DOMAIN m : y[1] = "log" => y \in DOMAIN k /\ LogOf(m, y[2]) \subseteq LogOf(k, y[2])
    <3> HIDE DEF m, k
    <3>1. QED
      BY <1>7, <1>9, GrownLogs
  <2> HIDE DEF m, k
  <2>2. QED
    BY <2>1 DEF Misses
<1>17. ASSUME NEW d \in g.older, Committed(d)
       PROVE  /\ ThenOK(Image(g, d), k, A \cup E, P \cup Q)
              /\ Man(Image(g, d)) = Man(Image(f, d)) /\ Safely(Image(g, d)) = Safely(Image(f, d))
  <2> DEFINE a == Image(f, d)
             b == Image(g, d)
             v == Safely(a)
  <2>1. ThenOK(a, m, A, P) /\ d \in DirsOf(f) /\ d \in DirsOf(g)
    BY <1>4, <1>17 DEF DiskOK, DirsOf
  <2>2. /\ \A y \in DOMAIN a \cup DOMAIN b : y \in Names
        /\ CurrentFile \in DOMAIN a
    BY <1>6, <1>17, <2>1, ImageNames
  <2>3. CurrentFile \notin {x} /\ Manifest(Cur(a)) \notin {x} /\ Rooted(a)
    BY <2>1 DEF CurrentFile, Manifest, LogName, ThenOK
  <2>4. Cur(b) = Cur(a) /\ Man(b) = Man(a) /\ Safely(b) = Safely(a) /\ Rooted(b)
    <3> DEFINE X == {x}
    <3>1. SameBut(a, b, X) /\ CurrentFile \notin X /\ Manifest(Cur(a)) \notin X
      BY <1>5, <2>3
    <3> HIDE DEF X, a, b
    <3>2. QED
      BY <2>2, <2>3, <3>1, SameViews
  <2>5. GrownBy(a, b, n, E)
    BY <1>8
  <2>6. E # {} => (Man(a).safe # 0 => v.log <= n)
    BY <2>1
  <2>7. HasLog(b, n) <=> x \in DOMAIN b
    BY DEF HasLog
  <2>8. x \in DOMAIN b => SafeLogOf(b, n) = ToSet(SubSeq(file.content, 1, file.safe))
    <3> SUFFICES ASSUME x \in DOMAIN b PROVE b[x] = file
      BY DEF SafeLogOf
    <3>1. x \in DOMAIN d /\ b[x] = g.data[d[x]]
      BY DEF Image
    <3>2. d = f.dir \/ d \in f.older
      BY <2>1 DEF DirsOf
    <3>3. CASE x \in DOMAIN f.dir
      <4>1. d[x] = g.dir[x]
        BY <3>1, <3>2, <3>3 DEF Wrote
      <4>2. QED
        BY <3>1, <4>1 DEF Wrote
    <3>4. CASE x \notin DOMAIN f.dir
      BY <3>1, <3>2, <3>4
    <3>5. QED
      BY <3>3, <3>4
  <2> HIDE DEF m, k, a, b
  <2>9. CASE Man(a).safe = 0
    BY <2>4, <2>9 DEF ThenOK, b, a
  <2>10. CASE Man(a).safe # 0
    <3>1. Sane(a, v, A) /\ v.next <= Full(m).next /\ \A e \in P : KeepsSafe(a, v, e) \/ Misses(a, v, m, e)
      BY <2>1, <2>10 DEF ThenOK
    <3> HIDE DEF v
    <3>2. Sane(b, v, A \cup E) /\ \A e : KeepsSafe(a, v, e) => KeepsSafe(b, v, e)
      BY <2>2, <2>4, <2>5, <3>1, GrownSane
    <3>3. \A e : Misses(a, v, m, e) => KeepsSafe(b, v, e) \/ Misses(b, v, k, e)
      <4> SUFFICES ASSUME NEW e, Misses(a, v, m, e) PROVE KeepsSafe(b, v, e) \/ Misses(b, v, k, e)
        OBVIOUS
      <4>1. DOMAIN a = DOMAIN d /\ DOMAIN b = DOMAIN d
        BY DEF a, b, Image
      <4>2. Misses(a, v, k, e)
        BY <1>16
      <4>3. QED
        BY <4>1, <4>2 DEF Misses
    <3>4. ASSUME NEW e \in Q PROVE KeepsSafe(b, v, e) \/ Misses(b, v, k, e)
      <4>1. v.log <= n
        BY <2>6, <2>10, <3>4 DEF v
      <4>2. CASE x \in DOMAIN b
        BY <1>1, <2>8, <3>4, <4>1, <4>2 DEF KeepsSafe
      <4>3. CASE x \notin DOMAIN b
        BY <1>1, <1>13, <3>4, <4>1, <4>3 DEF Misses
      <4>4. QED
        BY <4>2, <4>3
    <3>5. Safely(b) = v /\ Full(k) = Full(m) /\ Man(b) = Man(a) /\ Rooted(b)
      BY <1>11, <2>4 DEF v
    <3>6. ThenOK(b, k, A \cup E, P \cup Q)
      BY <3>1, <3>2, <3>3, <3>4, <3>5 DEF ThenOK
    <3>7. QED
      BY <2>4, <3>6 DEF b, a
  <2>11. QED
    BY <2>9, <2>10
<1>18. ThenOK(Image(g, g.dir), k, A \cup E, P \cup Q)
  <2>1. ThenOK(m, m, A, P)
    BY <1>6 DEF DiskOK, Now
  <2> DEFINE v == Safely(m)
  <2>2. Man(m).safe # 0 => Sane(k, v, A \cup E) /\ (\A e : KeepsSafe(m, v, e) => KeepsSafe(k, v, e))
    BY <1>12, <2>1 DEF ThenOK
  <2>3. E # {} => (Man(m).safe # 0 => v.log <= n)
    BY <1>6 DEF Now
  <2>4. Man(m).safe # 0 => \A e \in P : KeepsSafe(m, v, e)
    BY <2>1 DEF ThenOK, Misses
  <2>5. Man(m).safe # 0 => \A e \in Q : KeepsSafe(k, v, e)
    BY <1>1, <1>13, <2>3 DEF KeepsSafe
  <2>6. Image(g, g.dir) = k /\ (Man(m).safe # 0 => v.next <= Full(m).next)
    BY <2>1 DEF Now, ThenOK
  <2> HIDE DEF m, k
  <2>7. QED
    BY <1>11, <2>2, <2>4, <2>5, <2>6 DEF ThenOK
<1>19. DiskOK(g, A \cup E, P \cup Q)
  <2> HIDE DEF m, k
  <2>1. \A d \in DirsOf(g) : d = g.dir \/ d \in g.older
    BY DEF DirsOf
  <2>2. ASSUME NEW d \in g.older, ~Committed(d) PROVE A \cup E = {} /\ \A y \in DOMAIN d : y[1] # "log"
    BY <1>4, <1>15, <2>2
  <2>3. QED
    BY <1>2, <1>11, <1>14, <1>17, <1>18, <2>1, <2>2 DEF DiskOK, k
<1>20. QED
  BY <1>3, <1>4, <1>5, <1>11, <1>17, <1>19
-----------------------------------------------------------------------------
(* Names that go.                                                          *)
Removed(f, g, X) == /\ DOMAIN g.dir = DOMAIN f.dir \ X /\ \A y \in DOMAIN g.dir : g.dir[y] = f.dir[y]
                    /\ f.older \subseteq g.older /\ g.older \subseteq DirsOf(f)
                    /\ g.data = f.data

(* Unlinking files removes their names and nothing else.                   *)
LEMMA Removes ==
  ASSUME NEW f, NEW X
  PROVE  Removed(f, Unlink(f, X), X)
<1>1. CASE X \cap DOMAIN f.dir = {}
  BY <1>1 DEF Unlink, Removed, DirsOf
<1>2. CASE X \cap DOMAIN f.dir # {}
  BY <1>2 DEF Unlink, Removed, DirsOf, Restrict
<1>3. QED
  BY <1>1, <1>2

(* Removing names leaves the older directories as they were.               *)
LEMMA RemovedNear ==
  ASSUME NEW f, NEW g, NEW X, Removed(f, g, X), FilesOK(f), TempsApart(f), CurrentFile \notin X
  PROVE  /\ FilesOK(g) /\ TempsApart(g)
         /\ Near(f, f.dir, g, g.dir, X)
         /\ \A d \in g.older : d \in DirsOf(f) /\ Near(f, d, g, d, {}) /\ Image(g, d) = Image(f, d)
         /\ \A n : n \notin X => (n \in DOMAIN g.dir <=> n \in DOMAIN f.dir)
<1>1. \A d \in DirsOf(g) : d = g.dir \/ d \in DirsOf(f)
  BY DEF Removed, DirsOf
<1>2. f.dir \in DirsOf(f)
  BY DEF DirsOf
<1>3. IsDirectory(g.dir, g.data)
  BY <1>2 DEF Removed, FilesOK, IsDirectory
<1>4. FilesOK(g)
  BY <1>1, <1>3 DEF Removed, FilesOK
<1>5. Near(f, f.dir, g, g.dir, X) /\ \A d \in g.older : d \in DirsOf(f) /\ Near(f, d, g, d, {}) /\ Image(g, d) = Image(f, d)
  BY DEF Removed, Near, Image
<1>6. Committed(g.dir) => Committed(f.dir) /\ g.dir[CurrentFile] = f.dir[CurrentFile]
  BY DEF Removed, Committed
<1>7. \A y \in DOMAIN g.dir : y \in DOMAIN f.dir /\ g.dir[y] = f.dir[y]
  BY DEF Removed
<1>8. TempsApart(g)
  BY <1>1, <1>2, <1>6, <1>7 DEF TempsApart
<1>9. QED
  BY <1>4, <1>5, <1>8 DEF Removed

(* Removing files that nothing needs leaves the disk as good as it was.    *)
LEMMA RemoveJunk ==
  ASSUME NEW f, NEW g, NEW A, NEW P, NEW X, FilesOK(f), DiskOK(f, A, P), Removed(f, g, X), NoLogs(X), UnusedNow(f, X)
  PROVE  /\ FilesOK(g) /\ DiskOK(g, A, P)
         /\ Committed(g.dir) <=> Committed(f.dir)
         /\ Committed(f.dir) => /\ Full(Now(g)) = Full(Now(f)) /\ Man(Now(g)) = Man(Now(f)) /\ Cur(Now(g)) = Cur(Now(f))
         /\ SameBut(Now(f), Now(g), X)
         /\ \A n : LogsStable(f, n) => LogsStable(g, n)
<1>1. /\ FilesOK(g) /\ TempsApart(g)
      /\ Near(f, f.dir, g, g.dir, X)
      /\ \A d \in g.older : d \in DirsOf(f) /\ Near(f, d, g, d, {})
  BY RemovedNear DEF NoLogs, DiskOK
<1>2. NoLogs({}) /\ \A d : Unused(f, d, {})
  BY DEF NoLogs, Unused
<1>3. /\ DiskOK(g, A, P)
      /\ Committed(g.dir) <=> Committed(f.dir)
      /\ Committed(f.dir) => /\ Full(Now(g)) = Full(Now(f)) /\ Man(Now(g)) = Man(Now(f)) /\ Cur(Now(g)) = Cur(Now(f))
  <2>1. \A d \in g.older : \E c \in DirsOf(f) : Near(f, c, g, d, {}) /\ Unused(f, c, {})
    BY <1>1, <1>2
  <2> DEFINE Y == {}
  <2>2. NoLogs(Y) /\ \A d \in g.older : \E c \in DirsOf(f) : Near(f, c, g, d, Y) /\ Unused(f, c, Y)
    BY <1>2, <2>1
  <2> HIDE DEF Y
  <2>3. QED
    BY <1>1, <2>2, DiskSame
<1>4. SameBut(Now(f), Now(g), X)
  BY <1>1, NearIsSame DEF Now
<1>5. ASSUME NEW n, LogsStable(f, n) PROVE LogsStable(g, n)
  <2> SUFFICES ASSUME NEW d \in g.older, NEW y \in DOMAIN d, y[1] = "log", y[2] >= n
               PROVE  y \in DOMAIN g.dir /\ g.dir[y] = d[y]
    BY DEF LogsStable
  <2>1. y \notin X
    BY DEF NoLogs
  <2>2. y \in DOMAIN f.dir /\ f.dir[y] = d[y]
    BY <1>1, <1>5 DEF LogsStable, DirsOf
  <2>3. QED
    BY <1>1, <2>1, <2>2 DEF Near
<1>6. QED
  BY <1>1, <1>3, <1>4, <1>5

(* A log that is not needed any more goes.                                 *)
LEMMA RemoveLog ==
  ASSUME NEW f, NEW g, NEW A, NEW P, NEW n \in Nat, FilesOK(f), DiskOK(f, A, P), Removed(f, g, {LogName(n)}),
         Committed(f.dir), n < Full(Now(f)).log,
         Man(Now(f)).safe = Len(Man(Now(f)).content),
         \A d \in f.older : LogName(n) \in DOMAIN d \/ (Man(Image(f, d)).safe # 0 => n < Safely(Image(f, d)).log)
  PROVE  /\ FilesOK(g) /\ DiskOK(g, A, P)
         /\ Committed(g.dir)
         /\ Full(Now(g)) = Full(Now(f)) /\ Man(Now(g)) = Man(Now(f)) /\ Cur(Now(g)) = Cur(Now(f))
         /\ SameBut(Now(f), Now(g), {LogName(n)}) /\ LogName(n) \notin DOMAIN g.dir
         /\ \A j \in Nat : n < j /\ LogsStable(f, j) => LogsStable(g, j)
<1> DEFINE x == LogName(n)
           m == Now(f)
           k == Now(g)
<1>1. x \in Names /\ x # CurrentFile /\ x[1] = "log" /\ x[2] = n
  BY Kinded
<1>2. /\ FilesOK(g) /\ TempsApart(g)
      /\ Near(f, f.dir, g, g.dir, {x})
      /\ \A d \in g.older : d \in DirsOf(f) /\ Near(f, d, g, d, {}) /\ Image(g, d) = Image(f, d)
  BY <1>1, RemovedNear DEF DiskOK
<1>3. SameBut(m, k, {x}) /\ x \notin DOMAIN k /\ x \notin DOMAIN g.dir
  <2>1. SameBut(m, k, {x})
    BY <1>2, NearIsSame DEF Now
  <2>2. x \notin DOMAIN k /\ x \notin DOMAIN g.dir
    BY DEF Now, Removed, Image
  <2>3. QED
    BY <2>1, <2>2
<1>4. /\ \A d \in DirsOf(f) : IsDirectory(d, f.data) /\ IsDirectory(f.dir, f.data)
      /\ \A d \in DirsOf(g) : IsDirectory(d, g.data) /\ IsDirectory(g.dir, g.data)
      /\ f.dir \in DirsOf(f) /\ g.dir \in DirsOf(g)
  BY <1>2 DEF FilesOK, DirsOf
<1>5. \A y \in DOMAIN m \cup DOMAIN k : y \in Names
  BY <1>4, ImageNames DEF Now
<1>6. NowOK(m, A, P) /\ Sane(m, Full(m), A) /\ Rooted(m) /\ Man(m).content # <<>>
  BY DEF DiskOK, NowOK
<1>7. Full(m).log \in Nat /\ Man(m).content \in Seq(Edits)
  BY <1>4, <1>6, ViewType DEF Now
<1>8. /\ Cur(k) = Cur(m) /\ Man(k) = Man(m) /\ Full(k) = Full(m) /\ Safely(k) = Safely(m) /\ Rooted(k) /\ Committed(g.dir)
  <2>1. CurrentFile \in DOMAIN m /\ CurrentFile \notin {x} /\ Manifest(Cur(m)) \notin {x}
    BY DEF Committed, Now, Image, CurrentFile, Manifest, LogName
  <2> DEFINE X == {x}
  <2>2. SameBut(m, k, X) /\ CurrentFile \notin X /\ Manifest(Cur(m)) \notin X
    BY <1>3, <2>1
  <2> HIDE DEF X, m, k
  <2>3. CurrentFile \in DOMAIN k /\ Cur(k) = Cur(m) /\ Man(k) = Man(m) /\ Full(k) = Full(m) /\ Safely(k) = Safely(m) /\ Rooted(k)
    BY <1>6, <2>1, <2>2, SameViews
  <2>4. QED
    BY <2>3 DEF k, Now, Image, Committed
<1>9. Safely(m) = Full(m)
  <2>1. SubSeq(Man(m).content, 1, Len(Man(m).content)) = Man(m).content
    BY <1>7, SubSeqFull
  <2>2. QED
    BY <2>1 DEF Safely, Full
<1>10. \A y \in DOMAIN m : y[1] = "log" /\ y[2] >= Full(m).log => y # x
  BY <1>1, <1>7
<1>11. \A y \in DOMAIN m : y[1] = "log" /\ y # x => y \in DOMAIN k /\ LogOf(k, y[2]) = LogOf(m, y[2]) /\ SafeLogOf(k, y[2]) = SafeLogOf(m, y[2])
  <2>1. \A y \in DOMAIN m : y[1] = "log" => y = LogName(y[2])
    BY <1>5, Kinded DEF LogName
  <2>2. QED
    BY <1>3, <2>1 DEF SameBut, LogOf, SafeLogOf
<1>12. \A y \in DOMAIN k : y \in DOMAIN m
  BY <1>3 DEF SameBut
<1>13. \A y \in DOMAIN k : y # x
  BY <1>3
<1>14. /\ Sane(k, Full(m), A) /\ \A e : Keeps(m, Full(m), e) => Keeps(k, Full(m), e)
       /\ \A e : KeepsSafe(m, Full(m), e) => KeepsSafe(k, Full(m), e)
  <2>1. \A t : Table(t) # x
    BY DEF Table, LogName
  <2>2. \A t \in Full(m).tables : HasTable(m, t) /\ HasTable(k, t) /\ Stored(k, t) = Stored(m, t)
    BY <1>3, <1>6, <2>1 DEF SameBut, Sane, Holds, HasTable, Stored
  <2> HIDE DEF m, k, x
  <2>3. Sane(k, Full(m), A)
    BY <1>6, <1>8, <1>11, <1>12, <1>13, <2>2 DEF Sane, Holds
  <2>4. \A e : InTables(m, Full(m), e) => InTables(k, Full(m), e)
    BY <2>2 DEF InTables
  <2>5. QED
    BY <1>10, <1>11, <2>3, <2>4 DEF Keeps, KeepsSafe
<1>15. NowOK(k, A, P)
  <2> HIDE DEF m, k, x
  <2>1. QED
    BY <1>6, <1>8, <1>14 DEF NowOK
<1>16. ThenOK(k, k, A, P)
  <2>1. ThenOK(m, m, A, P)
    BY <1>4 DEF DiskOK, Now
  <2> HIDE DEF m, k, x
  <2>2. QED
    BY <1>6, <1>8, <1>9, <1>14, <1>15, <2>1 DEF ThenOK, NowOK
<1>17. ASSUME NEW d \in g.older, Committed(d)
       PROVE  ThenOK(Image(g, d), k, A, P)
  <2> DEFINE a == Image(f, d)
             v == Safely(a)
  <2>1. ThenOK(a, m, A, P) /\ Image(g, d) = a /\ d \in DirsOf(f)
    BY <1>2, <1>17 DEF DiskOK
  <2>2. x \in DOMAIN a \/ (Man(a).safe # 0 => n < v.log)
    <3>1. CASE d \in f.older
      BY <3>1 DEF Image
    <3>2. CASE d = f.dir
      <4>1. a = m
        BY <3>2 DEF Now
      <4>2. QED
        BY <1>9, <4>1
    <3>3. QED
      BY <2>1, <3>1, <3>2 DEF DirsOf
  <2>3. Man(a).safe # 0 => v.log \in Nat
    BY <1>17, <2>1, ViewType DEF ThenOK
  <2> HIDE DEF m, k, x, a
  <2>4. Man(a).safe # 0 => \A e : Misses(a, v, m, e) => Misses(a, v, k, e)
    <3> SUFFICES ASSUME Man(a).safe # 0, NEW e, Misses(a, v, m, e) PROVE Misses(a, v, k, e)
      OBVIOUS
    <3>1. PICK y \in DOMAIN m \ DOMAIN a : y[1] = "log" /\ y[2] >= v.log /\ e \in LogOf(m, y[2])
      BY DEF Misses
    <3>2. y # x
      BY <1>1, <2>2, <2>3, <3>1
    <3>3. QED
      BY <1>11, <3>1, <3>2 DEF Misses
  <2>5. QED
    BY <1>8, <2>1, <2>4 DEF ThenOK
<1>18. DiskOK(g, A, P)
  <2> HIDE DEF m, k
  <2>1. \A d \in DirsOf(g) : d = g.dir \/ d \in g.older
    BY DEF DirsOf
  <2>2. \A d \in DirsOf(f) : ~Committed(d) => A = {} /\ \A y \in DOMAIN d : y[1] # "log"
    BY DEF DiskOK
  <2>3. QED
    BY <1>2, <1>8, <1>15, <1>16, <1>17, <2>1, <2>2 DEF DiskOK, k, Now
<1>19. ASSUME NEW j \in Nat, n < j, LogsStable(f, j) PROVE LogsStable(g, j)
  <2> SUFFICES ASSUME NEW d \in g.older, NEW y \in DOMAIN d, y[1] = "log", y[2] >= j
               PROVE  y \in DOMAIN g.dir /\ g.dir[y] = d[y]
    BY DEF LogsStable
  <2>0. d \in DirsOf(f) /\ IsDirectory(d, f.data)
    BY <1>2, <1>4
  <2>1. y # x
    <3>1. y \in Names /\ y[2] \in Nat
      BY <2>0, Kinded DEF IsDirectory
    <3>2. QED
      BY <1>1, <1>19, <3>1
  <2>2. y \in DOMAIN f.dir /\ f.dir[y] = d[y]
    BY <1>19, <2>0 DEF LogsStable, DirsOf
  <2>3. QED
    BY <1>2, <2>1, <2>2 DEF Near
<1>20. QED
  BY <1>2, <1>3, <1>8, <1>18, <1>19

(* The directory is synced.                                                *)
LEMMA SyncDirStep ==
  ASSUME NEW f, NEW A, NEW P, FilesOK(f), DiskOK(f, A, P)
  PROVE  LET g == SyncDir(f)
         IN  /\ FilesOK(g) /\ DiskOK(g, A, P) /\ g.older = {} /\ g.dir = f.dir
             /\ Now(g) = Now(f)
<1> DEFINE g == SyncDir(f)
<1>1. g.dir = f.dir /\ g.older = {} /\ DOMAIN g.data = Range(f.dir) /\ \A i \in DOMAIN g.data : g.data[i] = f.data[i]
  BY DEF SyncDir, Restrict
<1>2. \A x \in DOMAIN f.dir : f.dir[x] \in DOMAIN f.data /\ f.dir[x] \in DOMAIN g.data
  BY <1>1 DEF FilesOK, IsDirectory, DirsOf, Range
<1>3. DOMAIN g.data \subseteq DOMAIN f.data
  BY <1>1, <1>2 DEF Range
<1> HIDE DEF g
<1>4. IsFiniteSet(DOMAIN g.data)
  BY <1>3, FS_Subset DEF FilesOK
<1>5. DirsOf(g) = {f.dir} /\ f.dir \in DirsOf(f)
  BY <1>1 DEF DirsOf
<1>6. IsDirectory(f.dir, g.data)
  BY <1>2, <1>5 DEF FilesOK, IsDirectory
<1>7. FilesOK(g)
  BY <1>1, <1>3, <1>4, <1>5, <1>6 DEF FilesOK
<1>8. Now(g) = Now(f) /\ Image(g, f.dir) = Image(f, f.dir)
  BY <1>1, <1>2 DEF Now, Image
<1>9. TempsApart(g)
  BY <1>1, <1>5 DEF TempsApart, DiskOK
<1>10. DiskOK(g, A, P)
  BY <1>1, <1>5, <1>8, <1>9 DEF DiskOK
<1>11. QED
  BY <1>1, <1>7, <1>8, <1>10 DEF g
-----------------------------------------------------------------------------
(* What writing to the manifest in use changes.                            *)
ManifestChanged(f, g, x, file) ==
    /\ FilesOK(g) /\ TempsApart(g) /\ Committed(g.dir) /\ g.older = f.older
    /\ Near(f, f.dir, g, g.dir, {x}) /\ SameBut(Now(f), Now(g), {x})
    /\ Cur(Now(g)) = Cur(Now(f)) /\ Man(Now(g)) = file /\ Rooted(Now(g))
    /\ \A d \in f.older : /\ SameBut(Image(f, d), Image(g, d), {x})
                          /\ x \in DOMAIN d => \/ Image(g, d)[x] = Image(f, d)[x] /\ d[x] # f.dir[x]
                                               \/ d[x] = f.dir[x] /\ Image(f, d)[x] = Man(Now(f)) /\ Image(g, d)[x] = file

(* A longer manifest is safe up to where it was, for every directory.      *)
LEMMA ManifestWritten ==
  ASSUME NEW f, NEW g, NEW A, NEW P, NEW c, NEW file, FilesOK(f), DiskOK(f, A, P), Committed(f.dir), c = Cur(Now(f)),
         Wrote(f, g, Manifest(c), file), IsFile("MANIFEST", file), Man(Now(f)).safe <= file.safe
  PROVE  ManifestChanged(f, g, Manifest(c), file)
<1> DEFINE x == Manifest(c)
           m == Now(f)
           k == Now(g)
<1>1. NowOK(m, A, P) /\ Rooted(m) /\ f.dir \in DirsOf(f)
  BY DEF DiskOK, NowOK, DirsOf
<1>2. c \in Nat /\ Man(m).safe \in Nat /\ file.safe \in Nat
  BY <1>1, ViewType DEF Now, IsFile
<1>3. x \in Names /\ x # CurrentFile /\ x[1] = "MANIFEST"
  BY <1>2, Kinded
<1>4. x \in DOMAIN f.dir /\ x \in DOMAIN m /\ m[x] = Man(m)
  BY <1>1 DEF Rooted, Now, Image, Man
<1>5. TempsApart(g) /\ Free(f, x)
  BY <1>3, WroteTempsApart DEF DiskOK
<1>6. FilesOK(g)
  BY <1>3, <1>5, WroteFilesOK
<1>7. /\ Near(f, f.dir, g, g.dir, {x})
      /\ \A d \in g.older : d \in DirsOf(f) /\ Near(f, d, g, d, {x})
      /\ x \in DOMAIN g.dir /\ k[x] = file
  BY <1>3, <1>5, WroteNear
<1>8. g.older = f.older /\ g.dir[x] = f.dir[x]
  BY <1>4 DEF Wrote
<1>9. SameBut(m, k, {x}) /\ \A d \in f.older : SameBut(Image(f, d), Image(g, d), {x})
  BY <1>7, <1>8, NearIsSame DEF Now
<1>10. Committed(g.dir) /\ CurrentFile \in DOMAIN m /\ CurrentFile \in DOMAIN k /\ k[CurrentFile] = m[CurrentFile]
  <2>1. CurrentFile \notin {x}
    BY <1>3
  <2>2. Committed(g.dir) /\ CurrentFile \in DOMAIN m
    BY <1>7, <2>1 DEF Near, Committed, Now, Image
  <2>3. QED
    BY <1>9, <2>1, <2>2 DEF SameBut
<1>11. Cur(k) = c /\ Man(k) = file /\ x \in DOMAIN k
  BY <1>7, <1>10 DEF Cur, Man, Now, Image
<1>12. Rooted(k)
  BY <1>1, <1>2, <1>11 DEF Rooted
<1>13. ASSUME NEW d \in f.older, x \in DOMAIN d
       PROVE  \/ Image(g, d)[x] = Image(f, d)[x] /\ d[x] # f.dir[x]
              \/ d[x] = f.dir[x] /\ Image(f, d)[x] = Man(m) /\ Image(g, d)[x] = file
  <2>1. d[x] \in DOMAIN f.data
    BY <1>13 DEF FilesOK, IsDirectory, DirsOf
  <2>2. CASE d[x] = f.dir[x]
    BY <1>4, <1>8, <1>13, <2>2 DEF Image, Now, Wrote
  <2>3. CASE d[x] # f.dir[x]
    BY <1>8, <1>13, <2>1, <2>3 DEF Image, Wrote
  <2>4. QED
    BY <2>2, <2>3
<1>14. QED
  BY <1>5, <1>6, <1>7, <1>8, <1>9, <1>10, <1>11, <1>12, <1>13 DEF ManifestChanged

(* Writing the manifest does not touch the logs.                           *)
LEMMA ManifestLogs ==
  ASSUME NEW f, NEW g, NEW c, NEW file, ManifestChanged(f, g, Manifest(c), file), NEW n, LogsStable(f, n)
  PROVE  LogsStable(g, n)
<1> SUFFICES ASSUME NEW d \in g.older, NEW y \in DOMAIN d, y[1] = "log", y[2] >= n
             PROVE  y \in DOMAIN g.dir /\ g.dir[y] = d[y]
  BY DEF LogsStable
<1>1. y # Manifest(c)
  BY Kinded
<1>2. y \in DOMAIN f.dir /\ f.dir[y] = d[y]
  BY DEF LogsStable, ManifestChanged
<1>3. QED
  BY <1>1, <1>2 DEF Near, ManifestChanged

(* An edit is appended.                                                    *)
CanEdit(f, g, A, P, c, r, w) ==
    /\ r \in Edits
    /\ FilesOK(f)
    /\ DiskOK(f, A, P)
    /\ Committed(f.dir)
    /\ c = Cur(Now(f))
    /\ Wrote(f, g, Manifest(c), [content |-> Append(Man(Now(f)).content, r), safe |-> Man(Now(f)).safe])
    /\ w = [tables |-> (Full(Now(f)).tables \ r.del) \cup r.add, log |-> r.log, next |-> r.next, last |-> r.last]
    /\ Full(Now(f)).next <= w.next
    /\ Sane(Now(f), w, A)
    /\ (\A e \in A : Keeps(Now(f), w, e))
    /\ (\A e \in P : KeepsSafe(Now(f), w, e))

Edited(f, g, A, P, c, w) ==
    /\ FilesOK(g) /\ DiskOK(g, A, P) /\ Committed(g.dir) /\ g.older = f.older
    /\ Near(f, f.dir, g, g.dir, {Manifest(c)}) /\ SameBut(Now(f), Now(g), {Manifest(c)})
    /\ Cur(Now(g)) = Cur(Now(f)) /\ Full(Now(g)) = w
    /\ Safely(Now(g)) = Safely(Now(f)) /\ Man(Now(g)).safe = Man(Now(f)).safe
    /\ \A d \in f.older : Committed(d) => /\ Safely(Image(g, d)) = Safely(Image(f, d))
                                          /\ Man(Image(g, d)).safe = Man(Image(f, d)).safe
    /\ \A n : LogsStable(f, n) => LogsStable(g, n)

(* A record appended to the manifest in use makes its version the one on disk. *)
LEMMA EditStep ==
  ASSUME NEW f, NEW g, NEW A, NEW P, NEW c, NEW r, NEW w, CanEdit(f, g, A, P, c, r, w)
  PROVE  Edited(f, g, A, P, c, w)
<1> SUFFICES /\ FilesOK(g) /\ DiskOK(g, A, P) /\ Committed(g.dir) /\ g.older = f.older
             /\ Near(f, f.dir, g, g.dir, {Manifest(c)}) /\ SameBut(Now(f), Now(g), {Manifest(c)})
             /\ Cur(Now(g)) = Cur(Now(f)) /\ Full(Now(g)) = w
             /\ Safely(Now(g)) = Safely(Now(f)) /\ Man(Now(g)).safe = Man(Now(f)).safe
             /\ \A d \in f.older : Committed(d) => /\ Safely(Image(g, d)) = Safely(Image(f, d))
                                                   /\ Man(Image(g, d)).safe = Man(Image(f, d)).safe
             /\ \A n : LogsStable(f, n) => LogsStable(g, n)
  BY DEF Edited
<1> r \in Edits
  BY DEF CanEdit
<1> FilesOK(f)
  BY DEF CanEdit
<1> DiskOK(f, A, P)
  BY DEF CanEdit
<1> Committed(f.dir)
  BY DEF CanEdit
<1> c = Cur(Now(f))
  BY DEF CanEdit
<1> Wrote(f, g, Manifest(c), [content |-> Append(Man(Now(f)).content, r), safe |-> Man(Now(f)).safe])
  BY DEF CanEdit
<1> w = [tables |-> (Full(Now(f)).tables \ r.del) \cup r.add, log |-> r.log, next |-> r.next, last |-> r.last]
  BY DEF CanEdit
<1> Full(Now(f)).next <= w.next
  BY DEF CanEdit
<1> Sane(Now(f), w, A)
  BY DEF CanEdit
<1> \A e \in A : Keeps(Now(f), w, e)
  BY DEF CanEdit
<1> \A e \in P : KeepsSafe(Now(f), w, e)
  BY DEF CanEdit
<1> DEFINE x == Manifest(c)
           m == Now(f)
           k == Now(g)
           old == Man(m).content
           safe == Man(m).safe
           file == [content |-> Append(old, r), safe |-> safe]
<1>1. NowOK(m, A, P) /\ Rooted(m) /\ f.dir \in DirsOf(f)
  BY DEF DiskOK, NowOK, DirsOf
<1>2. c \in Nat /\ old \in Seq(Edits) /\ safe \in Nat /\ safe <= Len(old) /\ Full(m).next \in Nat
  BY <1>1, ViewType DEF Now, NowOK
<1>3. Append(old, r) \in Seq(Edits) /\ Len(Append(old, r)) = Len(old) + 1 /\ Len(old) \in Nat /\ Append(old, r) # <<>>
  <2> HIDE DEF old
  <2>1. QED
    BY <1>2, AppendProperties, LenProperties
<1>4. IsFile("MANIFEST", file)
  BY <1>2, <1>3 DEF IsFile
<1>5. ManifestChanged(f, g, x, file)
  <2> HIDE DEF m, k, old, safe
  <2>1. Man(Now(f)).safe <= file.safe /\ Wrote(f, g, x, file)
    BY <1>2 DEF m, safe, old
  <2> HIDE DEF file
  <2>2. QED
    BY <1>4, <2>1, ManifestWritten
<1>6. SubSeq(Append(old, r), 1, safe) = SubSeq(old, 1, safe)
  <2> HIDE DEF old, safe
  <2>1. QED
    BY <1>2, <1>3, Prefix
<1>7. SavedOf(Append(old, r)) = w
  <2>1. Full(m) = SavedOf(old)
    BY DEF Full
  <2> HIDE DEF old, m
  <2>2. QED
    BY <1>2, <2>1, SavedAppend DEF m
<1>8. Cur(k) = Cur(m) /\ Full(k) = w /\ Safely(k) = Safely(m) /\ Man(k) = file /\ Rooted(k) /\ SameBut(m, k, {x})
  <2>1. Cur(k) = Cur(m) /\ Man(k) = file /\ Rooted(k) /\ SameBut(m, k, {x})
    BY <1>5 DEF ManifestChanged
  <2>2. Man(k).content = Append(old, r) /\ Man(k).safe = safe
    BY <2>1
  <2>3. Full(k) = w /\ Safely(k) = Safely(m)
    BY <1>6, <1>7, <2>2 DEF Full, Safely
  <2>4. QED
    BY <2>1, <2>3
<1>9. NoLogs({x}) /\ (\A y \in DOMAIN m \cup DOMAIN k : y \in Names) /\ \A t : Table(t) \notin {x}
  <2>1. NoLogs({x}) /\ \A t : Table(t) \notin {x}
    BY Kinded DEF NoLogs, Table, Manifest
  <2>2. IsDirectory(f.dir, f.data) /\ IsDirectory(g.dir, g.data)
    BY <1>5 DEF FilesOK, DirsOf, ManifestChanged
  <2>3. QED
    BY <2>1, <2>2, ImageNames DEF Now
<1>10. \A v : Sane(m, v, A) => /\ Sane(k, v, A) /\ (\A e : Keeps(m, v, e) => Keeps(k, v, e))
                               /\ (\A e : KeepsSafe(m, v, e) => KeepsSafe(k, v, e))
  <2> SUFFICES ASSUME NEW v, Sane(m, v, A)
               PROVE  /\ Sane(k, v, A) /\ (\A e : Keeps(m, v, e) => Keeps(k, v, e))
                      /\ (\A e : KeepsSafe(m, v, e) => KeepsSafe(k, v, e))
    OBVIOUS
  <2> DEFINE X == {x}
  <2>1. SameBut(m, k, X) /\ NoLogs(X) /\ \A t \in v.tables : Table(t) \notin X
    BY <1>8, <1>9
  <2> HIDE DEF m, k, X
  <2>2. QED
    BY <1>8, <1>9, <2>1, SameSane
<1>11. NowOK(k, A, P)
  <2>1. Sane(m, w, A)
    OBVIOUS
  <2>2. \A e \in A : Keeps(m, w, e)
    OBVIOUS
  <2>3. \A e \in P : KeepsSafe(m, w, e)
    OBVIOUS
  <2>4. Man(k).content # <<>>
    BY <1>3, <1>8
  <2> HIDE DEF m, k
  <2>5. QED
    BY <1>8, <1>10, <2>1, <2>2, <2>3, <2>4 DEF NowOK
<1>12. \A a, v, e : Misses(a, v, m, e) => Misses(a, v, k, e)
  <2>1. \A y : y[1] = "log" => (y \in DOMAIN k <=> y \in DOMAIN m)
    <3> DEFINE X == {x}
    <3>1. SameBut(m, k, X) /\ NoLogs(X)
      BY <1>8, <1>9
    <3> HIDE DEF m, k, X
    <3>2. QED
      BY <1>9, <3>1, SameLogs
  <2>2. \A y \in DOMAIN m : y[1] = "log" => LogOf(k, y[2]) = LogOf(m, y[2])
    <3> DEFINE X == {x}
    <3>1. SameBut(m, k, X) /\ NoLogs(X)
      BY <1>8, <1>9
    <3> HIDE DEF m, k, X
    <3>2. QED
      BY <1>9, <3>1, SameLogs
  <2> HIDE DEF m, k
  <2>3. QED
    BY <2>1, <2>2 DEF Misses
<1>13. ThenOK(k, k, A, P)
  <2>1. ThenOK(m, m, A, P)
    BY <1>1 DEF DiskOK, Now
  <2>2. Man(m).safe # 0 => Safely(m).next \in Nat
    BY <1>1, ViewType DEF Now
  <2>3. w.next \in Nat
    BY DEF Edits
  <2>4. Man(k).safe = Man(m).safe
    BY <1>8
  <2>5. Full(m).next <= w.next
    OBVIOUS
  <2> HIDE DEF m, k
  <2>6. \A e, v : ~Misses(m, v, m, e)
    BY DEF Misses
  <2>7. QED
    BY <1>2, <1>8, <1>10, <2>1, <2>2, <2>3, <2>4, <2>5, <2>6 DEF ThenOK
<1>14. ASSUME NEW d \in f.older, Committed(d)
       PROVE  /\ Safely(Image(g, d)) = Safely(Image(f, d)) /\ Man(Image(g, d)).safe = Man(Image(f, d)).safe
              /\ ThenOK(Image(g, d), k, A, P)
  <2> DEFINE a == Image(f, d)
             b == Image(g, d)
             v == Safely(a)
  <2>1. ThenOK(a, m, A, P) /\ Rooted(a) /\ d \in DirsOf(f)
    BY <1>14 DEF DiskOK, DirsOf, ThenOK
  <2>2. SameBut(a, b, {x}) /\ DOMAIN b = DOMAIN a /\ CurrentFile \in DOMAIN a /\ CurrentFile # x
    BY <1>5, <1>14, Kinded DEF ManifestChanged, Image, Committed
  <2>3. Cur(b) = Cur(a)
    BY <2>2 DEF SameBut, Cur
  <2>4. Man(b).safe = Man(a).safe /\ Safely(b) = Safely(a)
    <3>1. CASE Manifest(Cur(a)) = x
      <4>1. x \in DOMAIN d
        BY <2>1, <3>1 DEF Rooted, Image
      <4>2. Man(b) = Man(a) \/ (Man(a) = Man(m) /\ Man(b) = file)
        BY <1>5, <1>14, <2>3, <3>1, <4>1 DEF ManifestChanged, Man
      <4>3. file.content = Append(old, r) /\ file.safe = safe
        OBVIOUS
      <4>4. Man(b) = Man(a) \/ (Man(a).content = old /\ Man(a).safe = safe /\ Man(b).content = Append(old, r) /\ Man(b).safe = safe)
        BY <4>2, <4>3
      <4> HIDE DEF old, safe, a, b
      <4>5. QED
        BY <1>6, <4>4 DEF Safely
    <3>2. CASE Manifest(Cur(a)) # x
      <4>1. Man(b) = Man(a)
        BY <2>1, <2>2, <2>3, <3>2 DEF SameBut, Man, Rooted
      <4>2. QED
        BY <4>1 DEF Safely
    <3>3. QED
      BY <3>1, <3>2
  <2>5. Rooted(b)
    BY <2>1, <2>2, <2>3, <2>4 DEF Rooted
  <2>6. \A y \in DOMAIN a \cup DOMAIN b : y \in Names
    BY <2>1, <2>2, ImageNames DEF FilesOK
  <2>7. Man(a).safe # 0 => v.next \in Nat
    BY <1>14, <2>1, ViewType
  <2>8. w.next \in Nat /\ Full(m).next <= w.next
    BY DEF Edits
  <2>9. ASSUME Man(a).safe # 0
        PROVE  Sane(b, v, A) /\ (\A e : KeepsSafe(a, v, e) => KeepsSafe(b, v, e)) /\ \A e : Misses(a, v, m, e) => Misses(b, v, k, e)
    <3>1. Sane(a, v, A)
      BY <2>1, <2>9 DEF ThenOK
    <3> DEFINE X == {x}
    <3>2. SameBut(a, b, X) /\ NoLogs(X) /\ \A t \in v.tables : Table(t) \notin X
      BY <1>9, <2>2
    <3> HIDE DEF a, b, X, v, m, k
    <3>3. Sane(b, v, A) /\ (\A e : KeepsSafe(a, v, e) => KeepsSafe(b, v, e))
      BY <2>3, <2>6, <3>1, <3>2, SameSane
    <3>4. \A e : Misses(a, v, m, e) => Misses(b, v, k, e)
      <4>1. \A e : Misses(a, v, k, e) => Misses(b, v, k, e)
        BY <2>2 DEF Misses
      <4>2. QED
        BY <1>12, <4>1
    <3>5. QED
      BY <3>3, <3>4
  <2> HIDE DEF m, k, a, b
  <2>10. ThenOK(b, k, A, P)
    BY <1>2, <1>8, <2>1, <2>4, <2>5, <2>7, <2>8, <2>9 DEF ThenOK
  <2>11. QED
    BY <2>4, <2>10 DEF a, b
<1>15. \A n : LogsStable(f, n) => LogsStable(g, n)
  <2> HIDE DEF file, m, k
  <2>1. QED
    BY <1>5, ManifestLogs
<1>16. /\ FilesOK(g) /\ TempsApart(g) /\ Committed(g.dir) /\ g.older = f.older /\ Near(f, f.dir, g, g.dir, {x})
  BY <1>5 DEF ManifestChanged
<1>17. DiskOK(g, A, P)
  <2> HIDE DEF m, k
  <2>1. \A d \in DirsOf(g) : d = g.dir \/ d \in f.older
    BY <1>16 DEF DirsOf
  <2>2. \A d \in DirsOf(f) : ~Committed(d) => A = {} /\ \A y \in DOMAIN d : y[1] # "log"
    BY DEF DiskOK
  <2>3. QED
    BY <1>11, <1>13, <1>14, <1>16, <2>1, <2>2 DEF DiskOK, k, Now, DirsOf
<1>18. Man(k).safe = Man(m).safe
  BY <1>8
<1>19. QED
  BY <1>8, <1>14, <1>15, <1>16, <1>17, <1>18
(* The manifest in use is synced, and the directory was before.            *)
SyncedBefore(f) == \A d \in f.older : \A y \in DOMAIN f.dir : y[1] # "log" => y \in DOMAIN d /\ d[y] = f.dir[y]

CanSync(f, g, A, P, c, j) ==
    /\ FilesOK(f)
    /\ DiskOK(f, A, P)
    /\ Committed(f.dir)
    /\ c = Cur(Now(f))
    /\ Wrote(f, g, Manifest(c), [content |-> Man(Now(f)).content, safe |-> Len(Man(Now(f)).content)])
    /\ SyncedBefore(f)
    /\ j \in Nat
    /\ j <= Full(Now(f)).log
    /\ LogsStable(f, j)

Synced(f, g, A, P, c) ==
    /\ FilesOK(g) /\ DiskOK(g, A, P) /\ Committed(g.dir) /\ g.older = f.older
    /\ Near(f, f.dir, g, g.dir, {Manifest(c)}) /\ SameBut(Now(f), Now(g), {Manifest(c)})
    /\ Cur(Now(g)) = Cur(Now(f)) /\ Full(Now(g)) = Full(Now(f))
    /\ Man(Now(g)).safe = Len(Man(Now(g)).content)
    /\ \A d \in DirsOf(g) : Committed(d) /\ Safely(Image(g, d)) = Full(Now(f))
    /\ \A n : LogsStable(f, n) => LogsStable(g, n)

(* Syncing the manifest in use makes the version on disk the safe one.     *)
LEMMA SyncStep ==
  ASSUME NEW f, NEW g, NEW A, NEW P, NEW c, NEW j, CanSync(f, g, A, P, c, j)
  PROVE  Synced(f, g, A, P, c)
<1> SUFFICES /\ FilesOK(g) /\ DiskOK(g, A, P) /\ Committed(g.dir) /\ g.older = f.older
             /\ Near(f, f.dir, g, g.dir, {Manifest(c)}) /\ SameBut(Now(f), Now(g), {Manifest(c)})
             /\ Cur(Now(g)) = Cur(Now(f)) /\ Full(Now(g)) = Full(Now(f))
             /\ Man(Now(g)).safe = Len(Man(Now(g)).content)
             /\ \A d \in DirsOf(g) : Committed(d) /\ Safely(Image(g, d)) = Full(Now(f))
             /\ \A n : LogsStable(f, n) => LogsStable(g, n)
  BY DEF Synced
<1> FilesOK(f)
  BY DEF CanSync
<1> DiskOK(f, A, P)
  BY DEF CanSync
<1> Committed(f.dir)
  BY DEF CanSync
<1> c = Cur(Now(f))
  BY DEF CanSync
<1> Wrote(f, g, Manifest(c), [content |-> Man(Now(f)).content, safe |-> Len(Man(Now(f)).content)])
  BY DEF CanSync
<1> SyncedBefore(f)
  BY DEF CanSync
<1> j \in Nat
  BY DEF CanSync
<1> j <= Full(Now(f)).log
  BY DEF CanSync
<1> LogsStable(f, j)
  BY DEF CanSync
<1> DEFINE x == Manifest(c)
           m == Now(f)
           k == Now(g)
           old == Man(m).content
           file == [content |-> old, safe |-> Len(old)]
           v == Full(m)
<1>1. NowOK(m, A, P) /\ Rooted(m) /\ f.dir \in DirsOf(f) /\ old # <<>>
  BY DEF DiskOK, NowOK, DirsOf
<1>2. c \in Nat /\ old \in Seq(Edits) /\ Man(m).safe \in Nat /\ Man(m).safe <= Len(old) /\ v.next \in Nat /\ v.log \in Nat
  BY <1>1, ViewType DEF Now, NowOK
<1>3. Len(old) \in Nat /\ Len(old) # 0 /\ SubSeq(old, 1, Len(old)) = old
  <2> HIDE DEF old
  <2>1. QED
    BY <1>1, <1>2, EmptySeq, SubSeqFull
<1>4. IsFile("MANIFEST", file)
  BY <1>2, <1>3 DEF IsFile
<1>5. ManifestChanged(f, g, x, file)
  <2> HIDE DEF m, k, old
  <2>1. Man(Now(f)).safe <= file.safe /\ Wrote(f, g, x, file)
    BY <1>2 DEF m, old
  <2> HIDE DEF file
  <2>2. QED
    BY <1>4, <2>1, ManifestWritten
<1>6. /\ FilesOK(g) /\ TempsApart(g) /\ Committed(g.dir) /\ g.older = f.older /\ Near(f, f.dir, g, g.dir, {x})
      /\ Cur(k) = Cur(m) /\ Man(k) = file /\ Rooted(k) /\ SameBut(m, k, {x})
  BY <1>5 DEF ManifestChanged
<1>7. Man(k).content = old /\ Man(k).safe = Len(old)
  BY <1>6
<1>8. Full(k) = v /\ Safely(k) = v /\ Man(k).safe = Len(Man(k).content)
  BY <1>3, <1>7 DEF Full, Safely
<1>9. NoLogs({x}) /\ (\A y \in DOMAIN m \cup DOMAIN k : y \in Names) /\ \A t : Table(t) \notin {x}
  <2>1. NoLogs({x}) /\ \A t : Table(t) \notin {x}
    BY Kinded DEF NoLogs, Table, Manifest
  <2>2. IsDirectory(f.dir, f.data) /\ IsDirectory(g.dir, g.data)
    BY <1>6 DEF FilesOK, DirsOf
  <2>3. QED
    BY <2>1, <2>2, ImageNames DEF Now
<1>10. /\ Sane(k, v, A) /\ (\A e : Keeps(m, v, e) => Keeps(k, v, e))
       /\ (\A e : KeepsSafe(m, v, e) => KeepsSafe(k, v, e))
  <2> DEFINE X == {x}
  <2>1. SameBut(m, k, X) /\ NoLogs(X) /\ \A t \in v.tables : Table(t) \notin X
    BY <1>6, <1>9
  <2>2. Sane(m, v, A)
    BY <1>1 DEF NowOK
  <2> HIDE DEF m, k, X, v
  <2>3. QED
    BY <1>6, <1>9, <2>1, <2>2, SameSane
<1>11. NowOK(k, A, P)
  <2> HIDE DEF m, k, old
  <2>1. QED
    BY <1>1, <1>6, <1>7, <1>8, <1>10 DEF NowOK, v
<1>12. ThenOK(k, k, A, P)
  <2> HIDE DEF m, k, old
  <2>1. QED
    BY <1>2, <1>6, <1>8, <1>10, <1>11 DEF ThenOK, NowOK
<1>13. ASSUME NEW d \in f.older
       PROVE  Committed(d) /\ Safely(Image(g, d)) = v /\ ThenOK(Image(g, d), k, A, P)
  <2> DEFINE b == Image(g, d)
  <2>1. /\ IsDirectory(d, f.data) /\ IsDirectory(d, g.data) /\ IsDirectory(g.dir, g.data) /\ d \in DirsOf(g)
    BY <1>6 DEF FilesOK, DirsOf
  <2>2. g.dir[x] = f.dir[x] /\ DOMAIN g.dir = DOMAIN f.dir /\ \A y \in DOMAIN g.dir : g.dir[y] = f.dir[y]
    <3>1. x \in DOMAIN f.dir
      BY <1>1 DEF Rooted, Now, Image
    <3>2. QED
      BY <3>1 DEF Wrote
  <2>3. \A y \in DOMAIN k : y[1] # "log" => y \in DOMAIN b /\ b[y] = k[y]
    BY <2>2 DEF SyncedBefore, Now, Image
  <2>4. CurrentFile \in DOMAIN k /\ CurrentFile[1] # "log" /\ Manifest(Cur(k)) \in DOMAIN k /\ Manifest(Cur(k))[1] # "log"
    BY <1>6, Kinded DEF Rooted, Committed, Now, Image
  <2>5. Cur(b) = Cur(k) /\ Man(b) = Man(k) /\ CurrentFile \in DOMAIN b /\ Manifest(Cur(b)) \in DOMAIN b
    BY <2>3, <2>4 DEF Cur, Man
  <2>6. Committed(d)
    BY <2>5 DEF Committed, Image
  <2>7. Safely(b) = v /\ Man(b).safe = Man(k).safe /\ Rooted(b)
    <3>1. Safely(b) = Safely(k)
      BY <2>5 DEF Safely
    <3> HIDE DEF b, k, v
    <3>2. QED
      BY <1>6, <1>8, <2>5, <3>1 DEF Rooted
  <2>8. \A y \in DOMAIN b : y[1] = "log" /\ y[2] >= v.log => y \in DOMAIN k /\ b[y] = k[y]
    <3> SUFFICES ASSUME NEW y \in DOMAIN b, y[1] = "log", y[2] >= v.log PROVE y \in DOMAIN k /\ b[y] = k[y]
      OBVIOUS
    <3>1. y \in DOMAIN d /\ y \in Names /\ y[2] \in Nat
      BY <2>1, Kinded DEF IsDirectory, Image
    <3>2. y[2] >= j
      BY <1>2, <3>1
    <3>3. y \in DOMAIN f.dir /\ f.dir[y] = d[y]
      BY <3>1, <3>2 DEF LogsStable
    <3>4. QED
      BY <2>2, <3>1, <3>3 DEF Now, Image
  <2>9. \A y \in DOMAIN b \cup DOMAIN k : y \in Names
    BY <2>1, ImageNames DEF Now
  <2>10. \A y \in DOMAIN b \cup DOMAIN k : y[1] = "log" => y = LogName(y[2])
    BY <2>9, Kinded DEF LogName
  <2>11. \A t \in v.tables : HasTable(b, t) /\ Stored(b, t) = Stored(k, t)
    <3>1. \A t \in v.tables : Table(t) \in DOMAIN k /\ Table(t)[1] # "log"
      BY <1>10, Kinded DEF Sane, Holds, HasTable
    <3>2. QED
      BY <1>10, <2>3, <3>1 DEF Sane, Holds, HasTable, Stored
  <2>12. \A y \in DOMAIN b : y[1] = "log" /\ y[2] >= v.log => LogOf(b, y[2]) = LogOf(k, y[2]) /\ SafeLogOf(b, y[2]) = SafeLogOf(k, y[2])
    BY <2>8, <2>10 DEF LogOf, SafeLogOf
  <2>13. \A y \in DOMAIN k : y[1] = "log" => SafeLogOf(k, y[2]) \subseteq LogOf(k, y[2])
    <3> SUFFICES ASSUME NEW y \in DOMAIN k, y[1] = "log" PROVE SafeLogOf(k, y[2]) \subseteq LogOf(k, y[2])
      OBVIOUS
    <3>1. y = LogName(y[2])
      BY <2>10
    <3>2. g.dir[y] \in DOMAIN g.data /\ NamesInode(y, g.dir[y]) /\ k[y] = g.data[g.dir[y]] /\ y # CurrentFile
      BY <2>1, Kinded DEF IsDirectory, Now, Image
    <3>3. IsFile("log", k[y])
      BY <1>6, <3>2 DEF FilesOK, NamesInode
    <3> DEFINE s == k[y].content
               i == k[y].safe
    <3>4. s \in Seq(Pairs) /\ i \in Nat /\ i <= Len(s)
      BY <3>3 DEF IsFile
    <3> HIDE DEF s, i
    <3>5. ToSet(SubSeq(s, 1, i)) \subseteq ToSet(s)
      BY <3>4, Prefix
    <3>6. QED
      BY <3>1, <3>5 DEF SafeLogOf, LogOf, s, i
  <2> HIDE DEF b, k, v
  <2>14. Sane(b, v, A)
    BY <1>10, <2>5, <2>8, <2>11, <2>12 DEF Sane, Holds
  <2>15. \A e \in P : KeepsSafe(b, v, e) \/ Misses(b, v, k, e)
    <3> SUFFICES ASSUME NEW e \in P PROVE KeepsSafe(b, v, e) \/ Misses(b, v, k, e)
      OBVIOUS
    <3>1. KeepsSafe(k, v, e)
      BY <1>8, <1>11 DEF NowOK
    <3>2. CASE InTables(k, v, e)
      BY <2>11, <3>2 DEF InTables, KeepsSafe
    <3>3. CASE ~InTables(k, v, e)
      <4>1. PICK y \in DOMAIN k : y[1] = "log" /\ y[2] >= v.log /\ e \in SafeLogOf(k, y[2])
        BY <3>1, <3>3 DEF KeepsSafe
      <4>2. CASE y \in DOMAIN b
        BY <2>12, <4>1, <4>2 DEF KeepsSafe
      <4>3. CASE y \notin DOMAIN b
        BY <2>13, <4>1, <4>3 DEF Misses
      <4>4. QED
        BY <4>2, <4>3
    <3>4. QED
      BY <3>2, <3>3
  <2>16. v.next <= Full(k).next
    BY <1>2, <1>8
  <2>17. ThenOK(b, k, A, P)
    BY <2>7, <2>14, <2>15, <2>16 DEF ThenOK
  <2>18. QED
    BY <2>6, <2>7, <2>17 DEF b
<1>14. \A n : LogsStable(f, n) => LogsStable(g, n)
  <2> HIDE DEF file, m, k
  <2>1. QED
    BY <1>5, ManifestLogs
<1>15. DiskOK(g, A, P)
  <2> HIDE DEF m, k
  <2>1. \A d \in DirsOf(g) : d = g.dir \/ d \in f.older
    BY <1>6 DEF DirsOf
  <2>2. QED
    BY <1>6, <1>11, <1>12, <1>13, <2>1 DEF DiskOK, k, Now
<1>16. \A d \in DirsOf(g) : Committed(d) /\ Safely(Image(g, d)) = v
  BY <1>6, <1>8, <1>13 DEF DirsOf, Now
<1>17. QED
  BY <1>6, <1>8, <1>14, <1>15, <1>16

(* CURRENT is renamed.                                                     *)
CanRename(f, n, w, A, P) ==
    /\ n \in Nat /\ 0 < n /\ n < w.next /\ FilesOK(f) /\ DiskOK(f, A, P) /\ P \subseteq A
    /\ Temp(n) \in DOMAIN f.dir /\ Now(f)[Temp(n)].content = <<n>> /\ Manifest(n) \in DOMAIN f.dir
    /\ Now(f)[Manifest(n)].content # <<>> /\ w = SavedOf(Now(f)[Manifest(n)].content)
    /\ \/ Now(f)[Manifest(n)].safe = Len(Now(f)[Manifest(n)].content)
       \/ n = 1 /\ Now(f)[Manifest(n)].safe = 0
    /\ Holds(Now(f), w, A) /\ (\A e \in A : Keeps(Now(f), w, e)) /\ (\A e \in P : KeepsSafe(Now(f), w, e))
    /\ Committed(f.dir) => Full(Now(f)).next <= w.next

(* Renaming the temporary file to CURRENT makes the new manifest the one in use. *)
LEMMA RenameStep ==
  ASSUME NEW f, NEW A, NEW P, NEW n, NEW w, CanRename(f, n, w, A, P)
  PROVE  LET g == Rename(f, Temp(n), CurrentFile)
         IN  /\ FilesOK(g) /\ DiskOK(g, A, P) /\ Committed(g.dir) /\ g.older = DirsOf(f)
             /\ Near(f, f.dir, g, g.dir, {Temp(n), CurrentFile}) /\ SameBut(Now(f), Now(g), {Temp(n), CurrentFile})
             /\ Temp(n) \notin DOMAIN g.dir
             /\ Cur(Now(g)) = n /\ Full(Now(g)) = w /\ Man(Now(g)) = Now(f)[Manifest(n)]
             /\ \A d \in DirsOf(f) : Image(g, d) = Image(f, d)
             /\ \A i : LogsStable(f, i) => LogsStable(g, i)
<1> SUFFICES ASSUME n \in Nat, 0 < n, n < w.next, FilesOK(f), DiskOK(f, A, P), P \subseteq A,
         Temp(n) \in DOMAIN f.dir, Now(f)[Temp(n)].content = <<n>>, Manifest(n) \in DOMAIN f.dir,
         Now(f)[Manifest(n)].content # <<>>, w = SavedOf(Now(f)[Manifest(n)].content),
         \/ Now(f)[Manifest(n)].safe = Len(Now(f)[Manifest(n)].content)
         \/ n = 1 /\ Now(f)[Manifest(n)].safe = 0,
         Holds(Now(f), w, A), \A e \in A : Keeps(Now(f), w, e), \A e \in P : KeepsSafe(Now(f), w, e),
         Committed(f.dir) => Full(Now(f)).next <= w.next
  PROVE  LET g == Rename(f, Temp(n), CurrentFile)
         IN  /\ FilesOK(g) /\ DiskOK(g, A, P) /\ Committed(g.dir) /\ g.older = DirsOf(f)
             /\ Near(f, f.dir, g, g.dir, {Temp(n), CurrentFile}) /\ SameBut(Now(f), Now(g), {Temp(n), CurrentFile})
             /\ Temp(n) \notin DOMAIN g.dir
             /\ Cur(Now(g)) = n /\ Full(Now(g)) = w /\ Man(Now(g)) = Now(f)[Manifest(n)]
             /\ \A d \in DirsOf(f) : Image(g, d) = Image(f, d)
             /\ \A i : LogsStable(f, i) => LogsStable(g, i)
  BY DEF CanRename
<1> DEFINE g == Rename(f, Temp(n), CurrentFile)
           m == Now(f)
           k == Now(g)
           man == m[Manifest(n)]
<1>1. /\ DOMAIN g.dir = (DOMAIN f.dir \ {Temp(n)}) \cup {CurrentFile} /\ g.dir[CurrentFile] = f.dir[Temp(n)]
      /\ \A y \in DOMAIN g.dir : y # CurrentFile => y \in DOMAIN f.dir /\ g.dir[y] = f.dir[y]
      /\ g.older = DirsOf(f) /\ g.data = f.data
  BY Kinded DEF Rename, Put, Restrict
<1> HIDE DEF g
<1>2. Temp(n) # CurrentFile /\ Temp(n)[1] = "temp" /\ Temp(n) \notin DOMAIN g.dir
  BY <1>1, Kinded
<1>3. \A d \in DirsOf(f) : Image(g, d) = Image(f, d)
  BY <1>1 DEF Image
<1>4. Near(f, f.dir, g, g.dir, {Temp(n), CurrentFile})
  BY <1>1 DEF Near
<1>5. SameBut(m, k, {Temp(n), CurrentFile})
  BY <1>4, NearIsSame DEF Now
<1>6. f.dir \in DirsOf(f) /\ f.dir[Temp(n)] \in DOMAIN f.data /\ f.dir[Temp(n)][1] = Temp(n)
  BY <1>2 DEF DirsOf, FilesOK, IsDirectory, NamesInode
<1>7. FilesOK(g)
  <2>1. \A d \in DirsOf(f) : IsDirectory(d, g.data)
    BY <1>1 DEF FilesOK
  <2>2. IsDirectory(g.dir, g.data)
    <3> SUFFICES ASSUME NEW y \in DOMAIN g.dir PROVE y \in Names /\ g.dir[y] \in DOMAIN g.data /\ NamesInode(y, g.dir[y])
      BY DEF IsDirectory
    <3>1. CASE y = CurrentFile
      BY <1>1, <1>2, <1>6, <3>1, Kinded DEF NamesInode
    <3>2. CASE y # CurrentFile
      <4>1. y \in DOMAIN f.dir /\ g.dir[y] = f.dir[y]
        BY <1>1, <3>2
      <4>2. QED
        BY <1>6, <2>1, <4>1 DEF IsDirectory
    <3>3. QED
      BY <3>1, <3>2
  <2>3. \A d \in DirsOf(g) : d = g.dir \/ d \in DirsOf(f)
    BY <1>1 DEF DirsOf
  <2>4. QED
    BY <1>1, <2>1, <2>2, <2>3 DEF FilesOK
<1>8. Committed(g.dir) /\ CurrentFile \in DOMAIN k /\ k[CurrentFile] = m[Temp(n)]
  BY <1>1 DEF Committed, Now, Image
<1>9. Cur(k) = n /\ Manifest(n) \in DOMAIN k /\ k[Manifest(n)] = man
  <2>1. Manifest(n) \notin {Temp(n), CurrentFile} /\ Manifest(n) \in DOMAIN m
    BY Kinded DEF Now, Image, Manifest, Temp
  <2>2. Manifest(n) \in DOMAIN k /\ k[Manifest(n)] = m[Manifest(n)]
    BY <1>5, <2>1 DEF SameBut
  <2>3. QED
    BY <1>8, <2>2 DEF Cur
<1>10. Man(k) = man /\ Full(k) = w
  BY <1>9 DEF Man, Full
<1>11. man.content \in Seq(Edits) /\ man.safe \in Nat /\ man.safe <= Len(man.content) /\ Len(man.content) \in Nat \ {0}
  <2>1. f.dir[Manifest(n)] \in DOMAIN f.data /\ f.dir[Manifest(n)][1] = Manifest(n) /\ man = f.data[f.dir[Manifest(n)]]
    BY <1>6, Kinded DEF FilesOK, IsDirectory, NamesInode, Now, Image
  <2>2. IsFile("MANIFEST", man)
    BY <2>1, Kinded DEF FilesOK
  <2> HIDE DEF man
  <2>3. man.content \in Seq(Edits) /\ man.safe \in Nat /\ man.safe <= Len(man.content)
    BY <2>2 DEF IsFile
  <2>4. man.content # <<>>
    BY DEF man
  <2>5. QED
    BY <2>3, <2>4, EmptySeq
<1>12. Rooted(k)
  BY <1>9, <1>10, <1>11 DEF Rooted
<1>13. NoLogs({Temp(n)}) /\ \A y \in DOMAIN m \cup DOMAIN k : y \in Names
  <2>1. NoLogs({Temp(n)})
    BY Kinded DEF NoLogs
  <2>2. IsDirectory(f.dir, f.data) /\ IsDirectory(g.dir, g.data)
    BY <1>7 DEF FilesOK, DirsOf
  <2>3. QED
    BY <2>1, <2>2, ImageNames DEF Now
<1>14. /\ \A y : y[1] = "log" => (y \in DOMAIN k <=> y \in DOMAIN m)
       /\ \A y \in DOMAIN m : y[1] = "log" => LogOf(k, y[2]) = LogOf(m, y[2]) /\ SafeLogOf(k, y[2]) = SafeLogOf(m, y[2])
  <2>1. \A y : y[1] = "log" => y \notin {Temp(n), CurrentFile}
    BY Kinded
  <2>2. \A y \in DOMAIN m : y[1] = "log" => y = LogName(y[2]) /\ k[y] = m[y]
    BY <1>5, <1>13, <2>1, Kinded DEF SameBut, LogName
  <2>3. QED
    BY <1>5, <2>1, <2>2 DEF SameBut, LogOf, SafeLogOf
<1>15. \A t \in w.tables : HasTable(k, t) /\ Stored(k, t) = Stored(m, t)
  <2>1. \A t : Table(t) \notin {Temp(n), CurrentFile}
    BY Kinded DEF Table, Temp
  <2>2. QED
    BY <1>5, <2>1 DEF SameBut, Holds, HasTable, Stored
<1>16. Sane(k, w, A)
  <2> HIDE DEF k
  <2>1. Holds(m, w, A)
    OBVIOUS
  <2> HIDE DEF m
  <2>2. QED
    BY <1>9, <1>14, <1>15, <2>1 DEF Sane, Holds
<1>17. (\A e \in A : Keeps(k, w, e)) /\ (\A e \in P : KeepsSafe(k, w, e))
  <2>1. (\A e \in A : Keeps(m, w, e)) /\ (\A e \in P : KeepsSafe(m, w, e))
    OBVIOUS
  <2> HIDE DEF m, k
  <2>2. QED
    BY <1>14, <1>15, <2>1 DEF Keeps, KeepsSafe, InTables
<1>18. NowOK(k, A, P)
  <2>1. man.content # <<>>
    OBVIOUS
  <2> HIDE DEF m, k
  <2>2. QED
    BY <1>10, <1>12, <1>16, <1>17, <2>1 DEF NowOK
<1>19. ThenOK(k, k, A, P)
  <2>1. man.safe = Len(man.content) \/ (n = 1 /\ man.safe = 0)
    OBVIOUS
  <2>2. man.safe = Len(man.content) => Safely(k) = w
    <3>1. SubSeq(man.content, 1, Len(man.content)) = man.content
      BY <1>11, SubSeqFull
    <3>2. QED
      BY <1>10, <3>1 DEF Safely
  <2>3. w.next \in Nat
    BY <1>11, SavedType
  <2> HIDE DEF m, k
  <2>4. QED
    BY <1>10, <1>12, <1>16, <1>17, <2>1, <2>2, <2>3 DEF ThenOK
<1>20. ASSUME NEW d \in DirsOf(f), Committed(d) PROVE ThenOK(Image(f, d), k, A, P)
  <2>1. ThenOK(Image(f, d), m, A, P) /\ Committed(f.dir) /\ NowOK(m, A, P)
    BY <1>20 DEF DiskOK
  <2>2. Full(m).next <= w.next /\ Full(m).next \in Nat /\ w.next \in Nat
    <3>1. w.next \in Nat
      BY <1>11, SavedType
    <3>2. Full(m).next \in Nat
      BY <1>6, <2>1, ViewType DEF Now, NowOK
    <3>3. QED
      BY <2>1, <3>1, <3>2
  <2>3. Man(Image(f, d)).safe # 0 => Safely(Image(f, d)).next \in Nat
    BY <1>20, <2>1, ViewType DEF ThenOK
  <2>4. \A e : \A v : Misses(Image(f, d), v, m, e) => Misses(Image(f, d), v, k, e)
    <3> HIDE DEF m, k
    <3>1. QED
      BY <1>14 DEF Misses
  <2> HIDE DEF m, k
  <2>5. QED
    BY <1>10, <2>1, <2>2, <2>3, <2>4 DEF ThenOK
<1>21. TempsApart(g)
  <2>1. TempsApart(f)
    BY DEF DiskOK
  <2>2. \A y \in DOMAIN g.dir : y[1] = "temp" => y \in DOMAIN f.dir /\ g.dir[y] = f.dir[y] /\ g.dir[y] # g.dir[CurrentFile]
    <3> SUFFICES ASSUME NEW y \in DOMAIN g.dir, y[1] = "temp"
                 PROVE  y \in DOMAIN f.dir /\ g.dir[y] = f.dir[y] /\ g.dir[y] # g.dir[CurrentFile]
      OBVIOUS
    <3>1. y # CurrentFile /\ y # Temp(n)
      BY <1>2, Kinded
    <3>2. y \in DOMAIN f.dir /\ g.dir[y] = f.dir[y]
      BY <1>1, <3>1
    <3>3. f.dir[y][1] = y
      BY <1>6, <3>1, <3>2 DEF FilesOK, IsDirectory, NamesInode
    <3>4. QED
      BY <1>1, <1>6, <3>1, <3>2, <3>3
  <2>3. \A y \in DOMAIN f.dir : y[1] = "temp" => \A d \in DirsOf(f) : Committed(d) => f.dir[y] # d[CurrentFile]
    BY <2>1 DEF TempsApart
  <2>4. \A d \in DirsOf(f) : Committed(d) => \A y \in DOMAIN d : y[1] = "temp" => d[y] # d[CurrentFile]
    BY <2>1 DEF TempsApart
  <2>5. \A d \in DirsOf(g) : d = g.dir \/ d \in DirsOf(f)
    BY <1>1 DEF DirsOf
  <2>6. QED
    BY <2>2, <2>3, <2>4, <2>5 DEF TempsApart
<1>22. DiskOK(g, A, P)
  <2> HIDE DEF m, k
  <2>1. \A d \in DirsOf(g) : d = g.dir \/ d \in DirsOf(f)
    BY <1>1 DEF DirsOf
  <2>2. \A d \in DirsOf(f) : ~Committed(d) => A = {} /\ \A y \in DOMAIN d : y[1] # "log"
    BY DEF DiskOK
  <2>3. QED
    BY <1>3, <1>8, <1>18, <1>19, <1>20, <1>21, <2>1, <2>2 DEF DiskOK, k, Now
<1>23. ASSUME NEW i, LogsStable(f, i) PROVE LogsStable(g, i)
  <2> SUFFICES ASSUME NEW d \in DirsOf(f), NEW y \in DOMAIN d, y[1] = "log", y[2] >= i
               PROVE  y \in DOMAIN g.dir /\ g.dir[y] = d[y]
    BY <1>1 DEF LogsStable
  <2>1. y \in DOMAIN f.dir /\ f.dir[y] = d[y]
    BY <1>23 DEF LogsStable, DirsOf
  <2>2. y \notin {Temp(n), CurrentFile}
    BY Kinded
  <2>3. QED
    BY <1>4, <2>1, <2>2 DEF Near
<1>24. QED
  BY <1>1, <1>2, <1>3, <1>4, <1>5, <1>7, <1>8, <1>9, <1>10, <1>22, <1>23 DEF g
-----------------------------------------------------------------------------
(* What can be recovered, in terms of images.                              *)
LEMMA Viewed ==
  ASSUME NEW f
  PROVE  LET m == Now(f)
         IN  /\ CurrentFile \in DOMAIN f.dir /\ Manifest(Cur(m)) \in DOMAIN f.dir =>
                   /\ Content(f, CurrentFile) = m[CurrentFile].content
                   /\ Content(f, CurrentFile)[1] = Cur(m)
                   /\ Content(f, Manifest(Cur(m))) = Man(m).content
                   /\ Saved(f) = Full(m)
             /\ \A x \in DOMAIN f.dir : Content(f, x) = m[x].content
             /\ DOMAIN m = DOMAIN f.dir
BY DEF Content, File, Now, Image, Cur, Man, Saved, Full

(* A good disk opens, and recovery finds what its version and logs hold.   *)
LEMMA OpensWhen ==
  ASSUME NEW f, NEW A, NEW P, FilesOK(f), Committed(f.dir), NowOK(Now(f), A, P)
  PROVE  /\ Opens(f) /\ HasManifest(f) /\ Saved(f) = Full(Now(f))
         /\ \A e : e \in Recovered(f) <=> Keeps(Now(f), Full(Now(f)), e)
<1> DEFINE m == Now(f)
           v == Full(m)
<1>1. Rooted(m) /\ Man(m).content # <<>> /\ Sane(m, v, A)
  BY DEF NowOK
<1>2. f.dir \in DirsOf(f) /\ DOMAIN m = DOMAIN f.dir
  BY DEF DirsOf, Now, Image
<1>3. m[CurrentFile].content = <<Cur(m)>> /\ v.log \in Nat /\ v.tables \subseteq Nat
  BY <1>1, <1>2, ViewType DEF Now
<1>4. /\ Content(f, CurrentFile) = <<Cur(m)>> /\ Content(f, CurrentFile)[1] = Cur(m)
      /\ Content(f, Manifest(Cur(m))) = Man(m).content
      /\ Saved(f) = v /\ \A x \in DOMAIN f.dir : Content(f, x) = m[x].content
  BY <1>1, <1>2, <1>3, Viewed DEF Committed, Rooted
<1>5. HasManifest(f)
  BY <1>1, <1>2, <1>4 DEF HasManifest, Committed, Rooted
<1>6. Opens(f)
  BY <1>1, <1>2, <1>4, <1>5 DEF Opens, Sane, Holds, HasTable
<1>7. ASSUME NEW e PROVE e \in Recovered(f) <=> Keeps(m, v, e)
  <2>1. \A t \in v.tables : InTable(f, t) = Stored(m, t)
    BY <1>1, <1>2, <1>4 DEF InTable, Stored, Sane, Holds, HasTable
  <2>2. \A n : n \in LogsToRecover(f) <=> \E x \in DOMAIN m : x[1] = "log" /\ x[2] = n /\ n >= v.log
    BY <1>2, <1>4 DEF LogsToRecover, Numbered
  <2>3. \A x \in DOMAIN m : x \in Names
    BY <1>2, ImageNames DEF FilesOK, Now
  <2>4. \A x \in DOMAIN m : x[1] = "log" => x = LogName(x[2]) /\ InLog(f, x[2]) = LogOf(m, x[2])
    <3> SUFFICES ASSUME NEW x \in DOMAIN m, x[1] = "log" PROVE x = LogName(x[2]) /\ InLog(f, x[2]) = LogOf(m, x[2])
      OBVIOUS
    <3>1. x = LogName(x[2])
      BY <2>3, Kinded DEF LogName
    <3>2. QED
      BY <1>2, <1>4, <3>1 DEF InLog, LogOf
  <2>5. e \in Recovered(f) <=> (\E t \in v.tables : e \in InTable(f, t)) \/ (\E n \in LogsToRecover(f) : e \in InLog(f, n))
    BY <1>4 DEF Recovered, Committed
  <2> HIDE DEF m, v
  <2>6. QED
    BY <2>1, <2>2, <2>4, <2>5 DEF Keeps, InTables
<1>8. QED
  BY <1>4, <1>5, <1>6, <1>7

(* Where there is no CURRENT there is nothing, and a database can be created. *)
LEMMA NothingThere ==
  ASSUME NEW f, ~Committed(f.dir)
  PROVE  Opens(f) /\ Recovered(f) = {}
BY DEF Opens, Recovered, Committed

(* Of a file a crash of the machine leaves a safe part.                    *)
LEMMA CutFile ==
  ASSUME NEW kind, NEW file, IsFile(kind, file), kind \in Kinds \cup {"CURRENT"}, NEW n \in Nat,
         file.safe <= n, n <= Len(file.content), kind # "log" => n = file.safe
  PROVE  /\ IsFile(kind, Cut(file, n))
         /\ kind \notin {"log", "MANIFEST"} => Cut(file, n) = file
         /\ Cut(file, n).content = SubSeq(file.content, 1, n) /\ Cut(file, n).safe = n
         /\ Len(Cut(file, n).content) = n
<1> DEFINE s == file.content
           c == SubSeq(s, 1, n)
<1>1. Cut(file, n) = [content |-> c, safe |-> n]
  BY DEF Cut
<1>2. \A S : s \in Seq(S) => c \in Seq(S) /\ Len(c) = n /\ (n = Len(s) => c = s)
  <2> SUFFICES ASSUME NEW S, s \in Seq(S) PROVE c \in Seq(S) /\ Len(c) = n /\ (n = Len(s) => c = s)
    OBVIOUS
  <2>1. n <= Len(s)
    OBVIOUS
  <2> HIDE DEF s
  <2>2. QED
    BY <2>1, Prefix
<1>3. CASE kind = "log" \/ kind = "MANIFEST"
  <2>1. \E S : s \in Seq(S)
    BY <1>3 DEF IsFile
  <2>2. s \in Seq(Edits) => c \in Seq(Edits)
    BY <1>2
  <2>3. s \in Seq(Pairs) => c \in Seq(Pairs)
    BY <1>2
  <2>4. (kind = "log" => s \in Seq(Pairs)) /\ (kind = "MANIFEST" => s \in Seq(Edits))
    BY DEF IsFile
  <2>5. Len(c) = n
    BY <1>2, <2>1
  <2> HIDE DEF s, c
  <2>6. IsFile(kind, [content |-> c, safe |-> n])
    BY <1>3, <2>2, <2>3, <2>4, <2>5 DEF IsFile
  <2>7. QED
    BY <1>1, <1>3, <2>5, <2>6 DEF c, s
<1>4. CASE kind # "log" /\ kind # "MANIFEST"
  <2>1. n = Len(s) /\ \E S : s \in Seq(S)
    <3>1. CASE kind = "table"
      <4>1. file = NewFile \/ IsWhole(file)
        BY <3>1 DEF IsFile
      <4>2. file = NewFile => n = 0 /\ Len(s) = 0
        BY <3>1 DEF NewFile
      <4>3. s \in Seq(SUBSET Pairs)
        BY <3>1 DEF IsFile
      <4>4. IsWhole(file) => n = 1 /\ Len(s) = 1
        BY <3>1 DEF IsWhole
      <4>5. QED
        BY <4>1, <4>2, <4>3, <4>4
    <3>2. CASE kind \in {"CURRENT", "temp"}
      <4>1. s \in Seq(Nat)
        BY <3>2 DEF IsFile
      <4>2. QED
        BY <3>2, <4>1 DEF IsFile, IsWhole
    <3>3. QED
      BY <1>4, <3>1, <3>2 DEF Kinds
  <2>2. c = s /\ Len(c) = n
    BY <1>2, <2>1
  <2>3. file = [content |-> s, safe |-> n]
    <3>1. n = file.safe
      BY <1>4
    <3>2. \E S : file \in [content : S, safe : Nat]
      BY <1>4 DEF IsFile, Kinds
    <3>3. QED
      BY <3>1, <3>2
  <2>4. Cut(file, n) = file
    BY <1>1, <2>2, <2>3
  <2> HIDE DEF s, c
  <2>5. QED
    BY <1>1, <1>4, <2>2, <2>4 DEF s, c
<1>5. QED
  BY <1>3, <1>4
(* A prefix of a sequence holds less than a longer one.                    *)
LEMMA PrefixGrows ==
  ASSUME NEW S, NEW s \in Seq(S), NEW i \in Nat, NEW n \in Nat, i <= n, n <= Len(s)
  PROVE  /\ ToSet(SubSeq(s, 1, i)) \subseteq ToSet(SubSeq(s, 1, n))
         /\ SubSeq(SubSeq(s, 1, n), 1, n) = SubSeq(s, 1, n)
<1>0. Len(s) \in Nat
  BY LenProperties
<1>1. \A j \in 1 .. n : j \in 1 .. Len(s) /\ s[j] \in S
  BY <1>0, ElementOfSeq
<1> DEFINE a == SubSeq(s, 1, i)
           b == SubSeq(s, 1, n)
<1>2. b \in Seq(S) /\ Len(b) = n /\ \A j \in 1 .. n : b[j] = s[j]
  <2>1. /\ b \in Seq(S)
        /\ Len(b) = IF 1<=n THEN n-1+1 ELSE 0
        /\ \A j \in 1 .. n-1+1 : b[j] = s[1+j-1]
    BY <1>1, SubSeqProperties
  <2>2. QED
    BY <2>1
<1>3. a \in Seq(S) /\ Len(a) = i /\ \A j \in 1 .. i : a[j] = s[j]
  <2>0. \A j \in 1 .. i : j \in 1 .. n /\ s[j] \in S
    BY <1>1
  <2>1. /\ a \in Seq(S)
        /\ Len(a) = IF 1<=i THEN i-1+1 ELSE 0
        /\ \A j \in 1 .. i-1+1 : a[j] = s[1+j-1]
    BY <2>0, SubSeqProperties
  <2>2. QED
    BY <2>1
<1> HIDE DEF a, b
<1>4. DOMAIN a = 1 .. i /\ DOMAIN b = 1 .. n
  BY <1>2, <1>3, LenProperties
<1>5. ToSet(a) \subseteq ToSet(b)
  BY <1>2, <1>3, <1>4 DEF ToSet
<1>6. SubSeq(b, 1, n) = b
  BY <1>2, SubSeqFull
<1>7. QED
  BY <1>5, <1>6 DEF a, b

(* A crash of the machine leaves one of the directories, and of its files  *)
(* the safe parts, of a log perhaps more.                                  *)
LEMMA Crashed ==
  ASSUME NEW f, FilesOK(f), InOrder, Writeback \subseteq {"log", "MANIFEST"}, NEW g \in AfterMachineCrash(f)
  PROVE  \E d \in DirsOf(f) :
            /\ g.dir = d /\ g.older = {} /\ DOMAIN g.data = Range(d)
            /\ \A i \in Range(d) : \E n \in Nat : /\ f.data[i].safe <= n /\ n <= Len(f.data[i].content)
                                                  /\ i[1][1] # "log" => n = f.data[i].safe
                                                  /\ g.data[i] = Cut(f.data[i], n)
<1>0. PICK d \in DirsOf(f) : \E n \in Lengths(f, d) :
         g = [dir |-> d, older |-> {}, data |-> [i \in Range(d) |-> Cut(f.data[i], n[i])]]
  BY DEF AfterMachineCrash
<1>1. PICK n \in Lengths(f, d) :
         g = [dir |-> d, older |-> {}, data |-> [i \in Range(d) |-> Cut(f.data[i], n[i])]]
  BY <1>0
<1> DEFINE loose == {i \in Range(d) : i[1][1] \in Writeback}
           most == Max({0} \cup {Len(f.data[i].content) : i \in loose})
<1>2. PICK m \in [loose -> 0 .. most] :
         /\ \A i \in loose : m[i] \in f.data[i].safe .. Len(f.data[i].content)
         /\ n = [i \in Range(d) |-> IF i \in loose THEN m[i] ELSE f.data[i].safe]
  BY DEF Lengths
<1>3. \A i \in Range(d) : i \in DOMAIN f.data
  BY DEF FilesOK, IsDirectory, Range
<1>4. ASSUME NEW i \in Range(d)
      PROVE  /\ f.data[i].safe \in Nat /\ Len(f.data[i].content) \in Nat /\ f.data[i].safe <= Len(f.data[i].content)
  <2> DEFINE file == f.data[i]
  <2>1. IsFile(i[1][1], file) /\ i[1] \in Names
    BY <1>3 DEF FilesOK
  <2>2. i[1][1] \in Kinds \cup {"CURRENT"}
    BY <2>1, Kinded
  <2> HIDE DEF file
  <2>3. file.safe \in Nat /\ Len(file.content) \in Nat /\ file.safe <= Len(file.content)
    <3>1. CASE i[1][1] \in {"log", "MANIFEST"}
      <4>1. file.safe \in Nat /\ file.safe <= Len(file.content)
        BY <2>1, <3>1 DEF IsFile
      <4>2. \E S : file.content \in Seq(S)
        BY <2>1, <3>1 DEF IsFile
      <4>3. Len(file.content) \in Nat
        BY <4>2, LenProperties
      <4>4. QED
        BY <4>1, <4>3, Zenon
    <3>2. CASE i[1][1] \in {"CURRENT", "temp"}
      <4>1. IsWhole(file) => file.safe \in Nat /\ Len(file.content) \in Nat /\ file.safe <= Len(file.content)
        BY DEF IsWhole
      <4>2. IsWhole(file)
        BY <2>1, <3>2 DEF IsFile
      <4>3. QED
        BY <4>1, <4>2, Zenon
    <3>3. CASE i[1][1] = "table"
      <4>1. file = NewFile => file.safe \in Nat /\ Len(file.content) \in Nat /\ file.safe <= Len(file.content)
        BY DEF NewFile
      <4>2. IsWhole(file) => file.safe \in Nat /\ Len(file.content) \in Nat /\ file.safe <= Len(file.content)
        BY DEF IsWhole
      <4>3. file = NewFile \/ IsWhole(file)
        BY <2>1, <3>3 DEF IsFile
      <4>4. QED
        BY <4>1, <4>2, <4>3, Zenon
    <3>4. QED
      BY <2>2, <3>1, <3>2, <3>3 DEF Kinds
  <2>4. QED
    BY <2>3 DEF file
<1>5. ASSUME NEW i \in Range(d)
      PROVE  /\ n[i] \in Nat /\ f.data[i].safe <= n[i] /\ n[i] <= Len(f.data[i].content)
             /\ i[1][1] # "log" => n[i] = f.data[i].safe
             /\ g.data[i] = Cut(f.data[i], n[i])
  <2>1. i \in loose => i[1][1] = "log"
    BY DEF InOrder
  <2>2. g.data[i] = Cut(f.data[i], n[i])
    BY <1>1
  <2>3. n[i] = IF i \in loose THEN m[i] ELSE f.data[i].safe
    BY <1>2
  <2>4. i \in loose => m[i] \in f.data[i].safe .. Len(f.data[i].content)
    BY <1>2
  <2> HIDE DEF loose
  <2>5. QED
    BY <1>4, <2>1, <2>2, <2>3, <2>4
<1>6. g.dir = d /\ g.older = {} /\ DOMAIN g.data = Range(d)
  BY <1>1
<1>7. QED
  BY <1>5, <1>6

(* The image that is left.                                                 *)
Left(f, g, d) ==
    /\ d \in DirsOf(f) /\ g.dir = d /\ g.older = {} /\ DirsOf(g) = {d}
    /\ DOMAIN Now(g) = DOMAIN d /\ DOMAIN Image(f, d) = DOMAIN d
    /\ \A x \in DOMAIN d :
          LET a == Image(f, d)[x]
              b == Now(g)[x]
          IN  /\ x[1] \notin {"log", "MANIFEST"} => b = a
              /\ x[1] = "MANIFEST" => /\ b.content = SubSeq(a.content, 1, a.safe) /\ b.safe = a.safe
                                      /\ Len(b.content) = b.safe
                                      /\ a.safe = 0 => b = NewFile
              /\ x[1] = "log" => /\ LogOf(Now(g), x[2]) \subseteq LogOf(Image(f, d), x[2])
                                 /\ SafeLogOf(Image(f, d), x[2]) \subseteq LogOf(Now(g), x[2])
                                 /\ SafeLogOf(Now(g), x[2]) = LogOf(Now(g), x[2])

(* A crash of the machine leaves one of the directories, with files cut short. *)
LEMMA CrashLeaves ==
  ASSUME NEW f, FilesOK(f), InOrder, Writeback \subseteq {"log", "MANIFEST"}, NEW g \in AfterMachineCrash(f)
  PROVE  FilesOK(g) /\ \E d \in DirsOf(f) : Left(f, g, d)
<1>1. PICK d \in DirsOf(f) :
            /\ g.dir = d /\ g.older = {} /\ DOMAIN g.data = Range(d)
            /\ \A i \in Range(d) : \E n \in Nat : /\ f.data[i].safe <= n /\ n <= Len(f.data[i].content)
                                                  /\ i[1][1] # "log" => n = f.data[i].safe
                                                  /\ g.data[i] = Cut(f.data[i], n)
  BY Crashed
<1>2. DirsOf(g) = {d}
  BY <1>1 DEF DirsOf
<1>3. \A i \in Range(d) : i \in DOMAIN f.data /\ i = <<i[1], i[2]>> /\ i[1] \in Names /\ IsFile(i[1][1], f.data[i])
  BY DEF FilesOK, IsDirectory, Range
<1>4. \A i \in Range(d) : i[1][1] \in Kinds \cup {"CURRENT"}
  BY <1>3, Kinded
<1>5. \A i \in Range(d) : IsFile(i[1][1], g.data[i])
  BY <1>1, <1>3, <1>4, CutFile
<1>6. IsDirectory(d, g.data)
  BY <1>1 DEF FilesOK, IsDirectory, Range
<1>7. IsFiniteSet(DOMAIN g.data)
  BY <1>1, <1>3, FS_Subset DEF FilesOK
<1>8. FilesOK(g)
  BY <1>1, <1>2, <1>3, <1>5, <1>6, <1>7 DEF FilesOK
<1>9. ASSUME NEW x \in DOMAIN d
      PROVE  LET a == Image(f, d)[x]
                 b == Now(g)[x]
             IN  /\ x[1] \notin {"log", "MANIFEST"} => b = a
                 /\ x[1] = "MANIFEST" => /\ b.content = SubSeq(a.content, 1, a.safe) /\ b.safe = a.safe
                                         /\ Len(b.content) = b.safe
                                         /\ a.safe = 0 => b = NewFile
                 /\ x[1] = "log" => /\ LogOf(Now(g), x[2]) \subseteq LogOf(Image(f, d), x[2])
                                    /\ SafeLogOf(Image(f, d), x[2]) \subseteq LogOf(Now(g), x[2])
                                    /\ SafeLogOf(Now(g), x[2]) = LogOf(Now(g), x[2])
  <2> DEFINE i == d[x]
             a == f.data[i]
             b == g.data[i]
  <2>1. i \in Range(d) /\ x \in Names /\ NamesInode(x, i)
    BY DEF Range, FilesOK, IsDirectory
  <2>2. PICK n \in Nat : /\ a.safe <= n /\ n <= Len(a.content)
                         /\ i[1][1] # "log" => n = a.safe
                         /\ b = Cut(a, n)
    BY <1>1, <2>1
  <2>3. Image(f, d)[x] = a /\ Now(g)[x] = b
    BY <1>1 DEF Now, Image
  <2>4. x # CurrentFile => i[1] = x
    BY <2>1 DEF NamesInode
  <2>5. IsFile(i[1][1], a) /\ i[1][1] \in Kinds \cup {"CURRENT"}
    BY <1>3, <1>4, <2>1
  <2> HIDE DEF a, b, i
  <2>6. /\ i[1][1] \notin {"log", "MANIFEST"} => b = a
        /\ b.content = SubSeq(a.content, 1, n) /\ b.safe = n /\ Len(b.content) = n
        /\ b = [content |-> SubSeq(a.content, 1, n), safe |-> n]
    BY <2>2, <2>5, CutFile DEF Cut
  <2>7. x[1] \notin {"log", "MANIFEST"} => b = a
    <3>1. x = CurrentFile => i[1][1] \notin {"log", "MANIFEST"}
      BY <2>1, Kinded DEF NamesInode
    <3>2. QED
      BY <2>4, <2>6, <3>1
  <2>8. ASSUME x[1] = "MANIFEST"
        PROVE  /\ b.content = SubSeq(a.content, 1, a.safe) /\ b.safe = a.safe
               /\ Len(b.content) = b.safe
               /\ a.safe = 0 => b = NewFile
    <3>1. i[1] = x /\ n = a.safe
      BY <2>2, <2>4, <2>8, Kinded
    <3>2. a.content \in Seq(Edits)
      BY <2>5, <2>8, <3>1 DEF IsFile
    <3>3. n = 0 => SubSeq(a.content, 1, n) = <<>>
      <4> DEFINE s == a.content
      <4>1. s \in Seq(Edits) /\ n <= Len(s)
        BY <2>2, <3>2
      <4> HIDE DEF s
      <4>2. n = 0 => SubSeq(s, 1, n) = <<>>
        BY <4>1, Prefix
      <4>3. QED
        BY <4>2 DEF s
    <3>4. n = 0 => b = NewFile
      BY <2>6, <3>3 DEF NewFile
    <3>5. QED
      BY <2>6, <3>1, <3>4
  <2>9. ASSUME x[1] = "log"
        PROVE  /\ LogOf(Now(g), x[2]) \subseteq LogOf(Image(f, d), x[2])
               /\ SafeLogOf(Image(f, d), x[2]) \subseteq LogOf(Now(g), x[2])
               /\ SafeLogOf(Now(g), x[2]) = LogOf(Now(g), x[2])
    <3>1. x = LogName(x[2]) /\ i[1] = x
      BY <2>1, <2>4, <2>9, Kinded DEF LogName
    <3>2. /\ LogOf(Now(g), x[2]) = ToSet(b.content) /\ LogOf(Image(f, d), x[2]) = ToSet(a.content)
          /\ SafeLogOf(Image(f, d), x[2]) = ToSet(SubSeq(a.content, 1, a.safe))
          /\ SafeLogOf(Now(g), x[2]) = ToSet(SubSeq(b.content, 1, b.safe))
      BY <2>3, <3>1 DEF LogOf, SafeLogOf
    <3> DEFINE s == a.content
               k == a.safe
    <3>3. s \in Seq(Pairs) /\ k \in Nat /\ k <= n /\ n <= Len(s)
      BY <2>2, <2>5, <2>9, <3>1 DEF IsFile
    <3>4. b.content = SubSeq(s, 1, n) /\ b.safe = n
      BY <2>6
    <3> HIDE DEF s, k
    <3>5. /\ ToSet(SubSeq(s, 1, k)) \subseteq ToSet(SubSeq(s, 1, n)) /\ SubSeq(SubSeq(s, 1, n), 1, n) = SubSeq(s, 1, n)
          /\ ToSet(SubSeq(s, 1, n)) \subseteq ToSet(s)
      BY <3>3, PrefixGrows, Prefix
    <3>6. QED
      BY <3>2, <3>4, <3>5 DEF s, k
  <2>10. QED
    BY <2>3, <2>7, <2>8, <2>9
<1>10. DOMAIN Now(g) = DOMAIN d /\ DOMAIN Image(f, d) = DOMAIN d
  BY <1>1 DEF Now, Image
<1>11. Left(f, g, d)
  BY <1>1, <1>2, <1>9, <1>10 DEF Left
<1>12. QED
  BY <1>8, <1>11
LostLog(f, g, e) == \E x \in DOMAIN f.dir : x[1] = "log" /\ e \in LogOf(Now(f), x[2]) /\ x \notin DOMAIN g.dir

(* What the crash brings back is what was safe of some earlier state.      *)
LEMMA CrashKeeps ==
  ASSUME NEW f, NEW g, NEW d, NEW A, NEW P, FilesOK(f), FilesOK(g), DiskOK(f, A, P), Left(f, g, d),
         Committed(d), Man(Image(f, d)).safe # 0
  PROVE  /\ Committed(g.dir) /\ NowOK(Now(g), A \cap Recovered(g), P \cap Recovered(g))
         /\ DiskOK(g, A \cap Recovered(g), P \cap Recovered(g))
         /\ Recovered(g) \subseteq A
         /\ \A e \in P : e \in Recovered(g) \/ LostLog(f, g, e)
<1> DEFINE a == Image(f, d)
           b == Now(g)
           v == Safely(a)
           R == Recovered(g)
<1>1. /\ d \in DirsOf(f) /\ g.dir = d /\ g.older = {} /\ DirsOf(g) = {d}
      /\ DOMAIN b = DOMAIN d /\ DOMAIN a = DOMAIN d
  BY DEF Left
<1>2. ThenOK(a, Now(f), A, P)
  BY <1>1 DEF DiskOK
<1>3. Rooted(a) /\ Sane(a, v, A) /\ \A e \in P : KeepsSafe(a, v, e) \/ Misses(a, v, Now(f), e)
  BY <1>2 DEF ThenOK
<1>4. /\ CurrentFile \in DOMAIN a /\ Cur(a) \in Nat /\ a[CurrentFile].content = <<Cur(a)>>
      /\ Man(a).content \in Seq(Edits) /\ Man(a).safe \in Nat /\ Man(a).safe <= Len(Man(a).content)
      /\ v.next \in Nat /\ v.log \in Nat
  BY <1>1, <1>3, ViewType
<1>5. \A x \in DOMAIN d : x \in Names
  BY <1>1 DEF FilesOK, IsDirectory
<1>6. \A x \in DOMAIN d :
              /\ x[1] \notin {"log", "MANIFEST"} => b[x] = a[x]
              /\ x[1] = "MANIFEST" => /\ b[x].content = SubSeq(a[x].content, 1, a[x].safe) /\ b[x].safe = a[x].safe
                                      /\ Len(b[x].content) = b[x].safe
              /\ x[1] = "log" => /\ LogOf(b, x[2]) \subseteq LogOf(a, x[2])
                                 /\ SafeLogOf(a, x[2]) \subseteq LogOf(b, x[2])
                                 /\ SafeLogOf(b, x[2]) = LogOf(b, x[2])
  BY DEF Left
<1>7. Cur(b) = Cur(a) /\ Manifest(Cur(a)) \in DOMAIN d
  <2>1. CurrentFile \in DOMAIN d /\ b[CurrentFile] = a[CurrentFile]
    BY <1>1, <1>4, <1>6, Kinded
  <2>2. QED
    BY <1>1, <1>3, <2>1 DEF Cur, Rooted
<1>8. /\ Man(b).content = SubSeq(Man(a).content, 1, Man(a).safe) /\ Man(b).safe = Man(a).safe
      /\ Len(Man(b).content) = Man(b).safe
  BY <1>6, <1>7, Kinded DEF Man
<1>9. Full(b) = v
  BY <1>8 DEF Full, Safely
<1>10. /\ Committed(g.dir) /\ Rooted(b) /\ Man(b).content # <<>> /\ Man(b).safe # 0
  <2>1. Man(b).safe \in Nat \ {0} /\ Len(Man(b).content) # 0
    BY <1>4, <1>8
  <2>2. Man(b).content # <<>>
    <3> DEFINE c == Man(b).content
    <3>1. Len(c) # 0
      BY <2>1
    <3> HIDE DEF c
    <3>2. c # <<>>
      BY <3>1
    <3>3. QED
      BY <3>2 DEF c
  <2> HIDE DEF a, b
  <2>3. QED
    BY <1>1, <1>7, <2>1, <2>2 DEF Rooted
<1>11. Safely(b) = Full(b)
  <2>1. Man(b).content \in Seq(Edits)
    <3>1. g.dir \in DirsOf(g)
      BY DEF DirsOf
    <3>2. QED
      BY <1>10, <3>1, ViewType DEF Now
  <2>2. SubSeq(Man(b).content, 1, Len(Man(b).content)) = Man(b).content
    BY <2>1, SubSeqFull
  <2>3. QED
    BY <1>8, <2>2 DEF Safely, Full
<1>12. \A t \in v.tables : HasTable(b, t) /\ Stored(b, t) = Stored(a, t)
  <2>1. \A t \in v.tables : HasTable(a, t)
    BY <1>3 DEF Sane, Holds
  <2>2. \A t : Table(t)[1] \notin {"log", "MANIFEST"}
    BY DEF Table
  <2>3. \A t \in v.tables : Table(t) \in DOMAIN d /\ b[Table(t)] = a[Table(t)]
    BY <1>1, <1>6, <2>1, <2>2 DEF HasTable
  <2> HIDE DEF b, a
  <2>4. QED
    BY <1>1, <2>1, <2>3 DEF HasTable, Stored
<1>13. \A e : Keeps(b, v, e) => KeepsSafe(b, v, e)
  <2> HIDE DEF a, b, v
  <2>1. QED
    BY <1>1, <1>6 DEF Keeps, KeepsSafe
<1>14. \A e : Keeps(b, v, e) => e \in A
  <2> SUFFICES ASSUME NEW e, Keeps(b, v, e) PROVE e \in A
    OBVIOUS
  <2> HIDE DEF a, b, v
  <2>1. CASE InTables(b, v, e)
    BY <1>3, <1>12, <2>1 DEF InTables, Sane, Holds
  <2>2. CASE ~InTables(b, v, e)
    <3>1. PICK x \in DOMAIN b : x[1] = "log" /\ x[2] >= v.log /\ e \in LogOf(b, x[2])
      BY <2>2 DEF Keeps
    <3>2. QED
      BY <1>1, <1>3, <1>6, <3>1 DEF Sane, Holds
  <2>3. QED
    BY <2>1, <2>2
<1>15. ASSUME NEW B, \A e : Keeps(b, v, e) => e \in B
       PROVE  Sane(b, v, B)
  <2> HIDE DEF a, b, v
  <2>1. v.log < v.next /\ 0 < Cur(b) /\ Cur(b) < v.next
    BY <1>3, <1>7 DEF Sane, Holds
  <2>2. \A t \in v.tables : t < v.next /\ HasTable(b, t) /\ \A e \in Stored(b, t) : e \in B /\ e[2] <= v.last
    BY <1>3, <1>12, <1>15 DEF Sane, Holds, Keeps, InTables
  <2>3. \A x \in DOMAIN b : x[1] = "log" /\ x[2] >= v.log => LogOf(b, x[2]) \subseteq B
    BY <1>15 DEF Keeps
  <2>4. QED
    BY <2>1, <2>2, <2>3 DEF Sane, Holds
<1>16. \A e : e \in R <=> Keeps(b, v, e)
  <2>1. NowOK(b, {e \in A : Keeps(b, v, e)}, {})
    <3> DEFINE B == {e \in A : Keeps(b, v, e)}
    <3>1. \A e : Keeps(b, v, e) <=> e \in B
      BY <1>14
    <3> HIDE DEF B, a, b, v
    <3>2. Sane(b, v, B)
      BY <1>15, <3>1
    <3>3. NowOK(b, B, {})
      BY <1>9, <1>10, <3>1, <3>2 DEF NowOK
    <3>4. QED
      BY <3>3 DEF B
  <2>2. \A e : e \in Recovered(g) <=> Keeps(b, Full(b), e)
    BY <1>10, <2>1, OpensWhen
  <2> HIDE DEF a, b, v
  <2>3. QED
    BY <1>9, <2>2
<1>17. R \subseteq A
  <2> HIDE DEF R, b, v
  <2>1. QED
    BY <1>14, <1>16
<1>18. NowOK(b, A \cap R, P \cap R) /\ ThenOK(b, b, A \cap R, P \cap R)
  <2> DEFINE B == A \cap R
  <2> HIDE DEF R, a, b, v
  <2>1. \A e : Keeps(b, v, e) <=> e \in B
    BY <1>14, <1>16
  <2> HIDE DEF B
  <2>2. Sane(b, v, B)
    BY <1>15, <2>1
  <2>3. \A e \in P \cap R : KeepsSafe(b, v, e)
    BY <1>13, <1>16
  <2>4. v.next <= v.next
    BY <1>4 DEF v, a
  <2>5. NowOK(b, B, P \cap R) /\ ThenOK(b, b, B, P \cap R)
    BY <1>9, <1>10, <1>11, <2>1, <2>2, <2>3, <2>4 DEF NowOK, ThenOK
  <2>6. QED
    BY <2>5 DEF B
<1>19. TempsApart(g)
  BY <1>1 DEF TempsApart, DiskOK
<1>20. DiskOK(g, A \cap R, P \cap R)
  <2>1. \A c \in DirsOf(g) : c = g.dir /\ Image(g, c) = b
    BY <1>1 DEF Now
  <2> HIDE DEF R, b
  <2>2. QED
    BY <1>10, <1>18, <1>19, <2>1 DEF DiskOK, b
<1>21. ASSUME NEW e \in P PROVE e \in R \/ LostLog(f, g, e)
  <2> HIDE DEF R, a, b, v
  <2>1. CASE KeepsSafe(a, v, e)
    <3>1. CASE InTables(a, v, e)
      <4>1. Keeps(b, v, e)
        BY <1>12, <3>1 DEF InTables, Keeps
      <4>2. QED
        BY <1>16, <4>1
    <3>2. CASE ~InTables(a, v, e)
      <4>1. PICK x \in DOMAIN a : x[1] = "log" /\ x[2] >= v.log /\ e \in SafeLogOf(a, x[2])
        BY <2>1, <3>2 DEF KeepsSafe
      <4>2. Keeps(b, v, e)
        BY <1>1, <1>6, <4>1 DEF Keeps
      <4>3. QED
        BY <1>16, <4>2
    <3>3. QED
      BY <3>1, <3>2
  <2>2. CASE Misses(a, v, Now(f), e)
    <3>1. PICK x \in DOMAIN Now(f) \ DOMAIN a : x[1] = "log" /\ e \in LogOf(Now(f), x[2])
      BY <2>2 DEF Misses
    <3>2. x \in DOMAIN f.dir /\ x \notin DOMAIN g.dir
      BY <1>1, <3>1 DEF Now, Image
    <3>3. QED
      BY <3>1, <3>2 DEF LostLog
  <2>3. QED
    BY <1>3, <2>1, <2>2
<1>22. QED
  BY <1>10, <1>17, <1>18, <1>20, <1>21

(* Unless the manifest of NewDB was lost.                                  *)
LEMMA CrashLoses ==
  ASSUME NEW f, NEW g, NEW d, NEW A, NEW P, FilesOK(f), DiskOK(f, A, P), Left(f, g, d),
         Committed(d), Man(Image(f, d)).safe = 0
  PROVE  Committed(g.dir) /\ FirstManifestLost(g) /\ ~Opens(g) /\ Manifest(1) \in DOMAIN g.dir /\ Man(Now(g)) = NewFile
<1> DEFINE a == Image(f, d)
           b == Now(g)
<1>1. /\ d \in DirsOf(f) /\ g.dir = d /\ DOMAIN b = DOMAIN d /\ DOMAIN a = DOMAIN d
  BY DEF Left
<1>2. Rooted(a)
  BY <1>1 DEF DiskOK, ThenOK
<1>3. a[CurrentFile].content = <<Cur(a)>> /\ CurrentFile \in DOMAIN d /\ Cur(a) = 1
  BY <1>1, <1>2, ViewType DEF Rooted
<1>4. b[CurrentFile] = a[CurrentFile]
  BY <1>3, Kinded DEF Left
<1>5. Manifest(1) \in DOMAIN d /\ Manifest(1)[1] = "MANIFEST" /\ a[Manifest(1)].safe = 0
  BY <1>1, <1>2, <1>3, Kinded DEF Rooted, Man
<1>6. b[Manifest(1)] = NewFile
  BY <1>5 DEF Left
<1>7. b[CurrentFile].content = <<1>> /\ Cur(b) = 1
  BY <1>3, <1>4 DEF Cur
<1>8. /\ \A x \in DOMAIN g.dir : Content(g, x) = b[x].content
  BY DEF Content, File, Now, Image
<1>9. Content(g, CurrentFile) = <<1>> /\ Content(g, CurrentFile)[1] = 1
  <2>1. CurrentFile \in DOMAIN g.dir /\ b[CurrentFile].content = <<1>>
    BY <1>1, <1>3, <1>7
  <2> HIDE DEF b
  <2>2. Content(g, CurrentFile) = <<1>>
    BY <1>8, <2>1
  <2>3. QED
    BY <2>2
<1>10. Content(g, Manifest(1)) = <<>>
  BY <1>1, <1>5, <1>6, <1>8 DEF NewFile
<1>11. ~HasManifest(g)
  BY <1>9, <1>10 DEF HasManifest
<1>12. Committed(g.dir) /\ FirstManifestLost(g) /\ ~Opens(g)
  BY <1>1, <1>3, <1>9, <1>11 DEF Committed, FirstManifestLost, Opens
<1>13. Man(b) = NewFile
  BY <1>6, <1>7 DEF Man
<1>14. QED
  BY <1>1, <1>5, <1>12, <1>13

(* What a crash of the machine can do.                                     *)
LEMMA MachineCrashes ==
  ASSUME NEW f, NEW A, NEW P, FilesOK(f), DiskOK(f, A, P), P \subseteq A,
         InOrder, Writeback \subseteq {"log", "MANIFEST"}, NEW g \in AfterMachineCrash(f)
  PROVE  /\ FilesOK(g) /\ g.older = {}
         /\ \/ /\ Committed(g.dir) /\ FirstManifestLost(g) /\ ~Opens(g)
               /\ Manifest(1) \in DOMAIN g.dir /\ Man(Now(g)) = NewFile
            \/ /\ Opens(g) /\ DiskOK(g, A \cap Recovered(g), P \cap Recovered(g))
               /\ Recovered(g) \subseteq A
               /\ \A e \in P : e \in Recovered(g) \/ LostLog(f, g, e)
<1>1. FilesOK(g) /\ \E d \in DirsOf(f) : Left(f, g, d)
  BY CrashLeaves
<1>2. PICK d \in DirsOf(f) : Left(f, g, d)
  BY <1>1
<1>3. g.dir = d /\ g.older = {} /\ DirsOf(g) = {d}
  BY <1>2 DEF Left
<1>4. CASE ~Committed(d)
  <2>1. A = {} /\ \A x \in DOMAIN d : x[1] # "log"
    BY <1>4 DEF DiskOK
  <2>2. Opens(g) /\ Recovered(g) = {}
    BY <1>3, <1>4, NothingThere
  <2>3. DiskOK(g, {}, {})
    BY <1>3, <1>4, <2>1 DEF DiskOK, TempsApart
  <2>4. A \cap Recovered(g) = {} /\ P \cap Recovered(g) = {}
    BY <2>2
  <2>5. QED
    BY <1>1, <1>3, <2>1, <2>2, <2>3, <2>4
<1>5. CASE Committed(d) /\ Man(Image(f, d)).safe = 0
  BY <1>1, <1>2, <1>3, <1>5, CrashLoses
<1>6. CASE Committed(d) /\ Man(Image(f, d)).safe # 0
  <2>1. /\ Committed(g.dir) /\ NowOK(Now(g), A \cap Recovered(g), P \cap Recovered(g))
        /\ DiskOK(g, A \cap Recovered(g), P \cap Recovered(g))
        /\ Recovered(g) \subseteq A
        /\ \A e \in P : e \in Recovered(g) \/ LostLog(f, g, e)
    BY <1>1, <1>2, <1>6, CrashKeeps
  <2>2. Opens(g)
    BY <1>1, <2>1, OpensWhen
  <2>3. QED
    BY <1>1, <1>3, <2>1, <2>2
<1>7. QED
  BY <1>4, <1>5, <1>6
-----------------------------------------------------------------------------
(* The steps.                                                              *)
LostInv == FilesOK(Files) /\ MemoryTypeOK /\ LostOK
LiveInv == FilesOK(Files) /\ MemoryTypeOK /\ DiskOK(Files, acked, promised)
ClosedInv == LiveInv /\ pc \in ClosedStates /\ ClosedOK
OpeningInv == LiveInv /\ pc \in OpeningStates /\ OpeningOK
UpInv == LiveInv /\ pc \in UpStates /\ UpOK

(* The invariant, by the phase the database is in.                         *)
LEMMA Phases ==
  RInv <=> LostInv \/ ClosedInv \/ OpeningInv \/ UpInv
BY DEF RInv, LostInv, LiveInv, ClosedInv, OpeningInv, UpInv

(* The invariant after a step, by the phase it leads to.                   *)
LEMMA PhasesNext ==
  ASSUME LostInv' \/ ClosedInv' \/ OpeningInv' \/ UpInv'
  PROVE  RInv'
BY DEF RInv, LostInv, LiveInv, ClosedInv, OpeningInv, UpInv

IsDisk(g) == g = [dir |-> g.dir, older |-> g.older, data |-> g.data]

(* Every operation on files makes a directory, older ones and files.       *)
LEMMA Disks ==
  /\ IsDisk(Files)
  /\ \A f, x, file : IsDisk(SetFile(f, x, file)) /\ IsDisk(AddFile(f, x)) /\ IsDisk(Create(f, x))
  /\ \A f, x, e : IsDisk(WriteFile(f, x, e)) /\ IsDisk(Sync(f, x))
  /\ \A f, X : IsDisk(f) => IsDisk(Unlink(f, X))
  /\ \A f, x, y : IsDisk(Rename(f, x, y))
  /\ \A f : IsDisk(SyncDir(f)) /\ \A g \in AfterMachineCrash(f) : IsDisk(g)
<1>1. \A f, x, file : IsDisk(SetFile(f, x, file)) /\ IsDisk(AddFile(f, x))
  BY DEF IsDisk, SetFile, AddFile
<1>2. \A f, x : IsDisk(Create(f, x))
  BY <1>1 DEF Create
<1>3. \A f, x, e : IsDisk(WriteFile(f, x, e)) /\ IsDisk(Sync(f, x))
  BY <1>1 DEF WriteFile, Sync
<1>4. \A f, X : IsDisk(f) => IsDisk(Unlink(f, X))
  BY DEF IsDisk, Unlink
<1>5. \A f, x, y : IsDisk(Rename(f, x, y))
  BY DEF IsDisk, Rename
<1>6. \A f : IsDisk(SyncDir(f)) /\ \A g \in AfterMachineCrash(f) : IsDisk(g)
  <2> SUFFICES ASSUME NEW f, NEW g \in AfterMachineCrash(f) PROVE IsDisk(SyncDir(f)) /\ IsDisk(g)
    BY DEF IsDisk, SyncDir
  <2>1. IsDisk(SyncDir(f))
    BY DEF IsDisk, SyncDir
  <2>2. PICK d \in DirsOf(f) : \E n \in Lengths(f, d) :
         g = [dir |-> d, older |-> {}, data |-> [i \in Range(d) |-> Cut(f.data[i], n[i])]]
    BY DEF AfterMachineCrash
  <2>3. QED
    BY <2>1, <2>2 DEF IsDisk
<1>7. IsDisk(Files)
  BY DEF IsDisk, Files
<1>8. QED
  BY <1>1, <1>2, <1>3, <1>4, <1>5, <1>6, <1>7

(* After a step that makes the disk g, the files are those of g.           *)
LEMMA DiskNow ==
  ASSUME NEW g, IsDisk(g), DiskBecomes(g)
  PROVE  Files' = g /\ dir' = g.dir /\ older' = g.older
BY DEF IsDisk, DiskBecomes, Files

(* The files are those of the variables.                                   *)
LEMMA DiskSays ==
  Files.dir = dir /\ Files.older = older /\ Files.data = data
BY DEF Files

(* A step that leaves the variables alone leaves the files alone.          *)
LEMMA DiskStays ==
  ASSUME UNCHANGED disk
  PROVE  Files' = Files /\ dir' = dir
BY DEF disk, Files

(* Whatever needs the logs from an earlier one on.                         *)
LEMMA StableMore ==
  ASSUME NEW f, FilesOK(f), NEW n \in Nat, NEW k \in Nat, n <= k, LogsStable(f, n)
  PROVE  LogsStable(f, k)
<1> SUFFICES ASSUME NEW d \in f.older, NEW x \in DOMAIN d, x[1] = "log", x[2] >= k
             PROVE  x \in DOMAIN f.dir /\ f.dir[x] = d[x]
  BY DEF LogsStable
<1>1. x[2] \in Nat
  BY Kinded DEF FilesOK, DirsOf, IsDirectory
<1>2. x[2] >= n
  BY <1>1
<1>3. QED
  BY <1>2 DEF LogsStable

(* What the disk says, while the database is open.                         *)
LEMMA FullType ==
  ASSUME NEW f, NEW A, NEW P, FilesOK(f), DiskOK(f, A, P), Committed(f.dir)
  PROVE  /\ NowOK(Now(f), A, P) /\ Rooted(Now(f)) /\ Sane(Now(f), Full(Now(f)), A) /\ Man(Now(f)).content # <<>>
         /\ Full(Now(f)).next \in Nat /\ Full(Now(f)).log \in Nat /\ Full(Now(f)).last \in Nat
         /\ Full(Now(f)).tables \subseteq Nat /\ Cur(Now(f)) \in Nat
         /\ Man(Now(f)).content \in Seq(Edits) /\ Man(Now(f)).safe \in Nat
         /\ Man(Now(f)).safe <= Len(Man(Now(f)).content)
         /\ Cur(Now(f)) < Full(Now(f)).next /\ Full(Now(f)).log < Full(Now(f)).next
         /\ \A t \in Full(Now(f)).tables : t < Full(Now(f)).next
         /\ Manifest(Cur(Now(f))) \in DOMAIN f.dir
         /\ Full(Now(f)) = [tables |-> Full(Now(f)).tables, log |-> Full(Now(f)).log,
                            next |-> Full(Now(f)).next, last |-> Full(Now(f)).last]
<1>1. NowOK(Now(f), A, P) /\ f.dir \in DirsOf(f)
  BY DEF DiskOK, DirsOf
<1>2. Rooted(Now(f)) /\ Sane(Now(f), Full(Now(f)), A) /\ Man(Now(f)).content # <<>>
  BY <1>1 DEF NowOK
<1>3. /\ Full(Now(f)).next \in Nat /\ Full(Now(f)).log \in Nat /\ Full(Now(f)).last \in Nat
      /\ Full(Now(f)).tables \subseteq Nat /\ Cur(Now(f)) \in Nat
      /\ Man(Now(f)).content \in Seq(Edits) /\ Man(Now(f)).safe \in Nat
      /\ Man(Now(f)).safe <= Len(Man(Now(f)).content)
  BY <1>1, <1>2, ViewType DEF Now
<1>4. Cur(Now(f)) < Full(Now(f)).next /\ Full(Now(f)).log < Full(Now(f)).next /\ \A t \in Full(Now(f)).tables : t < Full(Now(f)).next
  BY <1>2 DEF Sane, Holds
<1>5. Manifest(Cur(Now(f))) \in DOMAIN f.dir
  BY <1>2 DEF Rooted, Now, Image
<1>6. Full(Now(f)) = [tables |-> Full(Now(f)).tables, log |-> Full(Now(f)).log,
                            next |-> Full(Now(f)).next, last |-> Full(Now(f)).last]
  BY <1>2, <1>3, SavedType DEF Full
<1>7. QED
  BY <1>1, <1>2, <1>3, <1>4, <1>5, <1>6

-----------------------------------------------------------------------------
(* Crashes.                                                                *)
(* Crashes.                                                                *)
FirstLog(f) == IF Committed(f.dir) THEN Full(Now(f)).log ELSE 0

(* No log from the first one that is needed was ever removed.              *)
LEMMA StableNow ==
  ASSUME ClosedInv \/ OpeningInv \/ UpInv
  PROVE  LogsStable(Files, FirstLog(Files))
<1> DEFINE f == Files
<1>1. f.dir = dir /\ LiveInv
  BY DEF Files, ClosedInv, OpeningInv, UpInv
<1>2. FilesOK(f) /\ DiskOK(f, acked, promised) /\ numbers.log \in Nat
  BY <1>1 DEF LiveInv, MemoryTypeOK
<1>3. CASE ClosedInv
  BY <1>1, <1>3 DEF ClosedInv, ClosedOK, FirstLog
<1>4. CASE OpeningInv \/ UpInv
  <2>1. Committed(f.dir) /\ LogsStable(f, numbers.log) /\ numbers.log <= Full(Now(f)).log
    <3>1. Committed(f.dir)
      BY <1>1, <1>4 DEF OpeningInv, UpInv, OpeningOK, UpOK
    <3>2. Full(Now(f)).log \in Nat
      BY <1>2, <3>1, FullType
    <3>3. CASE OpeningInv
      BY <1>2, <3>1, <3>2, <3>3 DEF OpeningInv, OpeningOK, OpeningMemory
    <3>4. CASE UpInv
      BY <3>1, <3>4 DEF UpInv, UpOK, Numbering
    <3>5. QED
      BY <1>4, <3>3, <3>4
  <2>2. Full(Now(f)).log \in Nat
    BY <1>2, <2>1, FullType
  <2> HIDE DEF f
  <2>3. LogsStable(f, Full(Now(f)).log)
    BY <1>2, <2>1, <2>2, StableMore
  <2>4. QED
    BY <2>1, <2>3 DEF FirstLog, f
<1>5. QED
  BY <1>3, <1>4

(* A crash forgets what was in memory.                                     *)
LEMMA Forgets ==
  ASSUME MemoryTypeOK, Crashing, NEW A, acked' = acked \cap A, promised' = promised \cap A
  PROVE  /\ MemoryTypeOK' /\ Blank' /\ pc' = "closed" /\ numbers' = [next |-> 2, log |-> 0, manifest |-> 0]
<1>1. Blank' /\ pc' = "closed" /\ numbers' = [next |-> 2, log |-> 0, manifest |-> 0]
  BY DEF Crashing, Forget, Blank
<1>2. crashes' \in 0 .. MaxCrashes
  <2>1. MaxCrashes \in Nat
    BY RecoveryAssumption
  <2>2. crashes \in 0 .. MaxCrashes
    BY DEF MemoryTypeOK
  <2>3. crashes < MaxCrashes /\ crashes' = crashes + 1
    BY DEF Crashing
  <2>4. QED
    BY <2>1, <2>2, <2>3
<1>3. issued' = issued
  BY DEF Crashing
<1>4. promised' \subseteq acked' /\ acked' \subseteq acked
  BY DEF MemoryTypeOK
<1>5. edit' \in [add : SUBSET Nat, del : SUBSET Nat, log : Nat]
  BY <1>1 DEF Blank, NoEdit
<1>6. job' \in [kind : {"none", "flush", "compact"}, number : Nat, inputs : SUBSET Nat, output : Nat,
                stage : {"none", "build", "append", "syncDir", "sync", "install", "clean"}]
  BY <1>1 DEF Blank, NoJob
<1>7. QED
  BY <1>1, <1>2, <1>3, <1>4, <1>5, <1>6 DEF MemoryTypeOK, Blank

(* After a crash the invariant is what it says of a closed database.       *)
LEMMA CrashedClosed ==
  ASSUME Blank', pc' = "closed", numbers' = [next |-> 2, log |-> 0, manifest |-> 0], MemoryTypeOK',
         FilesOK(Files'), DiskOK(Files', acked', promised'),
         LogsStable(Files', FirstLog(Files'))
  PROVE  RInv'
<1>1. Files'.dir = dir'
  BY DEF Files
<1>2. ClosedOK'
  BY <1>1 DEF ClosedOK, FirstLog
<1>3. ClosedInv'
  BY <1>2 DEF ClosedInv, LiveInv, ClosedStates
<1>4. QED
  BY <1>3, PhasesNext

(* A crash of the process keeps the invariant.                             *)
LEMMA ProcessCrashKeeps ==
  ASSUME RInv, ProcessCrash
  PROVE  RInv'
<1>1. Files' = Files /\ dir' = dir /\ Crashing /\ acked' = acked /\ promised' = promised /\ older' = older
  BY DiskStays DEF ProcessCrash, disk
<1>2. acked' = acked \cap acked /\ promised' = promised \cap acked
  BY <1>1 DEF RInv, MemoryTypeOK
<1>3. MemoryTypeOK' /\ Blank' /\ pc' = "closed" /\ numbers' = [next |-> 2, log |-> 0, manifest |-> 0]
  BY <1>1, <1>2, Forgets DEF RInv
<1>4. CASE LostInv
  <2>1. LostOK'
    BY <1>1, <1>3, <1>4 DEF LostInv, LostOK
  <2>2. FilesOK(Files')
    BY <1>1, <1>4 DEF LostInv
  <2>3. LostInv'
    BY <1>3, <2>1, <2>2 DEF LostInv
  <2>4. QED
    BY <2>3, PhasesNext
<1>5. CASE ClosedInv \/ OpeningInv \/ UpInv
  <2>1. LiveInv
    BY <1>5 DEF ClosedInv, OpeningInv, UpInv
  <2>2. FilesOK(Files') /\ DiskOK(Files', acked', promised') /\ LogsStable(Files', FirstLog(Files'))
    BY <1>1, <1>5, <2>1, StableNow DEF LiveInv
  <2>3. QED
    BY <1>3, <2>2, CrashedClosed
<1>6. QED
  BY <1>4, <1>5, Phases

(* When the first manifest is lost, another crash leaves it lost.          *)
LEMMA LostAgain ==
  ASSUME NEW f, FilesOK(f), InOrder, NEW g \in AfterMachineCrash(f), f.older = {},
         Committed(f.dir), FirstManifestLost(f), Manifest(1) \in DOMAIN f.dir, Man(Now(f)) = NewFile
  PROVE  /\ FilesOK(g) /\ g.older = {} /\ Committed(g.dir) /\ FirstManifestLost(g) /\ ~Opens(g)
         /\ Manifest(1) \in DOMAIN g.dir /\ Man(Now(g)) = NewFile
<1>1. FilesOK(g) /\ \E d \in DirsOf(f) : Left(f, g, d)
  BY CrashLeaves, RecoveryAssumption
<1>2. Left(f, g, f.dir)
  BY <1>1 DEF DirsOf
<1>3. /\ g.dir = f.dir /\ g.older = {} /\ DOMAIN Now(g) = DOMAIN f.dir /\ DOMAIN Now(f) = DOMAIN f.dir
      /\ \A x \in DOMAIN f.dir : x[1] \notin {"log", "MANIFEST"} => Now(g)[x] = Now(f)[x]
      /\ \A x \in DOMAIN f.dir : x[1] = "MANIFEST" => (Now(f)[x].safe = 0 => Now(g)[x] = NewFile)
  BY <1>2 DEF Left, Now
<1>4. Content(f, CurrentFile) = <<1>> /\ CurrentFile \in DOMAIN f.dir
  BY DEF FirstManifestLost
<1>5. \A h : \A x \in DOMAIN h.dir : Content(h, x) = Now(h)[x].content
  BY DEF Content, File, Now, Image
<1>6. Now(g)[CurrentFile] = Now(f)[CurrentFile] /\ Now(f)[CurrentFile].content = <<1>>
  BY <1>3, <1>4, <1>5, Kinded
<1>7. Cur(Now(f)) = 1 /\ Cur(Now(g)) = 1
  <2>1. Now(f)[CurrentFile].content = <<1>> /\ Now(g)[CurrentFile].content = <<1>>
    BY <1>6
  <2>2. QED
    BY <2>1 DEF Cur
<1>8. Manifest(1) \in DOMAIN f.dir => Now(g)[Manifest(1)] = NewFile
  <2>1. Now(f)[Manifest(1)] = NewFile
    BY <1>7 DEF Man
  <2>2. Now(f)[Manifest(1)].safe = 0
    BY <2>1 DEF NewFile
  <2>3. QED
    BY <1>3, <2>2, Kinded
<1>9. Content(g, CurrentFile) = <<1>>
  BY <1>3, <1>4, <1>5, <1>6
<1>10. Content(g, CurrentFile)[1] = 1
  BY <1>9
<1>11. ~HasManifest(g)
  <2>1. Manifest(1) \in DOMAIN g.dir => Content(g, Manifest(1)) = <<>>
    <3>1. NewFile.content = <<>>
      BY DEF NewFile
    <3>2. QED
      BY <1>3, <1>5, <1>8, <3>1
  <2>2. QED
    BY <1>10, <2>1 DEF HasManifest
<1>12. QED
  BY <1>1, <1>3, <1>4, <1>7, <1>8, <1>9, <1>11 DEF Committed, FirstManifestLost, Opens, Man
(* A crash of the machine keeps the invariant.                             *)
LEMMA MachineCrashKeeps ==
  ASSUME RInv, MachineCrash, InOrder
  PROVE  RInv'
<1>1. PICK g \in AfterMachineCrash(Files) :
         /\ DiskBecomes(g)
         /\ Opens(g) => /\ acked' = acked \cap Recovered(g)
                        /\ promised' = promised \cap Recovered(g)
         /\ ~Opens(g) => UNCHANGED <<acked, promised>>
  BY DEF MachineCrash
<1>2. Files' = g /\ dir' = g.dir /\ older' = g.older /\ Crashing
  BY <1>1, Disks, DiskNow DEF MachineCrash
<1>3. acked = acked \cap acked /\ promised = promised \cap acked
  BY DEF RInv, MemoryTypeOK
<1>4. \E A : acked' = acked \cap A /\ promised' = promised \cap A
  <2>1. CASE Opens(g)
    BY <1>1, <2>1
  <2>2. CASE ~Opens(g)
    BY <1>1, <1>3, <2>2
  <2>3. QED
    BY <2>1, <2>2
<1>5. MemoryTypeOK' /\ Blank' /\ pc' = "closed" /\ numbers' = [next |-> 2, log |-> 0, manifest |-> 0]
  BY <1>2, <1>4, Forgets DEF RInv
<1>6. Files.dir = dir /\ Files.older = older
  BY DiskSays
<1>7. ASSUME FilesOK(g), g.older = {}, Committed(g.dir), FirstManifestLost(g), Manifest(1) \in DOMAIN g.dir,
             Man(Now(g)) = NewFile
      PROVE  RInv'
  <2>1. LostOK'
    BY <1>2, <1>5, <1>7 DEF LostOK
  <2>2. LostInv'
    BY <1>2, <1>5, <1>7, <2>1 DEF LostInv
  <2>3. QED
    BY <2>2, PhasesNext
<1>8. CASE LostInv
  <2>1. FilesOK(Files) /\ Files.older = {} /\ Committed(Files.dir) /\ FirstManifestLost(Files)
        /\ Manifest(1) \in DOMAIN Files.dir /\ Man(Now(Files)) = NewFile
    BY <1>6, <1>8 DEF LostInv, LostOK
  <2> DEFINE f == Files
  <2> HIDE DEF f
  <2>2. FilesOK(f) /\ f.older = {} /\ Committed(f.dir) /\ FirstManifestLost(f)
        /\ Manifest(1) \in DOMAIN f.dir /\ Man(Now(f)) = NewFile /\ g \in AfterMachineCrash(f)
    BY <2>1 DEF f
  <2>3. /\ FilesOK(g) /\ g.older = {} /\ Committed(g.dir) /\ FirstManifestLost(g)
        /\ Manifest(1) \in DOMAIN g.dir /\ Man(Now(g)) = NewFile
    BY <2>2, LostAgain
  <2>4. QED
    BY <1>7, <2>3
<1>9. CASE ClosedInv \/ OpeningInv \/ UpInv
  <2>1. FilesOK(Files) /\ DiskOK(Files, acked, promised) /\ promised \subseteq acked
    BY <1>9 DEF ClosedInv, OpeningInv, UpInv, LiveInv, MemoryTypeOK
  <2>2. /\ FilesOK(g) /\ g.older = {}
        /\ \/ /\ Committed(g.dir) /\ FirstManifestLost(g) /\ ~Opens(g)
              /\ Manifest(1) \in DOMAIN g.dir /\ Man(Now(g)) = NewFile
           \/ /\ Opens(g) /\ DiskOK(g, acked \cap Recovered(g), promised \cap Recovered(g))
    <3> DEFINE f == Files
    <3>1. FilesOK(f) /\ DiskOK(f, acked, promised) /\ promised \subseteq acked /\ g \in AfterMachineCrash(f)
      BY <2>1
    <3> HIDE DEF f
    <3>2. Writeback \subseteq {"log", "MANIFEST"}
      BY RecoveryAssumption
    <3>3. QED
      BY <3>1, <3>2, MachineCrashes
  <2>3. CASE ~Opens(g)
    BY <1>7, <2>2, <2>3
  <2>4. CASE Opens(g) /\ DiskOK(g, acked \cap Recovered(g), promised \cap Recovered(g))
    <3>1. DiskOK(Files', acked', promised') /\ FilesOK(Files')
      BY <1>1, <1>2, <2>2, <2>4
    <3>2. LogsStable(Files', FirstLog(Files'))
      BY <1>2, <2>2 DEF LogsStable
    <3>3. QED
      BY <1>5, <3>1, <3>2, CrashedClosed
  <2>5. QED
    BY <1>7, <2>2, <2>3, <2>4
<1>10. QED
  BY <1>8, <1>9, Phases
-----------------------------------------------------------------------------
(* Creating the database.                                                  *)
LEMMA MemoryStays ==
  ASSUME UNCHANGED <<memory, ghosts>>
  PROVE  (MemoryTypeOK => MemoryTypeOK') /\ (Blank => Blank') /\ numbers' = numbers
BY DEF memory, ghosts, MemoryTypeOK, Blank

(* A file that was written is there, with what was written.                *)
LEMMA Written ==
  ASSUME NEW f, NEW g, NEW x, NEW file, Wrote(f, g, x, file)
  PROVE  x \in DOMAIN g.dir /\ Now(g)[x] = file /\ x \in DOMAIN Now(g)
BY DEF Wrote, Now, Image

(* A file that was not written is as it was.                               *)
LEMMA SameFile ==
  ASSUME NEW f, NEW g, NEW X, SameBut(Now(f), Now(g), X), NEW x \in DOMAIN f.dir, x \notin X
  PROVE  x \in DOMAIN g.dir /\ Now(g)[x] = Now(f)[x]
BY DEF SameBut, Now, Image

(* SetCurrentFile writes a temporary file that nothing needs.              *)
LEMMA TempStep ==
  ASSUME NEW f, NEW A, NEW P, NEW n \in Nat, FilesOK(f), DiskOK(f, A, P)
  PROVE  LET g == WriteTemp(f, n)
         IN  /\ JunkWritten(f, g, Temp(n), A, P) /\ IsDisk(g)
             /\ Temp(n) \in DOMAIN g.dir /\ Now(g)[Temp(n)].content = <<n>>
<1> DEFINE x == Temp(n)
           file == [content |-> <<n>>, safe |-> 1]
           g == WriteTemp(f, n)
<1>1. Wrote(f, g, x, file)
  <2>1. Wrote(f, Create(f, x), x, NewFile) /\ NewFile.content = <<>> /\ NewFile.safe = 0
    BY Creates DEF NewFile
  <2>2. Wrote(f, WriteFile(Create(f, x), x, n), x, [content |-> Append(<<>>, n), safe |-> 0])
    BY <2>1, Writes
  <2>3. Append(<<>>, n) = <<n>> /\ Len(<<n>>) = 1
    OBVIOUS
  <2> DEFINE h == WriteFile(Create(f, x), x, n)
             k == [content |-> Append(<<>>, n), safe |-> 0]
  <2>4. k.content = <<n>>
    BY <2>3
  <2> HIDE DEF h, k
  <2>5. Wrote(f, Sync(h, x), x, [content |-> k.content, safe |-> Len(k.content)])
    BY <2>2, Writes DEF h, k
  <2>6. QED
    BY <2>3, <2>4, <2>5 DEF WriteTemp, h
<1>2. IsFile("temp", file)
  BY DEF IsFile, IsWhole
<1>3. x \in Names /\ x # CurrentFile /\ x[1] = "temp"
  BY Kinded
<1>4. UnusedNow(f, {x}) /\ \A d \in DirsOf(f) : Unused(f, d, {x})
  BY UnusedTemp
<1>5. IsDisk(g)
  BY Disks DEF WriteTemp
<1> HIDE DEF x, g
<1>6. file.content = <<n>>
  OBVIOUS
<1> HIDE DEF file
<1>7. JunkWritten(f, g, x, A, P)
  BY <1>1, <1>2, <1>3, <1>4, JunkStep
<1>8. x \in DOMAIN g.dir /\ Now(g)[x].content = <<n>>
  BY <1>1, <1>6, Written
<1>9. QED
  BY <1>5, <1>7, <1>8 DEF x, g

(* Opening keeps the invariant.                                            *)
LEMMA OpenKeeps ==
  ASSUME RInv, Open
  PROVE  RInv'
<1>1. Files' = Files /\ dir' = dir /\ acked' = acked /\ promised' = promised /\ older' = older /\ numbers' = numbers
  BY DiskStays, MemoryStays DEF Open, disk, ghosts
<1>2. MemoryTypeOK' /\ (Blank => Blank') /\ pc = "closed" /\ pc' = IF CurrentFile \in DOMAIN dir THEN "recover" ELSE "new"
  BY MemoryStays DEF Open, RInv
<1>3. CASE LostInv
  <2>1. LostOK'
    BY <1>1, <1>2, <1>3 DEF LostInv, LostOK, Committed
  <2>2. FilesOK(Files')
    BY <1>1, <1>3 DEF LostInv
  <2>3. LostInv'
    BY <1>2, <2>1, <2>2 DEF LostInv
  <2>4. QED
    BY <2>3, PhasesNext
<1>4. CASE ClosedInv
  <2>1. ClosedOK'
    BY <1>1, <1>2, <1>4 DEF ClosedInv, ClosedOK, Committed
  <2>2. ClosedInv'
    BY <1>1, <1>2, <1>4, <2>1 DEF ClosedInv, LiveInv, ClosedStates
  <2>3. QED
    BY <2>2, PhasesNext
<1>5. CASE OpeningInv \/ UpInv
  BY <1>2, <1>5 DEF OpeningInv, UpInv, OpeningStates, UpStates
<1>6. QED
  BY <1>3, <1>4, <1>5, Phases

(* While a database is created nothing of it is in use.                    *)
LEMMA ClosedNow ==
  ASSUME RInv, pc \in {"new", "newCurrent", "newRename"}
  PROVE  ClosedInv
BY Phases DEF LostInv, LostOK, OpeningInv, OpeningStates, UpInv, UpStates

(* Writing the first manifest keeps the invariant.                         *)
LEMMA NewDBKeeps ==
  ASSUME RInv, NewDB
  PROVE  RInv'
<1> DEFINE f == Files
           x == Manifest(1)
           file == [content |-> <<First>>, safe |-> 0]
           g == WriteFile(Create(f, x), x, First)
<1>1. ClosedInv /\ ClosedOK /\ ~Committed(f.dir)
  BY ClosedNow DEF NewDB, ClosedInv, ClosedOK, Files
<1>2. FilesOK(f) /\ DiskOK(f, acked, promised)
  BY <1>1 DEF ClosedInv, LiveInv
<1>3. First \in Edits
  BY DEF First, Edits
<1>4. Wrote(f, g, x, file)
  <2>1. Wrote(f, Create(f, x), x, NewFile) /\ NewFile.content = <<>> /\ NewFile.safe = 0
    BY <1>2, Creates DEF NewFile
  <2>2. Wrote(f, WriteFile(Create(f, x), x, First), x, [content |-> Append(<<>>, First), safe |-> 0])
    BY <2>1, Writes
  <2>3. Append(<<>>, First) = <<First>>
    OBVIOUS
  <2>4. QED
    BY <2>2, <2>3
<1>5. IsFile("MANIFEST", file)
  BY <1>3 DEF IsFile
<1>6. UnusedNow(f, {x}) /\ \A d \in DirsOf(f) : Unused(f, d, {x})
  <2>1. UnusedNow(f, {Table(1), Manifest(1)}) /\ \A d \in DirsOf(f) : Unused(f, d, {Table(1), Manifest(1)})
    BY <1>1, <1>2, UnusedNumber
  <2>2. QED
    BY <2>1, UnusedLess
<1>7. x \in Names /\ x # CurrentFile /\ x[1] = "MANIFEST"
  BY Kinded
<1> HIDE DEF x, g, file, f
<1>8. JunkWritten(f, g, x, acked, promised)
  BY <1>2, <1>4, <1>5, <1>6, <1>7, JunkStep
<1>9. x \in DOMAIN g.dir /\ Now(g)[x] = file
  BY <1>4, Written
<1>10. Files' = g /\ dir' = g.dir
  <2>1. IsDisk(g) /\ DiskBecomes(g)
    BY Disks DEF g, NewDB, First, x, f
  <2>2. QED
    BY <2>1, DiskNow
<1>11. ~Committed(g.dir) /\ LogsStable(g, 0) /\ FilesOK(g) /\ DiskOK(g, acked, promised)
  <2>1. LogsStable(f, 0)
    BY <1>1 DEF ClosedOK, f, Files
  <2>2. QED
    BY <1>1, <1>8, <2>1 DEF JunkWritten
<1>12. /\ numbers' = [next |-> 2, log |-> 0, manifest |-> 1] /\ pc' = "newCurrent"
       /\ acked' = acked /\ promised' = promised
  <2>1. pc = "new" /\ numbers' = [numbers EXCEPT !.manifest = 1] /\ pc' = "newCurrent"
        /\ acked' = acked /\ promised' = promised
    BY DEF NewDB, ghosts
  <2>2. numbers = [next |-> 2, log |-> 0, manifest |-> 0]
    BY <1>1, <2>1 DEF ClosedOK
  <2>3. QED
    BY <2>1, <2>2
<1>13. Blank' /\ MemoryTypeOK'
  <2>1. Blank'
    BY <1>1 DEF NewDB, ClosedOK, Blank
  <2>2. numbers' \in [next : Nat, log : Nat, manifest : Nat]
    BY <1>12
  <2>3. MemoryTypeOK'
    BY <1>1, <2>2 DEF NewDB, ClosedInv, LiveInv, MemoryTypeOK, ghosts
  <2>4. QED
    BY <2>1, <2>3
<1>14. ClosedOK'
  BY <1>9, <1>10, <1>11, <1>12, <1>13 DEF ClosedOK, x, file
<1>15. ClosedInv'
  BY <1>10, <1>11, <1>12, <1>13, <1>14 DEF ClosedInv, LiveInv, ClosedStates
<1>16. QED
  BY <1>15, PhasesNext

(* Writing the first temporary file keeps the invariant.                   *)
LEMMA NewCurrentKeeps ==
  ASSUME RInv, SetCurrentFile, pc = "newCurrent"
  PROVE  RInv'
<1> DEFINE f == Files
           g == WriteTemp(f, 1)
<1>1. ClosedInv /\ ClosedOK /\ ~Committed(f.dir) /\ FilesOK(f) /\ DiskOK(f, acked, promised)
  BY ClosedNow DEF ClosedInv, ClosedOK, Files, LiveInv
<1>2. numbers = [next |-> 2, log |-> 0, manifest |-> 1]
      /\ Manifest(1) \in DOMAIN f.dir /\ Now(f)[Manifest(1)] = [content |-> <<First>>, safe |-> 0] /\ LogsStable(f, 0)
  BY <1>1 DEF ClosedOK, Files
<1> HIDE DEF f
<1>3. /\ JunkWritten(f, g, Temp(1), acked, promised) /\ IsDisk(g)
      /\ Temp(1) \in DOMAIN g.dir /\ Now(g)[Temp(1)].content = <<1>>
  BY <1>1, TempStep
<1>4. DiskBecomes(g) /\ pc' = "newRename" /\ acked' = acked /\ promised' = promised /\ numbers' = numbers
  BY <1>2, MemoryStays DEF SetCurrentFile, f, ghosts
<1>5. Files' = g /\ dir' = g.dir
  BY <1>3, <1>4, DiskNow
<1> HIDE DEF g
<1>6. ~Committed(g.dir) /\ LogsStable(g, 0) /\ FilesOK(g) /\ DiskOK(g, acked, promised)
      /\ SameBut(Now(f), Now(g), {Temp(1)})
  BY <1>1, <1>2, <1>3 DEF JunkWritten
<1>7. Manifest(1) \in DOMAIN g.dir /\ Now(g)[Manifest(1)] = [content |-> <<First>>, safe |-> 0]
  <2> DEFINE X == {Temp(1)}
  <2>1. Manifest(1) \notin X /\ SameBut(Now(f), Now(g), X) /\ Manifest(1) \in DOMAIN f.dir
    BY <1>2, <1>6 DEF Manifest, Temp
  <2> HIDE DEF X
  <2>2. Manifest(1) \in DOMAIN g.dir /\ Now(g)[Manifest(1)] = Now(f)[Manifest(1)]
    BY <2>1, SameFile
  <2>3. QED
    BY <1>2, <2>2, Zenon
<1>8. Blank' /\ MemoryTypeOK'
  BY <1>1, MemoryStays DEF SetCurrentFile, ClosedOK, ClosedInv, LiveInv
<1>9. ClosedOK'
  BY <1>2, <1>3, <1>4, <1>5, <1>6, <1>7, <1>8 DEF ClosedOK
<1>10. ClosedInv'
  BY <1>4, <1>5, <1>6, <1>8, <1>9 DEF ClosedInv, LiveInv, ClosedStates
<1>11. QED
  BY <1>10, PhasesNext

(* Renaming it to CURRENT keeps the invariant.                             *)
LEMMA NewRenameKeeps ==
  ASSUME RInv, RenameTemp, pc = "newRename"
  PROVE  RInv'
<1> DEFINE f == Files
           g == Rename(f, Temp(1), CurrentFile)
           w == SavedOf(<<First>>)
           m == Now(f)
<1>1. ClosedInv /\ ClosedOK /\ ~Committed(f.dir) /\ FilesOK(f) /\ DiskOK(f, acked, promised) /\ promised \subseteq acked
  BY ClosedNow DEF ClosedInv, ClosedOK, Files, LiveInv, MemoryTypeOK
<1>2. /\ numbers = [next |-> 2, log |-> 0, manifest |-> 1]
      /\ Manifest(1) \in DOMAIN f.dir /\ Now(f)[Manifest(1)] = [content |-> <<First>>, safe |-> 0] /\ LogsStable(f, 0)
      /\ Temp(1) \in DOMAIN f.dir /\ Now(f)[Temp(1)].content = <<1>>
  BY <1>1 DEF ClosedOK, Files
<1> HIDE DEF f
<1>3. w = [tables |-> {}, log |-> 0, next |-> 2, last |-> 0]
  <2>1. First \in Edits
    BY DEF First, Edits
  <2>2. QED
    BY <2>1, SavedOne DEF First
<1>4. m[Manifest(1)].content = <<First>> /\ m[Manifest(1)].safe = 0 /\ <<First>> # <<>>
  <2> DEFINE c == <<First>>
  <2>1. m[Manifest(1)] = [content |-> c, safe |-> 0] /\ c # <<>>
    BY <1>2
  <2> HIDE DEF c, m
  <2>2. m[Manifest(1)].content = c /\ m[Manifest(1)].safe = 0
    BY <2>1
  <2>3. QED
    BY <2>1, <2>2, Zenon DEF c
<1> HIDE DEF w
<1>15. w.tables = {} /\ w.log = 0 /\ w.next = 2 /\ w.last = 0
  BY <1>3
<1>5. acked = {} /\ promised = {} /\ \A x \in DOMAIN m : x[1] # "log"
  BY <1>1 DEF DiskOK, DirsOf, Now, Image
<1>6. Holds(m, w, acked)
  <2> HIDE DEF m
  <2>1. QED
    BY <1>15, <1>5 DEF Holds
<1>7. /\ FilesOK(g) /\ DiskOK(g, acked, promised) /\ Committed(g.dir) /\ Full(Now(g)) = w
      /\ \A i : LogsStable(f, i) => LogsStable(g, i)
  <2> DEFINE n == 1
             man == Now(f)[Manifest(n)]
  <2>1. n \in Nat /\ 0 < n /\ n < w.next
    BY <1>15
  <2>2. man.content # <<>> /\ w = SavedOf(man.content) /\ (man.safe = Len(man.content) \/ (n = 1 /\ man.safe = 0))
    BY <1>4 DEF w
  <2>3. Holds(Now(f), w, acked)
    BY <1>6
  <2>4. (\A e \in acked : Keeps(Now(f), w, e)) /\ (\A e \in promised : KeepsSafe(Now(f), w, e))
    BY <1>5
  <2>5. Temp(n) \in DOMAIN f.dir /\ Now(f)[Temp(n)].content = <<n>> /\ Manifest(n) \in DOMAIN f.dir
    BY <1>2
  <2>6. g = Rename(f, Temp(n), CurrentFile)
    OBVIOUS
  <2> HIDE DEF n, g, m
  <2>7. Committed(f.dir) => Full(Now(f)).next <= w.next
    BY <1>1
  <2> HIDE DEF man
  <2>8. CanRename(f, n, w, acked, promised)
    BY <1>1, <2>1, <2>2, <2>3, <2>4, <2>5, <2>7 DEF CanRename, man
  <2>9. QED
    BY <2>6, <2>8, RenameStep
<1>8. DiskBecomes(g) /\ pc' = "recover" /\ acked' = acked /\ promised' = promised
  BY <1>2, MemoryStays DEF RenameTemp, f, ghosts
<1>9. Files' = g /\ dir' = g.dir
  BY <1>8, Disks, DiskNow
<1> HIDE DEF g
<1>10. Blank' /\ MemoryTypeOK'
  BY <1>1, MemoryStays DEF RenameTemp, ClosedOK, ClosedInv, LiveInv
<1>11. Full(Now(g)).log = 0
  BY <1>7, <1>15
<1>12. ClosedOK'
  BY <1>2, <1>7, <1>8, <1>9, <1>10, <1>11 DEF ClosedOK
<1>13. ClosedInv'
  BY <1>7, <1>8, <1>9, <1>10, <1>12 DEF ClosedInv, LiveInv, ClosedStates
<1>14. QED
  BY <1>13, PhasesNext
-----------------------------------------------------------------------------
(* Recovering.                                                             *)
LEMMA LostOpens ==
  ASSUME LostInv
  PROVE  ~Opens(Files)
BY DEF LostInv, LostOK, FirstManifestLost, Opens

(* The logs of a directory, by number.                                     *)
LEMMA LogNumbers ==
  ASSUME NEW f, FilesOK(f)
  PROVE  /\ \A n \in Numbered(f.dir, "log") : n \in Nat /\ LogName(n) \in DOMAIN f.dir /\ LogName(n) \in DOMAIN Now(f)
         /\ \A x \in DOMAIN Now(f) : x \in DOMAIN f.dir /\ x \in Names /\ (x[1] = "log" => x[2] \in Numbered(f.dir, "log") /\ x = LogName(x[2]))
<1>1. \A x \in DOMAIN f.dir : x \in Names
  BY DEF FilesOK, DirsOf, IsDirectory
<1>2. \A x \in DOMAIN f.dir : x[1] = "log" => x = LogName(x[2]) /\ x[2] \in Nat
  BY <1>1, Kinded DEF LogName
<1>3. DOMAIN Now(f) = DOMAIN f.dir
  BY DEF Now, Image
<1>4. QED
  BY <1>1, <1>2, <1>3 DEF Numbered

(* Reading the manifest keeps the invariant.                               *)
LEMMA RecoverKeeps ==
  ASSUME RInv, Recover
  PROVE  RInv'
<1>0. PICK f : f = Files
  OBVIOUS
<1> DEFINE m == Now(f)
           v == Full(m)
<1>1. Files' = f /\ dir' = dir /\ older' = older /\ acked' = acked /\ promised' = promised /\ pc = "recover"
  BY <1>0, DiskStays DEF Recover, ghosts, disk
<1>2. CASE LostInv
  <2>1. ~Opens(Files)
    BY <1>2, LostOpens
  <2>2. pc' = "corrupt" /\ UNCHANGED <<version, lastSeq, numbers, logs>>
    BY <2>1 DEF Recover
  <2>3. UNCHANGED <<memory, ghosts>>
    BY <2>2 DEF Recover, memory
  <2>4. MemoryTypeOK' /\ Blank' /\ numbers' = numbers
    BY <1>2, <2>3, MemoryStays DEF LostInv, LostOK
  <2>5. LostOK'
    BY <1>0, <1>1, <1>2, <2>2, <2>4 DEF LostInv, LostOK
  <2>6. LostInv'
    BY <1>0, <1>1, <1>2, <2>4, <2>5 DEF LostInv
  <2>7. QED
    BY <2>6, PhasesNext
<1>3. CASE ClosedInv
  <2>1. FilesOK(f) /\ DiskOK(f, acked, promised) /\ MemoryTypeOK /\ Blank /\ Committed(f.dir) /\ f.dir = dir
        /\ LogsStable(f, v.log)
    BY <1>0, <1>1, <1>3, DiskSays DEF ClosedInv, LiveInv, ClosedOK
  <2>2. /\ NowOK(m, acked, promised)
        /\ v.next \in Nat /\ v.log \in Nat /\ v.last \in Nat /\ v.tables \subseteq Nat
    BY <2>1, FullType
  <2>3. Opens(f) /\ Saved(f) = v
    BY <2>1, <2>2, OpensWhen
  <2> HIDE DEF m, v
  <2>4. /\ version' = v.tables /\ lastSeq' = v.last
        /\ numbers' = [next |-> v.next + 1, log |-> v.log, manifest |-> v.next]
        /\ logs' = LogsToRecover(f) /\ pc' = "logs"
        /\ UNCHANGED <<kept, logfile, edit, mem, imm, job, pending, bgError, ghosts>>
    BY <1>0, <2>3 DEF Recover
  <2>5. numbers'.next = v.next + 1 /\ numbers'.log = v.log /\ numbers'.manifest = v.next
        /\ numbers' \in [next : Nat, log : Nat, manifest : Nat]
    BY <2>2, <2>4
  <2>6. LogsToRecover(f) = {n \in Numbered(f.dir, "log") : n >= v.log}
    BY <2>3 DEF LogsToRecover
  <2>7. edit' = NoEdit /\ NoEdit.add = {} /\ NoEdit.del = {}
    BY <2>1, <2>4 DEF Blank, NoEdit
  <2>8. logs' \subseteq Nat
    BY <2>1, <2>4, <2>6, LogNumbers
  <2>9. MemoryTypeOK'
    BY <2>1, <2>2, <2>4, <2>5, <2>8 DEF MemoryTypeOK, ghosts
  <2>10. v = Full(Now(f))
    BY DEF v, m
  <2>11. OpeningMemory(Full(Now(Files)))'
    <3>1. v.next < v.next + 1 /\ v.last <= v.last
      BY <2>2
    <3>2. QED
      BY <1>1, <2>1, <2>4, <2>5, <2>7, <2>10, <3>1 DEF OpeningMemory, Blank
  <2>12. NewTables(Now(Files))'
    BY <2>7 DEF NewTables
  <2>13. OpeningLogs(Now(Files), Full(Now(Files)))'
    <3>1. \A n \in logs' : LogName(n) \in DOMAIN Now(f) /\ n >= v.log
      BY <2>1, <2>4, <2>6, LogNumbers
    <3>2. \A x \in DOMAIN Now(f) : x[1] = "log" /\ x[2] >= v.log => x[2] \in logs'
      BY <2>1, <2>4, <2>6, LogNumbers
    <3>3. QED
      BY <1>1, <2>4, <2>10, <3>1, <3>2 DEF OpeningLogs
  <2>14. OpeningManifest(Now(Files))'
    BY <2>4 DEF OpeningManifest
  <2>15. OpeningOK'
    BY <1>1, <2>1, <2>4, <2>5, <2>11, <2>12, <2>13, <2>14 DEF OpeningOK
  <2>16. OpeningInv'
    BY <1>1, <2>1, <2>4, <2>9, <2>15 DEF OpeningInv, LiveInv, OpeningStates
  <2>17. QED
    BY <2>16, PhasesNext
<1>4. CASE OpeningInv \/ UpInv
  BY <1>1, <1>4 DEF OpeningInv, UpInv, OpeningStates, UpStates
<1>5. QED
  BY <1>2, <1>3, <1>4, Phases
-----------------------------------------------------------------------------
(* Numbers: the least of some is one of them, and so is the greatest.      *)
LEMMA LeastNumber ==
  ASSUME NEW T \in SUBSET Nat, T # {}
  PROVE  \E x \in T : \A y \in T : x <= y
<1>1. PICK x \in T : \A y \in T : ~(<<y, x>> \in OpToRel(<, Nat))
  BY NatLessThanWellFounded, WFMin
<1>2. \A y \in T : ~(y < x)
  BY <1>1 DEF OpToRel
<1>3. QED
  BY <1>2

(* The least of some numbers.                                              *)
LEMMA MinIs ==
  ASSUME NEW T \in SUBSET Nat, T # {}
  PROVE  Min(T) \in T /\ \A y \in T : Min(T) <= y
BY LeastNumber DEF Min

(* The greatest of some numbers with a bound.                              *)
LEMMA MaxIs ==
  ASSUME NEW T \in SUBSET Nat, T # {}, NEW b \in Nat, \A y \in T : y <= b
  PROVE  Max(T) \in T /\ \A y \in T : y <= Max(T)
<1> DEFINE D == {b - y : y \in T}
<1>1. D \in SUBSET Nat /\ D # {}
  <2>1. \A y \in T : b - y \in Nat
    OBVIOUS
  <2>2. QED
    BY <2>1
<1>2. PICK k \in D : \A j \in D : k <= j
  BY <1>1, LeastNumber
<1>3. PICK x \in T : k = b - x
  OBVIOUS
<1>4. \A y \in T : b - x <= b - y
  BY <1>2, <1>3
<1>5. \A y \in T : y <= x
  BY <1>4
<1>6. QED
  BY <1>5 DEF Max

(* Finitely many numbers have a bound.                                     *)
LEMMA SomeBound ==
  ASSUME NEW N \in Nat, NEW s, \A i \in 1 .. N : s[i] \in Nat
  PROVE  \E b \in Nat : \A i \in 1 .. N : s[i] <= b
<1> DEFINE Bounds(n) == {b \in Nat : \A i \in 1 .. n : s[i] <= b}
           Bad == {n \in 0 .. N : Bounds(n) = {}}
<1>1. CASE Bad = {}
  <2>1. N \in 0 .. N
    OBVIOUS
  <2>2. Bounds(N) # {}
    BY <1>1, <2>1
  <2>3. QED
    BY <2>2
<1>2. CASE Bad # {}
  <2>1. Bad \in SUBSET Nat
    OBVIOUS
  <2>2. PICK n \in Bad : \A j \in Bad : n <= j
    BY <1>2, <2>1, LeastNumber
  <2>3. 0 \in Bounds(0)
    OBVIOUS
  <2>4. n # 0 /\ n \in 1 .. N /\ n - 1 \in 0 .. N
    BY <2>3
  <2> HIDE DEF Bad
  <2>5. n - 1 \notin Bad
    <3>1. ~(n <= n - 1)
      BY <2>4
    <3>2. QED
      BY <2>2, <3>1
  <2> USE DEF Bad
  <2>6. PICK b \in Nat : \A i \in 1 .. n - 1 : s[i] <= b
    BY <2>4, <2>5
  <2>7. PICK c \in Nat : b <= c /\ s[n] <= c
    BY <2>4
  <2>8. \A i \in 1 .. n : s[i] <= c
    <3>1. TAKE i \in 1 .. n
    <3>2. i = n \/ i \in 1 .. n - 1
      BY <2>4
    <3>3. QED
      BY <2>4, <2>6, <2>7, <3>2
  <2>9. c \in Bounds(n)
    BY <2>8
  <2>10. QED
    BY <2>9
<1>3. QED
  BY <1>1, <1>2

(* The last sequence number is at least that of every entry.               *)
LEMMA LastSequenceIs ==
  ASSUME lastSeq \in Nat, NEW s \in Seq(Pairs)
  PROVE  LET E == ToSet(s)
         IN  /\ LastSequence(E) \in Nat /\ lastSeq <= LastSequence(E)
             /\ \A e \in E : e[2] <= LastSequence(E)
<1> DEFINE E == ToSet(s)
           T == Seqs(E) \cup {lastSeq}
           r == [i \in 1 .. Len(s) |-> s[i][2]]
<1>1. \A i \in 1 .. Len(s) : s[i] \in Pairs
  OBVIOUS
<1>2. \A i \in 1 .. Len(s) : r[i] \in Nat /\ r[i] = s[i][2]
  BY <1>1 DEF Pairs
<1>3. Len(s) \in Nat
  OBVIOUS
<1> HIDE DEF r
<1>4. PICK b \in Nat : \A i \in 1 .. Len(s) : r[i] <= b
  BY <1>2, <1>3, SomeBound
<1>5. \A e \in E : e \in Pairs /\ e[2] \in Nat /\ e[2] <= b
  BY <1>1, <1>2, <1>4 DEF ToSet
<1> HIDE DEF E
<1>6. T \in SUBSET Nat /\ T # {} /\ lastSeq \in T /\ \A e \in E : e[2] \in T
  BY <1>5 DEF Seqs
<1>7. PICK c \in Nat : b <= c /\ lastSeq <= c
  OBVIOUS
<1>8. \A y \in T : y <= c
  BY <1>5, <1>7 DEF Seqs
<1> HIDE DEF T
<1>9. Max(T) \in T /\ \A y \in T : y <= Max(T)
  BY <1>6, <1>8, MaxIs
<1>10. LastSequence(E) = Max(T)
  BY DEF LastSequence, T
<1>11. QED
  BY <1>6, <1>9, <1>10 DEF E

(* A number that was marked used is not given out again.                   *)
LEMMA UsedIs ==
  ASSUME NEW a \in Nat, NEW n \in Nat
  PROVE  Used(a, n) \in Nat /\ a <= Used(a, n) /\ n < Used(a, n)
<1> DEFINE T == {a, n + 1}
<1>1. PICK c \in Nat : a <= c /\ n + 1 <= c
  OBVIOUS
<1>2. T \in SUBSET Nat /\ T # {} /\ (\A y \in T : y <= c) /\ a \in T /\ n + 1 \in T
  BY <1>1
<1> HIDE DEF T
<1>3. Max(T) \in T /\ \A y \in T : y <= Max(T)
  BY <1>1, <1>2, MaxIs
<1>4. Used(a, n) = Max(T)
  BY DEF Used, T
<1>5. a <= Max(T) /\ n + 1 <= Max(T) /\ Max(T) \in Nat
  BY <1>2, <1>3
<1> HIDE DEF T
<1>6. QED
  BY <1>4, <1>5
-----------------------------------------------------------------------------
(* A table that is written in one go.                                      *)
TableWritten(f, g, t, E, A, P) ==
    /\ JunkWritten(f, g, Table(t), A, P) /\ IsDisk(g)
    /\ HasTable(Now(g), t) /\ Stored(Now(g), t) = E

CanWrite(f, h, t, E, A, P) ==
    /\ FilesOK(f) /\ DiskOK(f, A, P) /\ t \in Nat /\ E \in SUBSET Pairs
    /\ Wrote(f, h, Table(t), NewFile)
    /\ UnusedNow(f, {Table(t)}) /\ \A d \in DirsOf(f) : Unused(f, d, {Table(t)})

(* Writing a table that nothing names leaves the disk as good as it was.   *)
LEMMA TableStep ==
  ASSUME NEW f, NEW h, NEW A, NEW P, NEW t, NEW E, CanWrite(f, h, t, E, A, P)
  PROVE  TableWritten(f, WriteTable(h, t, E), t, E, A, P)
<1> DEFINE x == Table(t)
           file == [content |-> <<E>>, safe |-> 1]
           g == WriteTable(h, t, E)
<1>1. Wrote(f, g, x, file)
  <2> DEFINE i == WriteFile(h, x, E)
             k == [content |-> Append(<<>>, E), safe |-> 0]
  <2>1. Wrote(f, h, x, NewFile) /\ NewFile.content = <<>> /\ NewFile.safe = 0
    BY DEF CanWrite, NewFile
  <2>2. Wrote(f, i, x, k)
    BY <2>1, Writes
  <2>3. Append(<<>>, E) = <<E>> /\ Len(<<E>>) = 1
    OBVIOUS
  <2>4. k.content = <<E>>
    BY <2>3
  <2> HIDE DEF i, k
  <2>5. Wrote(f, Sync(i, x), x, [content |-> k.content, safe |-> Len(k.content)])
    BY <2>2, Writes
  <2>6. QED
    BY <2>3, <2>4, <2>5 DEF WriteTable, i
<1>2. file.content = <<E>> /\ file.safe = 1
  OBVIOUS
<1>3. IsWhole(file) /\ IsFile("table", file)
  <2>1. <<E>> \in Seq(SUBSET Pairs)
    BY DEF CanWrite
  <2>2. QED
    BY <2>1 DEF IsFile, IsWhole
<1>4. x \in Names /\ x # CurrentFile /\ x[1] = "table"
  BY Kinded DEF CanWrite
<1>5. IsDisk(g)
  BY Disks DEF WriteTable
<1> HIDE DEF x, g, file
<1>6. JunkWritten(f, g, x, A, P)
  BY <1>1, <1>3, <1>4, JunkStep DEF CanWrite, x
<1>7. x \in DOMAIN Now(g) /\ Now(g)[x] = file
  BY <1>1, Written
<1>8. UNION ToSet(<<E>>) = E
  BY Elements
<1>9. QED
  BY <1>2, <1>3, <1>5, <1>6, <1>7, <1>8 DEF TableWritten, HasTable, Stored, x, g

(* Tables and logs elsewhere stay as they are.                             *)
LEMMA NewTablesStay ==
  ASSUME NEW m, NEW k, NEW X, SameBut(m, k, X), NEW t, Table(t) \notin X, HasTable(m, t)
  PROVE  HasTable(k, t) /\ Stored(k, t) = Stored(m, t)
BY DEF SameBut, HasTable, Stored

(* Logs stay as they are when other files change.                          *)
LEMMA LogsStay ==
  ASSUME NEW m, NEW k, NEW X, SameBut(m, k, X), NoLogs(X), \A x \in DOMAIN m \cup DOMAIN k : x \in Names
  PROVE  /\ \A n \in Nat : /\ LogName(n) \in DOMAIN m <=> LogName(n) \in DOMAIN k
                           /\ LogName(n) \in DOMAIN m => LogOf(k, n) = LogOf(m, n)
         /\ \A x \in DOMAIN k : x[1] = "log" => x \in DOMAIN m /\ LogOf(k, x[2]) = LogOf(m, x[2]) /\ x[2] \in Nat
<1>1. \A n \in Nat : LogName(n)[1] = "log" /\ LogName(n)[2] = n
  BY Kinded
<1>2. QED
  BY <1>1, SameLogs, Kinded

(* Steps of DB::Open that change neither logs nor tables.                  *)
Carried(f, g, X) ==
    /\ FilesOK(g) /\ DiskOK(g, acked, promised) /\ Committed(g.dir)
    /\ Full(Now(g)) = Full(Now(f))
    /\ SameBut(Now(f), Now(g), X) /\ NoLogs(X) /\ \A t \in edit.add : Table(t) \notin X
    /\ \A n : LogsStable(f, n) => LogsStable(g, n)

OpeningRest == /\ LiveInv /\ Committed(dir)
               /\ OpeningMemory(Full(Now(Files))) /\ NewTables(Now(Files))
               /\ OpeningLogs(Now(Files), Full(Now(Files))) /\ LogsStable(Files, numbers.log)

(* What is known while recovering stays known when other files change.     *)
LEMMA OpeningCarried ==
  ASSUME OpeningInv, NEW f, NEW g, NEW X, f = Files, Files' = g, dir' = g.dir, Carried(f, g, X),
         UNCHANGED <<memory, ghosts>>, pc = "logs" <=> pc' = "logs"
  PROVE  OpeningRest'
<1> DEFINE m == Now(f)
           k == Now(g)
           v == Full(m)
<1>1. /\ FilesOK(f) /\ FilesOK(g) /\ MemoryTypeOK /\ OpeningMemory(v) /\ NewTables(m)
      /\ OpeningLogs(m, v) /\ LogsStable(f, numbers.log)
  BY DEF OpeningInv, LiveInv, OpeningOK, Carried
<1>2. /\ UNCHANGED <<version, kept, numbers, logfile, logs, edit, mem, imm, lastSeq, job, pending, bgError>>
      /\ UNCHANGED <<acked, promised, issued, crashes>> /\ MemoryTypeOK'
  BY <1>1, MemoryStays DEF memory, ghosts
<1>3. v = Full(k)
  BY DEF Carried
<1>4. SameBut(m, k, X) /\ NoLogs(X) /\ \A x \in DOMAIN m \cup DOMAIN k : x \in Names
  BY <1>1, LogNumbers DEF Carried
<1> HIDE DEF m, k
<1>5. /\ \A n \in Nat : /\ LogName(n) \in DOMAIN m <=> LogName(n) \in DOMAIN k
                        /\ LogName(n) \in DOMAIN m => LogOf(k, n) = LogOf(m, n)
      /\ \A x \in DOMAIN k : x[1] = "log" => x \in DOMAIN m /\ LogOf(k, x[2]) = LogOf(m, x[2]) /\ x[2] \in Nat
  BY <1>4, LogsStay
<1>6. \A t \in edit.add : HasTable(k, t) /\ Stored(k, t) = Stored(m, t)
  BY <1>1, <1>4, NewTablesStay DEF NewTables, Carried
<1> HIDE DEF v
<1>7. OpeningMemory(v)'
  BY <1>1, <1>2 DEF OpeningMemory
<1>8. NewTables(k)'
  BY <1>1, <1>2, <1>6 DEF NewTables
<1>9. OpeningLogs(k, v)'
  <2>1. \A n : LogOf(k, n) = LogOf(m, n) /\ InNewTables(m, n) => InNewTables(k, n)'
    BY <1>2, <1>6 DEF InNewTables
  <2>2. logs \subseteq Nat /\ logfile \in Nat
    BY <1>1 DEF MemoryTypeOK
  <2>3. QED
    BY <1>1, <1>2, <1>5, <2>1, <2>2 DEF OpeningLogs, HasLog
<1>10. LiveInv' /\ Committed(dir)' /\ LogsStable(Files, numbers.log)'
  BY <1>1, <1>2 DEF LiveInv, Carried
<1>11. QED
  BY <1>3, <1>7, <1>8, <1>9, <1>10 DEF OpeningRest, k
-----------------------------------------------------------------------------
(* A write of a file that was there adds no name.                          *)
LEMMA SyncedWrote ==
  ASSUME NEW f, NEW g, NEW x, NEW file, NEW X, Wrote(f, g, x, file), SyncedBut(f, X), x \in DOMAIN f.dir \/ x \in X
  PROVE  SyncedBut(g, X)
BY DEF Wrote, SyncedBut, DirsOf

(* Writing a manifest or a temporary file leaves what recovery knows.      *)
LEMMA JunkCarried ==
  ASSUME NEW f, NEW g, NEW x, JunkWritten(f, g, x, acked, promised), Committed(f.dir), x[1] \in {"MANIFEST", "temp"}
  PROVE  Carried(f, g, {x})
<1>1. NoLogs({x}) /\ \A t \in edit.add : Table(t) \notin {x}
  BY Kinded DEF NoLogs
<1>2. QED
  BY <1>1 DEF Carried, JunkWritten

(* What the invariant says while recovering.                               *)
LEMMA OpeningFacts ==
  ASSUME OpeningInv, NEW f, f = Files
  PROVE  /\ FilesOK(f) /\ DiskOK(f, acked, promised) /\ Committed(f.dir) /\ MemoryTypeOK /\ f.dir = dir
         /\ OpeningMemory(Full(Now(f))) /\ NewTables(Now(f)) /\ OpeningLogs(Now(f), Full(Now(f)))
         /\ OpeningManifest(Now(f)) /\ LogsStable(f, numbers.log)
         /\ numbers \in [next : Nat, log : Nat, manifest : Nat]
         /\ Full(Now(f)).next = numbers.manifest /\ numbers.manifest \in Nat /\ numbers.next \in Nat
         /\ numbers.manifest < numbers.next
         /\ UnusedNow(f, {ThisManifest}) /\ \A d \in DirsOf(f) : Unused(f, d, {ThisManifest})
         /\ \A n \in Nat : Full(Now(f)).next <= n =>
               UnusedNow(f, {Table(n)}) /\ \A d \in DirsOf(f) : Unused(f, d, {Table(n)})
<1>1. /\ FilesOK(f) /\ DiskOK(f, acked, promised) /\ Committed(f.dir) /\ MemoryTypeOK /\ f.dir = dir
      /\ OpeningMemory(Full(Now(f))) /\ NewTables(Now(f)) /\ OpeningLogs(Now(f), Full(Now(f)))
      /\ OpeningManifest(Now(f)) /\ LogsStable(f, numbers.log)
      /\ numbers \in [next : Nat, log : Nat, manifest : Nat]
  BY DEF OpeningInv, LiveInv, OpeningOK, MemoryTypeOK, Files
<1>2. /\ Full(Now(f)).next = numbers.manifest /\ numbers.manifest \in Nat /\ numbers.next \in Nat
      /\ numbers.manifest < numbers.next
  BY <1>1 DEF OpeningMemory
<1>3. ASSUME NEW n \in Nat, Full(Now(f)).next <= n
      PROVE  /\ UnusedNow(f, {Table(n)}) /\ \A d \in DirsOf(f) : Unused(f, d, {Table(n)})
             /\ UnusedNow(f, {Manifest(n)}) /\ \A d \in DirsOf(f) : Unused(f, d, {Manifest(n)})
  <2> DEFINE X == {Table(n), Manifest(n)}
             Y == {Table(n)}
             Z == {Manifest(n)}
  <2>1. UnusedNow(f, X) /\ \A d \in DirsOf(f) : Unused(f, d, X)
    BY <1>1, <1>3, UnusedNumber
  <2>2. Y \subseteq X /\ Z \subseteq X
    OBVIOUS
  <2> HIDE DEF X, Y, Z
  <2>3. /\ UnusedNow(f, Y) /\ \A d \in DirsOf(f) : Unused(f, d, Y)
        /\ UnusedNow(f, Z) /\ \A d \in DirsOf(f) : Unused(f, d, Z)
    BY <2>1, <2>2, UnusedLess
  <2>4. QED
    BY <2>3 DEF Y, Z
<1>4. UnusedNow(f, {ThisManifest}) /\ \A d \in DirsOf(f) : Unused(f, d, {ThisManifest})
  <2>1. Full(Now(f)).next <= numbers.manifest
    BY <1>2
  <2>2. QED
    BY <1>2, <1>3, <2>1 DEF ThisManifest
<1>5. QED
  BY <1>1, <1>2, <1>3, <1>4

OpeningFinished ==
    /\ OpeningRest /\ pc \in OpeningStates /\ OpeningManifest(Now(Files))
    /\ pc \in {"sync", "current", "rename"} => SyncedBut(Files, {Temp(numbers.manifest)})

(* A step of recovery that ends well keeps the invariant.                  *)
LEMMA OpeningFinishes ==
  ASSUME OpeningFinished'
  PROVE  RInv'
<1>1. OpeningInv'
  BY DEF OpeningFinished, OpeningRest, OpeningInv, OpeningOK
<1>2. QED
  BY <1>1, PhasesNext

(* While recovering, the invariant is its part about recovery.             *)
LEMMA OpeningAt ==
  ASSUME RInv, pc \in OpeningStates
  PROVE  OpeningInv
BY Phases DEF LostInv, LostOK, OpeningStates, ClosedInv, ClosedStates, UpInv, UpStates

(* SyncDirIfManifest while opening.                                        *)
LEMMA OpeningSyncDirectory ==
  ASSUME RInv, SyncDirectory, pc # "up"
  PROVE  RInv'
<1>0. PICK f : f = Files
  OBVIOUS
<1> DEFINE g == SyncDir(f)
<1>1. pc = "syncDir" /\ pc' = "sync" /\ DiskBecomes(g) /\ UNCHANGED <<memory, ghosts>>
  BY <1>0 DEF SyncDirectory, AtStage, Goto, memory
<1>2. OpeningInv
  BY <1>1, OpeningAt DEF OpeningStates
<1>3. FilesOK(f) /\ DiskOK(f, acked, promised) /\ Committed(f.dir) /\ OpeningManifest(Now(f))
  BY <1>0, <1>2, OpeningFacts
<1>4. FilesOK(g) /\ DiskOK(g, acked, promised) /\ g.older = {} /\ g.dir = f.dir /\ Now(g) = Now(f)
  BY <1>3, SyncDirStep
<1>5. Files' = g /\ dir' = g.dir
  BY <1>1, Disks, DiskNow
<1> HIDE DEF g
<1>6. Carried(f, g, {})
  <2>1. SameBut(Now(f), Now(g), {}) /\ NoLogs({}) /\ \A n : LogsStable(g, n)
    BY <1>4 DEF SameBut, NoLogs, LogsStable
  <2>2. QED
    BY <1>3, <1>4, <2>1 DEF Carried
<1>7. OpeningRest'
  BY <1>0, <1>1, <1>2, <1>5, <1>6, OpeningCarried
<1>8. SyncedBut(g, {Temp(numbers.manifest)}')
  BY <1>4 DEF SyncedBut
<1>9. OpeningManifest(Now(f))'
  BY <1>1, <1>3 DEF OpeningManifest, memory, ThisManifest
<1>10. OpeningFinished'
  BY <1>1, <1>4, <1>5, <1>7, <1>8, <1>9 DEF OpeningFinished, OpeningStates
<1>11. QED
  BY <1>10, OpeningFinishes

(* Syncing the new manifest keeps the invariant.                           *)
LEMMA OpeningSyncManifest ==
  ASSUME RInv, SyncManifest, pc # "up"
  PROVE  RInv'
<1>0. PICK f : f = Files
  OBVIOUS
<1>a. PICK x : x = ThisManifest
  OBVIOUS
<1> DEFINE g == Sync(f, x)
           old == Now(f)[x].content
           file == [content |-> old, safe |-> Len(old)]
<1>1. pc = "sync" /\ pc' = "current" /\ DiskBecomes(g) /\ UNCHANGED <<memory, ghosts>>
  BY <1>0, <1>a DEF SyncManifest, AtStage, Goto, memory
<1>2. OpeningInv
  BY <1>1, OpeningAt DEF OpeningStates
<1>3. /\ FilesOK(f) /\ DiskOK(f, acked, promised) /\ Committed(f.dir) /\ OpeningManifest(Now(f))
      /\ UnusedNow(f, {x}) /\ (\A d \in DirsOf(f) : Unused(f, d, {x})) /\ numbers.manifest \in Nat
  BY <1>0, <1>a, <1>2, OpeningFacts
<1>4. SyncedBut(f, {Temp(numbers.manifest)})
  BY <1>0, <1>1, <1>2 DEF OpeningInv, OpeningOK
<1>5. x \in DOMAIN f.dir /\ old # <<>>
      /\ SavedOf(old) = [tables |-> version \cup edit.add, log |-> logfile, next |-> numbers.next, last |-> lastSeq]
  BY <1>1, <1>3, <1>a DEF OpeningManifest, Now, Image
<1>6. x \in Names /\ x # CurrentFile /\ x[1] = "MANIFEST"
  BY <1>3, <1>a, Kinded DEF ThisManifest
<1>7. Wrote(f, f, x, Now(f)[x]) /\ IsFile("MANIFEST", Now(f)[x])
  <2>1. f.dir[x] \in DOMAIN f.data /\ NamesInode(x, f.dir[x])
    BY <1>3, <1>5 DEF FilesOK, DirsOf, IsDirectory
  <2>2. f.dir[x][1] = x
    BY <1>6, <2>1 DEF NamesInode
  <2>3. IsFile("MANIFEST", f.data[f.dir[x]])
    BY <1>3, <1>6, <2>1, <2>2 DEF FilesOK
  <2>4. Now(f)[x] = f.data[f.dir[x]]
    BY <1>5 DEF Now, Image
  <2>5. QED
    BY <1>5, <2>1, <2>3, <2>4, WroteSame
<1>8. Wrote(f, g, x, file)
  BY <1>7, Writes
<1>9. IsFile("MANIFEST", file) /\ file.content = old /\ file.safe = Len(old)
  <2>1. old \in Seq(Edits)
    BY <1>7 DEF IsFile
  <2> HIDE DEF old
  <2>2. Len(old) \in Nat
    BY <2>1
  <2>3. QED
    BY <2>1, <2>2 DEF IsFile
<1>10. Files' = g /\ dir' = g.dir
  BY <1>1, Disks, DiskNow
<1> HIDE DEF g, file, old
<1>11. JunkWritten(f, g, x, acked, promised)
  BY <1>3, <1>6, <1>8, <1>9, JunkStep
<1>12. Carried(f, g, {x})
  BY <1>3, <1>6, <1>11, JunkCarried
<1>13. OpeningRest'
  BY <1>0, <1>1, <1>2, <1>10, <1>12, OpeningCarried
<1>14. SyncedBut(g, {Temp(numbers.manifest)})
  BY <1>4, <1>5, <1>8, SyncedWrote
<1>15. x \in DOMAIN Now(g) /\ Now(g)[x] = file
  BY <1>8, Written
<1>16. UNCHANGED <<version, edit, logfile, numbers, lastSeq>> /\ ThisManifest' = x
  BY <1>a, <1>1 DEF memory, ThisManifest
<1>17. OpeningManifest(Now(g))'
  <2>1. Now(g)[x].content = old /\ Now(g)[x].safe = Len(Now(g)[x].content)
    BY <1>9, <1>15
  <2>2. /\ Now(g)[x].content # <<>>
        /\ SavedOf(Now(g)[x].content)
             = [tables |-> version \cup edit.add, log |-> logfile, next |-> numbers.next, last |-> lastSeq]'
    BY <1>5, <1>16, <2>1
  <2>3. QED
    BY <1>1, <1>15, <1>16, <2>1, <2>2 DEF OpeningManifest
<1>18. OpeningFinished'
  BY <1>1, <1>10, <1>13, <1>14, <1>16, <1>17 DEF OpeningFinished, OpeningStates
<1>19. QED
  BY <1>18, OpeningFinishes

(* Writing the temporary file of the new manifest keeps the invariant.     *)
LEMMA CurrentKeeps ==
  ASSUME RInv, SetCurrentFile, pc = "current"
  PROVE  RInv'
<1>0. PICK f : f = Files
  OBVIOUS
<1>a. PICK n : n = numbers.manifest
  OBVIOUS
<1> DEFINE x == Temp(n)
           y == Manifest(n)
           g == WriteTemp(f, n)
<1>1. pc' = "rename" /\ DiskBecomes(g) /\ UNCHANGED <<memory, ghosts>>
  BY <1>0, <1>a DEF SetCurrentFile
<1>2. OpeningInv
  BY OpeningAt DEF OpeningStates
<1>3. FilesOK(f) /\ DiskOK(f, acked, promised) /\ Committed(f.dir) /\ OpeningManifest(Now(f)) /\ n \in Nat
  BY <1>0, <1>a, <1>2, OpeningFacts
<1>4. SyncedBut(f, {x})
  BY <1>0, <1>a, <1>2 DEF OpeningInv, OpeningOK
<1>5. /\ JunkWritten(f, g, x, acked, promised) /\ IsDisk(g) /\ x \in DOMAIN g.dir /\ Now(g)[x].content = <<n>>
  BY <1>3, TempStep
<1>6. Files' = g /\ dir' = g.dir
  BY <1>1, <1>5, DiskNow
<1>7. x[1] = "temp" /\ y # x
  BY Kinded
<1> HIDE DEF g, x
<1>8. Carried(f, g, {x})
  BY <1>3, <1>5, <1>7, JunkCarried
<1>9. OpeningRest'
  BY <1>0, <1>1, <1>2, <1>6, <1>8, OpeningCarried
<1>10. SyncedBut(g, {x})
  <2>1. \A d \in g.older : d \in DirsOf(f)
    BY <1>5 DEF JunkWritten
  <2>2. \A z : z \notin {x} => (z \in DOMAIN g.dir <=> z \in DOMAIN f.dir) /\ (z \in DOMAIN f.dir => g.dir[z] = f.dir[z])
    BY <1>5 DEF JunkWritten, Near
  <2>3. QED
    BY <1>4, <2>1, <2>2 DEF SyncedBut, DirsOf
<1>11. y \in DOMAIN Now(g) /\ Now(g)[y] = Now(f)[y]
  <2> DEFINE X == {x}
  <2>1. SameBut(Now(f), Now(g), X) /\ y \notin X /\ y \in DOMAIN Now(f)
    BY <1>3, <1>5, <1>7, <1>a DEF JunkWritten, OpeningManifest, ThisManifest
  <2> HIDE DEF X
  <2>2. QED
    BY <2>1 DEF SameBut
<1>12. x \in DOMAIN Now(g)
  BY <1>5 DEF Now, Image
<1> HIDE DEF y
<1>b. UNCHANGED <<version, edit, logfile, numbers, lastSeq>>
  BY <1>1 DEF memory
<1>c. pc = "current"
  OBVIOUS
<1>d. /\ Now(f)[y].content # <<>>
      /\ SavedOf(Now(f)[y].content)
             = [tables |-> version \cup edit.add, log |-> logfile, next |-> numbers.next, last |-> lastSeq]
      /\ Now(f)[y].safe = Len(Now(f)[y].content)
  BY <1>a, <1>c, <1>3 DEF OpeningManifest, ThisManifest, y
<1>13. OpeningManifest(Now(g))'
  <2>1. ThisManifest' = y /\ numbers.manifest' = n /\ Temp(n) = x
    BY <1>a, <1>b DEF ThisManifest, x, y
  <2>2. Now(g)[x].content = <<n>>
    BY <1>5
  <2>3. /\ Now(g)[y].content # <<>>
        /\ SavedOf(Now(g)[y].content)
             = [tables |-> version \cup edit.add, log |-> logfile, next |-> numbers.next, last |-> lastSeq]'
        /\ Now(g)[y].safe = Len(Now(g)[y].content)
    BY <1>b, <1>d, <1>11
  <2>4. QED
    BY <2>1, <2>2, <2>3, <1>11, <1>12 DEF OpeningManifest
<1>14. OpeningFinished'
  <2>1. SyncedBut(g, {Temp(numbers.manifest)}')
    BY <1>a, <1>b, <1>10 DEF x
  <2>2. QED
    BY <1>1, <1>6, <1>9, <1>13, <2>1 DEF OpeningFinished, OpeningStates
<1>15. QED
  BY <1>14, OpeningFinishes
-----------------------------------------------------------------------------
(* A write removes no log.                                                 *)
LEMMA StableWrote ==
  ASSUME NEW f, NEW g, NEW x, NEW file, Wrote(f, g, x, file), NEW j, LogsStable(f, j)
  PROVE  LogsStable(g, j)
BY DEF Wrote, LogsStable, DirsOf

(* A new log.                                                              *)
LogMade(f, g, n, A, P) ==
    /\ FilesOK(g) /\ DiskOK(g, A, P) /\ Committed(g.dir) /\ IsDisk(g)
    /\ Full(Now(g)) = Full(Now(f)) /\ Man(Now(g)) = Man(Now(f)) /\ Cur(Now(g)) = Cur(Now(f))
    /\ SameBut(Now(f), Now(g), {LogName(n)}) /\ Near(f, f.dir, g, g.dir, {LogName(n)})
    /\ \A d \in g.older : /\ d \in DirsOf(f) /\ Near(f, d, g, d, {LogName(n)})
                          /\ Committed(d) => Man(Image(g, d)) = Man(Image(f, d))
                                             /\ Safely(Image(g, d)) = Safely(Image(f, d))
    /\ HasLog(Now(g), n) /\ LogOf(Now(g), n) = {} /\ LogName(n) \in DOMAIN g.dir
    /\ \A i : LogsStable(f, i) => LogsStable(g, i)

(* A new log leaves the disk good.                                         *)
LEMMA NewLogStep ==
  ASSUME NEW f, NEW A, NEW P, NEW n \in Nat, NEW j \in Nat, FilesOK(f), DiskOK(f, A, P), Committed(f.dir),
         Full(Now(f)).log <= n, LogName(n) \notin DOMAIN f.dir, LogsStable(f, j), j <= n
  PROVE  LogMade(f, Create(f, LogName(n)), n, A, P)
<1> DEFINE x == LogName(n)
           g == Create(f, x)
<1>1. Wrote(f, g, x, NewFile)
  BY Creates
<1>2. IsFile("log", NewFile) /\ ToSet(NewFile.content) = {}
  <2>1. NewFile.content = <<>> /\ NewFile.safe = 0 /\ NewFile = [content |-> <<>>, safe |-> 0]
    BY DEF NewFile
  <2>2. QED
    BY <2>1, Elements DEF IsFile
<1>3. x[1] = "log" /\ x[2] = n
  BY Kinded
<1>4. \A d \in f.older : x \in DOMAIN d => x \in DOMAIN f.dir /\ d[x] = f.dir[x]
  BY <1>3 DEF LogsStable
<1>5. ~HasLog(Now(f), n)
  BY DEF HasLog, Now, Image
<1>6. IsDisk(g)
  BY Disks
<1> HIDE DEF g, x
<1> DEFINE none == {}
<1>7. ToSet(NewFile.content) = (IF HasLog(Now(f), n) THEN LogOf(Now(f), n) ELSE {}) \cup none
  BY <1>2, <1>5
<1>8. (IF HasLog(Now(f), n) THEN SafeLogOf(Now(f), n) ELSE {}) \cup none \subseteq ToSet(SubSeq(NewFile.content, 1, NewFile.safe))
  BY <1>5
<1>9. none # {} => \A d \in DirsOf(f) : Committed(d) /\ (Man(Image(f, d)).safe # 0 => Safely(Image(f, d)).log <= n)
  OBVIOUS
<1>10. none \subseteq none /\ A \cup none = A /\ P \cup none = P
  OBVIOUS
<1> HIDE DEF none
<1>a. /\ Wrote(f, g, LogName(n), NewFile) /\ IsFile("log", NewFile)
      /\ \A d \in f.older : LogName(n) \in DOMAIN d => LogName(n) \in DOMAIN f.dir /\ d[LogName(n)] = f.dir[LogName(n)]
  BY <1>1, <1>2, <1>4 DEF x
<1>b. CanGrow(f, g, A, P, none, none, n, NewFile)
  BY <1>a, <1>7, <1>8, <1>9, <1>10 DEF CanGrow
<1>11. LogGrown(f, g, A, P, n, NewFile)
  BY <1>b, <1>10, LogGrows
<1>12. HasLog(Now(g), n) /\ LogOf(Now(g), n) = {}
  BY <1>2, <1>11 DEF LogGrown, HasLog, LogOf, Now, Image
<1>13. \A i : LogsStable(f, i) => LogsStable(g, i)
  BY <1>1, StableWrote
<1>14. QED
  BY <1>6, <1>11, <1>12, <1>13 DEF LogMade, LogGrown, g, x

(* Creating the new log keeps the invariant.                               *)
LEMMA NewLogKeeps ==
  ASSUME RInv, NewLog
  PROVE  RInv'
<1>0. PICK f : f = Files
  OBVIOUS
<1>a. PICK n : n = numbers.next
  OBVIOUS
<1> DEFINE g == Create(f, LogName(n))
           m == Now(f)
           k == Now(g)
           v == Full(m)
<1>1. /\ pc = "logs" /\ logs = {} /\ DiskBecomes(g) /\ pc' = "snapshot"
      /\ logfile' = n /\ edit' = [edit EXCEPT !.log = n] /\ numbers' = [numbers EXCEPT !.next = n + 1]
      /\ UNCHANGED <<version, kept, logs, mem, imm, lastSeq, job, pending, bgError, acked, promised, issued, crashes>>
  BY <1>0, <1>a DEF NewLog, ghosts
<1>2. OpeningInv
  BY <1>1, OpeningAt DEF OpeningStates
<1>3. /\ FilesOK(f) /\ DiskOK(f, acked, promised) /\ Committed(f.dir) /\ MemoryTypeOK
      /\ OpeningMemory(v) /\ NewTables(m) /\ OpeningLogs(m, v) /\ LogsStable(f, numbers.log)
      /\ n \in Nat /\ numbers \in [next : Nat, log : Nat, manifest : Nat]
  BY <1>0, <1>a, <1>2, OpeningFacts
<1>4. v.next \in Nat /\ v.log \in Nat /\ v.log < v.next
  BY <1>3, FullType
<1>5. v.next < n /\ numbers.log = v.log /\ v.log <= n
  BY <1>3, <1>4, <1>a DEF OpeningMemory
<1>6. \A x \in DOMAIN m : x[1] = "log" /\ x[2] >= v.log => x[2] < n /\ InNewTables(m, x[2])
  BY <1>1, <1>3, <1>a DEF OpeningLogs
<1>7. \A x \in DOMAIN m : x[1] = "log" => x[2] \in Nat /\ x[2] < n
  <2>1. \A x \in DOMAIN m : x[1] = "log" => x[2] \in Nat
    BY <1>3, LogNumbers, Kinded
  <2> HIDE DEF m, v
  <2>2. QED
    BY <1>3, <1>4, <1>5, <1>6, <2>1
<1>8. LogName(n) \notin DOMAIN f.dir
  <2>1. LogName(n)[1] = "log" /\ LogName(n)[2] = n /\ DOMAIN m = DOMAIN f.dir
    BY Kinded DEF Now, Image
  <2>2. QED
    BY <1>3, <1>7, <2>1
<1> HIDE DEF g, v, m, k
<1>9. LogMade(f, g, n, acked, promised)
  BY <1>3, <1>4, <1>5, <1>8, NewLogStep DEF g, v, m
<1>10. Files' = g /\ dir' = g.dir
  BY <1>1, <1>9, DiskNow DEF LogMade
<1>11. v = Full(k) /\ HasLog(k, n) /\ LogOf(k, n) = {} /\ FilesOK(g)
  BY <1>9 DEF LogMade, k, v, m
<1> DEFINE X == {LogName(n)}
<1>12. SameBut(m, k, X) /\ \A t : Table(t) \notin X
  BY <1>9, Kinded DEF LogMade, k, m
<1> HIDE DEF X
<1>13. \A t \in edit.add : HasTable(k, t) /\ Stored(k, t) = Stored(m, t)
  BY <1>3, <1>12, NewTablesStay DEF NewTables
<1>14. numbers'.next = n + 1 /\ numbers'.log = v.log /\ numbers'.manifest = v.next /\ numbers' \in [next : Nat, log : Nat, manifest : Nat]
  BY <1>1, <1>3, <1>5 DEF OpeningMemory
<1>15. edit'.log = n /\ edit'.add = edit.add /\ edit'.del = edit.del /\ edit' \in [add : SUBSET Nat, del : SUBSET Nat, log : Nat]
  BY <1>1, <1>3 DEF MemoryTypeOK
<1>16. MemoryTypeOK'
  BY <1>1, <1>3, <1>14, <1>15 DEF MemoryTypeOK
<1>17. OpeningMemory(v)'
  <2>1. v.next < n + 1
    BY <1>3, <1>4, <1>5
  <2>2. QED
    BY <1>1, <1>3, <1>14, <1>15, <2>1 DEF OpeningMemory
<1>18. NewTables(k)'
  <2>1. \A t \in edit.add : t \in Nat /\ t < n
    BY <1>3, <1>a DEF NewTables, MemoryTypeOK
  <2>2. \A t \in edit.add : t < n + 1
    BY <1>3, <2>1
  <2>3. QED
    BY <1>1, <1>3, <1>13, <1>14, <1>15, <2>2 DEF NewTables
<1>19. \A x \in DOMAIN k : x[1] = "log" /\ x[2] # n => x[2] < n /\ (x[2] >= v.log => InNewTables(k, x[2])')
  <2> SUFFICES ASSUME NEW x \in DOMAIN k, x[1] = "log", x[2] # n
               PROVE  x[2] < n /\ (x[2] >= v.log => InNewTables(k, x[2])')
    OBVIOUS
  <2>1. x \notin X
    BY Kinded DEF X
  <2>2. x \in DOMAIN m /\ k[x] = m[x]
    BY <1>12, <2>1 DEF SameBut
  <2>3. x = LogName(x[2])
    BY <1>3, <2>2, LogNumbers DEF m
  <2>4. LogOf(k, x[2]) = LogOf(m, x[2])
    BY <2>2, <2>3 DEF LogOf
  <2>5. x[2] >= v.log => InNewTables(m, x[2])
    BY <1>6, <2>2
  <2>6. QED
    BY <1>7, <1>13, <1>15, <2>2, <2>4, <2>5 DEF InNewTables
<1>20. OpeningLogs(k, v)'
  BY <1>1, <1>3, <1>5, <1>11, <1>14, <1>15, <1>19 DEF OpeningLogs
<1>21. LogsStable(Files, numbers.log)'
  BY <1>3, <1>5, <1>9, <1>10, <1>14 DEF LogMade
<1>22. LiveInv' /\ Committed(dir)'
  BY <1>1, <1>9, <1>10, <1>16 DEF LiveInv, LogMade
<1>23. OpeningRest'
  BY <1>10, <1>11, <1>17, <1>18, <1>20, <1>21, <1>22 DEF OpeningRest, k
<1>24. OpeningFinished'
  BY <1>1, <1>23 DEF OpeningFinished, OpeningManifest, OpeningStates
<1>25. QED
  BY <1>24, OpeningFinishes
-----------------------------------------------------------------------------
(* The snapshot and the edit of recovery, as one version.                  *)
LEMMA TwoEdits ==
  ASSUME NEW a \in Edits, NEW b \in Edits
  PROVE  LET s == Append(Append(<<>>, a), b)
         IN  /\ s \in Seq(Edits) /\ s # <<>> /\ Len(s) = 2
             /\ SavedOf(s) = [tables |-> (a.add \ b.del) \cup b.add, log |-> b.log, next |-> b.next, last |-> b.last]
<1> DEFINE r == <<a>>
<1>1. r \in Seq(Edits) /\ Append(<<>>, a) = r /\ Len(r) = 1
  OBVIOUS
<1>2. SavedOf(r) = [tables |-> a.add, log |-> a.log, next |-> a.next, last |-> a.last]
  BY SavedOne
<1> HIDE DEF r
<1>3. SavedOf(r).tables = a.add
  BY <1>2
<1>4. SavedOf(Append(r, b)) = [tables |-> (SavedOf(r).tables \ b.del) \cup b.add, log |-> b.log, next |-> b.next, last |-> b.last]
  BY <1>1, SavedAppend
<1>5. Append(r, b) \in Seq(Edits) /\ Append(r, b) # <<>> /\ Len(Append(r, b)) = 2
  <2>1. Append(r, b) \in Seq(Edits) /\ Len(Append(r, b)) = Len(r) + 1
    BY <1>1, AppendProperties
  <2>2. Len(<<>>) = 0
    OBVIOUS
  <2>3. QED
    BY <1>1, <2>1, <2>2
<1>6. QED
  BY <1>1, <1>3, <1>4, <1>5

(* Writing the new manifest keeps the invariant.                           *)
LEMMA SnapshotKeeps ==
  ASSUME RInv, LogSnapshot
  PROVE  RInv'
<1>0. PICK f : f = Files
  OBVIOUS
<1>a. PICK x : x = ThisManifest
  OBVIOUS
<1>b. PICK a : a = Snapshot
  OBVIOUS
<1>c. PICK b : b = Record
  OBVIOUS
<1> DEFINE g == WriteFile(WriteFile(Create(f, x), x, a), x, b)
           s == Append(Append(<<>>, a), b)
           file == [content |-> s, safe |-> 0]
<1>1. pc = "snapshot" /\ pc' = "syncDir" /\ DiskBecomes(g) /\ UNCHANGED <<memory, ghosts>>
  BY <1>0, <1>a, <1>b, <1>c DEF LogSnapshot
<1>2. OpeningInv
  BY <1>1, OpeningAt DEF OpeningStates
<1>3. /\ FilesOK(f) /\ DiskOK(f, acked, promised) /\ Committed(f.dir) /\ MemoryTypeOK
      /\ OpeningMemory(Full(Now(f))) /\ OpeningLogs(Now(f), Full(Now(f)))
      /\ UnusedNow(f, {x}) /\ (\A d \in DirsOf(f) : Unused(f, d, {x})) /\ numbers.manifest \in Nat
  BY <1>0, <1>a, <1>2, OpeningFacts
<1>4. edit.del = {} /\ edit.log = logfile
  BY <1>1, <1>3 DEF OpeningMemory, OpeningLogs
<1>5. a \in Edits /\ b \in Edits
  BY <1>b, <1>c, <1>3 DEF Snapshot, Record, Edits, MemoryTypeOK
<1>6. /\ a.add = version
      /\ b.add = edit.add /\ b.del = {} /\ b.log = logfile /\ b.next = numbers.next /\ b.last = lastSeq
  BY <1>b, <1>c, <1>4 DEF Snapshot, Record
<1>7. /\ s \in Seq(Edits) /\ s # <<>> /\ Len(s) = 2
      /\ SavedOf(s) = [tables |-> (a.add \ b.del) \cup b.add, log |-> b.log, next |-> b.next, last |-> b.last]
  BY <1>5, TwoEdits
<1>8. SavedOf(s) = [tables |-> version \cup edit.add, log |-> logfile, next |-> numbers.next, last |-> lastSeq]
  BY <1>6, <1>7
<1>9. x \in Names /\ x # CurrentFile /\ x[1] = "MANIFEST"
  BY <1>3, <1>a, Kinded DEF ThisManifest
<1>10. Wrote(f, g, x, file)
  <2>1. Wrote(f, Create(f, x), x, NewFile) /\ NewFile.content = <<>> /\ NewFile.safe = 0
    BY <1>3, Creates DEF NewFile
  <2> DEFINE h == WriteFile(Create(f, x), x, a)
             k == [content |-> Append(<<>>, a), safe |-> 0]
  <2>2. Wrote(f, h, x, k)
    BY <2>1, Writes
  <2>3. k.content = Append(<<>>, a) /\ k.safe = 0
    OBVIOUS
  <2> HIDE DEF h, k
  <2>4. Wrote(f, WriteFile(h, x, b), x, [content |-> Append(k.content, b), safe |-> k.safe])
    BY <2>2, Writes
  <2>5. QED
    BY <2>3, <2>4 DEF h
<1> HIDE DEF s
<1>11. IsFile("MANIFEST", file) /\ file.content = s
  BY <1>7 DEF IsFile
<1>12. Files' = g /\ dir' = g.dir
  BY <1>1, Disks, DiskNow
<1> HIDE DEF g, file
<1>13. JunkWritten(f, g, x, acked, promised)
  BY <1>3, <1>9, <1>10, <1>11, JunkStep
<1>14. Carried(f, g, {x})
  BY <1>3, <1>9, <1>13, JunkCarried
<1>15. OpeningRest'
  BY <1>0, <1>1, <1>2, <1>12, <1>14, OpeningCarried
<1>16. x \in DOMAIN Now(g) /\ Now(g)[x] = file
  BY <1>10, Written
<1>17. UNCHANGED <<version, edit, logfile, numbers, lastSeq>> /\ ThisManifest' = x
  BY <1>1, <1>a DEF memory, ThisManifest
<1>18. OpeningManifest(Now(g))'
  BY <1>1, <1>7, <1>8, <1>11, <1>16, <1>17 DEF OpeningManifest
<1>19. OpeningFinished'
  BY <1>1, <1>12, <1>15, <1>18 DEF OpeningFinished, OpeningStates
<1>20. QED
  BY <1>19, OpeningFinishes

(* A log is recovered, to a table unless it is empty.                      *)
LEMMA RecoveredLog ==
  ASSUME NEW f, FilesOK(f), NEW n, LogName(n) \in DOMAIN Now(f), n \in Nat
  PROVE  \E s \in Seq(Pairs) : InLog(f, n) = ToSet(s) /\ LogOf(Now(f), n) = ToSet(s)
<1> DEFINE x == LogName(n)
<1>1. x \in DOMAIN f.dir /\ Now(f)[x] = f.data[f.dir[x]] /\ x[1] = "log" /\ x # CurrentFile
  BY Kinded DEF Now, Image
<1>2. f.dir[x] \in DOMAIN f.data /\ NamesInode(x, f.dir[x])
  BY <1>1 DEF FilesOK, DirsOf, IsDirectory
<1>3. IsFile("log", f.data[f.dir[x]])
  BY <1>1, <1>2 DEF FilesOK, NamesInode
<1>4. Now(f)[x].content \in Seq(Pairs)
  BY <1>1, <1>3 DEF IsFile
<1>5. InLog(f, n) = ToSet(Now(f)[x].content) /\ LogOf(Now(f), n) = ToSet(Now(f)[x].content)
  BY <1>1 DEF InLog, Content, File, LogOf
<1>6. QED
  BY <1>4, <1>5

(* What is recovered from one log, to the tables T.                        *)
LogRecovered(f, g, n, E, T, N) ==
    /\ Files' = g /\ dir' = g.dir /\ FilesOK(g) /\ DiskOK(g, acked, promised) /\ Committed(g.dir)
    /\ Full(Now(g)) = Full(Now(f)) /\ \A i : LogsStable(f, i) => LogsStable(g, i)
    /\ SameBut(Now(f), Now(g), {Table(t) : t \in T}) /\ T \subseteq {numbers.next}
    /\ \A t \in T : HasTable(Now(g), t) /\ Stored(Now(g), t) = E /\ t < N
    /\ E # {} => T # {}
    /\ edit' = [edit EXCEPT !.add = edit.add \cup T]
    /\ numbers' = [numbers EXCEPT !.next = N] /\ N \in Nat /\ numbers.next <= N /\ n < N

(* Recovering a log puts what it holds in a table.                         *)
LEMMA LogToTable ==
  ASSUME OpeningInv, RecoverLog, NEW f, f = Files, NEW n, n = Min(logs), NEW E, E = InLog(f, n)
  PROVE  \E g, T, N : LogRecovered(f, g, n, E, T, N)
<1>a. PICK u : u = numbers.next
  OBVIOUS
<1>1. /\ FilesOK(f) /\ DiskOK(f, acked, promised) /\ Committed(f.dir) /\ MemoryTypeOK /\ f.dir = dir
      /\ OpeningLogs(Now(f), Full(Now(f)))
      /\ numbers \in [next : Nat, log : Nat, manifest : Nat]
      /\ Full(Now(f)).next = numbers.manifest /\ u \in Nat /\ numbers.manifest < u /\ numbers.manifest \in Nat
      /\ \A j \in Nat : Full(Now(f)).next <= j =>
            UnusedNow(f, {Table(j)}) /\ \A d \in DirsOf(f) : Unused(f, d, {Table(j)})
  BY <1>a, OpeningFacts
<1>2. n \in logs /\ n \in Nat /\ LogName(n) \in DOMAIN Now(f) /\ pc = "logs"
  <2>1. logs \in SUBSET Nat /\ logs # {} /\ pc = "logs"
    BY <1>1 DEF RecoverLog, MemoryTypeOK
  <2>2. QED
    BY <1>1, <2>1, MinIs DEF OpeningLogs
<1>3. PICK s \in Seq(Pairs) : E = ToSet(s)
  BY <1>1, <1>2, RecoveredLog
<1>4. CASE E = {}
  <2> DEFINE N == Used(u, n)
  <2>1. numbers' = [numbers EXCEPT !.next = N] /\ UNCHANGED <<disk, edit>>
    BY <1>4, <1>a DEF RecoverLog
  <2>2. N \in Nat /\ u <= N /\ n < N
    BY <1>1, <1>2, UsedIs
  <2>3. Files' = f /\ dir' = dir
    BY <2>1, DiskStays
  <2> DEFINE T == {}
  <2>4. SameBut(Now(f), Now(f), {Table(t) : t \in T}) /\ T \subseteq {numbers.next}
    BY DEF SameBut
  <2>5. edit' = [edit EXCEPT !.add = edit.add \cup T]
    BY <1>1, <2>1 DEF MemoryTypeOK
  <2> HIDE DEF N
  <2>6. LogRecovered(f, f, n, E, {}, N)
    BY <1>1, <1>4, <1>a, <2>1, <2>2, <2>3, <2>4, <2>5 DEF LogRecovered
  <2>7. QED
    BY <2>6
<1>5. CASE E # {}
  <2> DEFINE N == Used(u + 1, n)
             h == Create(f, Table(u))
             g == WriteTable(h, u, E)
  <2>1. numbers' = [numbers EXCEPT !.next = N] /\ DiskBecomes(g) /\ edit' = [edit EXCEPT !.add = edit.add \cup {u}]
    BY <1>5, <1>a DEF RecoverLog
  <2>2. u + 1 \in Nat /\ u < u + 1
    BY <1>1
  <2>3. N \in Nat /\ u + 1 <= N /\ n < N
    BY <1>1, <1>2, <2>2, UsedIs
  <2>4. u <= N /\ u < N
    BY <1>1, <2>3
  <2>5. E \in SUBSET Pairs
    BY <1>3, Elements
  <2>6. Wrote(f, h, Table(u), NewFile)
    BY <1>1, Creates
  <2>7. UnusedNow(f, {Table(u)}) /\ \A d \in DirsOf(f) : Unused(f, d, {Table(u)})
    <3>1. Full(Now(f)).next <= u
      BY <1>1
    <3>2. QED
      BY <1>1, <3>1
  <2>8. CanWrite(f, h, u, E, acked, promised)
    BY <1>1, <2>5, <2>6, <2>7 DEF CanWrite
  <2>9. TableWritten(f, g, u, E, acked, promised)
    BY <2>8, TableStep
  <2>10. Files' = g /\ dir' = g.dir
    BY <2>1, <2>9, DiskNow DEF TableWritten
  <2> DEFINE T == {u}
  <2>11. {Table(t) : t \in T} = {Table(u)}
    OBVIOUS
  <2>12. T \subseteq {numbers.next} /\ T # {}
    BY <1>a
  <2> HIDE DEF N, g
  <2>13. \A t \in T : HasTable(Now(g), t) /\ Stored(Now(g), t) = E /\ t < N
    BY <2>4, <2>9 DEF TableWritten
  <2>14. edit' = [edit EXCEPT !.add = edit.add \cup T]
    BY <2>1
  <2>15. /\ FilesOK(g) /\ DiskOK(g, acked, promised) /\ Committed(g.dir)
         /\ Full(Now(g)) = Full(Now(f)) /\ \A i : LogsStable(f, i) => LogsStable(g, i)
    BY <1>1, <2>9 DEF TableWritten, JunkWritten
  <2>16. SameBut(Now(f), Now(g), {Table(t) : t \in T})
    BY <2>9, <2>11 DEF TableWritten, JunkWritten
  <2> HIDE DEF T
  <2>17. LogRecovered(f, g, n, E, T, N)
    BY <1>5, <1>a, <2>1, <2>3, <2>4, <2>10, <2>12, <2>13, <2>14, <2>15, <2>16 DEF LogRecovered
  <2>18. QED
    BY <2>17
<1>6. QED
  BY <1>4, <1>5

(* Recovering a log keeps the invariant.                                   *)
LEMMA RecoverLogKeeps ==
  ASSUME RInv, RecoverLog
  PROVE  RInv'
<1>0. PICK f : f = Files
  OBVIOUS
<1>a. PICK n : n = Min(logs)
  OBVIOUS
<1>b. PICK E : E = InLog(f, n)
  OBVIOUS
<1> DEFINE m == Now(f)
           v == Full(m)
<1>1. /\ pc = "logs" /\ logs # {} /\ logs' = logs \ {n} /\ lastSeq' = LastSequence(E)
      /\ UNCHANGED <<pc, version, kept, logfile, mem, imm, job, pending, bgError, acked, promised, issued, crashes>>
  BY <1>0, <1>a, <1>b DEF RecoverLog, ghosts
<1>2. OpeningInv
  BY <1>1, OpeningAt DEF OpeningStates
<1>3. PICK g, T, N : LogRecovered(f, g, n, E, T, N)
  BY <1>0, <1>a, <1>b, <1>2, LogToTable
<1>4. /\ FilesOK(f) /\ DiskOK(f, acked, promised) /\ Committed(f.dir) /\ MemoryTypeOK
      /\ OpeningMemory(v) /\ NewTables(m) /\ OpeningLogs(m, v) /\ LogsStable(f, numbers.log)
      /\ numbers \in [next : Nat, log : Nat, manifest : Nat] /\ numbers.next \in Nat
  BY <1>0, <1>2, OpeningFacts
<1>5. v.next \in Nat /\ v.log \in Nat /\ v.last \in Nat /\ Sane(m, v, acked)
  BY <1>4, FullType
<1> HIDE DEF m, v
<1>6. n \in logs /\ n \in Nat /\ LogName(n) \in DOMAIN m /\ n >= v.log
  <2>1. logs \in SUBSET Nat
    BY <1>4 DEF MemoryTypeOK
  <2>2. QED
    BY <1>1, <1>4, <1>a, <2>1, MinIs DEF OpeningLogs
<1>7. PICK s \in Seq(Pairs) : E = ToSet(s) /\ LogOf(m, n) = ToSet(s)
  BY <1>4, <1>6, <1>b, RecoveredLog DEF m
<1>8. lastSeq' \in Nat /\ lastSeq <= lastSeq' /\ \A e \in E : e[2] <= lastSeq'
  BY <1>1, <1>4, <1>7, LastSequenceIs DEF MemoryTypeOK
<1>9. E \subseteq acked
  <2>1. LogName(n)[1] = "log" /\ LogName(n)[2] = n
    BY Kinded
  <2>2. QED
    BY <1>5, <1>6, <1>7, <2>1 DEF Sane, Holds
<1> DEFINE k == Now(g)
           X == {Table(t) : t \in T}
<1>10. /\ v = Full(k) /\ SameBut(m, k, X) /\ FilesOK(g) /\ T \subseteq {numbers.next}
       /\ (\A t \in T : HasTable(k, t) /\ Stored(k, t) = E /\ t < N) /\ (E # {} => T # {})
       /\ N \in Nat /\ numbers.next <= N /\ n < N
  BY <1>3 DEF LogRecovered, m, v
<1>11. NoLogs(X) /\ \A x \in DOMAIN m \cup DOMAIN k : x \in Names
  <2>1. NoLogs(X)
    BY Kinded DEF NoLogs
  <2>2. QED
    BY <1>4, <1>10, <2>1, LogNumbers DEF m
<1>12. \A t \in edit.add : Table(t) \notin X /\ t \in Nat /\ t < numbers.next
  <2>1. \A t \in edit.add : t \in Nat /\ t < numbers.next
    BY <1>4 DEF NewTables, MemoryTypeOK
  <2>2. ASSUME NEW t \in edit.add, Table(t) \in X PROVE FALSE
    <3>1. PICK u \in T : Table(t) = Table(u)
      BY <2>2
    <3>2. t = u /\ u = numbers.next
      BY <1>10, <3>1, Kinded
    <3>3. QED
      BY <1>4, <2>1, <3>2
  <2>3. QED
    BY <2>1, <2>2
<1> HIDE DEF X, k
<1>13. /\ \A i \in Nat : /\ LogName(i) \in DOMAIN m <=> LogName(i) \in DOMAIN k
                         /\ LogName(i) \in DOMAIN m => LogOf(k, i) = LogOf(m, i)
       /\ \A x \in DOMAIN k : x[1] = "log" => x \in DOMAIN m /\ LogOf(k, x[2]) = LogOf(m, x[2]) /\ x[2] \in Nat
  BY <1>10, <1>11, LogsStay
<1>14. \A t \in edit.add : HasTable(k, t) /\ Stored(k, t) = Stored(m, t)
  BY <1>4, <1>10, <1>12, NewTablesStay DEF NewTables
<1>15. numbers'.next = N /\ numbers'.log = numbers.log /\ numbers'.manifest = numbers.manifest
       /\ numbers' \in [next : Nat, log : Nat, manifest : Nat]
  BY <1>3, <1>4, <1>10 DEF LogRecovered
<1>16. edit'.add = edit.add \cup T /\ edit'.del = edit.del /\ edit' \in [add : SUBSET Nat, del : SUBSET Nat, log : Nat]
  BY <1>3, <1>4, <1>10 DEF LogRecovered, MemoryTypeOK
<1>17. MemoryTypeOK'
  <2>1. logs' \subseteq Nat
    BY <1>1, <1>4 DEF MemoryTypeOK
  <2>2. QED
    BY <1>1, <1>4, <1>8, <1>15, <1>16, <2>1 DEF MemoryTypeOK
<1>18. OpeningMemory(v)'
  <2>1. v.next < N /\ v.last <= lastSeq'
    <3>1. lastSeq \in Nat /\ v.last <= lastSeq /\ v.next < numbers.next
      BY <1>4 DEF OpeningMemory, MemoryTypeOK
    <3>2. QED
      BY <1>4, <1>5, <1>8, <1>10, <3>1
  <2>2. QED
    BY <1>1, <1>4, <1>15, <1>16, <2>1 DEF OpeningMemory
<1>19. NewTables(k)'
  <2> SUFFICES ASSUME NEW t \in edit.add \cup T
               PROVE  t < N /\ HasTable(k, t) /\ \A e \in Stored(k, t) : e \in acked /\ e[2] <= lastSeq'
    BY <1>1, <1>15, <1>16 DEF NewTables
  <2>1. CASE t \in T
    BY <1>8, <1>9, <1>10, <2>1
  <2>2. CASE t \in edit.add
    <3>1. t < N
      BY <1>4, <1>10, <1>12, <2>2
    <3>2. ASSUME NEW e \in Stored(k, t) PROVE e \in acked /\ e[2] <= lastSeq'
      <4>1. e \in acked /\ e[2] <= lastSeq
        BY <1>4, <1>14, <2>2, <3>2 DEF NewTables
      <4>2. lastSeq \in Nat /\ e[2] \in Nat
        BY <1>4, <4>1 DEF MemoryTypeOK
      <4>3. QED
        BY <1>8, <4>1, <4>2
    <3>3. QED
      BY <1>14, <2>2, <3>1, <3>2
  <2>3. QED
    BY <2>1, <2>2
<1>20. \A i : (LogOf(k, i) = LogOf(m, i) /\ InNewTables(m, i)) => InNewTables(k, i)'
  BY <1>14, <1>16 DEF InNewTables
<1>21. InNewTables(k, n)'
  <2>1. LogOf(k, n) = E
    BY <1>6, <1>7, <1>13
  <2>2. \A e \in E : \E t \in edit.add \cup T : e \in Stored(k, t)
    BY <1>10
  <2>3. QED
    BY <1>16, <2>1, <2>2 DEF InNewTables
<1>22. OpeningLogs(k, v)'
  <2>1. \A i \in logs' : LogName(i) \in DOMAIN k /\ i >= v.log
    <3>1. \A i \in logs : LogName(i) \in DOMAIN m /\ i >= v.log /\ i \in Nat
      BY <1>1, <1>4 DEF OpeningLogs, MemoryTypeOK
    <3>2. QED
      BY <1>1, <1>13, <3>1
  <2>2. ASSUME NEW x \in DOMAIN k, x[1] = "log", x[2] >= v.log
        PROVE  x[2] \in logs' \/ (x[2] < N /\ InNewTables(k, x[2])')
    <3>1. x \in DOMAIN m /\ LogOf(k, x[2]) = LogOf(m, x[2]) /\ x[2] \in Nat
      BY <1>13, <2>2
    <3>2. x[2] \in logs \/ (x[2] < numbers.next /\ InNewTables(m, x[2]))
      BY <1>1, <1>4, <2>2, <3>1 DEF OpeningLogs
    <3>3. CASE x[2] = n
      BY <1>10, <1>21, <3>3
    <3>4. CASE x[2] # n /\ x[2] \in logs
      BY <1>1, <3>4
    <3>5. CASE x[2] < numbers.next /\ InNewTables(m, x[2])
      <4>1. x[2] < N
        BY <1>4, <1>10, <3>1, <3>5
      <4>2. InNewTables(k, x[2])'
        BY <1>20, <3>1, <3>5
      <4>3. QED
        BY <4>1, <4>2
    <3>6. QED
      BY <3>2, <3>3, <3>4, <3>5
  <2>3. QED
    BY <1>1, <1>15, <2>1, <2>2 DEF OpeningLogs
<1>23. LiveInv' /\ Committed(dir)' /\ LogsStable(Files, numbers.log)'
  BY <1>1, <1>3, <1>4, <1>15, <1>17 DEF LogRecovered, LiveInv
<1>24. OpeningRest'
  BY <1>3, <1>10, <1>18, <1>19, <1>22, <1>23 DEF OpeningRest, k, LogRecovered
<1>25. OpeningFinished'
  BY <1>1, <1>24 DEF OpeningFinished, OpeningManifest, OpeningStates
<1>26. QED
  BY <1>25, OpeningFinishes
-----------------------------------------------------------------------------
(* A failure to open keeps the invariant.                                  *)
LEMMA OpenFails ==
  ASSUME RInv, OpenDBFails
  PROVE  RInv'
<1>0. PICK f : f = Files
  OBVIOUS
<1>a. PICK x : x = ThisManifest
  OBVIOUS
<1>b. PICK y : y = Temp(numbers.manifest)
  OBVIOUS
<1> DEFINE X == {x, y}
           g == Unlink(f, X)
<1>1. /\ pc \in OpeningStates /\ DiskBecomes(g) /\ Crashing /\ acked' = acked /\ promised' = promised
  BY <1>0, <1>a, <1>b DEF OpenDBFails, OpeningStates, Crashing
<1>2. OpeningInv
  BY <1>1, OpeningAt
<1>3. /\ FilesOK(f) /\ DiskOK(f, acked, promised) /\ Committed(f.dir) /\ MemoryTypeOK
      /\ UnusedNow(f, {x}) /\ numbers.manifest \in Nat
  BY <1>0, <1>a, <1>2, OpeningFacts
<1>4. UnusedNow(f, {y})
  BY <1>b, UnusedTemp
<1>5. UnusedNow(f, X)
  BY <1>3, <1>4 DEF UnusedNow, Unused
<1>6. NoLogs(X)
  BY <1>a, <1>b, Kinded DEF NoLogs, ThisManifest
<1> HIDE DEF X
<1>7. Removed(f, g, X)
  BY Removes
<1>8. IsDisk(g)
  BY <1>0, Disks
<1> HIDE DEF g
<1>9. /\ FilesOK(g) /\ DiskOK(g, acked, promised)
      /\ Committed(g.dir) <=> Committed(f.dir)
      /\ Full(Now(g)) = Full(Now(f))
      /\ \A n : LogsStable(f, n) => LogsStable(g, n)
  BY <1>3, <1>5, <1>6, <1>7, RemoveJunk
<1>10. Files' = g /\ dir' = g.dir
  BY <1>1, <1>8, DiskNow
<1>11. LogsStable(f, FirstLog(f))
  BY <1>0, <1>2, StableNow
<1>12. LogsStable(g, FirstLog(g))
  BY <1>3, <1>9, <1>11 DEF FirstLog
<1>13. acked' = acked \cap acked /\ promised' = promised \cap acked
  BY <1>1, <1>3 DEF MemoryTypeOK
<1>14. MemoryTypeOK' /\ Blank' /\ pc' = "closed" /\ numbers' = [next |-> 2, log |-> 0, manifest |-> 0]
  BY <1>1, <1>3, <1>13, Forgets
<1>15. FilesOK(Files') /\ DiskOK(Files', acked', promised') /\ LogsStable(Files', FirstLog(Files'))
  BY <1>1, <1>9, <1>10, <1>12
<1>16. QED
  BY <1>14, <1>15, CrashedClosed

(* The new manifest has everything there is in tables.                     *)
NewView == [tables |-> version \cup edit.add, log |-> logfile, next |-> numbers.next, last |-> lastSeq]

(* The version that the new manifest stands for.                           *)
LEMMA NewViewIs ==
  /\ NewView.tables = version \cup edit.add /\ NewView.log = logfile
  /\ NewView.next = numbers.next /\ NewView.last = lastSeq
BY DEF NewView

NewViewOK(m) ==
    /\ 0 < numbers.manifest /\ numbers.log <= logfile /\ HasLog(m, logfile) /\ LogOf(m, logfile) = {}
    /\ numbers.manifest < logfile /\ numbers.manifest < numbers.next /\ logfile < numbers.next
    /\ \A t \in version \cup edit.add : GoodTable(m, t) /\ \A e \in Stored(m, t) : e[2] <= lastSeq
    /\ \A x \in DOMAIN m : x[1] = "log" /\ x[2] # logfile => x[2] < logfile
    /\ \A e \in acked : (\E t \in version \cup edit.add : e \in Stored(m, t)) /\ e[2] <= lastSeq

(* The disk holds what the version of the new manifest needs.              *)
LEMMA NewViewGood ==
  ASSUME OpeningInv, pc # "logs", NEW f, f = Files
  PROVE  NewViewOK(Now(f))
<1> DEFINE m == Now(f)
           v == Full(m)
<1>1. /\ FilesOK(f) /\ DiskOK(f, acked, promised) /\ Committed(f.dir) /\ MemoryTypeOK
      /\ OpeningMemory(v) /\ NewTables(m) /\ OpeningLogs(m, v)
      /\ numbers \in [next : Nat, log : Nat, manifest : Nat] /\ numbers.next \in Nat
  BY OpeningFacts
<1>2. /\ v.next \in Nat /\ v.log \in Nat /\ v.last \in Nat /\ Sane(m, v, acked) /\ NowOK(m, acked, promised)
      /\ v.log < v.next /\ v.tables \subseteq Nat /\ Cur(m) \in Nat
  BY <1>1, FullType
<1> HIDE DEF m, v
<1>3. /\ logfile \in Nat /\ lastSeq \in Nat /\ edit.add \subseteq Nat /\ acked \subseteq (1 .. MaxEntries) \X Nat
  BY <1>1 DEF MemoryTypeOK
<1>4. /\ version = v.tables /\ numbers.log = v.log /\ numbers.manifest = v.next /\ v.next < numbers.next
      /\ v.last <= lastSeq
  BY <1>1 DEF OpeningMemory
<1>5. /\ v.next < logfile /\ logfile < numbers.next
      /\ HasLog(m, logfile) /\ LogOf(m, logfile) = {}
      /\ \A x \in DOMAIN m : x[1] = "log" /\ x[2] # logfile =>
            x[2] < logfile /\ (x[2] >= v.log => InNewTables(m, x[2]))
  BY <1>1 DEF OpeningLogs
<1>6. 0 < v.next /\ v.log <= logfile
  BY <1>2, <1>3, <1>5 DEF Sane
<1>7. \A t \in version \cup edit.add : GoodTable(m, t) /\ \A e \in Stored(m, t) : e[2] <= lastSeq
  <2>1. ASSUME NEW t \in version PROVE GoodTable(m, t) /\ \A e \in Stored(m, t) : e[2] <= lastSeq
    <3>1. t < v.next /\ HasTable(m, t) /\ \A e \in Stored(m, t) : e \in acked /\ e[2] <= v.last
      BY <1>2, <1>4, <2>1 DEF Sane, Holds
    <3>2. t < numbers.next
      BY <1>1, <1>2, <1>4, <2>1, <3>1
    <3>3. ASSUME NEW e \in Stored(m, t) PROVE e[2] <= lastSeq
      <4>1. e[2] \in Nat /\ e[2] <= v.last
        BY <1>3, <3>1, <3>3
      <4>2. QED
        BY <1>2, <1>3, <1>4, <4>1
    <3>4. QED
      BY <3>1, <3>2, <3>3 DEF GoodTable
  <2>2. ASSUME NEW t \in edit.add PROVE GoodTable(m, t) /\ \A e \in Stored(m, t) : e[2] <= lastSeq
    BY <1>1, <2>2 DEF NewTables, GoodTable
  <2>3. QED
    BY <2>1, <2>2
<1>8. ASSUME NEW e \in acked
      PROVE  (\E t \in version \cup edit.add : e \in Stored(m, t)) /\ e[2] <= lastSeq
  <2>1. Keeps(m, v, e)
    BY <1>2 DEF NowOK, v, m
  <2>2. \E t \in version \cup edit.add : e \in Stored(m, t)
    <3>1. CASE InTables(m, v, e)
      BY <1>4, <3>1 DEF InTables
    <3>2. CASE \E x \in DOMAIN m : x[1] = "log" /\ x[2] >= v.log /\ e \in LogOf(m, x[2])
      <4>1. PICK x \in DOMAIN m : x[1] = "log" /\ x[2] >= v.log /\ e \in LogOf(m, x[2])
        BY <3>2
      <4>2. x[2] # logfile
        BY <1>5, <4>1
      <4>3. InNewTables(m, x[2])
        BY <1>5, <4>1, <4>2
      <4>4. QED
        BY <4>1, <4>3 DEF InNewTables
    <3>3. QED
      BY <2>1, <3>1, <3>2 DEF Keeps
  <2>3. QED
    BY <1>7, <2>2
<1>9. \A x \in DOMAIN m : x[1] = "log" /\ x[2] # logfile => x[2] < logfile
  BY <1>5
<1>10. QED
  BY <1>4, <1>5, <1>6, <1>7, <1>8, <1>9 DEF NewViewOK, m

(* The new manifest is ready to be the one in use.                         *)
LEMMA RenameCan ==
  ASSUME OpeningInv, pc = "rename", NEW f, f = Files
  PROVE  CanRename(f, numbers.manifest, NewView, acked, promised)
<1> DEFINE m == Now(f)
           v == Full(m)
           w == NewView
           n == numbers.manifest
           man == m[Manifest(n)]
<1>1. /\ FilesOK(f) /\ DiskOK(f, acked, promised) /\ Committed(f.dir) /\ MemoryTypeOK
      /\ OpeningManifest(m) /\ n \in Nat /\ v.next = n /\ n < numbers.next /\ numbers.next \in Nat
  BY OpeningFacts
<1>2. NewViewOK(m)
  BY NewViewGood
<1>3. promised \subseteq acked /\ logfile \in Nat
  BY <1>1 DEF MemoryTypeOK
<1>4. /\ Manifest(n) \in DOMAIN m /\ man.content # <<>> /\ w = SavedOf(man.content) /\ man.safe = Len(man.content)
      /\ Temp(n) \in DOMAIN m /\ m[Temp(n)].content = <<n>>
  BY <1>1 DEF OpeningManifest, ThisManifest, NewView
<1>5. DOMAIN m = DOMAIN f.dir
  BY DEF Now, Image
<1>6. w.tables = version \cup edit.add /\ w.log = logfile /\ w.next = numbers.next /\ w.last = lastSeq
  BY NewViewIs
<1> HIDE DEF m, w
<1>7. Holds(m, w, acked)
  <2>1. \A t \in w.tables : t < w.next /\ HasTable(m, t) /\ \A e \in Stored(m, t) : e \in acked /\ e[2] <= w.last
    BY <1>2, <1>6 DEF NewViewOK, GoodTable
  <2>2. ASSUME NEW x \in DOMAIN m, x[1] = "log", x[2] >= w.log PROVE LogOf(m, x[2]) \subseteq acked
    <3>1. x[2] \in Nat
      BY <1>1, <2>2, LogNumbers, Kinded DEF m
    <3>2. ~(x[2] < logfile)
      BY <1>3, <1>6, <2>2, <3>1
    <3>3. x[2] = logfile
      BY <1>2, <2>2, <3>2 DEF NewViewOK
    <3>4. QED
      BY <1>2, <3>3 DEF NewViewOK
  <2>3. w.log < w.next
    BY <1>2, <1>6 DEF NewViewOK
  <2>4. QED
    BY <2>1, <2>2, <2>3 DEF Holds
<1>8. \A e \in acked : InTables(m, w, e)
  BY <1>2, <1>6 DEF InTables, NewViewOK
<1>9. (\A e \in acked : Keeps(m, w, e)) /\ \A e \in promised : KeepsSafe(m, w, e)
  BY <1>3, <1>8 DEF Keeps, KeepsSafe
<1>10. 0 < n /\ n < w.next /\ v.next <= w.next
  BY <1>1, <1>2, <1>6 DEF NewViewOK
<1> HIDE DEF man, n
<1>11. QED
  BY <1>1, <1>3, <1>4, <1>5, <1>7, <1>9, <1>10 DEF CanRename, m, man, n, w
-----------------------------------------------------------------------------
(* A step of the running database that ends well keeps the invariant.      *)
LEMMA UpFinishes ==
  ASSUME LiveInv', pc' \in UpStates, UpOK'
  PROVE  RInv'
BY PhasesNext DEF UpInv

(* Renaming the temporary file to CURRENT after recovery keeps the invariant. *)
LEMMA RenameKeeps ==
  ASSUME RInv, RenameTemp, pc = "rename"
  PROVE  RInv'
<1>0. PICK f : f = Files
  OBVIOUS
<1>a. PICK n : n = numbers.manifest
  OBVIOUS
<1>b. PICK w : w = NewView
  OBVIOUS
<1> DEFINE g == Rename(f, Temp(n), CurrentFile)
           m == Now(f)
           k == Now(g)
           v == Full(m)
           X == {Temp(n), CurrentFile}
<1>1. /\ pc' = "install" /\ DiskBecomes(g) /\ UNCHANGED <<memory, ghosts>>
  BY <1>0, <1>a DEF RenameTemp
<1>2. OpeningInv
  BY OpeningAt DEF OpeningStates
<1>3. /\ FilesOK(f) /\ DiskOK(f, acked, promised) /\ Committed(f.dir) /\ MemoryTypeOK
      /\ OpeningMemory(v) /\ OpeningLogs(m, v) /\ OpeningManifest(m) /\ LogsStable(f, numbers.log)
      /\ numbers \in [next : Nat, log : Nat, manifest : Nat] /\ v.next = n /\ n \in Nat
  BY <1>0, <1>a, <1>2, OpeningFacts
<1>4. SyncedBut(f, {Temp(n)})
  BY <1>0, <1>a, <1>2 DEF OpeningInv, OpeningOK
<1>5. CanRename(f, n, w, acked, promised)
  BY <1>0, <1>a, <1>b, <1>2, RenameCan
<1>6. NewViewOK(m)
  BY <1>0, <1>2, NewViewGood
<1>7. /\ FilesOK(g) /\ DiskOK(g, acked, promised) /\ Committed(g.dir) /\ g.older = DirsOf(f)
      /\ Near(f, f.dir, g, g.dir, X) /\ SameBut(m, k, X)
      /\ Temp(n) \notin DOMAIN g.dir
      /\ Cur(k) = n /\ Full(k) = w /\ Man(k) = m[Manifest(n)]
      /\ \A d \in DirsOf(f) : Image(g, d) = Image(f, d)
      /\ \A i : LogsStable(f, i) => LogsStable(g, i)
  BY <1>5, RenameStep
<1>8. Files' = g /\ dir' = g.dir
  BY <1>1, Disks, DiskNow
<1>9. /\ w.tables = version \cup edit.add /\ w.log = logfile /\ w.next = numbers.next /\ w.last = lastSeq
      /\ w = [tables |-> version \cup edit.add, log |-> logfile, next |-> numbers.next, last |-> lastSeq]
  BY <1>b, NewViewIs DEF NewView
<1>10. UNCHANGED <<version, kept, numbers, logfile, logs, edit, mem, imm, lastSeq, job, pending, bgError>>
       /\ UNCHANGED <<acked, promised, issued, crashes>> /\ MemoryTypeOK'
  BY <1>1, <1>3, MemoryStays DEF memory, ghosts
<1>11. /\ kept = {} /\ mem = {} /\ imm = {} /\ job = NoJob /\ pending = {} /\ bgError = FALSE /\ edit.del = {}
       /\ logs = {} /\ edit.log = logfile
  BY <1>3 DEF OpeningMemory, OpeningLogs
<1>12. /\ logfile \in Nat /\ lastSeq \in Nat /\ numbers.next \in Nat
  BY <1>3 DEF MemoryTypeOK
<1> HIDE DEF g, m, k, v, X
<1>13. \A z : z \notin X => (z \in DOMAIN k <=> z \in DOMAIN m) /\ (z \in DOMAIN m => k[z] = m[z])
  BY <1>7 DEF SameBut
<1>14. \A t : Table(t) \notin X
  BY Kinded DEF X
<1>15. \A t : HasTable(m, t) => HasTable(k, t) /\ Stored(k, t) = Stored(m, t)
  BY <1>13, <1>14 DEF HasTable, Stored
<1>16. \A i : /\ HasLog(m, i) <=> HasLog(k, i)
              /\ HasLog(m, i) => LogOf(k, i) = LogOf(m, i)
  <2>1. \A i : LogName(i) \notin X
    BY Kinded DEF X
  <2>2. QED
    BY <1>13, <2>1 DEF HasLog, LogOf
<1>17. \A z \in DOMAIN k : z[1] = "log" => z \in DOMAIN m /\ z \notin X
  <2>1. ASSUME NEW z \in DOMAIN k, z[1] = "log" PROVE z \notin X
    BY <2>1, Kinded DEF X
  <2>2. QED
    BY <1>13, <2>1
<1>18. \A t \in version \cup edit.add : GoodTable(k, t)
  BY <1>6, <1>15 DEF NewViewOK, GoodTable
<1>19. Numbering(k)'
  <2>1. numbers.log <= logfile /\ logfile <= logfile /\ n < numbers.next /\ logfile < numbers.next
        /\ numbers.next <= numbers.next /\ lastSeq <= lastSeq
    BY <1>6, <1>12, <1>a DEF NewViewOK
  <2>2. \A e \in acked : e[2] <= lastSeq
    BY <1>6 DEF NewViewOK
  <2>3. QED
    BY <1>a, <1>7, <1>9, <1>10, <2>1, <2>2 DEF Numbering
<1>20. Memtables(k)'
  <2>1. HasLog(k, logfile) /\ LogOf(k, logfile) = {}
    BY <1>6, <1>16 DEF NewViewOK
  <2>2. \A z \in DOMAIN k : z[1] = "log" /\ z[2] # logfile => z[2] < logfile
    BY <1>6, <1>17 DEF NewViewOK
  <2>3. QED
    BY <1>1, <1>10, <1>11, <2>1, <2>2 DEF Memtables
<1>21. Saving' /\ Stage' = "install"
  BY <1>1 DEF Saving, Stage
<1>22. VersionOK(k)'
  <2>1. \A t \in (version \cup kept)' : GoodTable(k, t)'
    BY <1>10, <1>11, <1>18 DEF GoodTable
  <2>2. Full(k) = [Full(k) EXCEPT !.tables = (version' \ edit'.del) \cup edit'.add, !.log = edit'.log]
    BY <1>7, <1>9, <1>10, <1>11
  <2>3. Full(k).log = edit'.log
    BY <1>7, <1>9, <1>10, <1>11
  <2>4. QED
    BY <1>21, <2>1, <2>2, <2>3 DEF VersionOK
<1>23. EditOK(k)'
  BY <1>1, <1>10, <1>11, <1>18 DEF EditOK, GoodTable
<1>24. JobOK' /\ BuildingOK(Files)'
  <2>1. NoJob.kind = "none" /\ NoJob.stage = "none" /\ NoJob.inputs = {} /\ NoJob.output = 0
    BY DEF NoJob
  <2>2. job' = NoJob
    BY <1>10, <1>11
  <2>3. Building' = {}
    BY <2>1, <2>2 DEF Building
  <2>4. QED
    BY <2>1, <2>2, <2>3 DEF JobOK, BuildingOK
<1>25. /\ Man(k).content \in Seq(Edits) /\ Man(k).content # <<>> /\ Man(k).safe = Len(Man(k).content)
  <2>1. Man(k).content \in Seq(Edits) /\ Man(k).content # <<>>
    BY <1>7, FullType DEF k
  <2>2. m[Manifest(n)].safe = Len(m[Manifest(n)].content)
    BY <1>3, <1>a DEF OpeningManifest, ThisManifest
  <2>3. QED
    BY <1>7, <2>1, <2>2
<1>26. Safely(k) = w
  <2> DEFINE s == Man(k).content
  <2>1. s \in Seq(Edits) /\ Len(s) \in Nat /\ Len(s) <= Len(s)
    BY <1>25
  <2> HIDE DEF s
  <2>2. SubSeq(s, 1, Len(s)) = s
    BY <2>1, Prefix
  <2>3. QED
    BY <1>7, <1>25, <2>2 DEF Safely, Full, s
<1>27. \A d \in DirsOf(f) : Committed(d) /\ (Man(Image(f, d)).safe # 0 => Safely(Image(f, d)).log <= logfile)
  <2> SUFFICES ASSUME NEW d \in DirsOf(f)
               PROVE  Committed(d) /\ (Man(Image(f, d)).safe # 0 => Safely(Image(f, d)).log <= logfile)
    OBVIOUS
  <2> DEFINE a == Image(f, d)
  <2>1. Committed(d)
    BY <1>3, <1>4, Kinded DEF Committed, SyncedBut, DirsOf
  <2>2. ThenOK(a, m, acked, promised)
    BY <1>3, <2>1 DEF DiskOK, m
  <2>3. Rooted(a)
    BY <2>2 DEF ThenOK
  <2>4. Man(a).safe # 0 => Safely(a).next \in Nat /\ Safely(a).log \in Nat
    BY <1>3, <2>1, <2>3, ViewType
  <2>5. Man(a).safe # 0 => Safely(a).log < Safely(a).next /\ Safely(a).next <= v.next
    BY <2>2 DEF ThenOK, Sane, Holds, v
  <2>6. v.next \in Nat /\ v.next < logfile
    BY <1>3, <1>6, <1>a DEF NewViewOK
  <2> HIDE DEF a
  <2>7. Man(a).safe # 0 => Safely(a).log <= logfile
    BY <1>12, <2>4, <2>5, <2>6
  <2>8. QED
    BY <2>1, <2>7 DEF a
<1>28. SyncedOK(g)'
  <2>1. SyncedBut(g, {CurrentFile})
    <3>1. ASSUME NEW d \in g.older, NEW z \in DOMAIN g.dir, z # CurrentFile
          PROVE  z \in DOMAIN d /\ d[z] = g.dir[z]
      <4>1. z \notin X /\ z # Temp(n)
        BY <1>7, <3>1 DEF X
      <4>2. z \in DOMAIN f.dir /\ g.dir[z] = f.dir[z]
        BY <1>7, <3>1, <4>1 DEF Near
      <4>3. QED
        BY <1>4, <1>7, <4>1, <4>2 DEF SyncedBut, DirsOf
    <3>2. QED
      BY <3>1 DEF SyncedBut
  <2>2. \A d \in DirsOf(g) : Committed(d) /\ (Man(Image(g, d)).safe # 0 => Safely(Image(g, d)).log <= logfile)
    <3>1. ASSUME NEW d \in DirsOf(f) PROVE Committed(d) /\ (Man(Image(g, d)).safe # 0 => Safely(Image(g, d)).log <= logfile)
      BY <1>7, <1>27, <3>1
    <3>2. Committed(g.dir) /\ Safely(Image(g, g.dir)).log <= logfile
      BY <1>7, <1>9, <1>12, <1>26 DEF k, Now
    <3>3. QED
      BY <1>7, <3>1, <3>2 DEF DirsOf
  <2>3. QED
    BY <1>1, <1>10, <1>25, <2>1, <2>2 DEF SyncedOK, k
<1>29. LogsStable(g, numbers.log)' /\ logs' = {}
  BY <1>3, <1>7, <1>10, <1>11
<1>30. UpOK'
  BY <1>7, <1>8, <1>19, <1>20, <1>22, <1>23, <1>24, <1>28, <1>29 DEF UpOK, k
<1>31. LiveInv' /\ pc' \in UpStates
  BY <1>1, <1>7, <1>8, <1>10 DEF LiveInv, UpStates
<1>32. QED
  BY <1>30, <1>31, UpFinishes
-----------------------------------------------------------------------------
(* While the database is open.                                             *)
LEMMA UpAt ==
  ASSUME RInv, pc \in UpStates
  PROVE  UpInv
BY Phases DEF LostInv, LostOK, ClosedInv, ClosedStates, OpeningInv, OpeningStates, UpStates

UpTypes(f) ==
    /\ FilesOK(f) /\ DiskOK(f, acked, promised) /\ Committed(f.dir) /\ f.dir = dir
    /\ numbers \in [next : Nat, log : Nat, manifest : Nat]
    /\ numbers.next \in Nat /\ numbers.log \in Nat /\ numbers.manifest \in Nat
    /\ logfile \in Nat /\ lastSeq \in Nat
    /\ Full(Now(f)).next \in Nat /\ Full(Now(f)).log \in Nat /\ Full(Now(f)).last \in Nat
    /\ Full(Now(f)).tables \subseteq Nat
    /\ version \subseteq Nat /\ kept \subseteq Nat /\ pending \subseteq Nat
    /\ \A d \in DirsOf(f) : Committed(d)

(* What the invariant says of the running database.                        *)
LEMMA UpFacts ==
  ASSUME UpInv, NEW f, f = Files
  PROVE  /\ UpTypes(f) /\ MemoryTypeOK /\ logs = {}
         /\ Numbering(Now(f)) /\ Memtables(Now(f)) /\ VersionOK(Now(f)) /\ EditOK(Now(f))
         /\ JobOK /\ BuildingOK(f) /\ SyncedOK(f) /\ LogsStable(f, numbers.log)
<1>1. /\ FilesOK(f) /\ DiskOK(f, acked, promised) /\ MemoryTypeOK /\ Committed(f.dir) /\ f.dir = dir /\ logs = {}
      /\ Numbering(Now(f)) /\ Memtables(Now(f)) /\ VersionOK(Now(f)) /\ EditOK(Now(f))
      /\ JobOK /\ BuildingOK(f) /\ SyncedOK(f) /\ LogsStable(f, numbers.log)
  BY DEF UpInv, LiveInv, UpOK, Files
<1>2. /\ numbers \in [next : Nat, log : Nat, manifest : Nat] /\ logfile \in Nat /\ lastSeq \in Nat
      /\ version \subseteq Nat /\ kept \subseteq Nat /\ pending \subseteq Nat
  BY <1>1 DEF MemoryTypeOK
<1>3. numbers.next \in Nat /\ numbers.log \in Nat /\ numbers.manifest \in Nat
  BY <1>2
<1>4. /\ Full(Now(f)).next \in Nat /\ Full(Now(f)).log \in Nat /\ Full(Now(f)).last \in Nat
      /\ Full(Now(f)).tables \subseteq Nat
  BY <1>1, FullType
<1>5. \A d \in DirsOf(f) : Committed(d)
  BY <1>1 DEF SyncedOK
<1>6. QED
  BY <1>1, <1>2, <1>3, <1>4, <1>5 DEF UpTypes

(* A table that is being built is not in use.                              *)
Reserved(f, b) ==
    /\ Table(b) \in DOMAIN f.dir /\ Now(f)[Table(b)] = NewFile
    /\ b \notin Full(Now(f)).tables
    /\ \A d \in DirsOf(f) : Man(Image(f, d)).safe # 0 => b \notin Safely(Image(f, d)).tables

(* Tables being built are in no version.                                   *)
LEMMA BuildingIs ==
  ASSUME NEW f
  PROVE  BuildingOK(f) <=> \A b \in Building : /\ b < numbers.next /\ b \in pending
                                               /\ b \notin version \cup kept \cup edit.add /\ Reserved(f, b)
BY DEF BuildingOK, Reserved

(* Every directory a crash can bring back is one it could bring before.    *)
DirsCarried(f, g) ==
    \A d \in DirsOf(g) : \E c \in DirsOf(f) :
       Committed(c) => /\ Committed(d) /\ Man(Image(g, d)).safe = Man(Image(f, c)).safe
                       /\ Safely(Image(g, d)) = Safely(Image(f, c))

(* Steps that change neither the logs nor what the manifest says.          *)
UpCarried(f, g, X) ==
    /\ FilesOK(g) /\ DiskOK(g, acked, promised) /\ Committed(g.dir)
    /\ Full(Now(g)) = Full(Now(f)) /\ Cur(Now(g)) = Cur(Now(f))
    /\ SameBut(Now(f), Now(g), X) /\ NoLogs(X) /\ DirsCarried(f, g)
    /\ \A i : LogsStable(f, i) => LogsStable(g, i)

LowLogs(f, n) == \A d \in DirsOf(f) : Committed(d) /\ (Man(Image(f, d)).safe # 0 => Safely(Image(f, d)).log <= n)

(* Directories that carry over still begin with the same logs.             *)
LEMMA LowStays ==
  ASSUME NEW f, NEW g, DirsCarried(f, g), NEW n, LowLogs(f, n)
  PROVE  LowLogs(g, n)
<1> SUFFICES ASSUME NEW d \in DirsOf(g)
             PROVE  Committed(d) /\ (Man(Image(g, d)).safe # 0 => Safely(Image(g, d)).log <= n)
  BY DEF LowLogs
<1>1. PICK c \in DirsOf(f) : Committed(c) => /\ Committed(d) /\ Man(Image(g, d)).safe = Man(Image(f, c)).safe
                                             /\ Safely(Image(g, d)) = Safely(Image(f, c))
  BY DEF DirsCarried
<1>2. QED
  BY <1>1 DEF LowLogs

(* A table being built stays in no version when other files change.        *)
LEMMA ReservedStays ==
  ASSUME NEW f, NEW g, NEW X, SameBut(Now(f), Now(g), X), DirsCarried(f, g), \A d \in DirsOf(f) : Committed(d),
         NEW b, Table(b) \notin X, b \in Full(Now(g)).tables => b \in Full(Now(f)).tables, Reserved(f, b)
  PROVE  Reserved(g, b)
<1>1. Table(b) \in DOMAIN g.dir /\ Now(g)[Table(b)] = NewFile
  BY SameFile DEF Reserved
<1>2. ASSUME NEW d \in DirsOf(g), Man(Image(g, d)).safe # 0 PROVE b \notin Safely(Image(g, d)).tables
  <2>1. PICK c \in DirsOf(f) : Committed(c) => /\ Committed(d) /\ Man(Image(g, d)).safe = Man(Image(f, c)).safe
                                               /\ Safely(Image(g, d)) = Safely(Image(f, c))
    BY DEF DirsCarried
  <2>2. QED
    BY <1>2, <2>1 DEF Reserved
<1>3. QED
  BY <1>1, <1>2 DEF Reserved

(* What is known of the running database stays known when other files change. *)
LEMMA UpCarries ==
  ASSUME UpInv, NEW f, f = Files, NEW g, NEW X, UpCarried(f, g, X)
  PROVE  /\ Numbering(Now(g)) /\ Memtables(Now(g)) /\ LowLogs(g, logfile) /\ LogsStable(g, numbers.log)
         /\ \A t : GoodTable(Now(f), t) /\ Table(t) \notin X => GoodTable(Now(g), t) /\ Stored(Now(g), t) = Stored(Now(f), t)
         /\ \A b : Reserved(f, b) /\ Table(b) \notin X => Reserved(g, b)
<1> DEFINE m == Now(f)
           k == Now(g)
<1>1. /\ UpTypes(f) /\ Numbering(m) /\ Memtables(m) /\ SyncedOK(f) /\ LogsStable(f, numbers.log)
  BY UpFacts
<1>2. /\ FilesOK(f) /\ FilesOK(g) /\ \A d \in DirsOf(f) : Committed(d)
      /\ logfile \in Nat
  BY <1>1 DEF UpTypes, UpCarried
<1>3. SameBut(m, k, X) /\ NoLogs(X) /\ \A x \in DOMAIN m \cup DOMAIN k : x \in Names
  BY <1>2, LogNumbers DEF UpCarried
<1>4. Full(k) = Full(m) /\ Cur(k) = Cur(m) /\ DirsCarried(f, g) /\ \A i : LogsStable(f, i) => LogsStable(g, i)
  BY DEF UpCarried
<1> HIDE DEF m, k
<1>5. /\ \A n \in Nat : /\ LogName(n) \in DOMAIN m <=> LogName(n) \in DOMAIN k
                        /\ LogName(n) \in DOMAIN m => LogOf(k, n) = LogOf(m, n)
      /\ \A x \in DOMAIN k : x[1] = "log" => x \in DOMAIN m /\ LogOf(k, x[2]) = LogOf(m, x[2]) /\ x[2] \in Nat
  BY <1>3, LogsStay
<1>6. Numbering(k)
  BY <1>1, <1>4 DEF Numbering
<1>7. Memtables(k)
  BY <1>1, <1>2, <1>5 DEF Memtables, HasLog
<1>8. LowLogs(g, logfile)
  BY <1>1, <1>4, LowStays DEF SyncedOK, LowLogs
<1>9. \A t : GoodTable(m, t) /\ Table(t) \notin X => GoodTable(k, t) /\ Stored(k, t) = Stored(m, t)
  BY <1>3, NewTablesStay DEF GoodTable
<1>10. \A b : Reserved(f, b) /\ Table(b) \notin X => Reserved(g, b)
  BY <1>2, <1>3, <1>4, ReservedStays DEF m, k
<1>11. QED
  BY <1>1, <1>4, <1>6, <1>7, <1>8, <1>9, <1>10 DEF m, k

(* Only the memory changes.                                                *)
LEMMA UpSame ==
  ASSUME UpInv, UNCHANGED <<disk, acked, promised>>, MemoryTypeOK', pc' \in UpStates, NEW f, f = Files,
         logs' = {}, Numbering(Now(f))', Memtables(Now(f))', VersionOK(Now(f))', EditOK(Now(f))',
         JobOK', BuildingOK(f)', SyncedOK(f)', LogsStable(f, numbers.log)'
  PROVE  RInv'
<1>1. Files' = f /\ dir' = dir /\ acked' = acked /\ promised' = promised
  BY DiskStays
<1>2. FilesOK(f) /\ DiskOK(f, acked, promised) /\ Committed(dir)
  BY DEF UpInv, LiveInv, UpOK
<1>3. LiveInv' /\ Committed(dir)'
  BY <1>1, <1>2 DEF LiveInv
<1>4. UpOK'
  BY <1>1, <1>3 DEF UpOK
<1>5. QED
  BY <1>3, <1>4, UpFinishes

(* The types of a job.                                                     *)
LEMMA JobType ==
  ASSUME MemoryTypeOK
  PROVE  /\ job.kind \in {"none", "flush", "compact"} /\ job.number \in Nat /\ job.inputs \subseteq Nat /\ job.output \in Nat
         /\ job.stage \in {"none", "build", "append", "syncDir", "sync", "install", "clean"}
         /\ edit.add \subseteq Nat /\ edit.del \subseteq Nat /\ edit.log \in Nat
         /\ NoJob.kind = "none" /\ NoJob.stage = "none" /\ NoJob.number = 0 /\ NoJob.inputs = {} /\ NoJob.output = 0
         /\ NoEdit.add = {} /\ NoEdit.del = {} /\ NoEdit.log = 0 /\ NoEdit \in [add : SUBSET Nat, del : SUBSET Nat, log : Nat]
         /\ NoJob \in [kind : {"none", "flush", "compact"}, number : Nat, inputs : SUBSET Nat, output : Nat,
                       stage : {"none", "build", "append", "syncDir", "sync", "install", "clean"}]
BY DEF MemoryTypeOK, NoJob, NoEdit
-----------------------------------------------------------------------------
(* Readers and failures, which leave the disk alone.                       *)
LEMMA HoldKeeps ==
  ASSUME RInv, Hold \/ ReleaseVersion
  PROVE  RInv'
<1>0. PICK f : f = Files
  OBVIOUS
<1> DEFINE m == Now(f)
<1>1. /\ UNCHANGED disk
      /\ UNCHANGED <<pc, version, numbers, logfile, logs, edit, mem, imm, lastSeq, job, pending, bgError>>
      /\ UNCHANGED <<issued, acked, promised, crashes>>
      /\ kept' \subseteq version /\ pc = "up"
  BY DEF Hold, ReleaseVersion, Unlocked, ghosts
<1>2. UpInv
  BY <1>1, UpAt DEF UpStates
<1>3. /\ UpTypes(f) /\ MemoryTypeOK /\ logs = {}
      /\ Numbering(m) /\ Memtables(m) /\ VersionOK(m) /\ EditOK(m)
      /\ JobOK /\ BuildingOK(f) /\ SyncedOK(f) /\ LogsStable(f, numbers.log)
  BY <1>0, <1>2, UpFacts
<1> HIDE DEF m
<1>4. MemoryTypeOK'
  BY <1>1, <1>3 DEF MemoryTypeOK
<1>5. Stage' = Stage /\ Saving' = Saving /\ Building' = Building
  BY <1>1 DEF Stage, Saving, Building
<1>6. Numbering(m)' /\ Memtables(m)' /\ EditOK(m)' /\ JobOK'
  BY <1>1, <1>3 DEF Numbering, Memtables, EditOK, JobOK, GoodTable
<1>7. VersionOK(m)'
  <2>1. \A t \in version \cup kept : GoodTable(m, t)'
    BY <1>1, <1>3 DEF VersionOK, GoodTable
  <2>2. QED
    BY <1>1, <1>3, <1>5, <2>1 DEF VersionOK
<1>8. BuildingOK(f)'
  BY <1>1, <1>3, <1>5 DEF BuildingOK
<1>9. SyncedOK(f)' /\ LogsStable(f, numbers.log)' /\ logs' = {}
  BY <1>1, <1>3, <1>5 DEF SyncedOK
<1>10. UNCHANGED <<disk, acked, promised>> /\ pc' \in UpStates
  BY <1>1 DEF UpStates
<1>11. QED
  BY <1>0, <1>2, <1>4, <1>6, <1>7, <1>8, <1>9, <1>10, UpSame DEF m

(* The end of a job: a compaction goes on after the flush within it.       *)
LEMMA EndedOK ==
  ASSUME MemoryTypeOK, JobOK, EndJob, pc' = "up", version' = version
  PROVE  /\ JobOK'
         /\ job' \in [kind : {"none", "flush", "compact"}, number : Nat, inputs : SUBSET Nat, output : Nat,
                      stage : {"none", "build", "append", "syncDir", "sync", "install", "clean"}]
         /\ job'.stage \in {"none", "build"}
         /\ Building' \subseteq Building /\ (Building' # {} => job.kind = "flush")
<1>1. CASE job' = NoJob
  BY <1>1, JobType DEF JobOK, Building
<1>2. CASE job' # NoJob
  <2>1. job.kind = "flush" /\ job.output # 0 /\ job' = [job EXCEPT !.kind = "compact", !.stage = "build", !.number = 0]
    BY <1>2 DEF EndJob
  <2>2. /\ job'.kind = "compact" /\ job'.stage = "build" /\ job'.output = job.output /\ job'.inputs = job.inputs
        /\ job'.number = 0 /\ job.inputs \subseteq version
        /\ job' \in [kind : {"none", "flush", "compact"}, number : Nat, inputs : SUBSET Nat, output : Nat,
                      stage : {"none", "build", "append", "syncDir", "sync", "install", "clean"}]
    BY <2>1 DEF MemoryTypeOK, JobOK
  <2>3. JobOK'
    BY <1>2, <2>1, <2>2 DEF JobOK
  <2>4. Building' = {job.output} /\ job.output \in Building
    BY <2>1, <2>2 DEF Building
  <2>5. QED
    BY <2>1, <2>2, <2>3, <2>4
<1>3. QED
  BY <1>1, <1>2

(* What stays as it is when the job ends, or a job fails.                  *)
LEMMA JobEndKeeps ==
  ASSUME UpInv, UNCHANGED disk,
         UNCHANGED <<version, kept, numbers, logfile, logs, mem, imm, lastSeq, issued, acked, promised, crashes>>,
         pc' = "up", pc # "install", edit' = NoEdit, bgError' \in BOOLEAN, bgError => bgError', bgError' \/ ~Saving,
         pending' \subseteq pending, Building' \cap pending \subseteq pending', Building' \subseteq Building,
         job'.stage \in {"none", "build"}, JobOK',
         job' \in [kind : {"none", "flush", "compact"}, number : Nat, inputs : SUBSET Nat, output : Nat,
                   stage : {"none", "build", "append", "syncDir", "sync", "install", "clean"}]
  PROVE  RInv'
<1>0. PICK f : f = Files
  OBVIOUS
<1> DEFINE m == Now(f)
<1>1. /\ UpTypes(f) /\ MemoryTypeOK /\ logs = {}
      /\ Numbering(m) /\ Memtables(m) /\ VersionOK(m) /\ EditOK(m)
      /\ JobOK /\ BuildingOK(f) /\ SyncedOK(f) /\ LogsStable(f, numbers.log)
  BY <1>0, UpFacts
<1> HIDE DEF m
<1>2. edit' \in [add : SUBSET Nat, del : SUBSET Nat, log : Nat] /\ edit'.add \subseteq edit.add
  BY <1>1, JobType DEF MemoryTypeOK
<1>3. MemoryTypeOK'
  BY <1>1, <1>2 DEF MemoryTypeOK
<1>4. ~Saving' /\ Stage' \in {"none", "build"}
  BY DEF Saving, Stage
<1>5. Numbering(m)' /\ Memtables(m)' /\ EditOK(m)'
  BY <1>1 DEF Numbering, Memtables, EditOK, GoodTable
<1>6. VersionOK(m)'
  <2>1. \A t \in version \cup kept : GoodTable(m, t)'
    BY <1>1 DEF VersionOK, GoodTable
  <2>2. QED
    BY <1>1, <1>4, <2>1 DEF VersionOK
<1>7. BuildingOK(f)'
  BY <1>1, <1>2 DEF BuildingOK
<1>8. SyncedOK(f)' /\ LogsStable(f, numbers.log)' /\ logs' = {}
  BY <1>1, <1>4 DEF SyncedOK
<1>9. UNCHANGED <<disk, acked, promised>> /\ pc' \in UpStates
  BY DEF UpStates
<1>10. QED
  BY <1>0, <1>3, <1>5, <1>6, <1>7, <1>8, <1>9, UpSame DEF m

(* The end of RemoveObsoleteFiles keeps the invariant.                     *)
LEMMA CleanedKeeps ==
  ASSUME RInv, Cleaned
  PROVE  RInv'
<1>1. /\ UNCHANGED disk
      /\ UNCHANGED <<version, kept, numbers, logfile, logs, edit, mem, imm, lastSeq, pending, bgError>>
      /\ UNCHANGED <<issued, acked, promised, crashes>>
      /\ pc' = "up" /\ IF pc = "up" THEN EndJob /\ job.stage = "clean" ELSE job' = job /\ pc = "clean"
  BY DEF Cleaned, AtStage, ghosts
<1>2. UpInv
  BY <1>1, UpAt DEF UpStates
<1>3. MemoryTypeOK /\ JobOK
  BY <1>2 DEF UpInv, LiveInv, UpOK
<1>4. bgError' \in BOOLEAN /\ ~Saving /\ pc # "install" /\ edit' = NoEdit
  <2>1. pc # "up" => job.stage = "none"
    BY <1>3, JobType DEF JobOK
  <2>2. pc # "install" /\ job.stage \in {"none", "clean"}
    BY <1>1, <2>1
  <2>3. edit = NoEdit
    BY <1>2, <2>2 DEF UpInv, UpOK, EditOK
  <2>4. QED
    BY <1>1, <1>3, <2>3 DEF MemoryTypeOK, Saving, Stage
<1>5. CASE pc = "up"
  <2>1. EndJob
    BY <1>1, <1>5
  <2>2. /\ JobOK' /\ job'.stage \in {"none", "build"} /\ Building' \subseteq Building
        /\ job' \in [kind : {"none", "flush", "compact"}, number : Nat, inputs : SUBSET Nat, output : Nat,
                     stage : {"none", "build", "append", "syncDir", "sync", "install", "clean"}]
    BY <1>1, <1>3, <2>1, EndedOK
  <2>3. QED
    BY <1>1, <1>2, <1>4, <2>2, JobEndKeeps
<1>6. CASE pc # "up"
  <2>1. job = NoJob /\ job' = NoJob
    BY <1>1, <1>3, <1>6 DEF JobOK
  <2>2. JobOK' /\ job'.stage \in {"none", "build"} /\ Building' \subseteq Building
    BY <2>1, <1>3, JobType DEF JobOK, Building
  <2>3. job' \in [kind : {"none", "flush", "compact"}, number : Nat, inputs : SUBSET Nat, output : Nat,
                     stage : {"none", "build", "append", "syncDir", "sync", "install", "clean"}]
    BY <1>3, <2>1, JobType
  <2>4. QED
    BY <1>1, <1>2, <1>4, <2>2, <2>3, JobEndKeeps
<1>7. QED
  BY <1>5, <1>6

(* A manifest that cannot be written keeps the invariant.                  *)
LEMMA ManifestFailsKeeps ==
  ASSUME RInv, ManifestFails
  PROVE  RInv'
<1>1. /\ UNCHANGED disk
      /\ UNCHANGED <<version, kept, numbers, logfile, logs, mem, imm, lastSeq, pc>>
      /\ UNCHANGED <<issued, acked, promised, crashes>>
      /\ pc = "up" /\ pc' = "up" /\ bgError' = TRUE /\ edit' = NoEdit /\ EndJob
      /\ pending' = IF job.kind = "compact" THEN pending \ {job.output} ELSE pending
  BY DEF ManifestFails, ghosts
<1>2. UpInv
  BY <1>1, UpAt DEF UpStates
<1>3. MemoryTypeOK /\ JobOK
  BY <1>2 DEF UpInv, LiveInv, UpOK
<1>4. /\ JobOK' /\ job'.stage \in {"none", "build"} /\ Building' \subseteq Building
      /\ Building' # {} => job.kind = "flush"
      /\ job' \in [kind : {"none", "flush", "compact"}, number : Nat, inputs : SUBSET Nat, output : Nat,
                   stage : {"none", "build", "append", "syncDir", "sync", "install", "clean"}]
  BY <1>1, <1>3, EndedOK
<1>5. pending' \subseteq pending /\ Building' \cap pending \subseteq pending'
  BY <1>1, <1>4
<1>6. QED
  BY <1>1, <1>2, <1>4, <1>5, JobEndKeeps

(* A table that cannot be written keeps the invariant.                     *)
LEMMA CompactionFailsKeeps ==
  ASSUME RInv, CompactionFails
  PROVE  RInv'
<1>1. /\ UNCHANGED disk
      /\ UNCHANGED <<version, kept, numbers, logfile, logs, edit, mem, imm, lastSeq, pc>>
      /\ UNCHANGED <<issued, acked, promised, crashes>>
      /\ pc = "up" /\ pc' = "up" /\ bgError' = TRUE /\ job' = NoJob
      /\ pending' = pending \ {job.output}
  BY DEF CompactionFails, ghosts
<1>2. UpInv
  BY <1>1, UpAt DEF UpStates
<1>3. MemoryTypeOK /\ JobOK /\ edit' = NoEdit
  BY <1>1, <1>2 DEF CompactionFails, UpInv, LiveInv, UpOK, EditOK
<1>4. JobOK' /\ job'.stage \in {"none", "build"} /\ Building' = {} /\ pending' \subseteq pending
  BY <1>1, <1>3, JobType DEF JobOK, Building
<1>5. job' \in [kind : {"none", "flush", "compact"}, number : Nat, inputs : SUBSET Nat, output : Nat,
                stage : {"none", "build", "append", "syncDir", "sync", "install", "clean"}]
  BY <1>1, <1>3, JobType
<1>6. Building' \cap pending \subseteq pending' /\ Building' \subseteq Building
  BY <1>4
<1>7. QED
  BY <1>1, <1>2, <1>3, <1>4, <1>5, <1>6, JobEndKeeps
-----------------------------------------------------------------------------
(* The new version is installed.                                           *)
LEMMA InstallKeeps ==
  ASSUME RInv, Install
  PROVE  RInv'
<1>0. PICK f : f = Files
  OBVIOUS
<1> DEFINE m == Now(f)
           flush == pc = "up" /\ job.kind = "flush"
           compact == pc = "up" /\ job.kind = "compact"
<1>1. /\ UNCHANGED <<disk, kept, logfile, logs, mem, lastSeq, bgError>> /\ UNCHANGED <<issued, acked, promised, crashes>>
      /\ version' = (version \ edit.del) \cup edit.add
      /\ numbers' = [numbers EXCEPT !.log = edit.log] /\ edit' = NoEdit
      /\ imm' = IF flush THEN {} ELSE imm
      /\ pending' = IF compact THEN pending \ {job.output} ELSE pending
      /\ AtStage("install") /\ Goto("clean")
  BY DEF Install, ghosts
<1>2. /\ \/ pc = "install" /\ pc' = "clean" /\ job' = job
         \/ pc = "up" /\ pc' = "up" /\ job.stage = "install" /\ job' = [job EXCEPT !.stage = "clean"]
  BY <1>1 DEF AtStage, Goto
<1>3. UpInv
  BY <1>2, UpAt DEF UpStates
<1>4. /\ UpTypes(f) /\ MemoryTypeOK /\ logs = {}
      /\ Numbering(m) /\ Memtables(m) /\ VersionOK(m) /\ EditOK(m)
      /\ JobOK /\ BuildingOK(f) /\ SyncedOK(f) /\ LogsStable(f, numbers.log)
  BY <1>0, <1>3, UpFacts
<1>5. Saving /\ Stage = "install" /\ ~Saving' /\ Stage' = "clean"
  <2>1. CASE pc = "install"
    BY <1>2, <2>1 DEF Saving, Stage
  <2>2. CASE pc = "up"
    <3>1. job'.stage = "clean"
      BY <1>2, <1>4, <2>2 DEF MemoryTypeOK
    <3>2. QED
      BY <1>2, <2>2, <3>1 DEF Saving, Stage
  <2>3. QED
    BY <1>2, <2>1, <2>2
<1>6. Full(m).log = edit.log
  BY <1>4, <1>5 DEF VersionOK
<1>7. /\ edit.add \subseteq Nat /\ edit.log \in Nat /\ numbers.log \in Nat /\ numbers.next \in Nat
      /\ numbers'.next = numbers.next /\ numbers'.manifest = numbers.manifest /\ numbers'.log = edit.log
      /\ numbers' \in [next : Nat, log : Nat, manifest : Nat]
      /\ numbers.log <= edit.log
  BY <1>1, <1>4, <1>6, JobType DEF UpTypes, Numbering
<1>8. CASE pc = "install"
  <2>1. job = NoJob /\ edit.del = {} /\ edit.log = logfile /\ (\A t \in edit.add : GoodTable(m, t)) /\ ~flush /\ ~compact
    BY <1>4, <1>8 DEF JobOK, EditOK
  <2>2. job' = NoJob /\ pc' = "clean" /\ imm' = imm /\ pending' = pending
    BY <1>1, <1>2, <1>8, <2>1
  <2>3. MemoryTypeOK'
    BY <1>1, <1>4, <1>7, <2>1, <2>2, JobType DEF MemoryTypeOK
  <2>4. Memtables(m)'
    <3>1. \A x \in DOMAIN m : x[1] = "log" /\ x[2] # logfile => x[2] < logfile /\ ~(x[2] >= logfile)
      <4>1. \A x \in DOMAIN m : x[1] = "log" => x[2] \in Nat
        BY <1>4, LogNumbers, Kinded DEF UpTypes
      <4>2. logfile \in Nat
        BY <1>4 DEF UpTypes
      <4> HIDE DEF m
      <4>3. QED
        BY <1>4, <4>1, <4>2 DEF Memtables
    <3>2. QED
      BY <1>1, <1>4, <1>7, <2>1, <3>1 DEF Memtables
  <2>5. JobOK' /\ Building' = {}
    BY <1>4, <2>2, JobType DEF JobOK, Building
  <2>6. SyncedOK(f)'
    BY <1>1, <1>2, <1>4, <1>5, <1>8, <2>2 DEF SyncedOK
  <2>7. Numbering(m)'
    BY <1>1, <1>4, <1>6, <1>7 DEF Numbering, UpTypes
  <2>8. VersionOK(m)'
    <3>1. \A t \in (version \cup kept)' : GoodTable(m, t)'
      BY <1>1, <1>4, <1>7, <2>1 DEF VersionOK, GoodTable
    <3>2. QED
      BY <1>1, <1>4, <1>5, <1>7, <3>1 DEF VersionOK
  <2>9. EditOK(m)' /\ BuildingOK(f)'
    BY <1>1, <2>2, <2>5 DEF EditOK, BuildingOK
  <2>10. LogsStable(f, numbers.log)'
    BY <1>4, <1>7, StableMore DEF UpTypes
  <2>11. UNCHANGED <<disk, acked, promised>> /\ pc' \in UpStates /\ logs' = {}
    BY <1>1, <1>4, <2>2 DEF UpStates
  <2>12. QED
    BY <1>0, <1>3, <2>3, <2>4, <2>5, <2>6, <2>7, <2>8, <2>9, <2>10, <2>11, UpSame
<1>9. CASE pc = "up"
  <2>1. /\ job.stage = "install" /\ pc' = "up"
        /\ job'.kind = job.kind /\ job'.stage = "clean" /\ job'.number = job.number /\ job'.inputs = job.inputs
        /\ job'.output = job.output
        /\ job' \in [kind : {"none", "flush", "compact"}, number : Nat, inputs : SUBSET Nat, output : Nat,
                     stage : {"none", "build", "append", "syncDir", "sync", "install", "clean"}]
    BY <1>2, <1>4, <1>9 DEF MemoryTypeOK
  <2>2. job # NoJob /\ job.kind \in {"flush", "compact"} /\ job.inputs \subseteq version
    BY <1>4, <2>1, JobType DEF JobOK
  <2>3. (\A t \in edit.add : GoodTable(m, t)) /\ (flush => edit.del = {} /\ edit.log = logfile)
        /\ (compact => edit.log = numbers.log)
    BY <1>4, <1>9, <2>1, <2>2 DEF EditOK
  <2>4. MemoryTypeOK'
    BY <1>1, <1>4, <1>7, <2>1, JobType DEF MemoryTypeOK
  <2>5. Memtables(m)'
    <3>1. CASE flush
      <4>1. \A x \in DOMAIN m : x[1] = "log" /\ x[2] # logfile => x[2] < logfile /\ ~(x[2] >= logfile)
        <5>1. \A x \in DOMAIN m : x[1] = "log" => x[2] \in Nat
          BY <1>4, LogNumbers, Kinded DEF UpTypes
        <5>2. logfile \in Nat
          BY <1>4 DEF UpTypes
        <5> HIDE DEF m
        <5>3. QED
          BY <1>4, <5>1, <5>2 DEF Memtables
      <4>2. QED
        BY <1>1, <1>4, <1>7, <2>3, <3>1, <4>1 DEF Memtables
    <3>2. CASE compact
      BY <1>1, <1>4, <1>7, <1>9, <2>3, <3>2 DEF Memtables
    <3>3. QED
      BY <1>9, <2>2, <3>1, <3>2
  <2>6. JobOK'
    <3>1. flush => job.inputs \subseteq version'
      BY <1>1, <2>2, <2>3
    <3>2. job' # NoJob
      BY <1>4, <2>1, JobType
    <3>3. job.kind = "compact" => job.output # 0
      BY <1>4 DEF JobOK
    <3>4. job.output # job.number
      BY <1>4, <2>2 DEF JobOK
    <3>5. QED
      BY <1>9, <2>1, <2>2, <3>1, <3>2, <3>3, <3>4 DEF JobOK
  <2>7. SyncedOK(f)'
    BY <1>1, <1>2, <1>4, <1>5, <1>9, <2>1 DEF SyncedOK
  <2>8. Numbering(m)'
    BY <1>1, <1>4, <1>6, <1>7 DEF Numbering, UpTypes
  <2>9. VersionOK(m)'
    <3>1. \A t \in (version \cup kept)' : GoodTable(m, t)'
      BY <1>1, <1>4, <1>7, <2>3 DEF VersionOK, GoodTable
    <3>2. QED
      BY <1>1, <1>4, <1>5, <1>7, <3>1 DEF VersionOK
  <2>10. EditOK(m)'
    BY <1>1, <2>1 DEF EditOK
  <2>11. BuildingOK(f)'
    <3>1. Building' \subseteq Building /\ (Building' # {} => flush)
      BY <1>9, <2>1, <2>2 DEF Building
    <3>2. \A b \in Building' : b \notin version' \cup kept' \cup edit'.add
      BY <1>1, <1>4, <3>1, JobType DEF BuildingOK
    <3>3. Building' # {} => pending' = pending
      BY <1>1, <3>1
    <3>4. QED
      BY <1>1, <1>4, <1>7, <3>1, <3>2, <3>3 DEF BuildingOK
  <2>12. LogsStable(f, numbers.log)'
    BY <1>4, <1>7, StableMore DEF UpTypes
  <2>13. UNCHANGED <<disk, acked, promised>> /\ pc' \in UpStates /\ logs' = {}
    BY <1>1, <1>4, <2>1 DEF UpStates
  <2>14. QED
    BY <1>0, <1>3, <2>4, <2>5, <2>6, <2>7, <2>8, <2>9, <2>10, <2>11, <2>12, <2>13, UpSame
<1>10. QED
  BY <1>2, <1>8, <1>9
-----------------------------------------------------------------------------
(* Tables that are begun, built and given up.                              *)
LEMMA JunkUp ==
  ASSUME NEW f, NEW g, NEW x, JunkWritten(f, g, x, acked, promised), Committed(f.dir),
         x[1] \in {"table", "MANIFEST", "temp"}
  PROVE  UpCarried(f, g, {x})
<1>1. NoLogs({x})
  BY Kinded DEF NoLogs
<1>2. Man(Now(g)) = Man(Now(f)) /\ Committed(g.dir)
  BY DEF JunkWritten
<1>3. DirsCarried(f, g)
  <2> SUFFICES ASSUME NEW d \in DirsOf(g)
               PROVE  \E c \in DirsOf(f) : Committed(c) => /\ Committed(d) /\ Man(Image(g, d)).safe = Man(Image(f, c)).safe
                                                           /\ Safely(Image(g, d)) = Safely(Image(f, c))
    BY DEF DirsCarried
  <2>1. CASE d = g.dir
    <3>1. Safely(Now(g)) = Safely(Now(f))
      BY <1>2 DEF Safely
    <3>2. f.dir \in DirsOf(f)
      BY DEF DirsOf
    <3>3. QED
      BY <1>2, <2>1, <3>1, <3>2 DEF Now
  <2>2. CASE d \in g.older
    BY <2>2 DEF JunkWritten
  <2>3. QED
    BY <2>1, <2>2 DEF DirsOf
<1>4. QED
  BY <1>1, <1>3 DEF UpCarried, JunkWritten

(* Removing files that nothing needs leaves what is known.                 *)
LEMMA RemovedUp ==
  ASSUME NEW f, NEW g, NEW X, FilesOK(f), DiskOK(f, acked, promised), Removed(f, g, X), NoLogs(X), UnusedNow(f, X),
         Committed(f.dir)
  PROVE  UpCarried(f, g, X)
<1>1. /\ FilesOK(g) /\ DiskOK(g, acked, promised) /\ Committed(g.dir)
      /\ Full(Now(g)) = Full(Now(f)) /\ Man(Now(g)) = Man(Now(f)) /\ Cur(Now(g)) = Cur(Now(f))
      /\ SameBut(Now(f), Now(g), X)
      /\ \A n : LogsStable(f, n) => LogsStable(g, n)
  BY RemoveJunk
<1>2. DirsCarried(f, g)
  <2> SUFFICES ASSUME NEW d \in DirsOf(g)
               PROVE  \E c \in DirsOf(f) : Committed(c) => /\ Committed(d) /\ Man(Image(g, d)).safe = Man(Image(f, c)).safe
                                                           /\ Safely(Image(g, d)) = Safely(Image(f, c))
    BY DEF DirsCarried
  <2>1. CASE d = g.dir
    <3>1. Safely(Now(g)) = Safely(Now(f))
      BY <1>1 DEF Safely
    <3>2. f.dir \in DirsOf(f)
      BY DEF DirsOf
    <3>3. QED
      BY <1>1, <2>1, <3>1, <3>2 DEF Now
  <2>2. CASE d \in g.older
    BY <2>2 DEF Removed, Image
  <2>3. QED
    BY <2>1, <2>2 DEF DirsOf
<1>3. QED
  BY <1>1, <1>2 DEF UpCarried

(* The disk and the memory after a step of the open database.              *)
LEMMA UpNext ==
  ASSUME NEW g, Files' = g, dir' = g.dir, FilesOK(g), DiskOK(g, acked', promised'), Committed(g.dir), MemoryTypeOK',
         pc' \in UpStates, logs' = {}, Numbering(Now(g))', Memtables(Now(g))', VersionOK(Now(g))', EditOK(Now(g))',
         JobOK', BuildingOK(g)', SyncedOK(g)', LogsStable(g, numbers.log)'
  PROVE  RInv'
<1>1. LiveInv'
  BY DEF LiveInv
<1>2. UpOK'
  BY DEF UpOK
<1>3. QED
  BY <1>1, <1>2, UpFinishes

(* A table with a new number is in no version.                             *)
LEMMA NewReserved ==
  ASSUME NEW f, NEW g, NEW b, UnusedNow(f, {Table(b)}), \A d \in DirsOf(f) : Unused(f, d, {Table(b)}),
         DirsCarried(f, g), \A d \in DirsOf(f) : Committed(d), Full(Now(g)) = Full(Now(f)), Committed(f.dir),
         Table(b) \in DOMAIN g.dir, Now(g)[Table(b)] = NewFile
  PROVE  Reserved(g, b)
<1>1. b \notin Full(Now(g)).tables
  BY DEF UnusedNow
<1>2. ASSUME NEW d \in DirsOf(g), Man(Image(g, d)).safe # 0 PROVE b \notin Safely(Image(g, d)).tables
  <2>1. PICK c \in DirsOf(f) : Committed(c) => /\ Committed(d) /\ Man(Image(g, d)).safe = Man(Image(f, c)).safe
                                               /\ Safely(Image(g, d)) = Safely(Image(f, c))
    BY DEF DirsCarried
  <2>2. QED
    BY <1>2, <2>1 DEF Unused
<1>3. QED
  BY <1>1, <1>2 DEF Reserved

(* A job that begins to build a table keeps the invariant.                 *)
LEMMA BeginKeeps ==
  ASSUME RInv, NEW kind, Begins(kind),
         UNCHANGED <<pc, version, kept, logfile, logs, edit, mem, imm, lastSeq, bgError, acked, promised, issued, crashes>>,
         job.stage \in {"none", "build"}, job'.stage = "build",
         UpInv => JobOK' /\ job' \in [kind : {"none", "flush", "compact"}, number : Nat, inputs : SUBSET Nat, output : Nat,
                   stage : {"none", "build", "append", "syncDir", "sync", "install", "clean"}],
         Building' \subseteq Building \cup {numbers.next}
  PROVE  RInv'
<1>0. PICK f : f = Files
  OBVIOUS
<1>a. PICK u : u = numbers.next
  OBVIOUS
<1> DEFINE x == Table(u)
           g == Create(f, x)
           m == Now(f)
           k == Now(g)
           X == {x}
<1>1. /\ pc = "up" /\ pc' = "up" /\ DiskBecomes(g) /\ numbers' = [numbers EXCEPT !.next = u + 1]
      /\ pending' = pending \cup {u}
  BY <1>0, <1>a DEF Begins
<1>2. UpInv
  BY <1>1, UpAt DEF UpStates
<1>3. /\ UpTypes(f) /\ MemoryTypeOK /\ logs = {}
      /\ Numbering(m) /\ Memtables(m) /\ VersionOK(m) /\ EditOK(m)
      /\ JobOK /\ BuildingOK(f) /\ SyncedOK(f) /\ LogsStable(f, numbers.log)
  BY <1>0, <1>2, UpFacts
<1>4. /\ FilesOK(f) /\ DiskOK(f, acked, promised) /\ Committed(f.dir) /\ u \in Nat /\ Full(m).next <= u
      /\ \A d \in DirsOf(f) : Committed(d)
  BY <1>3, <1>a DEF UpTypes, Numbering
<1>5. UnusedNow(f, X) /\ \A d \in DirsOf(f) : Unused(f, d, X)
  <2> DEFINE Z == {Table(u), Manifest(u)}
  <2>1. UnusedNow(f, Z) /\ \A d \in DirsOf(f) : Unused(f, d, Z)
    BY <1>4, UnusedNumber
  <2>2. X \subseteq Z
    OBVIOUS
  <2> HIDE DEF Z, X
  <2>3. QED
    BY <2>1, <2>2, UnusedLess
<1>6. Wrote(f, g, x, NewFile)
  BY <1>4, Creates
<1>7. x \in Names /\ x # CurrentFile /\ x[1] = "table"
  BY <1>4, Kinded
<1>8. IsFile("table", NewFile)
  <2>1. NewFile.content = <<>> /\ NewFile.safe = 0 /\ NewFile = [content |-> <<>>, safe |-> 0]
    BY DEF NewFile
  <2>2. QED
    BY <2>1 DEF IsFile
<1>9. Files' = g /\ dir' = g.dir
  BY <1>1, Disks, DiskNow
<1> HIDE DEF x, g, m, k
<1>10. JunkWritten(f, g, x, acked, promised)
  BY <1>4, <1>5, <1>6, <1>7, <1>8, JunkStep
<1>11. UpCarried(f, g, X)
  BY <1>4, <1>7, <1>10, JunkUp
<1> HIDE DEF X
<1>12. /\ Numbering(k) /\ Memtables(k) /\ LowLogs(g, logfile) /\ LogsStable(g, numbers.log)
       /\ \A t : GoodTable(m, t) /\ Table(t) \notin X => GoodTable(k, t) /\ Stored(k, t) = Stored(m, t)
       /\ \A b : Reserved(f, b) /\ Table(b) \notin X => Reserved(g, b)
  BY <1>0, <1>2, <1>11, UpCarries DEF m, k
<1>13. Full(k) = Full(m) /\ DirsCarried(f, g) /\ FilesOK(g) /\ DiskOK(g, acked, promised) /\ Committed(g.dir)
  BY <1>11 DEF UpCarried, m, k
<1>14. \A t : Table(t) \in X => t = u
  BY Kinded DEF X, x
<1>15. /\ numbers'.next = u + 1 /\ numbers'.log = numbers.log /\ numbers'.manifest = numbers.manifest
       /\ numbers' \in [next : Nat, log : Nat, manifest : Nat]
  BY <1>1, <1>3, <1>4 DEF UpTypes
<1>16. MemoryTypeOK'
  BY <1>1, <1>2, <1>3, <1>4, <1>15 DEF MemoryTypeOK
<1>17. Numbering(k)'
  <2>1. \A i \in Nat : i < u => i < u + 1
    BY <1>4
  <2>2. Full(k).next <= u + 1
    <3>1. Full(k).next \in Nat /\ Full(k).next <= u
      BY <1>3, <1>12, <1>13, <1>a DEF UpTypes, Numbering, m
    <3>2. QED
      BY <1>4, <3>1
  <2>3. numbers.manifest < u + 1 /\ logfile < u + 1
    BY <1>3, <1>12, <1>a, <2>1 DEF UpTypes, Numbering
  <2>4. QED
    BY <1>12, <1>15, <2>2, <2>3 DEF Numbering
<1>18. Memtables(k)'
  BY <1>12, <1>15 DEF Memtables
<1>19. ~Saving /\ ~Saving' /\ Stage' = "build"
  BY <1>1 DEF Saving, Stage
<1>20. \A t \in version \cup kept : t \in Nat /\ t < u /\ GoodTable(m, t)
  BY <1>3, <1>a DEF VersionOK, GoodTable, UpTypes
<1>21. VersionOK(k)'
  <2>1. ASSUME NEW t \in version \cup kept PROVE GoodTable(k, t)'
    <3>1. GoodTable(k, t)
      BY <1>4, <1>12, <1>14, <1>20
    <3>2. t < u + 1
      BY <1>4, <1>20
    <3>3. QED
      BY <1>15, <3>1, <3>2 DEF GoodTable
  <2>2. QED
    BY <1>3, <1>13, <1>15, <1>19, <2>1 DEF VersionOK
<1>22. edit = NoEdit /\ edit.add = {}
  BY <1>1, <1>3, JobType DEF EditOK
<1>23. EditOK(k)'
  BY <1>1, <1>22 DEF EditOK
<1>24. JobOK'
  BY <1>2
<1>25. Reserved(g, u)
  <2>1. x \in DOMAIN g.dir /\ Now(g)[x] = NewFile
    BY <1>6, Written
  <2>2. Full(Now(g)) = Full(Now(f))
    BY <1>13 DEF m, k
  <2>3. QED
    BY <1>4, <1>5, <1>13, <2>1, <2>2, NewReserved DEF X, x
<1>26. BuildingOK(g)'
  <2> SUFFICES ASSUME NEW b \in Building'
               PROVE  /\ b < u + 1 /\ b \in pending' /\ b \notin version \cup kept \cup edit.add /\ Reserved(g, b)
    BY <1>15 DEF BuildingOK, Reserved
  <2>1. CASE b = u
    <3>1. u < u + 1
      BY <1>4
    <3>2. u \notin version \cup kept
      BY <1>4, <1>20
    <3>3. QED
      BY <1>1, <1>22, <1>25, <2>1, <3>1, <3>2
  <2>2. CASE b \in Building
    <3>1. b < u /\ b \in pending /\ b \notin version \cup kept /\ Reserved(f, b)
      BY <1>3, <1>a, <2>2 DEF BuildingOK, Reserved
    <3>2. b \in Nat
      BY <1>3, <3>1 DEF UpTypes
    <3>3. b < u + 1 /\ b # u
      BY <1>4, <3>1, <3>2
    <3>4. QED
      BY <1>1, <1>12, <1>14, <1>22, <3>1, <3>3
  <2>3. QED
    BY <1>a, <2>1, <2>2
<1>27. SyncedOK(g)'
  BY <1>1, <1>12, <1>19 DEF SyncedOK, LowLogs
<1>28. LogsStable(g, numbers.log)' /\ logs' = {} /\ pc' \in UpStates
  BY <1>1, <1>3, <1>12, <1>15 DEF UpStates
<1>29. DiskOK(g, acked', promised')
  BY <1>13
<1>30. QED
  BY <1>9, <1>13, <1>16, <1>17, <1>18, <1>21, <1>23, <1>24, <1>26, <1>27, <1>28, <1>29, UpNext DEF k
-----------------------------------------------------------------------------
(* The next number is that of no table being built.                        *)
LEMMA NextNumber ==
  ASSUME UpInv
  PROVE  /\ numbers.next \in Nat /\ numbers.next # 0 /\ MemoryTypeOK /\ JobOK
         /\ \A b \in Building : b # numbers.next
<1>1. /\ UpTypes(Files) /\ MemoryTypeOK /\ Numbering(Now(Files)) /\ JobOK /\ BuildingOK(Files)
  BY UpFacts
<1>2. numbers.next \in Nat /\ numbers.manifest \in Nat /\ pending \subseteq Nat
  BY <1>1 DEF UpTypes
<1>3. numbers.manifest < numbers.next
  BY <1>1 DEF Numbering
<1>4. \A b \in Building : b \in Nat /\ b < numbers.next
  BY <1>1, <1>2 DEF BuildingOK
<1>5. QED
  BY <1>1, <1>2, <1>3, <1>4

(* The start of a flush keeps the invariant.                               *)
LEMMA BeginFlushKeeps ==
  ASSUME RInv, BeginFlush
  PROVE  RInv'
<1> DEFINE u == numbers.next
<1>1. /\ Begins("flush")
      /\ job' = [job EXCEPT !.kind = "flush", !.stage = "build", !.number = u]
      /\ UNCHANGED <<pc, version, kept, logfile, logs, edit, mem, imm, lastSeq, bgError, acked, promised, issued, crashes>>
      /\ job = NoJob \/ (job.kind = "compact" /\ job.stage = "build")
      /\ pc = "up" /\ imm # {}
  BY DEF BeginFlush, ghosts, Begins
<1>2. UpInv
  BY <1>1, UpAt DEF UpStates
<1>3. /\ u \in Nat /\ u # 0 /\ MemoryTypeOK /\ JobOK /\ \A b \in Building : b # u
  BY <1>2, NextNumber
<1> HIDE DEF u
<1>4. /\ job'.kind = "flush" /\ job'.stage = "build" /\ job'.number = u /\ job'.inputs = job.inputs /\ job'.output = job.output
      /\ job' \in [kind : {"none", "flush", "compact"}, number : Nat, inputs : SUBSET Nat, output : Nat,
                   stage : {"none", "build", "append", "syncDir", "sync", "install", "clean"}]
  BY <1>1, <1>3 DEF MemoryTypeOK
<1>5. job.stage \in {"none", "build"} /\ job.inputs \subseteq version /\ job.output # u
  <2>1. CASE job = NoJob
    BY <1>3, <2>1, JobType
  <2>2. CASE job # NoJob
    BY <1>1, <1>3, <2>2 DEF JobOK, Building
  <2>3. QED
    BY <2>1, <2>2
<1>6. JobOK'
  <2>1. job' # NoJob
    BY <1>3, <1>4, JobType
  <2>2. QED
    BY <1>1, <1>4, <1>5, <2>1 DEF JobOK
<1>7. Building' \subseteq Building \cup {u}
  <2>1. job.output # 0 => job.stage = "build"
    BY <1>1, <1>3, JobType
  <2>2. QED
    BY <1>4, <2>1 DEF Building
<1>8. QED
  BY <1>1, <1>4, <1>5, <1>6, <1>7, BeginKeeps DEF u

(* The first output of a compaction keeps the invariant.                   *)
LEMMA BeginCompactionKeeps ==
  ASSUME RInv, BeginCompaction
  PROVE  RInv'
<1> DEFINE u == numbers.next
<1>1. PICK inputs \in SUBSET version \ {{}} :
          job' = [NoJob EXCEPT !.kind = "compact", !.stage = "build", !.inputs = inputs, !.output = u]
  BY DEF BeginCompaction
<1>2. /\ Begins("compact")
      /\ UNCHANGED <<pc, version, kept, logfile, logs, edit, mem, imm, lastSeq, bgError, acked, promised, issued, crashes>>
      /\ job = NoJob /\ pc = "up"
  BY DEF BeginCompaction, ghosts, Begins
<1>3. UpInv
  BY <1>2, UpAt DEF UpStates
<1>4. /\ u \in Nat /\ u # 0 /\ MemoryTypeOK /\ JobOK /\ \A b \in Building : b # u
  BY <1>3, NextNumber
<1>5. version \subseteq Nat
  BY <1>4 DEF MemoryTypeOK
<1> HIDE DEF u
<1>6. /\ job'.kind = "compact" /\ job'.stage = "build" /\ job'.number = 0 /\ job'.inputs = inputs /\ job'.output = u
      /\ job' \in [kind : {"none", "flush", "compact"}, number : Nat, inputs : SUBSET Nat, output : Nat,
                   stage : {"none", "build", "append", "syncDir", "sync", "install", "clean"}]
  BY <1>1, <1>4, <1>5 DEF NoJob
<1>7. JobOK'
  <2>1. job' # NoJob
    BY <1>4, <1>6, JobType
  <2>2. QED
    BY <1>2, <1>4, <1>6, <2>1 DEF JobOK
<1>8. Building' \subseteq Building \cup {u}
  BY <1>6 DEF Building
<1>9. job.stage \in {"none", "build"}
  BY <1>2, <1>4, JobType
<1>10. QED
  BY <1>2, <1>6, <1>7, <1>8, <1>9, BeginKeeps DEF u
-----------------------------------------------------------------------------
(* A table is built.                                                       *)
LEMMA ReservedUnused ==
  ASSUME NEW f, NEW t, Reserved(f, t)
  PROVE  UnusedNow(f, {Table(t)}) /\ \A d \in DirsOf(f) : Unused(f, d, {Table(t)})
<1>1. \A n : Manifest(n) # Table(t) /\ (Table(n) = Table(t) => n = t)
  <2>1. \A n : Manifest(n)[1] # Table(t)[1] /\ Table(n)[2] = n /\ Table(t)[2] = t
    BY Kinded
  <2>2. QED
    BY <2>1
<1>2. \A d \in DirsOf(f) : Unused(f, d, {Table(t)})
  BY <1>1 DEF Reserved, Unused
<1>3. f.dir \in DirsOf(f)
  BY DEF DirsOf
<1>4. QED
  BY <1>1, <1>2, <1>3 DEF Reserved, UnusedNow

Built(f, g, t, E) ==
    /\ Files' = g /\ dir' = g.dir
    /\ UpCarried(f, g, {Table(t)})
    /\ GoodTable(Now(g), t) /\ Stored(Now(g), t) = E
    /\ Numbering(Now(g)) /\ Memtables(Now(g)) /\ LowLogs(g, logfile) /\ LogsStable(g, numbers.log)
    /\ \A s : GoodTable(Now(f), s) /\ s # t => GoodTable(Now(g), s) /\ Stored(Now(g), s) = Stored(Now(f), s)
    /\ \A b : Reserved(f, b) /\ b # t => Reserved(g, b)

(* A table that is built holds its entries and leaves the others alone.    *)
LEMMA BuildIs ==
  ASSUME UpInv, NEW t \in Building, NEW E \in SUBSET acked, DiskBecomes(WriteTable(Files, t, E)), NEW f, f = Files
  PROVE  Built(f, WriteTable(f, t, E), t, E)
<1> DEFINE g == WriteTable(f, t, E)
           x == Table(t)
<1>1. /\ UpTypes(f) /\ MemoryTypeOK /\ BuildingOK(f)
  BY UpFacts
<1>2. /\ FilesOK(f) /\ DiskOK(f, acked, promised) /\ Committed(f.dir) /\ pending \subseteq Nat
  BY <1>1 DEF UpTypes
<1>3. Reserved(f, t) /\ t < numbers.next /\ t \in Nat
  BY <1>1, <1>2 DEF BuildingOK, Reserved
<1>4. UnusedNow(f, {x}) /\ \A d \in DirsOf(f) : Unused(f, d, {x})
  BY <1>3, ReservedUnused
<1>5. E \in SUBSET Pairs
  BY <1>1 DEF MemoryTypeOK, Pairs
<1>6. Wrote(f, f, x, NewFile)
  <2>1. x \in DOMAIN f.dir /\ Now(f)[x] = NewFile
    BY <1>3 DEF Reserved
  <2>2. f.dir[x] \in DOMAIN f.data
    BY <1>2, <2>1 DEF FilesOK, DirsOf, IsDirectory
  <2>3. Wrote(f, f, x, Now(f)[x])
    BY <2>1, <2>2, WroteSame
  <2>4. QED
    BY <2>1, <2>3
<1>7. CanWrite(f, f, t, E, acked, promised)
  BY <1>2, <1>3, <1>4, <1>5, <1>6 DEF CanWrite
<1> HIDE DEF g, x
<1>8. TableWritten(f, g, t, E, acked, promised)
  BY <1>7, TableStep DEF g
<1>9. Files' = g /\ dir' = g.dir
  BY <1>8, DiskNow DEF TableWritten, g
<1>10. UpCarried(f, g, {x})
  BY <1>2, <1>8, JunkUp, Kinded DEF TableWritten, x
<1>11. /\ Numbering(Now(g)) /\ Memtables(Now(g)) /\ LowLogs(g, logfile) /\ LogsStable(g, numbers.log)
       /\ \A s : GoodTable(Now(f), s) /\ Table(s) \notin {x} => GoodTable(Now(g), s) /\ Stored(Now(g), s) = Stored(Now(f), s)
       /\ \A b : Reserved(f, b) /\ Table(b) \notin {x} => Reserved(g, b)
  BY <1>10, UpCarries
<1>12. \A s : s # t => Table(s) \notin {x}
  <2>1. \A s : Table(s)[2] = s /\ x[2] = t
    BY Kinded DEF x
  <2>2. QED
    BY <2>1
<1>13. GoodTable(Now(g), t) /\ Stored(Now(g), t) = E
  BY <1>3, <1>8 DEF TableWritten, GoodTable
<1>14. QED
  BY <1>9, <1>10, <1>11, <1>12, <1>13 DEF Built, x, g

(* A table that is built keeps the invariant.                              *)
LEMMA BuildKeeps ==
  ASSUME UpInv, pc = "up", job.stage = "build",
         NEW t \in Building, NEW E \in SUBSET acked, DiskBecomes(WriteTable(Files, t, E)),
         job' = [job EXCEPT !.stage = "append"],
         UNCHANGED <<pc, version, kept, numbers, logfile, logs, mem, imm, lastSeq, bgError>>,
         UNCHANGED <<issued, acked, promised, crashes>>,
         edit' \in [add : SUBSET Nat, del : SUBSET Nat, log : Nat], edit'.add = {t},
         pending' \subseteq pending, pending \ {t} \subseteq pending', t \notin Building',
         job.kind = "flush" => edit'.del = {} /\ edit'.log = logfile /\ imm = E,
         job.kind = "compact" => edit'.del = job.inputs /\ edit'.log = numbers.log
                                 /\ E = UNION {Stored(Now(Files), s) : s \in job.inputs}
  PROVE  RInv'
<1>0. PICK f : f = Files
  OBVIOUS
<1>1. PICK g : g = WriteTable(f, t, E)
  OBVIOUS
<1> DEFINE m == Now(f)
           k == Now(g)
<1>2. /\ UpTypes(f) /\ MemoryTypeOK /\ logs = {}
      /\ VersionOK(m) /\ JobOK /\ BuildingOK(f)
  BY <1>0, UpFacts
<1>3. Built(f, g, t, E)
  BY <1>0, <1>1, BuildIs
<1> HIDE DEF m, k
<1>4. /\ Files' = g /\ dir' = g.dir /\ GoodTable(k, t) /\ Stored(k, t) = E
      /\ Numbering(k) /\ Memtables(k) /\ LowLogs(g, logfile) /\ LogsStable(g, numbers.log)
      /\ \A s : GoodTable(m, s) /\ s # t => GoodTable(k, s) /\ Stored(k, s) = Stored(m, s)
      /\ \A b : Reserved(f, b) /\ b # t => Reserved(g, b)
  BY <1>3 DEF Built, m, k
<1>5. FilesOK(g) /\ DiskOK(g, acked, promised) /\ Committed(g.dir) /\ Full(k) = Full(m)
  BY <1>3 DEF Built, UpCarried, m, k
<1>6. /\ job'.kind = job.kind /\ job'.stage = "append" /\ job'.number = job.number /\ job'.inputs = job.inputs
      /\ job'.output = job.output
      /\ job' \in [kind : {"none", "flush", "compact"}, number : Nat, inputs : SUBSET Nat, output : Nat,
                   stage : {"none", "build", "append", "syncDir", "sync", "install", "clean"}]
  BY <1>2 DEF MemoryTypeOK
<1>7. job # NoJob /\ job' # NoJob /\ job.inputs \subseteq version /\ job'.kind # "none"
  <2>1. job # NoJob /\ job' # NoJob
    BY <1>2, <1>6, JobType
  <2>2. QED
    BY <1>2, <1>6, <2>1 DEF JobOK
<1>8. MemoryTypeOK'
  BY <1>2, <1>6 DEF MemoryTypeOK
<1>9. ~Saving /\ ~Saving' /\ Stage' = "append"
  BY <1>6 DEF Saving, Stage
<1>10. t \notin version \cup kept
  BY <1>2 DEF BuildingOK
<1>11. \A s \in version \cup kept : GoodTable(k, s) /\ Stored(k, s) = Stored(m, s)
  BY <1>2, <1>4, <1>10 DEF VersionOK
<1>12. VersionOK(k)'
  <2>1. \A s \in version \cup kept : GoodTable(k, s)'
    BY <1>11 DEF GoodTable
  <2>2. QED
    BY <1>2, <1>5, <1>9, <2>1 DEF VersionOK
<1>13. EditOK(k)'
  <2>1. GoodTable(k, t)'
    BY <1>4 DEF GoodTable
  <2>2. UNION {Stored(k, s) : s \in edit'.add} = E
    BY <1>4
  <2>3. job.kind = "compact" => UNION {Stored(k, s) : s \in job.inputs} = E
    <3>1. {Stored(k, s) : s \in job.inputs} = {Stored(m, s) : s \in job.inputs}
      BY <1>7, <1>11
    <3>2. QED
      BY <1>0, <3>1 DEF m
  <2>4. QED
    BY <1>6, <2>1, <2>2, <2>3 DEF EditOK
<1>14. JobOK'
  BY <1>2, <1>6, <1>7 DEF JobOK
<1>15. BuildingOK(g)'
  <2> SUFFICES ASSUME NEW b \in Building'
               PROVE  /\ b < numbers.next /\ b \in pending' /\ b \notin version \cup kept \cup edit'.add /\ Reserved(g, b)
    BY DEF BuildingOK, Reserved
  <2>1. b \in Building /\ b # t
    BY <1>6 DEF Building
  <2>2. b < numbers.next /\ b \in pending /\ b \notin version \cup kept /\ Reserved(f, b)
    BY <1>2, <2>1 DEF BuildingOK, Reserved
  <2>3. QED
    BY <1>4, <2>1, <2>2
<1>16. SyncedOK(g)'
  BY <1>4, <1>6, <1>9 DEF SyncedOK, LowLogs
<1>17. /\ Numbering(k)' /\ Memtables(k)' /\ LogsStable(g, numbers.log)' /\ logs' = {} /\ pc' \in UpStates
       /\ DiskOK(g, acked', promised')
  BY <1>2, <1>4, <1>5 DEF Numbering, Memtables, UpStates
<1>18. QED
  BY <1>4, <1>5, <1>8, <1>12, <1>13, <1>14, <1>15, <1>16, <1>17, UpNext DEF k

(* The table of a flush keeps the invariant.                               *)
LEMMA BuildFlushKeeps ==
  ASSUME RInv, BuildFlush
  PROVE  RInv'
<1>1. /\ pc = "up" /\ job.kind = "flush" /\ job.stage = "build"
      /\ DiskBecomes(WriteTable(Files, job.number, imm))
      /\ pending' = pending \ {job.number}
      /\ edit' = [add |-> {job.number}, del |-> {}, log |-> logfile]
      /\ job' = [job EXCEPT !.stage = "append"]
      /\ UNCHANGED <<pc, version, kept, numbers, logfile, logs, mem, imm, lastSeq, bgError>>
      /\ UNCHANGED <<issued, acked, promised, crashes>>
  BY DEF BuildFlush, Goto, ghosts
<1>2. UpInv
  BY <1>1, UpAt DEF UpStates
<1>3. MemoryTypeOK /\ JobOK
  BY <1>2, UpFacts
<1>4. job.number \in Nat /\ logfile \in Nat /\ imm \in SUBSET acked /\ job.number # job.output
  <2>1. job # NoJob
    BY <1>1, JobType, <1>3
  <2>2. QED
    BY <1>1, <1>3, <2>1 DEF MemoryTypeOK, JobOK
<1>5. job.number \in Building /\ job.number \notin Building'
  <2>1. job'.kind = "flush" /\ job'.stage = "append" /\ job'.output = job.output
    BY <1>1, <1>3 DEF MemoryTypeOK
  <2>2. QED
    BY <1>1, <1>4, <2>1 DEF Building
<1>6. /\ edit' \in [add : SUBSET Nat, del : SUBSET Nat, log : Nat] /\ edit'.add = {job.number}
      /\ edit'.del = {} /\ edit'.log = logfile
  BY <1>1, <1>4
<1>7. pending' \subseteq pending /\ pending \ {job.number} \subseteq pending' /\ job.kind # "compact"
  BY <1>1
<1>8. PICK t, E : t = job.number /\ E = imm
  OBVIOUS
<1>9. QED
  BY <1>1, <1>2, <1>4, <1>5, <1>6, <1>7, <1>8, BuildKeeps

(* The table of a compaction keeps the invariant.                          *)
LEMMA BuildCompactionKeeps ==
  ASSUME RInv, BuildCompaction
  PROVE  RInv'
<1>1. PICK E : E = UNION {InTable(Files, n) : n \in job.inputs}
  OBVIOUS
<1>2. /\ pc = "up" /\ job.kind = "compact" /\ job.stage = "build"
      /\ DiskBecomes(WriteTable(Files, job.output, E))
      /\ edit' = [add |-> {job.output}, del |-> job.inputs, log |-> numbers.log]
      /\ job' = [job EXCEPT !.stage = "append"]
      /\ UNCHANGED <<pc, version, kept, numbers, logfile, logs, mem, imm, lastSeq, bgError, pending>>
      /\ UNCHANGED <<issued, acked, promised, crashes>>
  BY <1>1 DEF BuildCompaction, Goto, ghosts
<1>3. UpInv
  BY <1>2, UpAt DEF UpStates
<1>4. MemoryTypeOK /\ JobOK /\ VersionOK(Now(Files)) /\ numbers.log \in Nat
  BY <1>3, UpFacts DEF UpTypes
<1>5. job.output \in Nat /\ job.inputs \subseteq Nat /\ job.inputs \subseteq version /\ job.output # 0
  <2>1. job # NoJob
    BY <1>2, JobType, <1>4
  <2>2. QED
    BY <1>2, <1>4, <2>1, JobType DEF JobOK
<1>6. E = UNION {Stored(Now(Files), s) : s \in job.inputs} /\ E \in SUBSET acked
  <2>1. \A s \in job.inputs : GoodTable(Now(Files), s)
    BY <1>4, <1>5 DEF VersionOK
  <2>2. \A s \in job.inputs : InTable(Files, s) = Stored(Now(Files), s)
    <3>1. \A x \in DOMAIN Files.dir : Content(Files, x) = Now(Files)[x].content
      BY Viewed
    <3>2. \A s \in job.inputs : Table(s) \in DOMAIN Files.dir
      BY <2>1, Viewed DEF GoodTable, HasTable
    <3>3. QED
      BY <3>1, <3>2 DEF InTable, Stored
  <2>3. QED
    BY <1>1, <2>1, <2>2 DEF GoodTable
<1>7. job.output \in Building /\ job.output \notin Building'
  <2>1. job'.kind = "compact" /\ job'.stage = "append" /\ job'.output = job.output
    BY <1>2, <1>4 DEF MemoryTypeOK
  <2>2. QED
    BY <1>2, <1>5, <2>1 DEF Building
<1>8. /\ edit' \in [add : SUBSET Nat, del : SUBSET Nat, log : Nat] /\ edit'.add = {job.output}
      /\ edit'.del = job.inputs /\ edit'.log = numbers.log
  BY <1>2, <1>4, <1>5
<1>9. pending' \subseteq pending /\ pending \ {job.output} \subseteq pending' /\ job.kind # "flush"
  BY <1>2
<1>10. PICK t : t = job.output
  OBVIOUS
<1>11. QED
  BY <1>2, <1>3, <1>6, <1>7, <1>8, <1>9, <1>10, BuildKeeps
-----------------------------------------------------------------------------
(* A table that could not be built is removed.                             *)
LEMMA FlushFailsKeeps ==
  ASSUME RInv, FlushFails
  PROVE  RInv'
<1>0. PICK f : f = Files
  OBVIOUS
<1>a. PICK t : t = job.number
  OBVIOUS
<1> DEFINE X == {Table(t)}
           g == Unlink(f, X)
           m == Now(f)
           k == Now(g)
<1>1. /\ pc = "up" /\ pc' = "up" /\ job.kind = "flush" /\ job.stage = "build"
      /\ DiskBecomes(g) /\ pending' = pending \ {t} /\ bgError' = TRUE /\ EndJob
      /\ UNCHANGED <<version, kept, numbers, logfile, logs, edit, mem, imm, lastSeq>>
      /\ UNCHANGED <<issued, acked, promised, crashes>>
  BY <1>0, <1>a DEF FlushFails, ghosts
<1>2. UpInv
  BY <1>1, UpAt DEF UpStates
<1>3. /\ UpTypes(f) /\ MemoryTypeOK /\ logs = {}
      /\ VersionOK(m) /\ EditOK(m) /\ JobOK /\ BuildingOK(f)
  BY <1>0, <1>2, UpFacts
<1>4. /\ FilesOK(f) /\ DiskOK(f, acked, promised) /\ Committed(f.dir)
  BY <1>3 DEF UpTypes
<1>5. t \in Building /\ Reserved(f, t) /\ t \notin version \cup kept
  <2>1. t \in Building
    BY <1>1, <1>a DEF Building
  <2>2. QED
    BY <1>3, <2>1 DEF BuildingOK, Reserved
<1>6. Files' = g /\ dir' = g.dir /\ Removed(f, g, X)
  BY <1>0, <1>1, Disks, DiskNow, Removes
<1>7. UnusedNow(f, X) /\ NoLogs(X)
  <2>1. NoLogs(X)
    BY Kinded DEF NoLogs
  <2>2. QED
    BY <1>5, <2>1, ReservedUnused
<1> HIDE DEF X, g, m, k
<1>8. UpCarried(f, g, X)
  BY <1>4, <1>6, <1>7, RemovedUp
<1>9. /\ Numbering(k) /\ Memtables(k) /\ LowLogs(g, logfile) /\ LogsStable(g, numbers.log)
      /\ \A s : GoodTable(m, s) /\ Table(s) \notin X => GoodTable(k, s)
      /\ \A b : Reserved(f, b) /\ Table(b) \notin X => Reserved(g, b)
  BY <1>0, <1>2, <1>8, UpCarries DEF m, k
<1>10. FilesOK(g) /\ DiskOK(g, acked, promised) /\ Committed(g.dir)
  BY <1>8 DEF UpCarried
<1>11. \A s : s # t => Table(s) \notin X
  <2>1. \A s : Table(s)[2] = s /\ Table(t)[2] = t
    BY Kinded
  <2>2. QED
    BY <2>1 DEF X
<1>12. /\ JobOK' /\ job'.stage \in {"none", "build"} /\ Building' \subseteq Building
       /\ job' \in [kind : {"none", "flush", "compact"}, number : Nat, inputs : SUBSET Nat, output : Nat,
                    stage : {"none", "build", "append", "syncDir", "sync", "install", "clean"}]
  BY <1>1, <1>3, EndedOK
<1>13. t \notin Building'
  <2>1. t # job.output
    <3>1. job # NoJob
      BY <1>1, <1>3, JobType
    <3>2. QED
      BY <1>3, <1>a, <3>1 DEF JobOK
  <2>2. CASE job' = NoJob
    BY <1>3, <2>2, JobType DEF Building
  <2>3. CASE job' # NoJob
    <3>1. job' = [job EXCEPT !.kind = "compact", !.stage = "build", !.number = 0]
      BY <1>1, <2>3 DEF EndJob
    <3>2. job'.kind = "compact" /\ job'.output = job.output
      BY <1>3, <3>1 DEF MemoryTypeOK
    <3>3. QED
      BY <2>1, <3>2 DEF Building
  <2>4. QED
    BY <2>2, <2>3
<1>14. MemoryTypeOK'
  BY <1>1, <1>3, <1>12 DEF MemoryTypeOK
<1>15. ~Saving' /\ Stage' \in {"none", "build"}
  BY <1>1, <1>12 DEF Saving, Stage
<1>16. edit = NoEdit /\ edit.add = {}
  BY <1>1, <1>3, JobType DEF EditOK
<1>17. VersionOK(k)'
  <2>1. \A s \in version \cup kept : GoodTable(k, s)'
    BY <1>1, <1>3, <1>5, <1>9, <1>11 DEF VersionOK, GoodTable
  <2>2. QED
    BY <1>1, <1>15, <2>1 DEF VersionOK
<1>18. EditOK(k)'
  BY <1>1, <1>12, <1>16 DEF EditOK
<1>19. BuildingOK(g)'
  <2> SUFFICES ASSUME NEW b \in Building'
               PROVE  /\ b < numbers.next /\ b \in pending' /\ b \notin version \cup kept \cup edit.add /\ Reserved(g, b)
    BY <1>1 DEF BuildingOK, Reserved
  <2>1. b \in Building /\ b # t
    BY <1>12, <1>13
  <2>2. b < numbers.next /\ b \in pending /\ b \notin version \cup kept \cup edit.add /\ Reserved(f, b)
    BY <1>3, <2>1 DEF BuildingOK, Reserved
  <2>3. QED
    BY <1>1, <1>9, <1>11, <2>1, <2>2
<1>20. SyncedOK(g)'
  BY <1>1, <1>9, <1>12, <1>15 DEF SyncedOK, LowLogs
<1>21. /\ Numbering(k)' /\ Memtables(k)' /\ LogsStable(g, numbers.log)' /\ logs' = {} /\ pc' \in UpStates
       /\ DiskOK(g, acked', promised')
  BY <1>1, <1>3, <1>9, <1>10 DEF Numbering, Memtables, UpStates
<1>22. QED
  BY <1>6, <1>10, <1>12, <1>14, <1>17, <1>18, <1>19, <1>20, <1>21, UpNext DEF k
-----------------------------------------------------------------------------
(* DeleteObsoleteFiles.                                                    *)
Cleans(f, g, X) ==
    /\ Removed(f, g, X)
    /\ FilesOK(g) /\ DiskOK(g, acked, promised) /\ Committed(g.dir)
    /\ Full(Now(g)) = Full(Now(f)) /\ Man(Now(g)) = Man(Now(f))
    /\ Numbering(Now(g)) /\ Memtables(Now(g)) /\ LowLogs(g, logfile) /\ LogsStable(g, numbers.log)
    /\ \A t \in version \cup kept : GoodTable(Now(g), t)
    /\ \A b \in Building : Reserved(g, b)

(* Removing a file that nothing needs keeps the invariant.                 *)
LEMMA CleansKeeps ==
  ASSUME UpInv, Stage = "clean", NEW f, f = Files, NEW g, NEW X, Cleans(f, g, X), Files' = g, dir' = g.dir,
         UNCHANGED <<pc, memory, ghosts>>
  PROVE  RInv'
<1> DEFINE k == Now(g)
<1>1. /\ pc' = pc /\ UNCHANGED <<version, kept, numbers, logfile, logs, edit, mem, imm, lastSeq, job, pending, bgError>>
      /\ UNCHANGED <<issued, acked, promised, crashes>>
  BY DEF memory, ghosts
<1>2. /\ MemoryTypeOK /\ logs = {} /\ VersionOK(Now(f)) /\ EditOK(Now(f)) /\ JobOK /\ BuildingOK(f) /\ SyncedOK(f)
  BY UpFacts
<1> HIDE DEF k
<1>3. Stage' = "clean" /\ ~Saving /\ ~Saving' /\ Building' = Building /\ pc \in UpStates
  <2>1. pc \in UpStates
    BY DEF UpInv
  <2>2. QED
    BY <1>1, <2>1 DEF Stage, Saving, Building
<1>4. MemoryTypeOK' /\ JobOK' /\ logs' = {} /\ pc' \in UpStates
  BY <1>1, <1>2, <1>3 DEF MemoryTypeOK, JobOK
<1>5. Numbering(k)' /\ Memtables(k)' /\ LogsStable(g, numbers.log)'
  BY <1>1 DEF Cleans, Numbering, Memtables, k
<1>6. VersionOK(k)'
  <2>1. \A t \in version \cup kept : GoodTable(k, t)'
    BY <1>1 DEF Cleans, GoodTable, k
  <2>2. Full(k) = Full(Now(f))
    BY DEF Cleans, k
  <2>3. QED
    BY <1>1, <1>2, <1>3, <2>1, <2>2 DEF VersionOK
<1>7. edit = NoEdit /\ pc # "install" /\ job.stage \in {"none", "clean"}
  <2>1. pc # "install"
    BY DEF Stage
  <2>2. job.stage \in {"none", "clean"}
    BY <1>2, JobType DEF Stage, JobOK
  <2>3. QED
    BY <1>2, <2>1, <2>2 DEF EditOK
<1>8. EditOK(k)'
  BY <1>1, <1>7 DEF EditOK
<1>9. BuildingOK(g)'
  BY <1>1, <1>2, <1>3 DEF BuildingOK, Cleans, Reserved
<1>10. SyncedOK(g)'
  <2>1. ASSUME NEW Y, NEW Z, SyncedBut(f, Y), Y \cap DOMAIN g.dir \subseteq Z PROVE SyncedBut(g, Z)
    <3> SUFFICES ASSUME NEW d \in g.older, NEW x \in DOMAIN g.dir \ Z PROVE x \in DOMAIN d /\ d[x] = g.dir[x]
      BY DEF SyncedBut
    <3>1. x \in DOMAIN f.dir \ Y /\ g.dir[x] = f.dir[x] /\ d \in DirsOf(f)
      BY <2>1 DEF Cleans, Removed
    <3>2. QED
      BY <2>1, <3>1 DEF SyncedBut, DirsOf
  <2>2. LogNames(f) \cap DOMAIN g.dir \subseteq LogNames(g)
    BY DEF LogNames
  <2>3. pc # "up" => SyncedBut(g, {CurrentFile})
    BY <1>2, <2>1 DEF SyncedOK
  <2>4. pc = "up" => SyncedBut(g, LogNames(g))
    <3>1. pc = "up" => SyncedBut(f, LogNames(f))
      BY <1>2 DEF SyncedOK, Stage
    <3>2. QED
      BY <2>1, <2>2, <3>1
  <2>5. Man(k).safe = Len(Man(k).content)
    BY <1>2 DEF SyncedOK, Cleans, k
  <2>6. QED
    BY <1>1, <2>3, <2>4, <2>5 DEF SyncedOK, Cleans, LowLogs, k
<1>11. FilesOK(g) /\ DiskOK(g, acked', promised') /\ Committed(g.dir)
  BY <1>1 DEF Cleans
<1>12. QED
  BY <1>4, <1>5, <1>6, <1>8, <1>9, <1>10, <1>11, UpNext DEF k
-----------------------------------------------------------------------------
(* Old manifests and tables and temporary files that are not live are not needed. *)
LEMMA CleanJunk ==
  ASSUME UpInv, Stage = "clean", NEW f, f = Files, NEW name, NEW X, X = {name}, NEW g, Removed(f, g, X),
         name \in DOMAIN dir, ~bgError,
         \/ name[1] = "MANIFEST" /\ name[2] < numbers.manifest
         \/ name[1] \in {"table", "temp"} /\ name[2] \notin Live
  PROVE  Cleans(f, g, X)
<1> DEFINE m == Now(f)
           k == Now(g)
<1>1. /\ UpTypes(f) /\ MemoryTypeOK /\ Numbering(m) /\ VersionOK(m) /\ BuildingOK(f) /\ SyncedOK(f)
  BY UpFacts
<1>2. /\ FilesOK(f) /\ DiskOK(f, acked, promised) /\ Committed(f.dir) /\ numbers.manifest \in Nat /\ f.dir = dir
  BY <1>1 DEF UpTypes
<1>3. NoLogs(X) /\ CurrentFile # name
  <2>1. CurrentFile # name /\ name[1] # "log"
    BY Kinded
  <2>2. QED
    BY <2>1 DEF NoLogs
<1>4. Cur(m) = numbers.manifest /\ Manifest(Cur(m)) \notin X
  <2>1. Cur(m) = numbers.manifest
    BY <1>1 DEF Numbering
  <2>2. Manifest(numbers.manifest)[1] = "MANIFEST" /\ Manifest(numbers.manifest)[2] = numbers.manifest
    BY Kinded
  <2>3. name # Manifest(numbers.manifest)
    BY <1>2, <2>2
  <2>4. QED
    BY <2>1, <2>3
<1>5. Full(m).tables = version
  <2>1. ~Saving
    BY DEF Saving
  <2>2. Full(m) = [Full(m) EXCEPT !.tables = version, !.log = numbers.log]
    BY <1>1, <2>1 DEF VersionOK
  <2>3. Full(m) = [tables |-> Full(m).tables, log |-> Full(m).log, next |-> Full(m).next, last |-> Full(m).last]
    BY DEF Full, SavedOf
  <2>4. QED
    BY <2>2, <2>3
<1>6. \A t \in Live : Table(t) \notin X
  <2>1. \A t : Table(t)[1] = "table" /\ Table(t)[2] = t
    BY Kinded
  <2>2. QED
    BY <2>1
<1>7. Safely(m) = Full(m)
  <2>1. Man(m).safe = Len(Man(m).content)
    BY <1>1 DEF SyncedOK
  <2>2. Man(m).content \in Seq(Edits)
    <3>1. f.dir \in DirsOf(f) /\ Rooted(m)
      BY <1>2 DEF DirsOf, DiskOK, NowOK
    <3>2. QED
      BY <1>2, <3>1, ViewType DEF Now
  <2>3. SubSeq(Man(m).content, 1, Len(Man(m).content)) = Man(m).content
    BY <2>2, Prefix
  <2>4. QED
    BY <2>1, <2>3 DEF Safely, Full
<1>8. UnusedNow(f, X)
  <2>1. version \subseteq Live
    BY DEF Live
  <2>2. \A t \in Full(m).tables : Table(t) \notin X
    BY <1>5, <1>6, <2>1
  <2>3. QED
    BY <1>4, <1>7, <2>2 DEF UnusedNow, Unused, Now
<1>9. UpCarried(f, g, X)
  BY <1>2, <1>3, <1>8, RemovedUp
<1>10. Man(k) = Man(m)
  BY <1>2, <1>3, <1>8, RemoveJunk
<1> HIDE DEF m, k
<1>11. /\ Numbering(k) /\ Memtables(k) /\ LowLogs(g, logfile) /\ LogsStable(g, numbers.log)
       /\ \A t : GoodTable(m, t) /\ Table(t) \notin X => GoodTable(k, t)
       /\ \A b : Reserved(f, b) /\ Table(b) \notin X => Reserved(g, b)
  BY <1>9, UpCarries DEF m, k
<1>12. \A t \in version \cup kept : GoodTable(k, t)
  BY <1>1, <1>6, <1>11 DEF VersionOK, Live
<1>13. \A b \in Building : Reserved(g, b)
  BY <1>1, <1>6, <1>11 DEF BuildingOK, Reserved, Live
<1>14. QED
  BY <1>9, <1>10, <1>11, <1>12, <1>13 DEF Cleans, UpCarried, m, k

(* A log before the one in the manifest is not needed.                     *)
LEMMA CleanLog ==
  ASSUME UpInv, Stage = "clean", NEW f, f = Files, NEW n \in Nat, NEW X, X = {LogName(n)}, NEW g, Removed(f, g, X),
         LogName(n) \in DOMAIN dir, n < numbers.log
  PROVE  Cleans(f, g, X)
<1> DEFINE m == Now(f)
           k == Now(g)
<1>1. /\ UpTypes(f) /\ MemoryTypeOK /\ Numbering(m) /\ Memtables(m) /\ VersionOK(m) /\ BuildingOK(f) /\ SyncedOK(f)
      /\ LogsStable(f, numbers.log)
  BY UpFacts
<1>2. /\ FilesOK(f) /\ DiskOK(f, acked, promised) /\ Committed(f.dir) /\ f.dir = dir
      /\ numbers.log \in Nat /\ logfile \in Nat /\ Full(m).log \in Nat
      /\ \A d \in DirsOf(f) : Committed(d)
  BY <1>1 DEF UpTypes
<1>3. n < Full(m).log /\ n < logfile
  BY <1>1, <1>2 DEF Numbering
<1>4. Man(m).safe = Len(Man(m).content)
  BY <1>1 DEF SyncedOK
<1>5. Safely(m) = Full(m)
  <2>1. Man(m).content \in Seq(Edits)
    <3>1. f.dir \in DirsOf(f) /\ Rooted(m)
      BY <1>2 DEF DirsOf, DiskOK, NowOK
    <3>2. QED
      BY <1>2, <3>1, ViewType DEF Now
  <2>2. SubSeq(Man(m).content, 1, Len(Man(m).content)) = Man(m).content
    BY <2>1, Prefix
  <2>3. QED
    BY <1>4, <2>2 DEF Safely, Full
<1>6. \A d \in f.older : LogName(n) \in DOMAIN d \/ (Man(Image(f, d)).safe # 0 => n < Safely(Image(f, d)).log)
  <2> SUFFICES ASSUME NEW d \in f.older
               PROVE  LogName(n) \in DOMAIN d \/ (Man(Image(f, d)).safe # 0 => n < Safely(Image(f, d)).log)
    OBVIOUS
  <2>1. CASE pc # "up"
    <3>1. SyncedBut(f, {CurrentFile}) /\ LogName(n) # CurrentFile
      BY <1>1, <2>1, Kinded DEF SyncedOK
    <3>2. QED
      BY <1>2, <3>1 DEF SyncedBut
  <2>2. CASE pc = "up"
    <3>1. SyncedBut(f, LogNames(f))
      BY <1>1, <2>2 DEF SyncedOK, Stage
    <3>2. \A x \in DOMAIN f.dir : x[1] # "log" => x \in DOMAIN d /\ d[x] = f.dir[x]
      BY <3>1 DEF SyncedBut, LogNames
    <3>3. CurrentFile \in DOMAIN f.dir /\ Manifest(Cur(m)) \in DOMAIN f.dir
      <4>1. Rooted(m) /\ CurrentFile \in DOMAIN f.dir
        BY <1>2 DEF DiskOK, NowOK, Committed
      <4>2. QED
        BY <4>1 DEF Rooted, Now, Image
    <3>4. d[CurrentFile] = f.dir[CurrentFile] /\ CurrentFile \in DOMAIN d
      BY <3>2, <3>3, Kinded
    <3>5. d[Manifest(Cur(m))] = f.dir[Manifest(Cur(m))] /\ Manifest(Cur(m)) \in DOMAIN d
      BY <3>2, <3>3, Kinded
    <3>6. Cur(Image(f, d)) = Cur(m)
      BY <3>3, <3>4 DEF Image, Now, Cur
    <3>7. Image(f, d)[Manifest(Cur(m))] = m[Manifest(Cur(m))]
      BY <3>3, <3>5 DEF Image, Now
    <3>8. Man(Image(f, d)) = Man(m)
      BY <3>6, <3>7 DEF Man
    <3>9. Safely(Image(f, d)) = Safely(m)
      BY <3>8 DEF Safely
    <3>10. QED
      BY <1>3, <1>5, <3>9
  <2>3. QED
    BY <2>1, <2>2
<1>7. /\ FilesOK(g) /\ DiskOK(g, acked, promised) /\ Committed(g.dir)
      /\ Full(k) = Full(m) /\ Man(k) = Man(m) /\ Cur(k) = Cur(m)
      /\ SameBut(m, k, X) /\ LogName(n) \notin DOMAIN g.dir
      /\ \A j \in Nat : n < j /\ LogsStable(f, j) => LogsStable(g, j)
  BY <1>2, <1>3, <1>4, <1>6, RemoveLog
<1>8. DirsCarried(f, g)
  <2> SUFFICES ASSUME NEW d \in DirsOf(g)
               PROVE  \E c \in DirsOf(f) : Committed(c) => /\ Committed(d) /\ Man(Image(g, d)).safe = Man(Image(f, c)).safe
                                                           /\ Safely(Image(g, d)) = Safely(Image(f, c))
    BY DEF DirsCarried
  <2>1. CASE d = g.dir
    <3>1. Safely(k) = Safely(m)
      BY <1>7 DEF Safely
    <3>2. f.dir \in DirsOf(f)
      BY DEF DirsOf
    <3>3. QED
      BY <1>7, <2>1, <3>1, <3>2 DEF Now
  <2>2. CASE d \in g.older
    BY <2>2 DEF Removed, Image
  <2>3. QED
    BY <2>1, <2>2 DEF DirsOf
<1>9. LogsStable(g, numbers.log)
  BY <1>1, <1>2, <1>7
<1>10. LowLogs(g, logfile)
  BY <1>1, <1>8, LowStays DEF SyncedOK, LowLogs
<1>11. \A t : Table(t) \notin X
  BY Kinded
<1>12. \A b \in Building : Reserved(g, b)
  <2> SUFFICES ASSUME NEW b \in Building PROVE Reserved(g, b)
    OBVIOUS
  <2>1. Reserved(f, b)
    BY <1>1 DEF BuildingOK, Reserved
  <2>2. QED
    BY <1>2, <1>7, <1>8, <1>11, <2>1, ReservedStays
<1>13. \A x \in DOMAIN k : x # LogName(n) /\ x \in DOMAIN m /\ k[x] = m[x]
  BY <1>7 DEF SameBut, Now, Image
<1>14. \A x \in DOMAIN k : x \in Names
  <2>1. IsDirectory(g.dir, g.data)
    BY <1>7 DEF FilesOK, DirsOf
  <2>2. QED
    BY <2>1, ImageNames DEF Now
<1> HIDE DEF m, k
<1>15. \A t \in version \cup kept : GoodTable(k, t)
  BY <1>1, <1>7, <1>11, NewTablesStay DEF VersionOK, GoodTable
<1>16. Numbering(k)
  BY <1>1, <1>7 DEF Numbering
<1>17. Memtables(k)
  <2>1. LogName(logfile) # LogName(n)
    <3>1. LogName(logfile)[2] = logfile /\ LogName(n)[2] = n /\ n # logfile
      BY <1>2, <1>3, Kinded
    <3>2. QED
      BY <3>1
  <2>2. LogName(logfile) \in DOMAIN m /\ LogOf(m, logfile) = mem
    BY <1>1 DEF Memtables, HasLog
  <2>3. LogName(logfile) \in DOMAIN k /\ k[LogName(logfile)] = m[LogName(logfile)]
    BY <1>7, <2>1, <2>2 DEF SameBut
  <2>4. HasLog(k, logfile) /\ LogOf(k, logfile) = mem
    BY <2>2, <2>3 DEF HasLog, LogOf
  <2>5. \A x \in DOMAIN k : x[1] = "log" => LogOf(k, x[2]) = LogOf(m, x[2])
    <3>1. \A x \in DOMAIN k : x[1] = "log" => x = LogName(x[2])
      BY <1>14, Kinded DEF LogName
    <3>2. QED
      BY <1>13, <3>1 DEF LogOf
  <2>6. QED
    BY <1>1, <1>13, <2>4, <2>5 DEF Memtables
<1>18. QED
  BY <1>7, <1>9, <1>10, <1>12, <1>15, <1>16, <1>17 DEF Cleans, m, k

(* Removing an obsolete file keeps the invariant.                          *)
LEMMA DeleteObsoleteFileKeeps ==
  ASSUME RInv, DeleteObsoleteFile
  PROVE  RInv'
<1>0. PICK f : f = Files
  OBVIOUS
<1>1. AtStage("clean") /\ UNCHANGED <<pc, memory, ghosts>>
  BY DEF DeleteObsoleteFile
<1>2. PICK name \in ObsoleteFiles : DiskBecomes(Unlink(f, {name}))
  BY <1>0 DEF DeleteObsoleteFile
<1>3. PICK X : X = {name}
  OBVIOUS
<1>4. PICK g : g = Unlink(f, X)
  OBVIOUS
<1>5. pc \in UpStates /\ Stage = "clean"
  BY <1>1 DEF AtStage, UpStates, Stage
<1>6. UpInv
  BY <1>5, UpAt
<1>7. Files' = g /\ dir' = g.dir /\ Removed(f, g, X)
  BY <1>0, <1>2, <1>3, <1>4, Disks, DiskNow, Removes
<1>8. name \in DOMAIN dir /\ ~bgError
  BY <1>2 DEF ObsoleteFiles
<1>9. name \in Names
  <2>1. IsDirectory(f.dir, f.data) /\ f.dir = dir
    BY <1>0, <1>6, DiskSays DEF UpInv, LiveInv, FilesOK, DirsOf
  <2>2. QED
    BY <1>8, <2>1 DEF IsDirectory
<1>10. Cleans(f, g, X)
  <2>1. CASE name[1] = "log"
    <3>1. name[2] < numbers.log /\ name = LogName(name[2]) /\ name[2] \in Nat
      BY <1>2, <1>9, <2>1, Kinded DEF ObsoleteFiles, LogName
    <3>2. QED
      BY <1>0, <1>3, <1>5, <1>6, <1>7, <1>8, <3>1, CleanLog
  <2>2. CASE name[1] = "MANIFEST"
    <3>1. name[2] < numbers.manifest
      BY <1>2, <2>2 DEF ObsoleteFiles, IsOldManifest
    <3>2. QED
      BY <1>0, <1>3, <1>5, <1>6, <1>7, <1>8, <2>2, <3>1, CleanJunk
  <2>3. CASE name[1] \in {"table", "temp"}
    <3>1. name[2] \notin Live
      BY <1>2, <2>3 DEF ObsoleteFiles
    <3>2. QED
      BY <1>0, <1>3, <1>5, <1>6, <1>7, <1>8, <2>3, <3>1, CleanJunk
  <2>4. name[1] \in {"log", "MANIFEST", "table", "temp"}
    BY <1>2 DEF ObsoleteFiles
  <2>5. QED
    BY <2>1, <2>2, <2>3, <2>4
<1>11. QED
  BY <1>0, <1>1, <1>5, <1>6, <1>7, <1>10, CleansKeeps
-----------------------------------------------------------------------------
(* LogAndApply by the background thread.                                   *)
Advanced(f, g, X) ==
    /\ Files' = g /\ dir' = g.dir
    /\ FilesOK(g) /\ DiskOK(g, acked, promised) /\ Committed(g.dir)
    /\ SameBut(Now(f), Now(g), X) /\ \A x \in X : x[1] = "MANIFEST"
    /\ LowLogs(g, logfile) /\ LogsStable(g, numbers.log)
    /\ Numbering(Now(g)) /\ \A b \in Building : Reserved(g, b)

AdvancedTo(g, s) ==
    /\ Full(Now(g)).log = edit.log
    /\ ~bgError => Full(Now(g)) = [Full(Now(g)) EXCEPT !.tables = (version \ edit.del) \cup edit.add, !.log = edit.log]
    /\ s \in {"sync", "install"} => SyncedBut(g, LogNames(g))
    /\ s = "install" => Man(Now(g)).safe = Len(Man(Now(g)).content)

(* One stage of LogAndApply after another keeps the invariant.             *)
LEMMA AdvanceKeeps ==
  ASSUME UpInv, pc = "up", job.stage \in {"append", "syncDir", "sync"}, NEW s \in {"syncDir", "sync", "install"},
         job' = [job EXCEPT !.stage = s], NEW f, f = Files, NEW g, NEW X, Advanced(f, g, X), AdvancedTo(g, s),
         UNCHANGED <<pc, version, kept, numbers, logfile, logs, edit, mem, imm, lastSeq, pending, bgError>>,
         UNCHANGED <<issued, acked, promised, crashes>>
  PROVE  RInv'
<1> DEFINE m == Now(f)
           k == Now(g)
<1>1. /\ UpTypes(f) /\ MemoryTypeOK /\ logs = {}
      /\ Numbering(m) /\ Memtables(m) /\ VersionOK(m) /\ EditOK(m) /\ JobOK /\ BuildingOK(f)
  BY UpFacts
<1>2. FilesOK(f) /\ FilesOK(g) /\ DiskOK(g, acked, promised) /\ Committed(g.dir) /\ logfile \in Nat
  BY <1>1 DEF UpTypes, Advanced
<1>3. SameBut(m, k, X) /\ NoLogs(X) /\ (\A x \in DOMAIN m \cup DOMAIN k : x \in Names) /\ \A t : Table(t) \notin X
  BY <1>2, LogNumbers, Kinded DEF Advanced, NoLogs
<1> HIDE DEF m, k
<1>4. /\ job'.kind = job.kind /\ job'.stage = s /\ job'.number = job.number /\ job'.inputs = job.inputs
      /\ job'.output = job.output
      /\ job' \in [kind : {"none", "flush", "compact"}, number : Nat, inputs : SUBSET Nat, output : Nat,
                   stage : {"none", "build", "append", "syncDir", "sync", "install", "clean"}]
  BY <1>1 DEF MemoryTypeOK
<1>5. job # NoJob /\ job' # NoJob /\ job.kind # "none"
  <2>1. job # NoJob /\ job' # NoJob
    BY <1>1, <1>4, JobType
  <2>2. QED
    BY <1>1, <2>1 DEF JobOK
<1>6. MemoryTypeOK'
  BY <1>1, <1>4 DEF MemoryTypeOK
<1>7. Saving' /\ Stage' = s
  BY <1>4 DEF Saving, Stage
<1>8. /\ \A n \in Nat : /\ LogName(n) \in DOMAIN m <=> LogName(n) \in DOMAIN k
                        /\ LogName(n) \in DOMAIN m => LogOf(k, n) = LogOf(m, n)
      /\ \A x \in DOMAIN k : x[1] = "log" => x \in DOMAIN m /\ LogOf(k, x[2]) = LogOf(m, x[2])
  BY <1>3, LogsStay
<1>9. Memtables(k)
  BY <1>1, <1>2, <1>8 DEF Memtables, HasLog
<1>10. \A t : GoodTable(m, t) => GoodTable(k, t) /\ Stored(k, t) = Stored(m, t)
  BY <1>3, NewTablesStay DEF GoodTable
<1>11. VersionOK(k)'
  <2>1. \A t \in version \cup kept : GoodTable(k, t)'
    BY <1>1, <1>10 DEF VersionOK, GoodTable
  <2>2. QED
    BY <1>7, <2>1 DEF VersionOK, AdvancedTo, k
<1>12. (\A t \in version : GoodTable(m, t)) /\ job.inputs \subseteq version
  BY <1>1, <1>5 DEF VersionOK, JobOK
<1>13. /\ \A t \in edit.add : GoodTable(m, t)
       /\ job.kind = "flush" => /\ edit.del = {} /\ edit.log = logfile
                                /\ imm \subseteq UNION {Stored(m, t) : t \in edit.add}
       /\ job.kind = "compact" => /\ edit.del = job.inputs /\ edit.log = numbers.log
                                  /\ UNION {Stored(m, t) : t \in job.inputs} \subseteq UNION {Stored(m, t) : t \in edit.add}
  BY <1>1 DEF EditOK
<1>14. EditOK(k)'
  <2>1. \A t \in edit.add : GoodTable(k, t)'
    BY <1>10, <1>13 DEF GoodTable
  <2>2. {Stored(k, t) : t \in edit.add} = {Stored(m, t) : t \in edit.add}
    BY <1>10, <1>13
  <2>3. {Stored(k, t) : t \in job.inputs} = {Stored(m, t) : t \in job.inputs}
    BY <1>10, <1>12
  <2>4. QED
    BY <1>4, <1>13, <2>1, <2>2, <2>3 DEF EditOK
<1>15. JobOK'
  BY <1>1, <1>4, <1>5 DEF JobOK
<1>16. BuildingOK(g)'
  <2>1. Building' \subseteq Building
    BY <1>4 DEF Building
  <2>2. QED
    BY <1>1, <2>1 DEF BuildingOK, Advanced, Reserved
<1>17. SyncedOK(g)'
  BY <1>4, <1>7 DEF SyncedOK, Advanced, AdvancedTo, LowLogs
<1>18. /\ Numbering(k)' /\ Memtables(k)' /\ LogsStable(g, numbers.log)' /\ logs' = {} /\ pc' \in UpStates
       /\ DiskOK(g, acked', promised') /\ Files' = g /\ dir' = g.dir
  BY <1>1, <1>2, <1>9 DEF Numbering, Memtables, UpStates, Advanced, k
<1>19. QED
  BY <1>2, <1>6, <1>11, <1>14, <1>15, <1>16, <1>17, <1>18, UpNext DEF k

(* Syncing the directory before the manifest keeps the invariant.          *)
LEMMA UpSyncDirectory ==
  ASSUME RInv, SyncDirectory, pc = "up"
  PROVE  RInv'
<1>0. PICK f : f = Files
  OBVIOUS
<1>a. PICK g : g = SyncDir(f)
  OBVIOUS
<1> DEFINE m == Now(f)
           k == Now(g)
<1>1. /\ job.stage = "syncDir" /\ job' = [job EXCEPT !.stage = "sync"]
      /\ DiskBecomes(g) /\ IsDisk(g)
      /\ UNCHANGED <<pc, version, kept, numbers, logfile, logs, edit, mem, imm, lastSeq, pending, bgError>>
      /\ UNCHANGED <<issued, acked, promised, crashes>>
  BY <1>0, <1>a, Disks DEF SyncDirectory, AtStage, Goto, ghosts
<1>2. UpInv
  BY UpAt DEF UpStates
<1>3. /\ UpTypes(f) /\ Numbering(m) /\ VersionOK(m) /\ BuildingOK(f) /\ SyncedOK(f)
  BY <1>0, <1>2, UpFacts
<1>4. FilesOK(f) /\ DiskOK(f, acked, promised) /\ Committed(f.dir)
  BY <1>3 DEF UpTypes
<1>5. FilesOK(g) /\ DiskOK(g, acked, promised) /\ g.older = {} /\ g.dir = f.dir /\ k = m
  BY <1>4, <1>a, SyncDirStep
<1>6. Files' = g /\ dir' = g.dir
  BY <1>1, DiskNow
<1>7. DirsOf(g) = {f.dir} /\ f.dir \in DirsOf(f) /\ Image(g, f.dir) = Image(f, f.dir)
  BY <1>5 DEF DirsOf, Now
<1>8. LowLogs(g, logfile)
  BY <1>3, <1>7 DEF LowLogs, SyncedOK
<1>9. LogsStable(g, numbers.log) /\ SyncedBut(g, LogNames(g))
  BY <1>5 DEF LogsStable, SyncedBut
<1>10. \A b \in Building : Reserved(g, b)
  BY <1>3, <1>5, <1>7 DEF BuildingOK, Reserved
<1>11. SameBut(m, k, {})
  BY <1>5 DEF SameBut
<1>12. Advanced(f, g, {})
  BY <1>3, <1>4, <1>5, <1>6, <1>8, <1>9, <1>10, <1>11 DEF Advanced
<1>13. AdvancedTo(g, "sync")
  <2>1. Saving
    BY <1>1 DEF Saving, Stage
  <2>2. Full(m).log = edit.log
    BY <1>3, <2>1 DEF VersionOK
  <2>3. ~bgError => Full(m) = [Full(m) EXCEPT !.tables = (version \ edit.del) \cup edit.add, !.log = edit.log]
    BY <1>3, <2>1 DEF VersionOK
  <2>4. QED
    BY <1>5, <1>9, <2>2, <2>3 DEF AdvancedTo
<1>14. QED
  BY <1>0, <1>1, <1>2, <1>12, <1>13, AdvanceKeeps

(* The manifest being written is the one that CURRENT names.               *)
LEMMA ManifestInUse ==
  ASSUME UpInv, NEW f, f = Files
  PROVE  /\ ThisManifest = Manifest(Cur(Now(f))) /\ ThisManifest \in DOMAIN f.dir
         /\ Wrote(f, f, ThisManifest, Man(Now(f)))
         /\ Man(Now(f)) = [content |-> Man(Now(f)).content, safe |-> Man(Now(f)).safe]
<1> DEFINE m == Now(f)
<1>1. UpTypes(f) /\ Numbering(m)
  BY UpFacts
<1>2. FilesOK(f) /\ Committed(f.dir) /\ Rooted(m)
  BY <1>1 DEF UpTypes, DiskOK, NowOK
<1>3. ThisManifest = Manifest(Cur(m)) /\ ThisManifest \in DOMAIN f.dir
  <2>1. Cur(m) = numbers.manifest
    BY <1>1 DEF Numbering
  <2>2. QED
    BY <1>2, <2>1 DEF ThisManifest, Rooted, Now, Image
<1>4. f.dir \in DirsOf(f)
  BY DEF DirsOf
<1>5. f.dir[ThisManifest] \in DOMAIN f.data
  BY <1>2, <1>3, <1>4 DEF FilesOK, IsDirectory
<1>6. Wrote(f, f, ThisManifest, m[ThisManifest])
  BY <1>3, <1>5, WroteSame
<1>7. IsFile("MANIFEST", Man(m))
  BY <1>2, <1>4, ViewType DEF Now
<1>8. Man(m) \in [content : Seq(Edits), safe : Nat]
  BY <1>7 DEF IsFile
<1>9. QED
  BY <1>3, <1>6, <1>8 DEF Man

(* Syncing the manifest keeps the invariant.                               *)
LEMMA UpSyncManifest ==
  ASSUME RInv, SyncManifest, pc = "up"
  PROVE  RInv'
<1>0. PICK f : f = Files
  OBVIOUS
<1>a. PICK c : Manifest(c) = ThisManifest /\ c = numbers.manifest
  BY DEF ThisManifest
<1>b. PICK g : g = Sync(f, Manifest(c))
  OBVIOUS
<1> DEFINE m == Now(f)
           k == Now(g)
           X == {Manifest(c)}
<1>1. /\ job.stage = "sync" /\ job' = [job EXCEPT !.stage = "install"]
      /\ DiskBecomes(g) /\ IsDisk(g)
      /\ UNCHANGED <<pc, version, kept, numbers, logfile, logs, edit, mem, imm, lastSeq, pending, bgError>>
      /\ UNCHANGED <<issued, acked, promised, crashes>>
  BY <1>0, <1>a, <1>b, Disks DEF SyncManifest, AtStage, Goto, ghosts
<1>2. UpInv
  BY UpAt DEF UpStates
<1>3. /\ UpTypes(f) /\ Numbering(m) /\ VersionOK(m) /\ BuildingOK(f) /\ SyncedOK(f) /\ LogsStable(f, numbers.log)
  BY <1>0, <1>2, UpFacts
<1>4. FilesOK(f) /\ DiskOK(f, acked, promised) /\ Committed(f.dir) /\ numbers.log \in Nat
  BY <1>3 DEF UpTypes
<1>5. Manifest(c) \in DOMAIN f.dir /\ Wrote(f, f, Manifest(c), Man(m)) /\ c = Cur(m) /\ numbers.log <= Full(m).log
  BY <1>0, <1>2, <1>3, <1>a, ManifestInUse DEF Numbering
<1>6. Wrote(f, g, Manifest(c), [content |-> Man(m).content, safe |-> Len(Man(m).content)])
  BY <1>5, <1>b, Writes
<1>7. SyncedBut(f, LogNames(f))
  BY <1>1, <1>3 DEF SyncedOK
<1>8. SyncedBefore(f)
  BY <1>7 DEF SyncedBefore, SyncedBut, LogNames
<1>9. CanSync(f, g, acked, promised, c, numbers.log)
  BY <1>3, <1>4, <1>5, <1>6, <1>8 DEF CanSync
<1>10. Synced(f, g, acked, promised, c)
  BY <1>9, SyncStep
<1>11. Files' = g /\ dir' = g.dir
  BY <1>1, DiskNow
<1> HIDE DEF m, k, X
<1>12. /\ FilesOK(g) /\ DiskOK(g, acked, promised) /\ Committed(g.dir) /\ SameBut(m, k, X)
       /\ Cur(k) = Cur(m) /\ Full(k) = Full(m) /\ Man(k).safe = Len(Man(k).content)
       /\ \A d \in DirsOf(g) : Committed(d) /\ Safely(Image(g, d)) = Full(m)
       /\ \A n : LogsStable(f, n) => LogsStable(g, n)
  BY <1>10 DEF Synced, m, k, X
<1>13. LowLogs(g, logfile)
  BY <1>3, <1>12 DEF LowLogs, Numbering
<1>14. Numbering(k)
  BY <1>3, <1>12 DEF Numbering
<1>15. \A x \in X : x[1] = "MANIFEST"
  BY Kinded DEF X
<1>16. \A b \in Building : Reserved(g, b)
  <2> SUFFICES ASSUME NEW b \in Building PROVE Reserved(g, b)
    OBVIOUS
  <2>1. Table(b) \in DOMAIN f.dir /\ m[Table(b)] = NewFile /\ b \notin Full(m).tables
    BY <1>3 DEF BuildingOK, m
  <2>2. Table(b) \notin X
    BY <1>15, Kinded
  <2>3. Table(b) \in DOMAIN g.dir /\ Now(g)[Table(b)] = NewFile
    BY <1>12, <2>1, <2>2, SameFile DEF m, k
  <2>4. QED
    BY <1>12, <2>1, <2>3 DEF Reserved, k
<1>17. Advanced(f, g, X)
  BY <1>3, <1>11, <1>12, <1>13, <1>14, <1>15, <1>16 DEF Advanced, m, k
<1>18. SyncedBut(g, LogNames(g))
  <2>1. SyncedBut(g, LogNames(f))
    BY <1>5, <1>6, <1>7, SyncedWrote
  <2>2. LogNames(f) = LogNames(g)
    BY <1>5, <1>6 DEF Wrote, LogNames
  <2>3. QED
    BY <2>1, <2>2
<1>19. AdvancedTo(g, "install")
  <2>1. Saving
    BY <1>1 DEF Saving, Stage
  <2>2. Full(m).log = edit.log
    BY <1>3, <2>1 DEF VersionOK
  <2>3. ~bgError => Full(m) = [Full(m) EXCEPT !.tables = (version \ edit.del) \cup edit.add, !.log = edit.log]
    BY <1>3, <2>1 DEF VersionOK
  <2>4. QED
    BY <1>12, <1>18, <2>2, <2>3 DEF AdvancedTo, k
<1>20. QED
  BY <1>0, <1>1, <1>2, <1>17, <1>19, AdvanceKeeps
-----------------------------------------------------------------------------
(* The edit is appended.                                                   *)
LEMMA SafeWithin ==
  ASSUME NEW f, FilesOK(f)
  PROVE  \A x \in DOMAIN Now(f) : x[1] = "log" => SafeLogOf(Now(f), x[2]) \subseteq LogOf(Now(f), x[2])
<1> SUFFICES ASSUME NEW x \in DOMAIN Now(f), x[1] = "log"
             PROVE  SafeLogOf(Now(f), x[2]) \subseteq LogOf(Now(f), x[2])
  OBVIOUS
<1> DEFINE file == Now(f)[x]
<1>1. x \in DOMAIN f.dir /\ x \in Names /\ x = LogName(x[2]) /\ x # CurrentFile
  BY LogNumbers, Kinded
<1>2. f.dir \in DirsOf(f)
  BY DEF DirsOf
<1>3. f.dir[x] \in DOMAIN f.data /\ f.dir[x][1] = x
  BY <1>1, <1>2 DEF FilesOK, IsDirectory, NamesInode
<1>4. IsFile("log", f.data[f.dir[x]])
  BY <1>3 DEF FilesOK
<1>5. IsFile("log", file)
  BY <1>1, <1>4 DEF Now, Image
<1> HIDE DEF file
<1>6. file.content \in Seq(Pairs) /\ file.safe \in Nat /\ file.safe <= Len(file.content)
  <2>1. file \in [content : Seq(Pairs), safe : Nat] /\ file.safe <= Len(file.content)
    BY <1>5 DEF IsFile
  <2>2. QED
    BY <2>1
<1>7. ToSet(SubSeq(file.content, 1, file.safe)) \subseteq ToSet(file.content)
  BY <1>6, Prefix
<1>8. QED
  BY <1>1, <1>7 DEF SafeLogOf, LogOf, file

EditView(v) == [tables |-> (v.tables \ edit.del) \cup edit.add, log |-> edit.log, next |-> numbers.next, last |-> lastSeq]

(* The disk holds what the version with the edit needs.                    *)
LEMMA EditFits ==
  ASSUME UpInv, pc = "up", job.stage = "append", NEW f, f = Files, NEW w, w = EditView(Full(Now(f)))
  PROVE  /\ Sane(Now(f), w, acked) /\ numbers.log <= w.log /\ w.log <= logfile
         /\ \A e \in acked : Keeps(Now(f), w, e)
         /\ \A e \in promised : KeepsSafe(Now(f), w, e)
<1> DEFINE m == Now(f)
           v == Full(m)
           flush == job.kind = "flush"
           compact == job.kind = "compact"
<1>1. /\ UpTypes(f) /\ MemoryTypeOK /\ Numbering(m) /\ Memtables(m) /\ VersionOK(m) /\ EditOK(m) /\ JobOK
  BY UpFacts
<1>2. /\ FilesOK(f) /\ DiskOK(f, acked, promised) /\ Committed(f.dir)
      /\ numbers.next \in Nat /\ numbers.log \in Nat /\ numbers.manifest \in Nat /\ logfile \in Nat /\ lastSeq \in Nat
      /\ v.next \in Nat /\ v.log \in Nat /\ v.last \in Nat /\ v.tables \subseteq Nat
  BY <1>1 DEF UpTypes
<1>3. NowOK(m, acked, promised) /\ Sane(m, v, acked)
  BY <1>2 DEF DiskOK, NowOK
<1>4. w.tables = (v.tables \ edit.del) \cup edit.add /\ w.log = edit.log /\ w.next = numbers.next /\ w.last = lastSeq
  BY DEF EditView
<1>5. flush \/ compact
  BY <1>1, JobType DEF JobOK
<1>6. /\ \A t \in edit.add : GoodTable(m, t)
      /\ flush => edit.del = {} /\ edit.log = logfile /\ imm \subseteq UNION {Stored(m, t) : t \in edit.add}
      /\ compact => /\ edit.del = job.inputs /\ edit.log = numbers.log
                    /\ UNION {Stored(m, t) : t \in job.inputs} \subseteq UNION {Stored(m, t) : t \in edit.add}
  BY <1>1 DEF EditOK
<1>7. /\ Cur(m) = numbers.manifest /\ numbers.manifest < numbers.next
      /\ numbers.log <= v.log /\ v.log <= logfile /\ logfile < numbers.next
      /\ v.next <= numbers.next /\ v.last <= lastSeq
      /\ \A e \in acked : e[2] <= lastSeq
  BY <1>1 DEF Numbering
<1>8. \A x \in DOMAIN m : x[1] = "log" => x[2] \in Nat /\ x = LogName(x[2]) /\ SafeLogOf(m, x[2]) \subseteq LogOf(m, x[2])
  BY <1>2, LogNumbers, SafeWithin, Kinded
<1>9. /\ LogOf(m, logfile) = mem
      /\ \A x \in DOMAIN m : x[1] = "log" /\ x[2] # logfile =>
            x[2] < logfile /\ (x[2] >= numbers.log => LogOf(m, x[2]) \subseteq imm)
  BY <1>1 DEF Memtables
<1>10. mem \subseteq acked /\ imm \subseteq acked /\ promised \subseteq acked
  BY <1>1 DEF MemoryTypeOK
<1> HIDE DEF m, v, flush, compact
<1>11. numbers.log <= w.log /\ w.log <= logfile /\ w.log \in Nat
  BY <1>2, <1>4, <1>5, <1>6, <1>7
<1>12. Holds(m, w, acked)
  <2>1. w.log < w.next
    BY <1>2, <1>4, <1>7, <1>11
  <2>2. ASSUME NEW t \in w.tables PROVE t < w.next /\ HasTable(m, t) /\ \A e \in Stored(m, t) : e \in acked /\ e[2] <= w.last
    <3>1. CASE t \in v.tables
      <4>1. t < v.next /\ HasTable(m, t) /\ \A e \in Stored(m, t) : e \in acked
        BY <1>3, <3>1 DEF Sane, Holds
      <4>2. t \in Nat
        BY <1>2, <3>1
      <4>3. t < numbers.next
        BY <1>2, <1>7, <4>1, <4>2
      <4>4. QED
        BY <1>4, <1>7, <4>1, <4>3
    <3>2. CASE t \in edit.add
      BY <1>4, <1>6, <1>7, <3>2 DEF GoodTable
    <3>3. QED
      BY <1>4, <2>2, <3>1, <3>2
  <2>3. ASSUME NEW x \in DOMAIN m, x[1] = "log", x[2] >= w.log PROVE LogOf(m, x[2]) \subseteq acked
    <3>1. x[2] >= numbers.log
      BY <1>2, <1>8, <1>11, <2>3
    <3>2. QED
      BY <1>9, <1>10, <2>3, <3>1
  <2>4. QED
    BY <2>1, <2>2, <2>3 DEF Holds
<1>13. Sane(m, w, acked)
  <2>1. 0 < Cur(m)
    BY <1>3 DEF Sane
  <2>2. QED
    BY <1>4, <1>7, <1>12, <2>1 DEF Sane
<1>14. \A e : e \in UNION {Stored(m, t) : t \in edit.add} => InTables(m, w, e)
  BY <1>4 DEF InTables
<1>15. \A e : InTables(m, v, e) => InTables(m, w, e)
  <2> SUFFICES ASSUME NEW e, NEW t \in v.tables, e \in Stored(m, t) PROVE InTables(m, w, e)
    BY DEF InTables
  <2>1. CASE t \in edit.del
    <3>1. compact /\ t \in job.inputs
      BY <1>5, <1>6, <2>1
    <3>2. e \in UNION {Stored(m, s) : s \in job.inputs}
      BY <3>1
    <3>3. QED
      BY <1>6, <1>14, <3>1, <3>2
  <2>2. CASE t \notin edit.del
    BY <1>4, <2>2 DEF InTables
  <2>3. QED
    BY <2>1, <2>2
<1>16. \A x \in DOMAIN m : x[1] = "log" /\ x[2] >= v.log =>
          x[2] >= w.log \/ \A e \in LogOf(m, x[2]) : InTables(m, w, e)
  <2> SUFFICES ASSUME NEW x \in DOMAIN m, x[1] = "log", x[2] >= v.log
               PROVE  x[2] >= w.log \/ \A e \in LogOf(m, x[2]) : InTables(m, w, e)
    OBVIOUS
  <2>1. CASE compact
    BY <1>2, <1>4, <1>6, <1>7, <1>8, <2>1
  <2>2. CASE flush /\ x[2] = logfile
    BY <1>2, <1>4, <1>6, <2>2
  <2>3. CASE flush /\ x[2] # logfile
    <3>1. x[2] >= numbers.log
      BY <1>2, <1>7, <1>8
    <3>2. LogOf(m, x[2]) \subseteq imm
      BY <1>9, <2>3, <3>1
    <3>3. QED
      BY <1>6, <1>14, <2>3, <3>2
  <2>4. QED
    BY <1>5, <2>1, <2>2, <2>3
<1>17. ASSUME NEW e \in acked PROVE Keeps(m, w, e)
  <2>1. Keeps(m, v, e)
    BY <1>3 DEF NowOK, v
  <2>2. QED
    BY <1>15, <1>16, <2>1 DEF Keeps
<1>18. ASSUME NEW e \in promised PROVE KeepsSafe(m, w, e)
  <2>1. KeepsSafe(m, v, e)
    BY <1>3 DEF NowOK, v
  <2>2. QED
    BY <1>8, <1>15, <1>16, <2>1 DEF KeepsSafe
<1>19. QED
  BY <1>11, <1>13, <1>17, <1>18 DEF m

(* Appending an edit to the manifest keeps the invariant.                  *)
LEMMA LogEditKeeps ==
  ASSUME RInv, LogEdit
  PROVE  RInv'
<1>0. PICK f : f = Files
  OBVIOUS
<1>a. PICK c : Manifest(c) = ThisManifest /\ c = numbers.manifest
  BY DEF ThisManifest
<1>b. PICK r : r = Record
  OBVIOUS
<1>c. PICK g : g = WriteFile(f, Manifest(c), r)
  OBVIOUS
<1> DEFINE m == Now(f)
           k == Now(g)
           X == {Manifest(c)}
<1>d. PICK w : w = EditView(Full(m))
  OBVIOUS
<1>1. /\ pc = "up" /\ job.stage = "append" /\ job' = [job EXCEPT !.stage = "syncDir"]
      /\ DiskBecomes(g) /\ IsDisk(g)
      /\ UNCHANGED <<pc, version, kept, numbers, logfile, logs, edit, mem, imm, lastSeq, pending, bgError>>
      /\ UNCHANGED <<issued, acked, promised, crashes>>
  BY <1>0, <1>a, <1>b, <1>c, Disks DEF LogEdit, AtStage, Goto, ghosts
<1>2. UpInv
  BY <1>1, UpAt DEF UpStates
<1>3. /\ UpTypes(f) /\ MemoryTypeOK /\ Numbering(m) /\ VersionOK(m) /\ BuildingOK(f) /\ SyncedOK(f) /\ LogsStable(f, numbers.log)
  BY <1>0, <1>2, UpFacts
<1>4. /\ FilesOK(f) /\ DiskOK(f, acked, promised) /\ Committed(f.dir) /\ numbers.log \in Nat /\ numbers.next \in Nat
      /\ lastSeq \in Nat /\ \A d \in DirsOf(f) : Committed(d)
  BY <1>3 DEF UpTypes
<1>5. Wrote(f, f, Manifest(c), Man(m)) /\ c = Cur(m)
  BY <1>0, <1>2, <1>3, <1>a, ManifestInUse DEF Numbering
<1>6. Wrote(f, g, Manifest(c), [content |-> Append(Man(m).content, r), safe |-> Man(m).safe])
  BY <1>5, <1>c, Writes
<1>7. r \in Edits /\ r.add = edit.add /\ r.del = edit.del /\ r.log = edit.log /\ r.next = numbers.next /\ r.last = lastSeq
  BY <1>3, <1>4, <1>b, JobType DEF Record, Edits
<1>8. /\ w = [tables |-> (Full(m).tables \ r.del) \cup r.add, log |-> r.log, next |-> r.next, last |-> r.last]
      /\ w.next = numbers.next /\ w.last = lastSeq /\ w.log = edit.log
      /\ w.tables = (Full(m).tables \ edit.del) \cup edit.add
  BY <1>7, <1>d DEF EditView
<1>9. /\ Sane(m, w, acked) /\ numbers.log <= w.log /\ w.log <= logfile
      /\ \A e \in acked : Keeps(m, w, e)
      /\ \A e \in promised : KeepsSafe(m, w, e)
  BY <1>0, <1>1, <1>2, <1>d, EditFits
<1>10. Full(m).next <= w.next
  BY <1>3, <1>8 DEF Numbering
<1>11. CanEdit(f, g, acked, promised, c, r, w)
  BY <1>4, <1>5, <1>6, <1>7, <1>8, <1>9, <1>10 DEF CanEdit
<1>12. Edited(f, g, acked, promised, c, w)
  BY <1>11, EditStep
<1>13. Files' = g /\ dir' = g.dir
  BY <1>1, DiskNow
<1> HIDE DEF m, k, X
<1>14. /\ FilesOK(g) /\ DiskOK(g, acked, promised) /\ Committed(g.dir) /\ g.older = f.older /\ SameBut(m, k, X)
       /\ Cur(k) = Cur(m) /\ Full(k) = w /\ Safely(k) = Safely(m) /\ Man(k).safe = Man(m).safe
       /\ \A d \in f.older : Committed(d) => /\ Safely(Image(g, d)) = Safely(Image(f, d))
                                             /\ Man(Image(g, d)).safe = Man(Image(f, d)).safe
       /\ \A n : LogsStable(f, n) => LogsStable(g, n)
  BY <1>12 DEF Edited, m, k, X
<1>15. DirsCarried(f, g)
  <2> SUFFICES ASSUME NEW d \in DirsOf(g)
               PROVE  \E h \in DirsOf(f) : Committed(h) => /\ Committed(d) /\ Man(Image(g, d)).safe = Man(Image(f, h)).safe
                                                           /\ Safely(Image(g, d)) = Safely(Image(f, h))
    BY DEF DirsCarried
  <2>1. CASE d = g.dir
    <3>1. f.dir \in DirsOf(f)
      BY DEF DirsOf
    <3>2. QED
      BY <1>14, <2>1, <3>1 DEF Now, m, k
  <2>2. CASE d \in g.older
    BY <1>14, <2>2 DEF DirsOf
  <2>3. QED
    BY <2>1, <2>2 DEF DirsOf
<1>16. LowLogs(g, logfile)
  BY <1>3, <1>15, LowStays DEF SyncedOK, LowLogs
<1>17. Numbering(k)
  <2>1. lastSeq <= lastSeq /\ numbers.next <= numbers.next
    BY <1>4
  <2>2. QED
    BY <1>3, <1>8, <1>9, <1>14, <2>1 DEF Numbering
<1>18. \A x \in X : x[1] = "MANIFEST"
  BY Kinded DEF X
<1>19. \A b \in Building : Reserved(g, b)
  <2> SUFFICES ASSUME NEW b \in Building PROVE Reserved(g, b)
    OBVIOUS
  <2>1. Reserved(f, b) /\ b \notin edit.add
    BY <1>3 DEF BuildingOK, Reserved
  <2>2. Table(b) \notin X
    BY <1>18, Kinded
  <2>3. b \in Full(k).tables => b \in Full(m).tables
    BY <1>8, <1>14, <2>1
  <2>4. QED
    BY <1>4, <1>14, <1>15, <2>1, <2>2, <2>3, ReservedStays DEF m, k
<1>20. Advanced(f, g, X)
  BY <1>3, <1>13, <1>14, <1>16, <1>17, <1>18, <1>19 DEF Advanced, m, k
<1>21. AdvancedTo(g, "syncDir")
  <2>1. ~bgError => w.tables = (version \ edit.del) \cup edit.add
    <3>1. ~Saving
      BY <1>1 DEF Saving, Stage
    <3>2. ~bgError => Full(m) = [Full(m) EXCEPT !.tables = version, !.log = numbers.log]
      BY <1>3, <3>1 DEF VersionOK
    <3>3. Full(m) = [tables |-> Full(m).tables, log |-> Full(m).log, next |-> Full(m).next, last |-> Full(m).last]
      BY DEF Full, SavedOf
    <3>4. ~bgError => Full(m).tables = version
      BY <3>2, <3>3
    <3>5. QED
      BY <1>8, <3>4
  <2>2. ~bgError => w = [w EXCEPT !.tables = (version \ edit.del) \cup edit.add, !.log = edit.log]
    BY <1>8, <2>1
  <2>3. QED
    BY <1>8, <1>14, <2>2 DEF AdvancedTo, k
<1>22. QED
  BY <1>0, <1>1, <1>2, <1>20, <1>21, AdvanceKeeps
-----------------------------------------------------------------------------
(* Writers.                                                                *)
LEMMA LogInUse ==
  ASSUME UpInv, NEW f, f = Files
  PROVE  /\ LogName(logfile) \in DOMAIN f.dir
         /\ Wrote(f, f, LogName(logfile), Now(f)[LogName(logfile)])
         /\ IsFile("log", Now(f)[LogName(logfile)])
         /\ ToSet(Now(f)[LogName(logfile)].content) = mem
<1> DEFINE x == LogName(logfile)
<1>1. UpTypes(f) /\ Memtables(Now(f))
  BY UpFacts
<1>2. FilesOK(f) /\ f.dir \in DirsOf(f) /\ x[1] = "log"
  BY <1>1, Kinded DEF UpTypes, DirsOf
<1>3. x \in DOMAIN f.dir
  BY <1>1 DEF Memtables, HasLog, Now, Image
<1>4. f.dir[x] \in DOMAIN f.data /\ f.dir[x][1] = x
  BY <1>2, <1>3, Kinded DEF FilesOK, IsDirectory, NamesInode
<1>5. IsFile("log", f.data[f.dir[x]]) /\ Now(f)[x] = f.data[f.dir[x]]
  BY <1>2, <1>3, <1>4 DEF FilesOK, Now, Image
<1>6. Wrote(f, f, x, Now(f)[x])
  BY <1>3, <1>4, WroteSame
<1>7. ToSet(Now(f)[x].content) = mem
  BY <1>1 DEF Memtables, LogOf
<1>8. QED
  BY <1>3, <1>5, <1>6, <1>7

(* What a step of a writer leaves of the tables and of the manifest.       *)
LogCarried(f, g, n) ==
    /\ FilesOK(g) /\ Committed(g.dir)
    /\ Full(Now(g)) = Full(Now(f)) /\ Man(Now(g)) = Man(Now(f)) /\ Cur(Now(g)) = Cur(Now(f))
    /\ SameBut(Now(f), Now(g), {LogName(n)})
    /\ \A d \in g.older : /\ d \in DirsOf(f)
                          /\ Committed(d) => Man(Image(g, d)) = Man(Image(f, d))
                                             /\ Safely(Image(g, d)) = Safely(Image(f, d))

(* What is known stays known when the newest log changes.                  *)
LEMMA LogCarries ==
  ASSUME UpInv, NEW f, f = Files, NEW g, NEW n, LogCarried(f, g, n)
  PROVE  /\ LowLogs(g, logfile)
         /\ \A t : GoodTable(Now(f), t) => GoodTable(Now(g), t) /\ Stored(Now(g), t) = Stored(Now(f), t)
         /\ \A b \in Building : Reserved(g, b)
         /\ \A x \in DOMAIN Now(g) : x # LogName(n) => x \in DOMAIN Now(f) /\ Now(g)[x] = Now(f)[x]
         /\ \A x \in DOMAIN Now(f) : x # LogName(n) => x \in DOMAIN Now(g) /\ Now(g)[x] = Now(f)[x]
         /\ \A x \in DOMAIN Now(g) : x[1] = "log" => x[2] \in Nat /\ x = LogName(x[2])
<1> DEFINE X == {LogName(n)}
<1>1. UpTypes(f) /\ BuildingOK(f) /\ SyncedOK(f) /\ FilesOK(g) /\ \A d \in DirsOf(f) : Committed(d)
  BY UpFacts DEF LogCarried, UpTypes
<1>2. DirsCarried(f, g)
  <2> SUFFICES ASSUME NEW d \in DirsOf(g)
               PROVE  \E h \in DirsOf(f) : Committed(h) => /\ Committed(d) /\ Man(Image(g, d)).safe = Man(Image(f, h)).safe
                                                           /\ Safely(Image(g, d)) = Safely(Image(f, h))
    BY DEF DirsCarried
  <2>1. CASE d = g.dir
    <3>1. f.dir \in DirsOf(f)
      BY DEF DirsOf
    <3>2. Safely(Now(g)) = Safely(Now(f)) /\ Man(Now(g)) = Man(Now(f)) /\ Committed(g.dir)
      BY DEF Safely, LogCarried
    <3>3. QED
      BY <2>1, <3>1, <3>2 DEF Now
  <2>2. CASE d \in g.older
    BY <1>1, <2>2 DEF LogCarried
  <2>3. QED
    BY <2>1, <2>2 DEF DirsOf
<1>3. LowLogs(g, logfile)
  BY <1>1, <1>2, LowStays DEF SyncedOK, LowLogs
<1>4. (\A t : Table(t) \notin X) /\ SameBut(Now(f), Now(g), X)
  BY Kinded DEF LogCarried
<1> HIDE DEF X
<1>5. \A t : GoodTable(Now(f), t) => GoodTable(Now(g), t) /\ Stored(Now(g), t) = Stored(Now(f), t)
  BY <1>4, NewTablesStay DEF GoodTable
<1>6. \A b \in Building : Reserved(g, b)
  <2> SUFFICES ASSUME NEW b \in Building PROVE Reserved(g, b)
    OBVIOUS
  <2>1. Reserved(f, b)
    BY <1>1 DEF BuildingOK, Reserved
  <2>2. Full(Now(g)) = Full(Now(f))
    BY DEF LogCarried
  <2>3. QED
    BY <1>1, <1>2, <1>4, <2>1, <2>2, ReservedStays
<1>7. \A x \in DOMAIN Now(g) : x[1] = "log" => x[2] \in Nat /\ x = LogName(x[2])
  BY <1>1, LogNumbers, Kinded
<1>8. QED
  BY <1>3, <1>4, <1>5, <1>6, <1>7 DEF SameBut, X

(* A write keeps the invariant.                                            *)
LEMMA PutEntryKeeps ==
  ASSUME RInv, NEW sync \in BOOLEAN, PutEntry(sync)
  PROVE  RInv'
<1>0. PICK f : f = Files
  OBVIOUS
<1>a. PICK n : n = logfile
  OBVIOUS
<1>b. PICK e : e = <<issued + 1, lastSeq + 1>>
  OBVIOUS
<1>c. PICK h : h = WriteFile(f, LogName(n), e)
  OBVIOUS
<1>d. PICK g : g = IF sync THEN Sync(h, LogName(n)) ELSE h
  OBVIOUS
<1>e. PICK E, Q : E = {e} /\ Q = IF sync THEN {e} ELSE {}
  OBVIOUS
<1> DEFINE m == Now(f)
           k == Now(g)
           x == LogName(n)
           old == m[x]
           file == [content |-> Append(old.content, e), safe |-> IF sync THEN Len(Append(old.content, e)) ELSE old.safe]
<1>1. /\ pc = "up" /\ pc' = "up" /\ job.stage \notin {"install", "clean"} /\ issued < MaxEntries
      /\ DiskBecomes(g) /\ mem' = mem \cup E /\ acked' = acked \cup E /\ promised' = promised \cup Q
      /\ issued' = issued + 1 /\ lastSeq' = lastSeq + 1
      /\ UNCHANGED <<version, kept, numbers, logfile, logs, edit, imm, job, pending, bgError, crashes>>
  BY <1>0, <1>a, <1>b, <1>c, <1>d, <1>e DEF PutEntry, Unlocked
<1>2. IsDisk(g)
  BY <1>c, <1>d, Disks
<1>3. UpInv
  BY <1>1, UpAt DEF UpStates
<1>4. /\ UpTypes(f) /\ MemoryTypeOK /\ logs = {}
      /\ Numbering(m) /\ Memtables(m) /\ VersionOK(m) /\ EditOK(m)
      /\ JobOK /\ BuildingOK(f) /\ SyncedOK(f) /\ LogsStable(f, numbers.log)
  BY <1>0, <1>3, UpFacts
<1>5. /\ FilesOK(f) /\ DiskOK(f, acked, promised) /\ Committed(f.dir) /\ n \in Nat /\ lastSeq \in Nat /\ numbers.log \in Nat
      /\ Full(m).log \in Nat /\ Full(m).last \in Nat
  BY <1>4, <1>a DEF UpTypes
<1>6. x \in DOMAIN f.dir /\ Wrote(f, f, x, old) /\ IsFile("log", old) /\ ToSet(old.content) = mem
  BY <1>0, <1>3, <1>a, LogInUse
<1> HIDE DEF m, k, x, old
<1>7. old.content \in Seq(Pairs) /\ old.safe \in Nat /\ old.safe <= Len(old.content)
  <2>1. old \in [content : Seq(Pairs), safe : Nat] /\ old.safe <= Len(old.content)
    BY <1>6 DEF IsFile
  <2>2. QED
    BY <2>1
<1>8. issued \in Nat /\ e \in Pairs /\ e[1] = issued + 1 /\ e[2] = lastSeq + 1 /\ e \in (1 .. MaxEntries) \X Nat
      /\ issued' \in 0 .. MaxEntries
  <2>1. issued \in 0 .. MaxEntries /\ MaxEntries \in Nat
    BY <1>4, RecoveryAssumption DEF MemoryTypeOK
  <2>2. QED
    BY <1>1, <1>5, <1>b, <2>1 DEF Pairs
<1>9. Wrote(f, g, x, file)
  <2>1. Wrote(f, h, x, [content |-> Append(old.content, e), safe |-> old.safe])
    BY <1>6, <1>c, Writes DEF x
  <2>2. CASE sync
    <3>1. PICK q : q = [content |-> Append(old.content, e), safe |-> old.safe]
      OBVIOUS
    <3>2. q.content = Append(old.content, e) /\ Wrote(f, h, x, q)
      BY <2>1, <3>1
    <3>3. Wrote(f, Sync(h, x), x, [content |-> q.content, safe |-> Len(q.content)])
      BY <3>2, Writes
    <3>4. QED
      BY <2>2, <3>2, <3>3, <1>d DEF x
  <2>3. CASE ~sync
    BY <2>1, <2>3, <1>d
  <2>4. QED
    BY <2>2, <2>3
<1>10. Append(old.content, e) \in Seq(Pairs) /\ Len(Append(old.content, e)) = Len(old.content) + 1 /\ Len(old.content) \in Nat
  BY <1>7, <1>8
<1>11. file.content = Append(old.content, e) /\ file.safe \in Nat /\ file.safe <= Len(file.content)
       /\ file.safe = IF sync THEN Len(file.content) ELSE old.safe
  BY <1>7, <1>10
<1>12. IsFile("log", file)
  BY <1>10, <1>11 DEF IsFile
<1>13. ToSet(file.content) = mem \cup E
  BY <1>6, <1>7, <1>8, <1>11, <1>e, Elements
<1>14. SafeLogOf(m, n) \subseteq mem /\ SafeLogOf(m, n) = ToSet(SubSeq(old.content, 1, old.safe))
  <2>1. SafeLogOf(m, n) = ToSet(SubSeq(old.content, 1, old.safe))
    BY DEF SafeLogOf, old, x
  <2>2. QED
    BY <1>6, <1>7, <2>1, Prefix
<1>15. SafeLogOf(m, n) \cup Q \subseteq ToSet(SubSeq(file.content, 1, file.safe))
  <2>1. CASE sync
    <3>1. SubSeq(file.content, 1, Len(file.content)) = file.content
      BY <1>10, <1>11, Prefix
    <3>2. QED
      BY <1>11, <1>13, <1>14, <1>e, <2>1, <3>1
  <2>2. CASE ~sync
    <3>1. SubSeq(Append(old.content, e), 1, old.safe) = SubSeq(old.content, 1, old.safe)
      BY <1>7, <1>10, Prefix
    <3>2. QED
      BY <1>11, <1>14, <1>e, <2>2, <3>1
  <2>3. QED
    BY <2>1, <2>2
<1> HIDE DEF file
<1>16. HasLog(m, n) /\ LogOf(m, n) = mem
  BY <1>4, <1>a DEF Memtables
<1>17. CanGrow(f, g, acked, promised, E, Q, n, file)
  <2>1. Full(m).log <= n /\ numbers.log <= n
    BY <1>4, <1>5, <1>a DEF Numbering
  <2>2. \A d \in f.older : x \in DOMAIN d => x \in DOMAIN f.dir /\ d[x] = f.dir[x]
    BY <1>4, <1>5, <2>1, Kinded DEF LogsStable, x
  <2>3. \A d \in DirsOf(f) : Committed(d) /\ (Man(Image(f, d)).safe # 0 => Safely(Image(f, d)).log <= n)
    BY <1>4, <1>a DEF SyncedOK
  <2>4. Q \subseteq E
    BY <1>e
  <2>5. QED
    BY <1>5, <1>9, <1>12, <1>13, <1>15, <1>16, <2>1, <2>2, <2>3, <2>4 DEF CanGrow, m, x
<1>18. LogGrown(f, g, acked \cup E, promised \cup Q, n, file)
  BY <1>17, LogGrows
<1>19. LogCarried(f, g, n) /\ DiskOK(g, acked', promised') /\ x \in DOMAIN g.dir /\ k[x] = file
  BY <1>1, <1>18 DEF LogGrown, LogCarried, k, x
<1>20. /\ LowLogs(g, logfile)
       /\ \A t : GoodTable(m, t) => GoodTable(k, t) /\ Stored(k, t) = Stored(m, t)
       /\ \A b \in Building : Reserved(g, b)
       /\ \A y \in DOMAIN k : y # LogName(n) => y \in DOMAIN m /\ k[y] = m[y]
       /\ \A y \in DOMAIN k : y[1] = "log" => y[2] \in Nat /\ y = LogName(y[2])
  BY <1>0, <1>3, <1>19, LogCarries DEF m, k
<1>21. Full(k) = Full(m) /\ Cur(k) = Cur(m) /\ FilesOK(g) /\ Committed(g.dir)
  BY <1>19 DEF LogCarried, m, k
<1>22. Files' = g /\ dir' = g.dir
  BY <1>1, <1>2, DiskNow
<1>23. MemoryTypeOK'
  <2>1. \A a \in acked : a[2] \in Nat /\ a[2] <= lastSeq
    <3>1. \A a \in acked : a \in (1 .. MaxEntries) \X Nat
      BY <1>4 DEF MemoryTypeOK
    <3>2. QED
      BY <1>4, <3>1 DEF Numbering
  <2>2. \A a \in acked : a[2] # e[2]
    BY <1>5, <1>8, <2>1
  <2>3. \A a, b \in acked : a[2] = b[2] => a = b
    BY <1>4 DEF MemoryTypeOK
  <2>4. \A a, b \in acked' : a[2] = b[2] => a = b
    BY <1>1, <1>e, <2>2, <2>3
  <2>5. mem' \subseteq acked' /\ imm' \subseteq acked' /\ promised' \subseteq acked' /\ acked' \subseteq (1 .. MaxEntries) \X Nat
    BY <1>1, <1>4, <1>8, <1>e DEF MemoryTypeOK
  <2>6. QED
    BY <1>1, <1>4, <1>5, <1>8, <2>4, <2>5 DEF MemoryTypeOK
<1>24. Saving' = Saving /\ Stage' = Stage /\ Building' = Building
  BY <1>1 DEF Saving, Stage, Building
<1>25. Numbering(k)'
  <2>1. \A a \in acked' : a[2] <= lastSeq + 1
    <3>1. \A a \in acked : a[2] \in Nat /\ a[2] <= lastSeq
      BY <1>4 DEF MemoryTypeOK, Numbering
    <3>2. QED
      BY <1>1, <1>5, <1>8, <1>e, <3>1
  <2>2. Full(m).last <= lastSeq + 1
    BY <1>4, <1>5 DEF Numbering
  <2>3. QED
    BY <1>1, <1>4, <1>21, <2>1, <2>2 DEF Numbering
<1>26. Memtables(k)'
  <2>1. HasLog(k, n) /\ LogOf(k, n) = mem'
    <3>1. x \in DOMAIN k
      BY <1>19 DEF k, Now, Image
    <3>2. QED
      BY <1>1, <1>13, <1>19, <3>1 DEF HasLog, LogOf, x
  <2>2. ASSUME NEW y \in DOMAIN k, y[1] = "log", y[2] # logfile
        PROVE  y[2] < logfile /\ (y[2] >= numbers.log => LogOf(k, y[2]) \subseteq imm)
    <3>1. y # LogName(n) /\ y = LogName(y[2])
      BY <1>20, <1>a, <2>2, Kinded
    <3>2. y \in DOMAIN m /\ LogOf(k, y[2]) = LogOf(m, y[2])
      BY <1>20, <3>1 DEF LogOf
    <3>3. QED
      BY <1>1, <1>4, <2>2, <3>2 DEF Memtables
  <2>3. QED
    BY <1>1, <1>a, <2>1, <2>2 DEF Memtables
<1>27. \A t : GoodTable(m, t) => GoodTable(k, t)'
  BY <1>1, <1>20 DEF GoodTable
<1>28. VersionOK(k)'
  BY <1>1, <1>4, <1>21, <1>24, <1>27 DEF VersionOK
<1>29. EditOK(k)'
  <2>1. CASE job.stage \in {"append", "syncDir", "sync", "install"}
    <3>1. /\ \A t \in edit.add : GoodTable(m, t)
          /\ job.kind = "flush" => /\ edit.del = {} /\ edit.log = logfile
                                   /\ imm \subseteq UNION {Stored(m, t) : t \in edit.add}
          /\ job.kind = "compact" => /\ edit.del = job.inputs /\ edit.log = numbers.log
                                     /\ UNION {Stored(m, t) : t \in job.inputs} \subseteq UNION {Stored(m, t) : t \in edit.add}
      BY <1>1, <1>4, <2>1 DEF EditOK
    <3>2. {Stored(k, t) : t \in edit.add} = {Stored(m, t) : t \in edit.add}
      BY <1>20, <3>1
    <3>3. job.kind = "compact" => job.inputs \subseteq version
      <4>1. job # NoJob
        BY <1>4, <2>1, JobType
      <4>2. QED
        BY <1>1, <1>4, <4>1 DEF JobOK
    <3>4. job.kind = "compact" => {Stored(k, t) : t \in job.inputs} = {Stored(m, t) : t \in job.inputs}
      BY <1>4, <1>20, <3>3 DEF VersionOK
    <3>5. QED
      BY <1>1, <1>27, <2>1, <3>1, <3>2, <3>4 DEF EditOK
  <2>2. CASE job.stage \notin {"append", "syncDir", "sync", "install"}
    BY <1>1, <1>4, <2>2 DEF EditOK
  <2>3. QED
    BY <2>1, <2>2
<1>30. JobOK' /\ logs' = {} /\ pc' \in UpStates
  BY <1>1, <1>4 DEF JobOK, UpStates
<1>31. BuildingOK(g)'
  BY <1>1, <1>4, <1>20, <1>24 DEF BuildingOK, Reserved
<1>32. SyncedOK(g)'
  <2>1. LogNames(g) = LogNames(f)
    BY <1>6, <1>9 DEF LogNames, Wrote
  <2>2. SyncedBut(f, LogNames(f)) => SyncedBut(g, LogNames(g))
    BY <1>6, <1>9, <2>1, SyncedWrote
  <2>3. job.stage = "sync" => SyncedBut(g, LogNames(g))
    BY <1>1, <1>4, <2>2 DEF SyncedOK
  <2>4. QED
    BY <1>1, <1>20, <2>3 DEF SyncedOK, LowLogs, Stage
<1>33. LogsStable(g, numbers.log)'
  BY <1>1, <1>4, <1>9, StableWrote
<1>34. QED
  BY <1>19, <1>21, <1>22, <1>23, <1>25, <1>26, <1>28, <1>29, <1>30, <1>31, <1>32, <1>33, UpNext DEF k
-----------------------------------------------------------------------------
(* Switching to a new log keeps the invariant.                             *)
LEMMA SwitchKeeps ==
  ASSUME RInv, Switch
  PROVE  RInv'
<1>0. PICK f : f = Files
  OBVIOUS
<1>a. PICK n : n = numbers.next
  OBVIOUS
<1>b. PICK g : g = Create(f, LogName(n))
  OBVIOUS
<1>c. PICK o : o = logfile
  OBVIOUS
<1> DEFINE m == Now(f)
           k == Now(g)
           x == LogName(n)
<1>1. /\ pc = "up" /\ pc' = "up" /\ job.stage \notin {"install", "clean"} /\ imm = {}
      /\ DiskBecomes(g) /\ mem' = {} /\ imm' = mem /\ mem # {}
      /\ logfile' = n /\ numbers' = [numbers EXCEPT !.next = n + 1]
      /\ UNCHANGED <<version, kept, logs, edit, lastSeq, job, pending, bgError>>
      /\ UNCHANGED <<issued, acked, promised, crashes>>
  BY <1>0, <1>a, <1>b DEF Switch, Unlocked, ghosts
<1>2. UpInv
  BY <1>1, UpAt DEF UpStates
<1>3. /\ UpTypes(f) /\ MemoryTypeOK /\ logs = {}
      /\ Numbering(m) /\ Memtables(m) /\ VersionOK(m) /\ EditOK(m)
      /\ JobOK /\ BuildingOK(f) /\ SyncedOK(f) /\ LogsStable(f, numbers.log)
  BY <1>0, <1>2, UpFacts
<1>4. /\ FilesOK(f) /\ DiskOK(f, acked, promised) /\ Committed(f.dir) /\ n \in Nat /\ o \in Nat /\ numbers.log \in Nat
      /\ numbers.manifest \in Nat /\ Full(m).log \in Nat /\ Full(m).next \in Nat
  BY <1>3, <1>a, <1>c DEF UpTypes
<1>5. /\ numbers.log <= Full(m).log /\ Full(m).log <= o /\ o < n /\ numbers.manifest < n /\ Full(m).next <= n
  BY <1>3, <1>a, <1>c DEF Numbering
<1>6. /\ HasLog(m, o) /\ LogOf(m, o) = mem
      /\ \A y \in DOMAIN m : y[1] = "log" /\ y[2] # o => y[2] < o /\ (y[2] >= numbers.log => LogOf(m, y[2]) = {})
  BY <1>1, <1>3, <1>c DEF Memtables
<1>7. x \notin DOMAIN f.dir
  <2>1. DOMAIN m = DOMAIN f.dir
    BY DEF Now, Image
  <2>2. x[1] = "log" /\ x[2] = n
    BY Kinded
  <2>3. n # o /\ ~(n < o)
    BY <1>4, <1>5
  <2>4. QED
    BY <1>6, <2>1, <2>2, <2>3
<1>8. LogMade(f, g, n, acked, promised)
  <2>1. Full(m).log <= n /\ numbers.log <= n
    BY <1>4, <1>5
  <2>2. QED
    BY <1>3, <1>4, <1>7, <1>b, <2>1, NewLogStep
<1> HIDE DEF m, k, x
<1>9. /\ FilesOK(g) /\ DiskOK(g, acked, promised) /\ Committed(g.dir) /\ IsDisk(g)
      /\ Full(k) = Full(m) /\ Cur(k) = Cur(m)
      /\ HasLog(k, n) /\ LogOf(k, n) = {}
      /\ \A i : LogsStable(f, i) => LogsStable(g, i)
      /\ LogCarried(f, g, n)
  BY <1>8 DEF LogMade, LogCarried, m, k
<1>10. /\ LowLogs(g, o)
       /\ \A t : GoodTable(m, t) => GoodTable(k, t) /\ Stored(k, t) = Stored(m, t)
       /\ \A b \in Building : Reserved(g, b)
       /\ \A y \in DOMAIN k : y # LogName(n) => y \in DOMAIN m /\ k[y] = m[y]
       /\ \A y \in DOMAIN k : y[1] = "log" => y[2] \in Nat /\ y = LogName(y[2])
  BY <1>0, <1>2, <1>9, <1>c, LogCarries DEF m, k
<1>11. Files' = g /\ dir' = g.dir
  BY <1>1, <1>9, DiskNow
<1>12. /\ numbers'.next = n + 1 /\ numbers'.log = numbers.log /\ numbers'.manifest = numbers.manifest
       /\ numbers' \in [next : Nat, log : Nat, manifest : Nat]
  BY <1>1, <1>3, <1>4 DEF UpTypes
<1>13. MemoryTypeOK'
  BY <1>1, <1>3, <1>4, <1>12 DEF MemoryTypeOK
<1>14. job.kind # "flush" \/ job.stage = "build"
  <2>1. CASE job.kind = "flush"
    <3>1. job.stage = "clean"
      BY <1>1, <1>3, <2>1 DEF JobOK
    <3>2. QED
      BY <1>1, <3>1
  <2>2. QED
    BY <2>1
<1>15. Saving' = Saving /\ Stage' = Stage /\ Building' = Building
  BY <1>1 DEF Saving, Stage, Building
<1>16. Numbering(k)'
  <2>1. /\ numbers.manifest < n + 1 /\ Full(m).log <= n /\ n < n + 1 /\ Full(m).next <= n + 1
    BY <1>4, <1>5
  <2>2. QED
    BY <1>1, <1>3, <1>9, <1>12, <2>1 DEF Numbering
<1>17. Memtables(k)'
  <2>1. ASSUME NEW y \in DOMAIN k, y[1] = "log", y[2] # n
        PROVE  y[2] < n /\ (y[2] >= numbers.log => LogOf(k, y[2]) \subseteq mem)
    <3>1. y # LogName(n) /\ y = LogName(y[2]) /\ y[2] \in Nat
      BY <1>10, <2>1, Kinded
    <3>2. y \in DOMAIN m /\ LogOf(k, y[2]) = LogOf(m, y[2])
      BY <1>10, <3>1 DEF LogOf
    <3>3. CASE y[2] = o
      BY <1>5, <1>6, <3>2, <3>3
    <3>4. CASE y[2] # o
      <4>1. y[2] < o /\ (y[2] >= numbers.log => LogOf(m, y[2]) = {})
        BY <1>6, <2>1, <3>2, <3>4
      <4>2. y[2] < n
        BY <1>4, <1>5, <3>1, <4>1
      <4>3. QED
        BY <3>2, <4>1, <4>2
    <3>5. QED
      BY <3>3, <3>4
  <2>2. QED
    BY <1>1, <1>9, <1>12, <2>1 DEF Memtables
<1>18. \A t : t \in Nat /\ GoodTable(m, t) => GoodTable(k, t)'
  <2> SUFFICES ASSUME NEW t \in Nat, GoodTable(m, t) PROVE GoodTable(k, t)'
    OBVIOUS
  <2>1. GoodTable(k, t) /\ t < n
    BY <1>10, <1>a DEF GoodTable
  <2>2. t < n + 1
    BY <1>4, <2>1
  <2>3. QED
    BY <1>1, <1>12, <2>1, <2>2 DEF GoodTable
<1>19. /\ version \subseteq Nat /\ kept \subseteq Nat /\ edit.add \subseteq Nat
       /\ job.inputs \subseteq version \/ ~(job.kind = "compact" /\ job.stage \in {"append", "syncDir", "sync", "install"})
  <2>1. job.inputs \subseteq version \/ ~(job.kind = "compact" /\ job.stage \in {"append", "syncDir", "sync", "install"})
    <3>1. job.stage # "none" => job # NoJob
      BY <1>3, JobType
    <3>2. QED
      BY <1>1, <1>3, <3>1 DEF JobOK
  <2>2. QED
    BY <1>3, <2>1, JobType DEF MemoryTypeOK
<1>20. VersionOK(k)'
  <2>1. \A t \in version \cup kept : GoodTable(k, t)'
    BY <1>3, <1>18, <1>19 DEF VersionOK
  <2>2. QED
    BY <1>1, <1>3, <1>9, <1>12, <1>15, <2>1 DEF VersionOK
<1>21. EditOK(k)'
  <2>1. CASE job.stage \in {"append", "syncDir", "sync", "install"}
    <3>1. /\ \A t \in edit.add : GoodTable(m, t)
          /\ job.kind = "compact" => /\ edit.del = job.inputs /\ edit.log = numbers.log
                                     /\ UNION {Stored(m, t) : t \in job.inputs} \subseteq UNION {Stored(m, t) : t \in edit.add}
      BY <1>1, <1>3, <2>1 DEF EditOK
    <3>2. {Stored(k, t) : t \in edit.add} = {Stored(m, t) : t \in edit.add}
      BY <1>10, <3>1
    <3>3. job.kind = "compact" => {Stored(k, t) : t \in job.inputs} = {Stored(m, t) : t \in job.inputs}
      BY <1>3, <1>10, <1>19, <2>1 DEF VersionOK
    <3>4. \A t \in edit.add : GoodTable(k, t)'
      BY <1>18, <1>19, <3>1
    <3>5. job.kind # "flush"
      BY <1>14, <2>1
    <3>6. QED
      BY <1>1, <1>12, <2>1, <3>1, <3>2, <3>3, <3>4, <3>5 DEF EditOK
  <2>2. CASE job.stage \notin {"append", "syncDir", "sync", "install"}
    BY <1>1, <1>3, <2>2 DEF EditOK
  <2>3. QED
    BY <2>1, <2>2
<1>22. JobOK' /\ logs' = {} /\ pc' \in UpStates
  BY <1>1, <1>3 DEF JobOK, UpStates
<1>23. BuildingOK(g)'
  <2> SUFFICES ASSUME NEW b \in Building
               PROVE  /\ b < n + 1 /\ b \in pending /\ b \notin version \cup kept \cup edit.add /\ Reserved(g, b)
    BY <1>1, <1>12, <1>15 DEF BuildingOK, Reserved
  <2>1. b < n /\ b \in pending /\ b \notin version \cup kept \cup edit.add /\ Reserved(g, b)
    BY <1>3, <1>10, <1>a DEF BuildingOK
  <2>2. b \in Nat
    BY <1>3, <2>1 DEF MemoryTypeOK
  <2>3. b < n + 1
    BY <1>4, <2>1, <2>2
  <2>4. QED
    BY <2>1, <2>3
<1>24. SyncedOK(g)'
  <2>1. ASSUME SyncedBut(f, LogNames(f)) PROVE SyncedBut(g, LogNames(g))
    <3>1. Wrote(f, g, x, NewFile)
      BY <1>4, <1>b, Creates DEF x
    <3>2. g.older = DirsOf(f) /\ DOMAIN g.dir = DOMAIN f.dir \cup {x} /\ \A y \in DOMAIN f.dir : g.dir[y] = f.dir[y]
      BY <1>7, <3>1 DEF Wrote, x
    <3>3. x \in LogNames(g)
      BY <3>2, Kinded DEF LogNames, x
    <3> SUFFICES ASSUME NEW d \in g.older, NEW y \in DOMAIN g.dir \ LogNames(g) PROVE y \in DOMAIN d /\ d[y] = g.dir[y]
      BY DEF SyncedBut
    <3>4. y \in DOMAIN f.dir \ LogNames(f) /\ g.dir[y] = f.dir[y]
      BY <3>2, <3>3 DEF LogNames
    <3>5. d = f.dir \/ d \in f.older
      BY <3>2 DEF DirsOf
    <3>6. QED
      BY <2>1, <3>4, <3>5 DEF SyncedBut
  <2>2. job.stage = "sync" => SyncedBut(g, LogNames(g))
    BY <1>1, <1>3, <2>1 DEF SyncedOK
  <2>3. \A d \in DirsOf(g) : Committed(d) /\ (Man(Image(g, d)).safe # 0 => Safely(Image(g, d)).log <= n)
    <3> SUFFICES ASSUME NEW d \in DirsOf(g) PROVE Committed(d) /\ (Man(Image(g, d)).safe # 0 => Safely(Image(g, d)).log <= n)
      OBVIOUS
    <3>1. Committed(d) /\ (Man(Image(g, d)).safe # 0 => Safely(Image(g, d)).log <= o)
      BY <1>10 DEF LowLogs
    <3>2. Man(Image(g, d)).safe # 0 => Safely(Image(g, d)).log \in Nat
      <4>1. Rooted(Image(g, d))
        BY <1>9, <3>1 DEF DiskOK, ThenOK
      <4>2. QED
        BY <1>9, <3>1, <4>1, ViewType
    <3>3. QED
      BY <1>4, <1>5, <3>1, <3>2
  <2>4. QED
    BY <1>1, <2>2, <2>3 DEF SyncedOK, Stage
<1>25. LogsStable(g, numbers.log)'
  BY <1>3, <1>9, <1>12
<1>26. DiskOK(g, acked', promised')
  BY <1>1, <1>9
<1>27. QED
  BY <1>9, <1>11, <1>13, <1>16, <1>17, <1>20, <1>21, <1>22, <1>23, <1>24, <1>25, <1>26, UpNext DEF k
-----------------------------------------------------------------------------
(* The invariant holds at first.                                           *)
LEMMA NoMemoryIs ==
  ASSUME RecoveryInit
  PROVE  /\ MemoryTypeOK /\ Blank /\ pc = "closed" /\ numbers = [next |-> 2, log |-> 0, manifest |-> 0]
         /\ older = {} /\ acked = {} /\ promised = {}
<1>1. /\ Blank /\ pc = "closed" /\ numbers = [next |-> 2, log |-> 0, manifest |-> 0]
      /\ older = {} /\ acked = {} /\ promised = {} /\ issued = 0 /\ crashes = 0
  BY DEF RecoveryInit, NoMemory, Blank
<1>2. NoJob \in [kind : {"none", "flush", "compact"}, number : Nat, inputs : SUBSET Nat, output : Nat,
                 stage : {"none", "build", "append", "syncDir", "sync", "install", "clean"}]
  BY DEF NoJob
<1>3. NoEdit \in [add : SUBSET Nat, del : SUBSET Nat, log : Nat]
  BY DEF NoEdit
<1>4. issued \in 0 .. MaxEntries /\ crashes \in 0 .. MaxCrashes
  BY <1>1, RecoveryAssumption
<1>5. QED
  BY <1>1, <1>2, <1>3, <1>4 DEF MemoryTypeOK, Blank

(* The invariant holds before a database is created.                       *)
LEMMA InitEmpty ==
  ASSUME RecoveryInit, ~Existing
  PROVE  RInv
<1>1. PICK f : f = Files
  OBVIOUS
<1>2. f.dir = <<>> /\ f.older = {} /\ f.data = [i \in Range(dir) |-> FoundedFile(i[1])] /\ dir = <<>> /\ f.dir = dir
  BY <1>1, DiskSays DEF RecoveryInit, Files
<1>3. DOMAIN f.dir = {}
  BY <1>2
<1>4. Range(dir) = {}
  BY <1>2, <1>3 DEF Range
<1>5. DOMAIN f.data = {} /\ DirsOf(f) = {f.dir} /\ ~Committed(f.dir)
  BY <1>2, <1>3, <1>4 DEF DirsOf, Committed
<1>6. FilesOK(f)
  BY <1>3, <1>5, FS_EmptySet DEF FilesOK, IsDirectory
<1>7. TempsApart(f)
  BY <1>5 DEF TempsApart
<1>8. /\ MemoryTypeOK /\ Blank /\ pc = "closed" /\ numbers = [next |-> 2, log |-> 0, manifest |-> 0]
      /\ acked = {} /\ promised = {}
  BY NoMemoryIs
<1>9. DiskOK(f, acked, promised)
  BY <1>3, <1>5, <1>7, <1>8 DEF DiskOK
<1>10. \A n : LogsStable(f, n)
  BY <1>2 DEF LogsStable
<1>11. ClosedOK
  BY <1>1, <1>2, <1>5, <1>8, <1>10 DEF ClosedOK
<1>12. QED
  BY <1>1, <1>6, <1>8, <1>9, <1>11 DEF RInv, ClosedStates

(* The invariant holds of a database that was closed before.               *)
LEMMA InitFounded ==
  ASSUME RecoveryInit, Existing
  PROVE  RInv
<1>1. PICK f : f = Files
  OBVIOUS
<1>2. f.dir = FoundedDir /\ f.older = {} /\ f.data = [i \in Range(dir) |-> FoundedFile(i[1])] /\ f.dir = dir
  BY <1>1, DiskSays DEF RecoveryInit, Files
<1> DEFINE C == CurrentFile
           M == Manifest(2)
           L == LogName(3)
           m == Now(f)
           r == [add |-> {}, del |-> {}, log |-> 3, next |-> 4, last |-> 0]
<1>3. C[1] = "CURRENT" /\ M[1] = "MANIFEST" /\ L[1] = "log" /\ L[2] = 3 /\ C \in Names /\ M \in Names /\ L \in Names
      /\ C # M /\ C # L /\ M # L
  BY Kinded
<1>4. DOMAIN f.dir = {C, M, L} /\ \A x \in {C, M, L} : f.dir[x] = <<x, 1>>
  BY <1>2 DEF FoundedDir
<1>5. DOMAIN f.data = {<<C, 1>>, <<M, 1>>, <<L, 1>>}
  BY <1>2, <1>4 DEF Range
<1>6. \A x \in {C, M, L} : f.data[<<x, 1>>] = FoundedFile(x)
  BY <1>2, <1>4, <1>5
<1>7. /\ FoundedFile(C) = [content |-> <<2>>, safe |-> 1] /\ FoundedFile(M) = [content |-> <<r>>, safe |-> 1]
      /\ FoundedFile(L) = NewFile
  BY <1>3 DEF FoundedFile
<1>8. DirsOf(f) = {f.dir}
  BY <1>2 DEF DirsOf
<1>9. /\ DOMAIN m = {C, M, L} /\ m[C] = [content |-> <<2>>, safe |-> 1] /\ m[M] = [content |-> <<r>>, safe |-> 1]
      /\ m[L] = NewFile
  BY <1>4, <1>6, <1>7 DEF Now, Image
<1> HIDE DEF m, r
<1>10. r \in Edits /\ r.add = {} /\ r.log = 3 /\ r.next = 4 /\ r.last = 0
  BY DEF r, Edits
<1>11. FilesOK(f)
  <2>1. IsFiniteSet(DOMAIN f.data)
    <3>1. \A a, b, c : IsFiniteSet({a, b, c})
      <4> SUFFICES ASSUME NEW a, NEW b, NEW c PROVE IsFiniteSet({a, b, c})
        OBVIOUS
      <4>1. IsFiniteSet({} \cup {a})
        BY FS_EmptySet, FS_AddElement
      <4>2. IsFiniteSet(({} \cup {a}) \cup {b})
        BY <4>1, FS_AddElement
      <4>3. IsFiniteSet((({} \cup {a}) \cup {b}) \cup {c})
        BY <4>2, FS_AddElement
      <4>4. (({} \cup {a}) \cup {b}) \cup {c} = {a, b, c}
        OBVIOUS
      <4>5. QED
        BY <4>3, <4>4
    <3>2. QED
      BY <1>5, <3>1
  <2>2. IsFile("CURRENT", FoundedFile(C))
    <3>1. FoundedFile(C) \in [content : Seq(Nat), safe : Nat] /\ Len(FoundedFile(C).content) = 1 /\ FoundedFile(C).safe = 1
      BY <1>7
    <3>2. QED
      BY <3>1 DEF IsFile, IsWhole
  <2>3. IsFile("MANIFEST", FoundedFile(M))
    <3>1. <<r>> \in Seq(Edits) /\ Len(<<r>>) = 1
      BY <1>10
    <3>2. FoundedFile(M).content = <<r>> /\ FoundedFile(M).safe = 1
      BY <1>7
    <3>3. FoundedFile(M) \in [content : Seq(Edits), safe : Nat]
      <4>1. PICK s : s = <<r>>
        OBVIOUS
      <4>2. s \in Seq(Edits)
        BY <3>1, <4>1
      <4>3. [content |-> s, safe |-> 1] \in [content : Seq(Edits), safe : Nat]
        BY <4>2
      <4>4. QED
        BY <1>7, <4>1, <4>3
    <3>4. QED
      BY <3>1, <3>2, <3>3 DEF IsFile
  <2>4. IsFile("log", FoundedFile(L))
    <3>1. NewFile \in [content : Seq(Pairs), safe : Nat] /\ NewFile.safe = 0 /\ Len(NewFile.content) = 0
      BY DEF NewFile
    <3>2. QED
      BY <1>7, <3>1 DEF IsFile
  <2>5. \A i \in DOMAIN f.data : i = <<i[1], i[2]>> /\ i[1] \in Names /\ IsFile(i[1][1], f.data[i])
    <3> SUFFICES ASSUME NEW x \in {C, M, L}
                 PROVE  <<x, 1>>[1] \in Names /\ IsFile(x[1], f.data[<<x, 1>>])
      BY <1>5
    <3>1. QED
      BY <1>3, <1>6, <2>2, <2>3, <2>4
  <2>6. IsDirectory(f.dir, f.data)
    <3> SUFFICES ASSUME NEW x \in {C, M, L} PROVE x \in Names /\ <<x, 1>> \in DOMAIN f.data /\ NamesInode(x, <<x, 1>>)
      BY <1>4 DEF IsDirectory
    <3>1. QED
      BY <1>3, <1>5 DEF NamesInode
  <2>7. QED
    BY <1>8, <2>1, <2>5, <2>6 DEF FilesOK
<1>12. Cur(m) = 2 /\ Man(m).content = <<r>> /\ Man(m).safe = 1
  <2>1. m[C].content = <<2>>
    BY <1>9
  <2>2. Cur(m) = 2
    BY <2>1 DEF Cur
  <2>3. Man(m) = [content |-> <<r>>, safe |-> 1]
    BY <1>9, <2>2 DEF Man
  <2>4. QED
    BY <2>2, <2>3
<1>13. Full(m) = [tables |-> {}, log |-> 3, next |-> 4, last |-> 0] /\ Safely(m) = Full(m)
  <2>1. SavedOf(<<r>>) = [tables |-> {}, log |-> 3, next |-> 4, last |-> 0]
    BY <1>10, SavedOne
  <2>2. SubSeq(<<r>>, 1, 1) = <<r>>
    <3>1. <<r>> \in Seq(Edits) /\ Len(<<r>>) = 1
      BY <1>10
    <3>2. PICK s : s = <<r>>
      OBVIOUS
    <3>3. s \in Seq(Edits) /\ Len(s) = 1
      BY <3>1, <3>2
    <3>4. SubSeq(s, 1, Len(s)) = s
      BY <3>3, Prefix
    <3>5. QED
      BY <3>2, <3>3, <3>4
  <2>3. QED
    BY <1>12, <2>1, <2>2 DEF Full, Safely
<1>14. LogOf(m, 3) = {}
  <2>1. m[LogName(3)].content = <<>>
    BY <1>9 DEF NewFile
  <2>2. QED
    BY <2>1, Elements DEF LogOf
<1>15. Full(m).tables = {} /\ Full(m).log = 3 /\ Full(m).next = 4 /\ Full(m).last = 0
  BY <1>13
<1>16. Rooted(m) /\ Sane(m, Full(m), {})
  <2>1. Rooted(m)
    BY <1>9, <1>12 DEF Rooted
  <2>2. \A x \in DOMAIN m : x[1] = "log" => x[2] = 3
    BY <1>3, <1>9
  <2>3. Holds(m, Full(m), {})
    BY <1>14, <1>15, <2>2 DEF Holds
  <2>4. QED
    BY <1>12, <1>15, <2>1, <2>3 DEF Sane
<1>17. TempsApart(f)
  BY <1>3, <1>4, <1>8 DEF TempsApart
<1>18. Committed(f.dir)
  BY <1>4 DEF Committed
<1>19. DiskOK(f, {}, {})
  <2>1. NowOK(m, {}, {})
    BY <1>12, <1>16 DEF NowOK
  <2>2. ThenOK(m, m, {}, {})
    BY <1>13, <1>15, <1>16 DEF ThenOK
  <2>3. Image(f, f.dir) = m
    BY DEF m, Now
  <2>4. QED
    BY <1>8, <1>17, <1>18, <2>1, <2>2, <2>3 DEF DiskOK, m
<1>20. /\ MemoryTypeOK /\ Blank /\ pc = "closed" /\ numbers = [next |-> 2, log |-> 0, manifest |-> 0]
       /\ acked = {} /\ promised = {}
  BY NoMemoryIs
<1>21. \A n : LogsStable(f, n)
  BY <1>2 DEF LogsStable
<1>22. ClosedOK
  BY <1>1, <1>20, <1>21 DEF ClosedOK
<1>23. QED
  BY <1>1, <1>11, <1>19, <1>20, <1>22 DEF RInv, ClosedStates

(* Nothing happens.                                                        *)
LEMMA StutterKeeps ==
  ASSUME RInv, UNCHANGED recoveryVars
  PROVE  RInv'
<1>1. /\ UNCHANGED <<dir, older, data, pc, version, kept, numbers, logfile, logs, edit, mem, imm, lastSeq, job, pending, bgError>>
      /\ UNCHANGED <<issued, acked, promised, crashes>>
  BY DEF recoveryVars, disk, memory, ghosts
<1>2. Files' = Files
  BY <1>1 DEF Files
<1>3. FilesOK(Files)' /\ MemoryTypeOK'
  BY <1>1, <1>2 DEF RInv, MemoryTypeOK
<1>4. CASE LostOK
  <2>1. LostOK'
    BY <1>1, <1>2, <1>4 DEF LostOK, Blank
  <2>2. QED
    BY <1>3, <2>1 DEF RInv
<1>5. CASE DiskOK(Files, acked, promised) /\ pc \in ClosedStates /\ ClosedOK
  <2>1. ClosedOK'
    BY <1>1, <1>2, <1>5 DEF ClosedOK, Blank
  <2>2. QED
    BY <1>1, <1>2, <1>3, <1>5, <2>1 DEF RInv
<1>6. CASE DiskOK(Files, acked, promised) /\ pc \in OpeningStates /\ OpeningOK
  <2>1. OpeningOK'
    BY <1>1, <1>2, <1>6 DEF OpeningOK, OpeningMemory, NewTables, InNewTables, OpeningLogs, OpeningManifest, ThisManifest
  <2>2. QED
    BY <1>1, <1>2, <1>3, <1>6, <2>1 DEF RInv
<1>7. CASE DiskOK(Files, acked, promised) /\ pc \in UpStates /\ UpOK
  <2>1. Saving' = Saving /\ Stage' = Stage /\ Building' = Building
    BY <1>1 DEF Saving, Stage, Building
  <2>2. Numbering(Now(Files))' /\ Memtables(Now(Files))' /\ JobOK'
    BY <1>1, <1>2, <1>7 DEF UpOK, Numbering, Memtables, JobOK
  <2>3. VersionOK(Now(Files))' /\ EditOK(Now(Files))'
    BY <1>1, <1>2, <1>7, <2>1 DEF UpOK, VersionOK, EditOK, GoodTable
  <2>4. BuildingOK(Files)' /\ SyncedOK(Files)'
    BY <1>1, <1>2, <1>7, <2>1 DEF UpOK, BuildingOK, SyncedOK
  <2>5. UpOK'
    BY <1>1, <1>2, <1>7, <2>2, <2>3, <2>4 DEF UpOK
  <2>6. QED
    BY <1>1, <1>2, <1>3, <1>7, <2>5 DEF RInv
<1>8. QED
  BY <1>4, <1>5, <1>6, <1>7 DEF RInv

(* Every step keeps it.                                                    *)
LEMMA RecoveryStep ==
  ASSUME RInv, RecoveryNext, InOrder
  PROVE  RInv'
<1>1. CASE Open
  BY <1>1, OpenKeeps
<1>2. CASE NewDB
  BY <1>2, NewDBKeeps
<1>3. CASE SetCurrentFile
  BY <1>3, NewCurrentKeeps, CurrentKeeps DEF SetCurrentFile
<1>4. CASE RenameTemp
  BY <1>4, NewRenameKeeps, RenameKeeps DEF RenameTemp
<1>5. CASE Recover
  BY <1>5, RecoverKeeps
<1>6. CASE RecoverLog
  BY <1>6, RecoverLogKeeps
<1>7. CASE NewLog
  BY <1>7, NewLogKeeps
<1>8. CASE LogSnapshot
  BY <1>8, SnapshotKeeps
<1>9. CASE LogEdit
  BY <1>9, LogEditKeeps
<1>10. CASE SyncDirectory
  BY <1>10, OpeningSyncDirectory, UpSyncDirectory
<1>11. CASE SyncManifest
  BY <1>11, OpeningSyncManifest, UpSyncManifest
<1>12. CASE Install
  BY <1>12, InstallKeeps
<1>13. CASE ManifestFails
  BY <1>13, ManifestFailsKeeps
<1>14. CASE OpenDBFails
  BY <1>14, OpenFails
<1>15. CASE DeleteObsoleteFile
  BY <1>15, DeleteObsoleteFileKeeps
<1>16. CASE Cleaned
  BY <1>16, CleanedKeeps
<1>17. ASSUME NEW sync \in BOOLEAN, PutEntry(sync) PROVE RInv'
  BY <1>17, PutEntryKeeps
<1>18. CASE Switch
  BY <1>18, SwitchKeeps
<1>19. CASE Hold \/ ReleaseVersion
  BY <1>19, HoldKeeps
<1>20. CASE BeginFlush
  BY <1>20, BeginFlushKeeps
<1>21. CASE BuildFlush
  BY <1>21, BuildFlushKeeps
<1>22. CASE FlushFails
  BY <1>22, FlushFailsKeeps
<1>23. CASE BeginCompaction
  BY <1>23, BeginCompactionKeeps
<1>24. CASE BuildCompaction
  BY <1>24, BuildCompactionKeeps
<1>25. CASE CompactionFails
  BY <1>25, CompactionFailsKeeps
<1>26. CASE ProcessCrash
  BY <1>26, ProcessCrashKeeps
<1>27. CASE MachineCrash
  BY <1>27, MachineCrashKeeps
<1>28. QED
  BY <1>1, <1>2, <1>3, <1>4, <1>5, <1>6, <1>7, <1>8, <1>9, <1>10, <1>11, <1>12, <1>13, <1>14, <1>15, <1>16, <1>17,
     <1>18, <1>19, <1>20, <1>21, <1>22, <1>23, <1>24, <1>25, <1>26, <1>27 DEF RecoveryNext
-----------------------------------------------------------------------------
(* What the invariant says.                                                *)
LEMMA SafeLength ==
  ASSUME NEW kind \in Kinds \cup {"CURRENT"}, NEW file, IsFile(kind, file)
  PROVE  file.safe \in 0 .. Len(file.content)
<1>1. CASE kind \in {"log", "MANIFEST"}
  <2>1. file.safe \in Nat /\ file.safe <= Len(file.content) /\ \E S : file.content \in Seq(S)
    <3>1. kind = "log" => file \in [content : Seq(Pairs), safe : Nat] /\ file.safe <= Len(file.content)
      BY DEF IsFile
    <3>2. kind = "MANIFEST" => file \in [content : Seq(Edits), safe : Nat] /\ file.safe <= Len(file.content)
      BY DEF IsFile
    <3>3. QED
      BY <1>1, <3>1, <3>2
  <2>2. Len(file.content) \in Nat
    BY <2>1, LenProperties
  <2>3. QED
    BY <2>1, <2>2
<1>2. CASE kind \in {"CURRENT", "temp"}
  <2>1. IsWhole(file)
    BY <1>2 DEF IsFile
  <2>2. QED
    BY <2>1 DEF IsWhole
<1>3. CASE kind = "table"
  <2>1. file = NewFile \/ IsWhole(file)
    BY <1>3 DEF IsFile
  <2>2. NewFile.safe = 0 /\ Len(NewFile.content) = 0
    BY DEF NewFile
  <2>3. CASE file = NewFile
    BY <2>2, <2>3
  <2>4. CASE IsWhole(file)
    BY <2>4 DEF IsWhole
  <2>5. QED
    BY <2>1, <2>3, <2>4
<1>4. QED
  BY <1>1, <1>2, <1>3 DEF Kinds

(* The invariant says what the types are.                                  *)
LEMMA TypesHold ==
  ASSUME RInv
  PROVE  RecoveryTypeOK
<1>1. PICK f : f = Files
  OBVIOUS
<1>2. f.dir = dir /\ f.older = older /\ f.data = data
  BY <1>1, DiskSays
<1>3. FilesOK(f) /\ MemoryTypeOK
  BY <1>1 DEF RInv
<1>4. \A d \in DirsOf(f) : Range(d) \subseteq DOMAIN data
  BY <1>2, <1>3 DEF FilesOK, IsDirectory, Range
<1>5. \A i \in DOMAIN data : data[i].safe \in 0 .. Len(data[i].content)
  <2> SUFFICES ASSUME NEW i \in DOMAIN data PROVE data[i].safe \in 0 .. Len(data[i].content)
    OBVIOUS
  <2>1. i[1] \in Names /\ IsFile(i[1][1], data[i])
    BY <1>2, <1>3 DEF FilesOK
  <2>2. i[1][1] \in Kinds \cup {"CURRENT"}
    BY <2>1, Kinded
  <2>3. QED
    BY <2>1, <2>2, SafeLength
<1>6. pc \in {"closed", "new", "newCurrent", "newRename", "recover", "logs", "snapshot", "syncDir",
              "sync", "current", "rename", "install", "clean", "up", "corrupt"}
  BY DEF RInv, LostOK, ClosedStates, OpeningStates, UpStates
<1>7. /\ numbers \in [next : Nat, log : Nat, manifest : Nat]
      /\ logfile \in Nat /\ version \cup kept \cup logs \cup pending \subseteq Nat
      /\ mem \cup imm \cup acked \cup promised \subseteq (1 .. MaxEntries) \X Nat
      /\ promised \subseteq acked
      /\ lastSeq \in Nat /\ issued \in 0 .. MaxEntries /\ crashes \in 0 .. MaxCrashes
  BY <1>3 DEF MemoryTypeOK
<1>8. QED
  BY <1>1, <1>4, <1>5, <1>6, <1>7 DEF RecoveryTypeOK

(* The database as it is: it opens, and holds what was acknowledged.       *)
LEMMA LiveNow ==
  ASSUME NEW f, NEW A, NEW P, FilesOK(f), DiskOK(f, A, P)
  PROVE  Opens(f) /\ Recovered(f) = A
<1>1. CASE Committed(f.dir)
  <2> DEFINE m == Now(f)
  <2>1. NowOK(m, A, P)
    BY <1>1 DEF DiskOK
  <2>2. Opens(f) /\ \A e : e \in Recovered(f) <=> Keeps(m, Full(m), e)
    BY <1>1, <2>1, OpensWhen
  <2> HIDE DEF m
  <2>3. Holds(m, Full(m), A)
    BY <2>1 DEF NowOK, Sane
  <2>4. \A e : Keeps(m, Full(m), e) => e \in A
    BY <2>3 DEF Keeps, InTables, Holds
  <2>5. \A e \in A : Keeps(m, Full(m), e)
    BY <2>1 DEF NowOK
  <2>6. QED
    BY <2>2, <2>4, <2>5
<1>2. CASE ~Committed(f.dir)
  <2>1. A = {}
    BY <1>2 DEF DiskOK, DirsOf
  <2>2. QED
    BY <1>2, <2>1, NothingThere
<1>3. QED
  BY <1>1, <1>2

(* A database whose first manifest is lost does not open.                  *)
LEMMA LostNow ==
  ASSUME LostOK
  PROVE  FirstManifestLost(Files) /\ ~Opens(Files)
BY DiskSays DEF LostOK, FirstManifestLost, Opens

(* Nor does it after another crash.                                        *)
LEMMA MachineLost ==
  ASSUME RInv, LostOK, InOrder, NEW g \in AfterMachineCrash(Files)
  PROVE  FirstManifestLost(g) /\ ~Opens(g)
<1>1. PICK f : f = Files
  OBVIOUS
<1>2. /\ FilesOK(f) /\ f.older = {} /\ Committed(f.dir) /\ FirstManifestLost(f) /\ Manifest(1) \in DOMAIN f.dir
      /\ Man(Now(f)) = NewFile
  BY <1>1, DiskSays DEF RInv, LostOK
<1>3. QED
  BY <1>1, <1>2, LostAgain

(* After a crash of the machine recovery finds what was promised.          *)
LEMMA MachineLeaves ==
  ASSUME RInv, ~LostOK, InOrder, NEW f, f = Files, NEW g \in AfterMachineCrash(f)
  PROVE  \/ FirstManifestLost(g) /\ ~Opens(g)
         \/ /\ Opens(g) /\ Recovered(g) \subseteq acked
            /\ \A e \in promised : e \in Recovered(g) \/ LostLog(f, g, e)
<1>1. FilesOK(f) /\ DiskOK(f, acked, promised) /\ promised \subseteq acked
  BY DEF RInv, MemoryTypeOK
<1>2. Writeback \subseteq {"log", "MANIFEST"}
  BY RecoveryAssumption
<1>3. QED
  BY <1>1, <1>2, MachineCrashes

(* The invariant says that the database opens again.                       *)
LEMMA OpensAgain ==
  ASSUME RInv, InOrder
  PROVE  OnceCreatedOpens
<1>1. pc = "corrupt" => FirstManifestLost(Files)
  <2>1. pc = "corrupt" => LostOK
    BY DEF RInv, ClosedStates, OpeningStates, UpStates
  <2>2. QED
    BY <2>1, LostNow
<1>2. ASSUME NEW g \in AfterCrash(Files) PROVE Opens(g) \/ FirstManifestLost(g)
  <2>1. CASE g = Files
    <3>1. ~LostOK => Opens(Files)
      BY LiveNow DEF RInv
    <3>2. QED
      BY <2>1, <3>1, LostNow
  <2>2. CASE g \in AfterMachineCrash(Files)
    BY <2>2, MachineLost, MachineLeaves
  <2>3. QED
    BY <1>2, <2>1, <2>2 DEF AfterCrash
<1>3. QED
  BY <1>1, <1>2 DEF OnceCreatedOpens

(* The invariant says that tables in use are there.                        *)
LEMMA VersionsHold ==
  ASSUME RInv
  PROVE  VersionsExist
<1> SUFFICES ASSUME pc = "up", NEW n \in version \cup kept
             PROVE  Table(n) \in DOMAIN dir /\ Content(Files, Table(n)) # <<>>
  BY DEF VersionsExist
<1>1. PICK f : f = Files
  OBVIOUS
<1>2. f.dir = dir
  BY <1>1, DiskSays
<1>3. GoodTable(Now(f), n)
  BY <1>1 DEF RInv, UpOK, VersionOK, LostOK, ClosedStates, OpeningStates
<1>4. Table(n) \in DOMAIN f.dir /\ Content(f, Table(n)) = Now(f)[Table(n)].content
  BY <1>3, Viewed DEF GoodTable, HasTable
<1>5. Len(Content(f, Table(n))) = 1
  BY <1>3, <1>4 DEF GoodTable, HasTable, IsWhole
<1>6. Content(f, Table(n)) # <<>>
  BY <1>5
<1>7. QED
  BY <1>1, <1>2, <1>4, <1>6

(* Recovery finds what was acknowledged, if nothing crashes but the process. *)
LEMMA AckedHold ==
  ASSUME RInv
  PROVE  AckedAreRecovered
<1>1. ~LostOK => acked \subseteq Recovered(Files)
  BY LiveNow DEF RInv
<1>2. QED
  BY <1>1, LostNow DEF AckedAreRecovered

(* Recovery finds what was promised, whatever crashes.                     *)
LEMMA PromisedHold ==
  ASSUME RInv, InOrder
  PROVE  PromisedAreRecovered
<1>0. PICK f : f = Files
  OBVIOUS
<1> SUFFICES ASSUME NEW g \in AfterMachineCrash(f), Opens(g), NEW e \in promised, e \notin Recovered(g)
             PROVE  NameLost(e, g)
  BY <1>0 DEF PromisedAreRecovered
<1>1. ~LostOK
  BY <1>0, MachineLost
<1>2. LostLog(f, g, e)
  BY <1>0, <1>1, MachineLeaves
<1>3. PICK x \in DOMAIN f.dir : x[1] = "log" /\ e \in LogOf(Now(f), x[2]) /\ x \notin DOMAIN g.dir
  BY <1>2 DEF LostLog
<1>4. FilesOK(f) /\ f.dir = dir /\ DOMAIN Now(f) = DOMAIN f.dir
  BY <1>0, DiskSays, Viewed DEF RInv
<1>5. x[2] \in Numbered(dir, "log") /\ x = LogName(x[2])
  BY <1>3, <1>4, LogNumbers
<1>6. InLog(f, x[2]) = LogOf(Now(f), x[2])
  <2>1. Content(f, x) = Now(f)[x].content
    BY <1>3, Viewed
  <2>2. QED
    BY <1>5, <2>1 DEF InLog, LogOf
<1>7. QED
  BY <1>0, <1>3, <1>5, <1>6 DEF NameLost

(* Recovery never finds what was lost.                                     *)
LEMMA LostHold ==
  ASSUME RInv, InOrder
  PROVE  LostStaysLost
<1> SUFFICES ASSUME NEW g \in AfterCrash(Files), Opens(g) PROVE Recovered(g) \subseteq acked
  BY DEF LostStaysLost
<1>1. CASE g = Files
  <2>1. ~LostOK
    BY <1>1, LostNow
  <2>2. QED
    BY <1>1, <2>1, LiveNow DEF RInv
<1>2. CASE g \in AfterMachineCrash(Files)
  <2>1. ~LostOK
    BY <1>2, MachineLost
  <2>2. QED
    BY <1>2, <2>1, MachineLeaves
<1>3. QED
  BY <1>1, <1>2 DEF AfterCrash

(* Sequence numbers grow.                                                  *)
LEMMA SequencesHold ==
  ASSUME RInv
  PROVE  SequencesGrow
<1> SUFFICES ASSUME pc = "up" PROVE \A e \in acked : e[2] <= lastSeq /\ \A x \in acked : x[2] = e[2] => x = e
  <2>1. pc = "up" => mem \cup imm \cup Recovered(Files) \subseteq acked
    <3>1. pc = "up" => ~LostOK
      BY DEF LostOK
    <3>2. mem \subseteq acked /\ imm \subseteq acked
      BY DEF RInv, MemoryTypeOK
    <3>3. QED
      BY <3>1, <3>2, LiveNow DEF RInv
  <2>2. QED
    BY <2>1 DEF SequencesGrow
<1>1. UpOK /\ MemoryTypeOK
  BY DEF RInv, LostOK, ClosedStates, OpeningStates
<1>2. \A e \in acked : e[2] <= lastSeq
  BY <1>1 DEF UpOK, Numbering
<1>3. \A e, x \in acked : e[2] = x[2] => e = x
  BY <1>1 DEF MemoryTypeOK
<1>4. QED
  BY <1>2, <1>3

(* The invariant says what recovery finds.                                 *)
LEMMA ExactHolds ==
  ASSUME RInv, InOrder
  PROVE  RecoveryIsExact
BY TypesHold, AckedHold, PromisedHold, LostHold, SequencesHold DEF RecoveryIsExact
-----------------------------------------------------------------------------
(* The theorems.                                                           *)
(* The invariant of the proof: the directory now and every directory a     *)
(* crash can bring back hold what the manifest in them needs and nothing   *)
(* that was not acknowledged, and memory agrees with them.                 *)
THEOREM RecoveryInvariant ==
  ASSUME InOrder
  PROVE  RecoverySpec => []RInv
<1>1. RecoveryInit => RInv
  BY InitEmpty, InitFounded
<1>2. RInv /\ [RecoveryNext]_recoveryVars => RInv'
  BY RecoveryStep, StutterKeeps
<1>3. QED
  BY <1>1, <1>2, PTL DEF RecoverySpec

(* The types of the model's state (db_impl.h, version_set.h).              *)
THEOREM RecoveryType ==
  ASSUME InOrder
  PROVE  RecoverySpec => []RecoveryTypeOK
<1>1. RInv => RecoveryTypeOK
  BY TypesHold
<1>2. QED
  BY <1>1, RecoveryInvariant, PTL

(* Wherever the process or the machine stops, DB::Open finds CURRENT, its  *)
(* manifest and the tables the manifest names (db_impl.cc, version_set.cc) *)
(* -- but for the first manifest of a new database, which is never synced. *)
THEOREM AlwaysOpensAgain ==
  ASSUME InOrder
  PROVE  RecoverySpec => []OnceCreatedOpens
<1>1. RInv => OnceCreatedOpens
  BY OpensAgain
<1>2. QED
  BY <1>1, RecoveryInvariant, PTL

(* DeleteObsoleteFiles removes no table of the current version or of one   *)
(* that a reader refers to, and each of them is complete (db_impl.cc).     *)
THEOREM TablesInUseExist ==
  ASSUME InOrder
  PROVE  RecoverySpec => []VersionsExist
<1>1. RInv => VersionsExist
  BY VersionsHold
<1>2. QED
  BY <1>1, RecoveryInvariant, PTL

(* Recovery finds every write that was acknowledged if the process         *)
(* stopped, every write with sync whose log kept its name if the machine   *)
(* did, never a write that was lost before, and new writes get new         *)
(* sequence numbers (db_impl.cc, include/leveldb/options.h).               *)
THEOREM RecoveryFindsExactly ==
  ASSUME InOrder
  PROVE  RecoverySpec => []RecoveryIsExact
<1>1. RInv => RecoveryIsExact
  BY ExactHolds
<1>2. QED
  BY <1>1, RecoveryInvariant, PTL
=============================================================================
