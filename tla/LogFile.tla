------------------------------- MODULE LogFile ------------------------------
(***************************************************************************)
(* A write-ahead log of leveldb (db/log_writer.cc, db/log_reader.cc): the  *)
(* writer cuts records into fragments that never cross a block, the reader *)
(* finds them again after a crash.  The file is a sequence of units; what  *)
(* is kept of a byte is the fragment it belongs to.                        *)
(*                                                                         *)
(* Around it, what DBImpl does with one log: acknowledged and failed       *)
(* writes, crashes of the process and of the machine, and recovery, which  *)
(* moves the records it finds to a table and begins a new log or, with     *)
(* reuse_logs, goes on appending to the old one.                           *)
(***************************************************************************)
EXTENDS Naturals, Sequences, SequencesExt

CONSTANTS BlockSize,     \* kBlockSize, in units
          HeaderSize,    \* kHeaderSize, in units
          Sizes,         \* lengths of the records written
          Reuse,         \* options.reuse_logs
          LogFaults,     \* what may fail: "append", "sync"
          MaxRecords,    \* bound: records written
          MaxFailures,   \* bound: appends that fail
          MaxLogCrashes  \* bound: crashes

ASSUME LogAssumption == /\ HeaderSize \in Nat \ {0} /\ BlockSize \in Nat
                        /\ HeaderSize < BlockSize
                        /\ Sizes \subseteq Nat /\ Reuse \in BOOLEAN
                        /\ LogFaults \subseteq {"append", "sync"}

VARIABLES file,         \* units the operating system has
          synced,       \* how many of them are on the disk
          offset,       \* block_offset_ of the writer
          written,      \* records handed to AddRecord so far
          acknowledged, \* records whose write returned OK
          forced,       \* those of them written with sync
          tables,       \* records recovered into tables
          logError,     \* bg_error_: all further writes fail
          intact,       \* records before the first append that failed
          failures, logCrashes

logVars == <<file, synced, offset, written, acknowledged, forced, tables, logError, intact, failures, logCrashes>>

Smaller(a, b) == IF a < b THEN a ELSE b
-----------------------------------------------------------------------------
(* Writing.  A unit knows its fragment and its place in it; the units of a *)
(* trailer belong to none.                                                 *)
Zero == [frag |-> <<>>, at |-> 0]
Padding(n) == [i \in 1 .. n |-> Zero]
Units(f) == [i \in 1 .. HeaderSize + f.len |-> [frag |-> f, at |-> i]]

Type(begin, end) == IF begin THEN IF end THEN "full" ELSE "first"
                             ELSE IF end THEN "last" ELSE "middle"

(* EmitPhysicalRecord: what one fragment puts into the buffer before the   *)
(* buffer is flushed.                                                      *)
Physical(id, size, from, len) ==
    Units([id |-> id, type |-> Type(from = 0, from + len = size), from |-> from, len |-> len])

NeedsBlock(off) == BlockSize - off < HeaderSize

(* AddRecord: the flushed pieces of a record, with block_offset_ after     *)
(* each; a record of length 0 has one piece.                               *)
Pieces(id, size, off) ==
    LET add[from \in 0 .. size, o \in 0 .. BlockSize] ==
          LET start == IF NeedsBlock(o) THEN 0 ELSE o
              len == Smaller(size - from, BlockSize - start - HeaderSize)
              piece == [units |-> Padding(IF NeedsBlock(o) THEN BlockSize - o ELSE 0)
                                    \o Physical(id, size, from, len),
                        offset |-> start + HeaderSize + len]
          IN  <<piece>> \o IF from + len = size THEN <<>> ELSE add[from + len, piece.offset]
    IN  add[0, off]

UnitsOf(pieces) == FlattenSeq([i \in DOMAIN pieces |-> pieces[i].units])
-----------------------------------------------------------------------------
(* Reading.  A header is believed if its units are in place and the        *)
(* payload has the checksum it states.                                     *)
Header(f, pos) == \A i \in 1 .. HeaderSize :
    f[pos + i].at = i /\ f[pos + i].frag = f[pos + 1].frag

Payload(f, pos, len) == \A i \in 1 .. HeaderSize + len :
    f[pos + i] = [frag |-> f[pos + 1].frag, at |-> i]

Bad(reported) == [type |-> "bad", reported |-> reported]

(* A record longer than the rest of its block: in the last block of the    *)
(* file (eof) the writer died in the middle of it.                         *)
CutOff(eof, rest) == IF eof THEN <<>> ELSE <<Bad(TRUE)>> \o rest

(* ReadPhysicalRecord, from position pos to the end of the file.  A bad    *)
(* record drops the rest of its block.                                     *)
PhysicalRecords(f, start) ==
    LET read[pos \in 0 .. Len(f) + BlockSize] ==
          LET next == ((pos \div BlockSize) + 1) * BlockSize
              eof == Len(f) < next
              left == Smaller(next, Len(f)) - pos
              frag == f[pos + 1].frag
          IN  IF pos >= Len(f) THEN <<>>
              ELSE IF left < HeaderSize
                   THEN IF eof THEN <<>> ELSE read[next]
              ELSE IF f[pos + 1] = Zero THEN <<Bad(FALSE)>> \o read[next]
              ELSE IF ~Header(f, pos) THEN <<Bad(TRUE)>> \o read[next]
              ELSE IF HeaderSize + frag.len > left THEN CutOff(eof, read[next])
              ELSE IF ~Payload(f, pos, frag.len) THEN <<Bad(TRUE)>> \o read[next]
              ELSE <<[type |-> frag.type, frag |-> frag, at |-> pos]>>
                     \o read[pos + HeaderSize + frag.len]
    IN  read[start]

(* ReadRecord: fragments are put together; what does not fit is reported.  *)
(* The records come out as sequences of fragments.                         *)
Unread == [in |-> FALSE, scratch |-> <<>>, out |-> <<>>, reports |-> 0]

Reported(st, n) == [st EXCEPT !.in = FALSE, !.scratch = <<>>, !.reports = @ + n]
Bytes(frags) == FoldLeft(LAMBDA n, x : n + x.len, 0, frags)
If(b) == IF b THEN 1 ELSE 0

(* Fault: a record begun before a bad one is not forgotten. *)
AssembleForgiving(st, p) ==
    CASE p.type = "full" -> [Unread EXCEPT !.out = Append(st.out, <<p.frag>>), !.reports = st.reports]
      [] p.type = "first" -> [st EXCEPT !.in = TRUE, !.scratch = <<p.frag>>]
      [] p.type = "middle" -> [st EXCEPT !.scratch = Append(@, p.frag)]
      [] p.type = "last" ->
           IF st.in THEN [Unread EXCEPT !.out = Append(st.out, Append(st.scratch, p.frag)),
                                        !.reports = st.reports]
                    ELSE [st EXCEPT !.reports = @ + 1]
      [] OTHER -> st

Assemble(st, p) ==
    CASE p.type = "full" ->
           [Reported(st, If(Bytes(st.scratch) > 0)) EXCEPT !.out = Append(@, <<p.frag>>)]
      [] p.type = "first" ->
           [Reported(st, If(Bytes(st.scratch) > 0)) EXCEPT !.in = TRUE, !.scratch = <<p.frag>>]
      [] p.type = "middle" /\ st.in -> [st EXCEPT !.scratch = Append(@, p.frag)]
      [] p.type = "last" /\ st.in ->
           [Reported(st, 0) EXCEPT !.out = Append(@, Append(st.scratch, p.frag))]
      [] p.type \in {"middle", "last"} /\ ~st.in -> [st EXCEPT !.reports = @ + 1]
      [] p.type = "bad" -> Reported(st, If(p.reported) + If(st.in))

ReadAll(f) == FoldLeft(Assemble, Unread, PhysicalRecords(f, 0))

(* With an initial offset the reader starts at a block, drops what began   *)
(* before the offset and skips the rest of a record it came in the middle  *)
(* of.                                                                     *)
SkipToInitialBlock(initial) ==
    LET inBlock == initial % BlockSize
    IN  (initial - inBlock) + IF inBlock > BlockSize - (HeaderSize - 1) THEN BlockSize ELSE 0

Resync(ps) == LET skip == SelectInSeq(ps, LAMBDA p : p.type # "middle")
              IN  IF skip = 0 THEN <<>>
                  ELSE SubSeq(ps, skip + If(ps[skip].type = "last"), Len(ps))

ReadFrom(f, initial) ==
    LET ps == PhysicalRecords(f, SkipToInitialBlock(initial))
        seen == [i \in DOMAIN ps |-> IF ps[i].type # "bad" /\ ps[i].at < initial
                                     THEN Bad(FALSE) ELSE ps[i]]
    IN  FoldLeft(Assemble, Unread, IF initial > 0 THEN Resync(seen) ELSE seen).out

(* A record that was written, and its number.                              *)
Genuine(r) == /\ \A i \in DOMAIN r : r[i].id = r[1].id
              /\ r[1].from = 0
              /\ \A i \in 2 .. Len(r) : r[i].from = r[i - 1].from + r[i - 1].len
              /\ Last(r).type \in {"full", "last"}
Found(f) == {ReadAll(f).out[i][1].id : i \in DOMAIN ReadAll(f).out}
-----------------------------------------------------------------------------
(* DBImpl with its log.                                                    *)
LogInit == /\ file = <<>> /\ synced = 0 /\ offset = 0
           /\ written = 0 /\ acknowledged = {} /\ forced = {} /\ tables = {}
           /\ logError = FALSE /\ intact = MaxRecords /\ failures = 0 /\ logCrashes = 0

(* The record of the next write, cut up at the writer's offset.            *)
NextPieces(size) == Pieces(written + 1, size, offset)

MayWrite == written < MaxRecords /\ ~logError

(* Fault: a write is acknowledged before its record was synced. *)
WriteOKEager(size, sync) ==
    /\ MayWrite
    /\ file' = file \o UnitsOf(NextPieces(size))
    /\ offset' = Last(NextPieces(size)).offset
    /\ written' = written + 1
    /\ acknowledged' = acknowledged \cup {written + 1}
    /\ forced' = IF sync THEN forced \cup {written + 1} ELSE forced
    /\ synced' = IF sync THEN Len(file) ELSE synced
    /\ UNCHANGED <<tables, logError, intact, failures, logCrashes>>

(* Write: append and, if asked, sync; then the write is acknowledged.      *)
WriteOK(size, sync) ==
    /\ MayWrite
    /\ file' = file \o UnitsOf(NextPieces(size))
    /\ offset' = Last(NextPieces(size)).offset
    /\ written' = written + 1
    /\ acknowledged' = acknowledged \cup {written + 1}
    /\ forced' = IF sync THEN forced \cup {written + 1} ELSE forced
    /\ synced' = IF sync THEN Len(file') ELSE synced
    /\ UNCHANGED <<tables, logError, intact, failures, logCrashes>>

(* The append fails in the k-th piece after n of its units were written:   *)
(* the rest of the buffer is dropped, block_offset_ moves on, and nothing  *)
(* keeps the next write from using the log.                                *)
AppendFails(size) ==
    /\ "append" \in LogFaults /\ MayWrite /\ failures < MaxFailures
    /\ \E k \in DOMAIN NextPieces(size) :
         \E n \in 0 .. Len(NextPieces(size)[k].units) - 1 :
            /\ file' = file \o UnitsOf(SubSeq(NextPieces(size), 1, k - 1))
                            \o SubSeq(NextPieces(size)[k].units, 1, n)
            /\ offset' = NextPieces(size)[k].offset
    /\ written' = written + 1
    /\ failures' = failures + 1
    /\ intact' = Smaller(intact, written)
    /\ UNCHANGED <<synced, acknowledged, forced, tables, logError, logCrashes>>

(* The sync fails: the record may or may not survive, and bg_error_ makes  *)
(* all later writes fail.                                                  *)
SyncFails(size) ==
    /\ "sync" \in LogFaults /\ MayWrite /\ failures < MaxFailures
    /\ file' = file \o UnitsOf(NextPieces(size))
    /\ offset' = Last(NextPieces(size)).offset
    /\ written' = written + 1
    /\ failures' = failures + 1
    /\ logError' = TRUE
    /\ UNCHANGED <<synced, acknowledged, forced, tables, intact, logCrashes>>

(* RecoverLogFile on what is left of the log.  Without reuse_logs the      *)
(* records go to a synced table and the log is deleted; with it the writer *)
(* goes on at the end of the file, whatever the file ends with.            *)
RecoverLogFile(left) ==
    /\ IF Reuse THEN /\ file' = left
                     /\ offset' = Len(left) % BlockSize
                     /\ synced' = Smaller(synced, Len(left))
                     /\ UNCHANGED tables
                ELSE /\ file' = <<>> /\ offset' = 0 /\ synced' = 0
                     /\ tables' = tables \cup Found(left)
    /\ logError' = FALSE
    /\ logCrashes' = logCrashes + 1

(* The process dies, perhaps while it appends a record: what it handed to  *)
(* the operating system stays.                                             *)
LogProcessCrash(size) ==
    /\ logCrashes < MaxLogCrashes
    /\ \/ RecoverLogFile(file) /\ UNCHANGED written
       \/ /\ MayWrite
          /\ written' = written + 1
          /\ \E n \in 1 .. Len(UnitsOf(NextPieces(size))) :
                RecoverLogFile(file \o SubSeq(UnitsOf(NextPieces(size)), 1, n))
    /\ UNCHANGED <<acknowledged, forced, intact, failures>>

(* The machine goes down: of the units not yet synced any prefix is on     *)
(* the disk.  Writes that were not synced may be lost.                     *)
LogMachineCrash ==
    /\ logCrashes < MaxLogCrashes
    /\ \E n \in synced .. Len(file) :
         /\ RecoverLogFile(SubSeq(file, 1, n))
         /\ acknowledged' = acknowledged \cap (tables \cup Found(SubSeq(file, 1, n)) \cup forced)
    /\ UNCHANGED <<written, forced, intact, failures>>

LogNext == \/ \E size \in Sizes, sync \in BOOLEAN : WriteOK(size, sync)
           \/ \E size \in Sizes : AppendFails(size) \/ SyncFails(size) \/ LogProcessCrash(size)
           \/ LogMachineCrash

LogSpec == LogInit /\ [][LogNext]_logVars
-----------------------------------------------------------------------------
LogTypeOK == /\ Len(file) \in Nat /\ synced \in 0 .. Len(file)
             /\ offset \in 0 .. BlockSize
             /\ written \in 0 .. MaxRecords
             /\ acknowledged \subseteq 1 .. written /\ forced \subseteq acknowledged /\ tables \subseteq 1 .. written
             /\ logError \in BOOLEAN /\ intact \in 0 .. MaxRecords
             /\ failures \in 0 .. MaxFailures /\ logCrashes \in 0 .. MaxLogCrashes

(* "If it is just the process that crashes, no writes will be lost even if *)
(* sync==false" (WriteOptions): every acknowledged record is in a table or *)
(* is found in the log as it is.                                           *)
AcknowledgedSurvive == acknowledged \subseteq tables \cup Found(file)

(* Even after an append failed, what was acknowledged before it is found,  *)
(* and the reader makes nothing up of the pieces it left.                  *)
FailureSparesEarlier ==
    /\ {a \in acknowledged : a <= intact} \subseteq tables \cup Found(file)
    /\ \A i \in DOMAIN ReadAll(file).out : Genuine(ReadAll(file).out[i])

(* The rest is about logs in which no append ever failed.                  *)
Clean == intact = MaxRecords

(* A write with sync survives a machine that goes down at any moment,      *)
(* wherever the file is cut behind what was synced.                        *)
SyncedSurvive == Clean => \A n \in synced .. Len(file) :
    forced \subseteq tables \cup Found(SubSeq(file, 1, n))

(* A log cut off anywhere gives back the first of its records, each as it  *)
(* was written, and none of the cuts is reported as corruption ("this can  *)
(* be caused by the writer dying", log_reader.cc).                         *)
TornTailIsSilent == Clean => \A n \in 0 .. Len(file) :
    LET cut == ReadAll(SubSeq(file, 1, n))
    IN  /\ cut.reports = 0
        /\ IsPrefix(cut.out, ReadAll(file).out)
        /\ \A i \in DOMAIN cut.out : Genuine(cut.out[i])

(* One damaged unit costs only records with a part in its block, and the   *)
(* reader never makes up a record of parts of different ones.              *)
Damaged(p) == [file EXCEPT ![p] = [frag |-> <<>>, at |-> HeaderSize]]
InBlockOf(p) == {file[i].frag.id :
    i \in {j \in DOMAIN file : (j - 1) \div BlockSize = (p - 1) \div BlockSize /\ file[j] # Zero}}

DamageIsContained == Clean => \A p \in DOMAIN file :
    LET read == ReadAll(Damaged(p)).out
    IN  /\ \A i \in DOMAIN read : Genuine(read[i])
        /\ Found(file) \ InBlockOf(p) \subseteq Found(Damaged(p))

(* Reading from an offset gives exactly the records that begin there or    *)
(* later (log::Reader's initial_offset).                                   *)
BeginsAt(r) == CHOOSE pos \in 0 .. Len(file) - 1 : file[pos + 1] = [frag |-> r[1], at |-> 1]

OffsetsAgree == Clean => \A o \in 0 .. Len(file) :
    ReadFrom(file, o) = SelectSeq(ReadAll(file).out, LAMBDA r : BeginsAt(r) >= o)

(* What was written and not lost is found, and what is found was written,  *)
(* whatever failed in between.                                             *)
RecordsAreFound == LogTypeOK /\ FailureSparesEarlier /\ SyncedSurvive

(* The reader copes with a log that is cut off or damaged, or read from    *)
(* the middle.                                                             *)
ReaderIsExact == TornTailIsSilent /\ DamageIsContained /\ OffsetsAgree
=============================================================================
