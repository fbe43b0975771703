------------------------------- MODULE Levels -------------------------------
(***************************************************************************)
(* The levels of a leveldb: memtables become tables, compactions merge     *)
(* tables of a level into the next and drop what nobody can see, and a     *)
(* read searches memtable and levels in turn (db/version_set.cc,           *)
(* db/db_impl.cc).                                                         *)
(*                                                                         *)
(* An entry is <<key, sequence number, type>>; its value is its sequence   *)
(* number.  Sizes decide which compaction runs and where an output is cut: *)
(* here any may run and any cut is possible.  The one background thread    *)
(* installs versions; while a compaction works, it flushes memtables too,  *)
(* and callers write, read and take snapshots.                             *)
(***************************************************************************)
EXTENDS Naturals, FiniteSets, Sequences, FiniteSetsExt, SequencesExt

CONSTANTS Keys,          \* user keys, a range of the naturals
          NumLevels,     \* kNumLevels
          MaxMemLevel,   \* kMaxMemCompactLevel
          Manual,        \* whether CompactRange is called
          Deletes,       \* whether keys are deleted
          Cuts,          \* where outputs are cut: "nowhere", "above deletions", "anywhere"
          MaxWrites,     \* bound: entries written
          MaxSnapshots   \* bound: snapshots held at a time

ASSUME LevelsAssumption == /\ Keys \subseteq Nat \ {0} /\ Manual \in BOOLEAN /\ Deletes \in BOOLEAN
                           /\ NumLevels \in Nat /\ MaxMemLevel \in 0 .. NumLevels - 1
                           /\ Cuts \in {"nowhere", "above deletions", "anywhere"}

VARIABLES
    memtables,      \* entries of mem_ and imm_
    files,          \* current_: the tables
    lastSequence,   \* LastSequence()
    snapshots,      \* the sequence numbers in snapshots_
    compaction,     \* the compaction at work
    latest          \* what was written to each key last

levelsVars == <<memtables, files, lastSequence, snapshots, compaction, latest>>

Key(e) == e[1]
Number(e) == e[2]
ValueType(e) == e[3]
-----------------------------------------------------------------------------
(* Internal keys: by user key, the newest first (db/dbformat.cc).          *)
Precedes(e, d) == Key(e) < Key(d) \/ (Key(e) = Key(d) /\ Number(e) > Number(d))
Smallest(f) == CHOOSE e \in f.entries : \A d \in f.entries : d = e \/ Precedes(e, d)
Largest(f) == CHOOSE e \in f.entries : \A d \in f.entries : d = e \/ Precedes(d, e)

Level(l) == {f \in files : f.level = l}
NewTable(l, entries) == [level |-> l, number |-> 0, entries |-> entries]

(* Numbers matter where they order tables, in level 0.                     *)
NewFileNumber == 1 + Max({0} \cup {f.number : f \in files})

(* FindFile, on tables that are disjoint: the first one that does not end  *)
(* before e.                                                               *)
FindFile(fs, e) ==
    LET rest == {f \in fs : ~Precedes(Largest(f), e)}
    IN  {f \in rest : \A g \in rest : g = f \/ Precedes(Largest(f), Largest(g))}
-----------------------------------------------------------------------------
(* Ranges of user keys.                                                    *)
Low(fs) == Min({Key(Smallest(f)) : f \in fs})
High(fs) == Max({Key(Largest(f)) : f \in fs})
Touches(f, low, high) == Key(Largest(f)) >= low /\ Key(Smallest(f)) <= high

(* SomeFileOverlapsRange: a scan of level 0, a search in the others.       *)
OverlapInLevel(l, low, high) ==
    IF l = 0 THEN \E f \in Level(0) : Touches(f, low, high)
    ELSE \E f \in FindFile(Level(l), <<low, MaxWrites + 1, "value">>) : Key(Smallest(f)) <= high

(* In level 0 a table that overlaps widens the range.                      *)
GetOverlappingInputs(l, low, high) ==
    LET within(a, b) == {f \in Level(l) : Touches(f, a, b)}
        wider[n \in Nat] == IF n = 0 THEN within(low, high)
                            ELSE within(Min({low} \cup {Key(Smallest(f)) : f \in wider[n - 1]}),
                                        Max({high} \cup {Key(Largest(f)) : f \in wider[n - 1]}))
    IN  IF l = 0 THEN wider[Cardinality(Level(0))] ELSE within(low, high)

(* PickLevelForMemTableOutput goes down as long as nothing overlaps and    *)
(* may stop where the grandparents overlap too much.                       *)
PickLevelForMemTableOutput(low, high) ==
    LET reachable == {l \in 0 .. MaxMemLevel : \A i \in 0 .. l : ~OverlapInLevel(i, low, high)}
        stops == {l \in reachable : l + 2 < NumLevels /\ GetOverlappingInputs(l + 2, low, high) # {}}
    IN  IF reachable = {} THEN {0} ELSE {Max(reachable)} \cup stops
-----------------------------------------------------------------------------
(* Reading at a sequence number.  A table yields the first entry that is   *)
(* not before the one looked up, if it is of the key.                      *)
InEntries(entries, k, s) ==
    LET seen == {e \in entries : Key(e) = k /\ Number(e) <= s}
    IN  IF seen = {} THEN {} ELSE {CHOOSE e \in seen : \A d \in seen : Number(d) <= Number(e)}

InLevelZero(k, s) ==
    LET hits == {f \in Level(0) : Touches(f, k, k) /\ InEntries(f.entries, k, s) # {}}
    IN  IF hits = {} THEN {} ELSE InEntries((CHOOSE f \in hits : \A g \in hits : f.number >= g.number).entries, k, s)

InLevel(l, k, s) ==
    UNION {InEntries(f.entries, k, s) : f \in FindFile(Level(l), <<k, s, "value">>)}

(* DBImpl::Get and Version::Get: the first hit decides.                    *)
Get(k, s) ==
    LET hit[l \in 0 .. NumLevels] ==
            IF l = NumLevels THEN {}
            ELSE LET here == IF l = 0 THEN InLevelZero(k, s) ELSE InLevel(l, k, s)
                 IN  IF here # {} THEN here ELSE hit[l + 1]
        found == IF InEntries(memtables, k, s) # {} THEN InEntries(memtables, k, s) ELSE hit[0]
    IN  IF \E e \in found : ValueType(e) = "value" THEN Max({Number(e) : e \in found}) ELSE 0
-----------------------------------------------------------------------------
(* The inputs of a compaction.                                             *)

(* Fault: the tables a user key continues in stay behind. *)
AddBoundaryInputsNone(l, fs) == fs

(* AddBoundaryInputs: the tables of the level in which the user key the    *)
(* inputs end with continues.                                              *)
AddBoundaryInputs(l, fs) ==
    LET next(gs) == {f \in Level(l) : \E g \in gs : /\ \A h \in gs : h = g \/ Precedes(Largest(h), Largest(g))
                                                    /\ Precedes(Largest(g), Smallest(f))
                                                    /\ Key(Smallest(f)) = Key(Largest(g))}
        added[n \in Nat] == IF n = 0 THEN fs ELSE added[n - 1] \cup next(added[n - 1])
    IN  added[Cardinality(Level(l))]

(* SetupOtherInputs: what overlaps in the next level, and more of this one *)
(* if that adds nothing there and is not too large.                        *)
SetupOtherInputs(l, picked) ==
    LET in0 == AddBoundaryInputs(l, picked)
        in1 == GetOverlappingInputs(l + 1, Low(in0), High(in0))
        expanded0 == AddBoundaryInputs(l, GetOverlappingInputs(l, Low(in0 \cup in1), High(in0 \cup in1)))
        expanded1 == GetOverlappingInputs(l + 1, Low(expanded0), High(expanded0))
    IN  {<<in0, in1>>}
        \cup IF /\ in1 # {} /\ Cardinality(expanded0) > Cardinality(in0)
                /\ Cardinality(expanded1) = Cardinality(in1)
             THEN {<<expanded0, expanded1>>} ELSE {}

(* PickCompaction takes a table of a level, in level 0 with all that       *)
(* overlap.                                                                *)
Picked(l) == {IF l = 0 THEN GetOverlappingInputs(0, Low({f}), High({f})) ELSE {f} : f \in Level(l)}

(* CompactRange takes the tables of a range; above level 0 the first of    *)
(* them, as many as its size limit allows.                                 *)
Ranged(l) ==
    LET ranges == (0 .. Max(Keys) + 1) \X (0 .. Max(Keys) + 1)
        inputs == {GetOverlappingInputs(l, r[1], r[2]) : r \in ranges} \ {{}}
    IN  IF l = 0 THEN inputs
        ELSE UNION {{{g \in fs : g = last \/ Precedes(Smallest(g), Smallest(last))} : last \in fs} : fs \in inputs}
-----------------------------------------------------------------------------
(* The merge.                                                              *)

(* Fault: the newest snapshot is the limit, not the oldest. *)
SmallestSnapshotNewest == IF snapshots = {} THEN lastSequence ELSE Max(snapshots)

SmallestSnapshot == IF snapshots = {} THEN lastSequence ELSE Min(snapshots)

(* Fault: only the next level down is looked at. *)
IsBaseLevelForKeyNear(l, k) == \A f \in Level(l + 2) : ~(Key(Smallest(f)) < k /\ k < Key(Largest(f)))

(* IsBaseLevelForKey: no table below the output can have the key.          *)
IsBaseLevelForKey(l, k) == \A f \in files : f.level >= l + 2 => ~Touches(f, k, k)

NoCompaction == [level |-> 0, inputs |-> {}, snapshot |-> 0, base |-> {}]

(* What the loop of DoCompactionWork keeps: not what a newer entry that    *)
(* the oldest snapshot sees hides, and not a deletion that hides nothing.  *)
Surviving(j) ==
    LET input == UNION {f.entries : f \in j.inputs}
        Hidden(e) == \E d \in input : Key(d) = Key(e) /\ Number(d) > Number(e) /\ Number(d) <= j.snapshot
        Obsolete(e) == ValueType(e) = "deletion" /\ Number(e) <= j.snapshot /\ Key(e) \in j.base
    IN  {e \in input : ~Hidden(e) /\ ~Obsolete(e)}

(* Outputs end where they are large enough or would meet too much of the   *)
(* level below, in the middle of a user key if need be.  Behind a deletion *)
(* of the key that is only done where Cuts is "anywhere".                  *)
BehindDeletion(s, i) == /\ Key(s[i]) = Key(s[i + 1])
                        /\ \E j \in 1 .. i : Key(s[j]) = Key(s[i]) /\ ValueType(s[j]) = "deletion"
MayCut(s) == {i \in 1 .. Len(s) - 1 : \/ Cuts = "anywhere"
                                      \/ Cuts = "above deletions" /\ ~BehindDeletion(s, i)}

Outputs(l, s, cuts) ==
    LET part(i) == Cardinality({c \in cuts : c < i})
    IN  {NewTable(l, {s[j] : j \in {k \in 1 .. Len(s) : part(k) = part(i)}}) : i \in 1 .. Len(s)}
-----------------------------------------------------------------------------
LevelsInit == /\ memtables = {} /\ files = {} /\ lastSequence = 0 /\ snapshots = {} /\ compaction = NoCompaction
              /\ latest = [k \in Keys |-> 0]

PutOrDelete(k, type) ==
    /\ lastSequence < MaxWrites
    /\ lastSequence' = lastSequence + 1
    /\ memtables' = memtables \cup {<<k, lastSequence + 1, type>>}
    /\ latest' = [latest EXCEPT ![k] = IF type = "value" THEN lastSequence + 1 ELSE 0]
    /\ UNCHANGED <<files, snapshots, compaction>>

GetSnapshot ==
    /\ lastSequence \notin snapshots /\ Cardinality(snapshots) < MaxSnapshots
    /\ snapshots' = snapshots \cup {lastSequence}
    /\ UNCHANGED <<memtables, files, lastSequence, compaction, latest>>

ReleaseSnapshot ==
    /\ \E s \in snapshots : snapshots' = snapshots \ {s}
    /\ UNCHANGED <<memtables, files, lastSequence, compaction, latest>>

(* CompactMemTable writes what was in the memtable when it was switched.   *)
CompactMemTable ==
    /\ \E last \in {Number(e) : e \in memtables} :
          LET imm == {e \in memtables : Number(e) <= last}
              keys == {Key(e) : e \in imm}
          IN  /\ \E l \in PickLevelForMemTableOutput(Min(keys), Max(keys)) :
                    files' = files \cup {[level |-> l, number |-> IF l = 0 THEN NewFileNumber ELSE 0,
                                          entries |-> imm]}
              /\ memtables' = memtables \ imm
    /\ UNCHANGED <<lastSequence, snapshots, compaction, latest>>

Grandparents(l, in0, in1) ==
    IF l + 2 < NumLevels THEN GetOverlappingInputs(l + 2, Low(in0 \cup in1), High(in0 \cup in1)) ELSE {}

(* A table that meets nothing in the next level just moves there.          *)
MovesOnly(in0, in1) == Cardinality(in0) = 1 /\ in1 = {}

(* What is settled when the compaction starts: inputs, oldest snapshot,    *)
(* levels below.                                                           *)
Settle(l, in) == compaction' = [level |-> l, inputs |-> in[1] \cup in[2], snapshot |-> SmallestSnapshot,
                                base |-> {k \in Keys : IsBaseLevelForKey(l, k)}]

PickCompaction(l) ==
    /\ compaction = NoCompaction /\ Level(l) # {}
    /\ \/ \E picked \in Picked(l) : \E in \in SetupOtherInputs(l, picked) :
             /\ MovesOnly(in[1], in[2]) => Grandparents(l, in[1], in[2]) # {}
             /\ Settle(l, in)
       \/ Manual /\ \E picked \in Ranged(l) : \E in \in SetupOtherInputs(l, picked) : Settle(l, in)
    /\ UNCHANGED <<memtables, files, lastSequence, snapshots, latest>>

TrivialMove(l) ==
    /\ compaction = NoCompaction /\ Level(l) # {}
    /\ \E picked \in Picked(l) : \E in \in SetupOtherInputs(l, picked) :
          /\ MovesOnly(in[1], in[2])
          /\ files' = (files \ in[1]) \cup {NewTable(l + 1, f.entries) : f \in in[1]}
    /\ UNCHANGED <<memtables, lastSequence, snapshots, compaction, latest>>

InstallCompactionResults ==
    /\ compaction # NoCompaction
    /\ LET s == SetToSortSeq(Surviving(compaction), Precedes)
       IN  \E cuts \in SUBSET MayCut(s) :
              files' = (files \ compaction.inputs) \cup Outputs(compaction.level + 1, s, cuts)
    /\ compaction' = NoCompaction
    /\ UNCHANGED <<memtables, lastSequence, snapshots, latest>>

LevelsNext == \/ \E k \in Keys : PutOrDelete(k, "value") \/ (Deletes /\ PutOrDelete(k, "deletion"))
              \/ GetSnapshot \/ ReleaseSnapshot \/ CompactMemTable
              \/ \E l \in 0 .. NumLevels - 2 : PickCompaction(l) \/ TrivialMove(l)
              \/ InstallCompactionResults

LevelsSpec == LevelsInit /\ [][LevelsNext]_levelsVars
-----------------------------------------------------------------------------
Entries == Keys \X (1 .. MaxWrites) \X {"value", "deletion"}

LevelsTypeOK == /\ memtables \subseteq Entries
                /\ \A f \in files : /\ f.level \in 0 .. NumLevels - 1 /\ f.number \in 0 .. MaxWrites
                                    /\ f.entries \subseteq Entries /\ f.entries # {}
                                    /\ (f.level = 0) = (f.number # 0)
                /\ lastSequence \in 0 .. MaxWrites /\ snapshots \subseteq 0 .. lastSequence
                /\ compaction.inputs \subseteq files /\ compaction.base \subseteq Keys /\ compaction.snapshot <= lastSequence

(* "Make sure there is no overlap in levels > 0" (Builder::SaveTo).        *)
LevelsAreDisjoint ==
    \A f, g \in files : f.level > 0 /\ f.level = g.level /\ f # g
        => Precedes(Largest(f), Smallest(g)) \/ Precedes(Largest(g), Smallest(f))

(* "We can search level-by-level": what is above is newer.                 *)
Above(f, g) == f.level < g.level \/ (f.level = 0 /\ g.level = 0 /\ f.number > g.number)
NewerIsAbove ==
    /\ \A e \in memtables, f \in files : \A d \in f.entries : Key(d) = Key(e) => Number(d) < Number(e)
    /\ \A f, g \in files : Above(f, g)
          => \A e \in f.entries, d \in g.entries : Key(e) = Key(d) => Number(d) < Number(e)

(* A search from the memtable down through one table of each level finds   *)
(* the newest entry first.                                                 *)
LevelsAreSearchable == LevelsTypeOK /\ LevelsAreDisjoint /\ NewerIsAbove

(* A read finds what was written last, and nothing where that was a        *)
(* deletion, whatever was moved, merged and dropped.                       *)
ReadsFindTheLatest == \A k \in Keys : Get(k, lastSequence) = latest[k]

(* Writes and snapshots are all a caller can see of this.                  *)
Map == INSTANCE KeyValueStore
          WITH Values <- 1 .. MaxWrites, None <- 0, Snapshots <- 0 .. MaxWrites,
               store <- [k \in Keys |-> Get(k, lastSequence)],
               views <- [s \in snapshots |-> [k \in Keys |-> Get(k, s)]]

ImplementsStore == Map!Spec
=============================================================================
