------------------------------ MODULE FatVolume -----------------------------
(***************************************************************************)
(* A FAT volume and the driver that has used it.  None of this is the      *)
(* scanner's: it is how the images it is given come about.  A directory is *)
(* a sequence of slots; a name that is not a short one takes a slot for    *)
(* its long form before the slot of the entry.  Removing an entry marks    *)
(* its slots and clears its chain in the table, unless the machine stops   *)
(* in between.                                                             *)
(*                                                                         *)
(* The field gen of a slot and of stored data says which file they are of: *)
(* the scanner does not see it.                                            *)
(***************************************************************************)
EXTENDS Naturals, Sequences, FiniteSets, SequencesExt, TLC

CONSTANTS
    LastCluster,      \* clusters are numbered from 2
    SlotsPerCluster,  \* entries of a directory cluster
    FatClusterSize,   \* units of data per cluster
    FatNames,         \* the names of files and directories
    FatLongNames,     \* those with a long form
    Sizes,            \* sizes of files, in units
    Volumes,          \* the volumes the driver starts from
    MaxFatChanges     \* how often the driver changes the volume

VARIABLES
    fat,   \* the table: Free, BadCluster, EndOfChain or the next cluster
    data,  \* what each cluster holds
    root,  \* the first cluster of the root directory
    made,  \* what was stored, by gen: the clusters it was given and its size
    torn,  \* the table was left behind by a stop of the machine
    fatChanges

fatVolumeVars == <<fat, data, root, made, torn, fatChanges>>

Clusters == 2 .. LastCluster
Free       == 0
BadCluster == LastCluster + 1
EndOfChain == LastCluster + 2
ClustersFor(size) == (size + FatClusterSize - 1) \div FatClusterSize

Short(name) == <<"short", name>>
End == [kind |-> "end"]
LongSlot(name, gen) ==
    [kind |-> "long", deleted |-> FALSE, checksum |-> name, piece |-> name, gen |-> gen]
EntrySlot(name, dir, start, size, gen) ==
    [kind |-> "entry", deleted |-> FALSE, short |-> name, dir |-> dir,
     start |-> start, size |-> size, gen |-> gen]
SlotsFor(name, dir, start, size, gen) ==
    (IF name \in FatLongNames THEN <<LongSlot(name, gen)>> ELSE <<>>)
        \o <<EntrySlot(name, dir, start, size, gen)>>

Blank(gen) ==
    [kind |-> "dir", gen |-> gen, slots |-> [i \in 1 .. SlotsPerCluster |-> End]]
FileData(gen, i) == [kind |-> "file", gen |-> gen, index |-> i]

FatVolumeInit ==
    \E v \in Volumes :
       /\ fat = v.fat /\ data = v.data /\ root = v.root /\ made = v.made
       /\ torn = FALSE /\ fatChanges = 0

RECURSIVE ChainFrom(_)
ChainFrom(c) == IF fat[c] \in Clusters THEN <<c>> \o ChainFrom(fat[c]) ELSE <<c>>
SlotsOf(chain) == FlattenSeq([i \in DOMAIN chain |-> data[chain[i]].slots])

(* Slot k of the directory with that chain becomes the next of slots.      *)
Written(d, chain, k, slots) ==
    [c \in Clusters |->
        IF c \notin Range(chain) THEN d[c]
        ELSE LET i == CHOOSE n \in DOMAIN chain : chain[n] = c
                 at(j) == (i - 1) * SlotsPerCluster + j
             IN  [d[c] EXCEPT !.slots = [j \in 1 .. SlotsPerCluster |->
                    IF at(j) \in k .. k + Len(slots) - 1
                    THEN slots[at(j) - k + 1] ELSE d[c].slots[j]]]]

(* The live directories: the root and what live entries lead to.           *)
RootDir == [start |-> root, gen |-> 0]
RECURSIVE LiveBelow(_)
LiveBelow(dir) ==
    LET live == {s \in Range(SlotsOf(ChainFrom(dir.start))) :
                    s.kind = "entry" /\ ~s.deleted /\ s.dir}
    IN  {dir} \cup UNION {LiveBelow([start |-> s.start, gen |-> s.gen]) : s \in live}
LiveFatDirs == LiveBelow(RootDir)

FreeClusters == {c \in Clusters : fat[c] = Free}
(* A chain begins at a free cluster and goes on with the next free ones.   *)
Allocation(start, count) ==
    LET after == SetToSortSeq({c \in FreeClusters : c > start}, <)
        before == SetToSortSeq({c \in FreeClusters : c < start}, <)
    IN  SubSeq(<<start>> \o after \o before, 1, count)
Chained(table, chain) ==
    [c \in Clusters |->
        IF c \notin Range(chain) THEN table[c]
        ELSE LET i == CHOOSE n \in DOMAIN chain : chain[n] = c
             IN  IF i = Len(chain) THEN EndOfChain ELSE chain[i + 1]]

Usable(slot) == slot.kind # "end" => slot.deleted
Named(slots, name) == \E i \in DOMAIN slots :
    slots[i].kind = "entry" /\ ~slots[i].deleted /\ slots[i].short = name

(* The first place with room for the entry.                                *)
Place(slots, count) ==
    {k \in 1 .. Len(slots) - count + 1 :
        /\ \A j \in k .. k + count - 1 : Usable(slots[j])
        /\ \A i \in 1 .. k - 1 : \E j \in i .. i + count - 1 : ~Usable(slots[j])}

(* An entry is made in a directory, which gets another cluster when there  *)
(* is no room for it.                                                      *)
Make(parent, name, dir, size, start) ==
    LET chain == ChainFrom(parent.start)
        gen   == Len(made) + 1
        count == IF dir THEN 1 ELSE ClustersFor(size)
        slots == SlotsFor(name, dir, IF count = 0 THEN 0 ELSE start, size, gen)
        full  == Place(SlotsOf(chain), Len(slots)) = {}
        all   == Allocation(start, count + IF full THEN 1 ELSE 0)
        new   == SubSeq(all, 1, count)
        more  == SubSeq(all, count + 1, Len(all))
        stored(i) == IF dir THEN Blank(gen) ELSE FileData(gen, i - 1)
        filled == [c \in Clusters |->
                     CASE c \in Range(new) -> stored(CHOOSE i \in DOMAIN new : new[i] = c)
                       [] c \in Range(more) -> Blank(parent.gen)
                       [] OTHER -> data[c]]
        grown == chain \o more
        there == FlattenSeq([i \in DOMAIN grown |-> filled[grown[i]].slots])
    IN  /\ Cardinality(FreeClusters) >= count + IF full THEN 1 ELSE 0
        /\ ~Named(SlotsOf(chain), name)
        /\ \E k \in Place(there, Len(slots)) :
              data' = Written(filled, grown, k, slots)
        /\ fat' = Chained(Chained(fat, new), grown)
        /\ made' = Append(made, [name |-> name, size |-> size, clusters |-> new,
                                 parent |-> parent.gen])
        /\ fatChanges' = fatChanges + 1
        /\ UNCHANGED <<root, torn>>

Erase(parent, k, stopped) ==
    LET chain == ChainFrom(parent.start)
        slots == SlotsOf(chain)
        first == IF k > 1 /\ slots[k - 1].kind = "long" /\ ~slots[k - 1].deleted
                 THEN k - 1 ELSE k
        gone  == [i \in 1 .. k - first + 1 |->
                     [slots[first + i - 1] EXCEPT !.deleted = TRUE]]
        freed == IF slots[k].start = 0 THEN {} ELSE Range(ChainFrom(slots[k].start))
    IN  /\ k \in DOMAIN slots /\ slots[k].kind = "entry" /\ ~slots[k].deleted
        /\ slots[k].dir => \A s \in Range(SlotsOf(ChainFrom(slots[k].start))) :
                              Usable(s)
        /\ data' = Written(data, chain, first, gone)
        /\ IF stopped THEN torn' = TRUE /\ UNCHANGED fat
           ELSE /\ fat' = [c \in Clusters |-> IF c \in freed THEN Free ELSE fat[c]]
                /\ UNCHANGED torn
        /\ fatChanges' = fatChanges + 1
        /\ UNCHANGED <<root, made>>

(* A volume left behind by a stop is not used any more before it is read.  *)
DriverWrites ==
    /\ fatChanges < MaxFatChanges /\ ~torn
    /\ \E parent \in LiveFatDirs :
          \/ \E name \in FatNames, start \in FreeClusters :
                \/ Make(parent, name, TRUE, 0, start)
                \/ \E size \in Sizes : Make(parent, name, FALSE, size, start)
          \/ \E k \in 1 .. SlotsPerCluster * Cardinality(Clusters), stopped \in BOOLEAN :
                Erase(parent, k, stopped)
=============================================================================
