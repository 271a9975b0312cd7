---------------------------- MODULE NtfsScanProofs ---------------------------
(***************************************************************************)
(* Machine-checked proofs about NtfsScan: what a scan says of files that   *)
(* were deleted, for every table, every way other programs go on using it, *)
(* every batch, fault and limit.                                           *)
(***************************************************************************)
EXTENDS NtfsScan, ListsProofs

USE LimitsAssumption, VolumeAssumption, TreesAssumption, ScanAssumption

-----------------------------------------------------------------------------
(* The types.                                                              *)

Nodes   == [record : Nat, sequence : Sequences]
Links   == [node : Nodes, name : Names \cup SystemNames, parent : Nodes]
Entries == [sequence : Sequences, inUse : BOOLEAN, dir : BOOLEAN, names : Seq(FileNames),
            whole : BOOLEAN, listed : BOOLEAN, pieces : Seq(Nat)]
EntryMaps  == UNION {[S -> Entries] : S \in SUBSET Records}
References == UNION {[S -> Seq(Records)] : S \in SUBSET Nat}
Knowledge  == [entries : EntryMaps, extensions : References, complete : BOOLEAN]

-----------------------------------------------------------------------------
(* The volume.                                                             *)

(* What is true of the table whatever programs do.                         *)
TableOK(t) ==
    /\ t \in [Records -> FileRecords \cup OtherRecords]
    /\ \A r \in Records : SoundRecord(r, t[r])
    /\ t[RootRecord] \in FileRecords
    /\ t[RootRecord].base = 0 /\ t[RootRecord].inUse /\ t[RootRecord].dir

VolumeInv ==
    /\ TableOK(table)
    /\ LinksIn(table) \subseteq links /\ links \subseteq Links
    /\ quiet \subseteq Records

-----------------------------------------------------------------------------
(* What has been learnt of the records before n.                           *)

(* A link from the generation of record r, and the names of a link, as an  *)
(* entry has them.                                                         *)
LinkOf(r, e, n) ==
    [node |-> Identity(r, e), name |-> n.name,
     parent |-> [record |-> n.parent, sequence |-> n.parentSequence]]

(* What is retained of a record was true of it.                            *)
EntryOK(r, e) ==
    /\ \A n \in Range(e.names) : n.kind # "dos" => LinkOf(r, e, n) \in links
    /\ e.names # <<>> => \E n \in Range(e.names) : n.kind # "dos"
    /\ r = RootRecord => e.sequence = table[RootRecord].sequence /\ e.inUse /\ e.dir

(* A file that was deleted and is as it was when the scan began.           *)
Untouched(r) == r \in quiet \cap UserRecords /\ IsBase(r) /\ ~table[r].inUse

HasAll(k, n) ==
    \A r \in Records : r < n /\ Untouched(r) =>
       /\ r \in DOMAIN k.entries
       /\ k.entries[r].sequence = table[r].sequence /\ ~k.entries[r].inUse
       /\ k.entries[r].names = table[r].names /\ table[r].names # <<>>

KnownOK(k, n) ==
    /\ k \in Knowledge
    /\ \A r \in DOMAIN k.entries : EntryOK(r, k.entries[r])
    /\ k.complete => HasAll(k, n)

-----------------------------------------------------------------------------
(* The inductive invariant.                                                *)

Phases == {"bootstrap", "records", "merge", "candidates", "complete", "failed"}
Deleted == {d \in DOMAIN entries : /\ ~entries[d].inUse /\ d >= FirstUserRecord
                                   /\ entries[d].names # <<>>}

ScanInv ==
    /\ VolumeInv
    /\ phase \in Phases /\ trusted \in 0 .. LastRecord + 1 /\ next \in 0 .. trusted
    /\ alone \in 0 .. trusted
    /\ KnownOK(Known, next)
    /\ phase = "bootstrap" => next = 0 /\ alone = 0
    /\ phase \notin {"bootstrap", "failed"} /\ complete => trusted = LastRecord + 1
    /\ phase \in {"merge", "candidates", "complete"} => next = trusted
    /\ phase = "merge" => /\ merging \in Seq(Nat)
                          /\ \A i \in DOMAIN merging : merging[i] \in DOMAIN extensions
    /\ phase \in {"candidates", "complete"} => namespace = BuildNamespace(entries, complete)
    /\ phase = "complete" => candidates = {Candidate(r) : r \in Deleted}

-----------------------------------------------------------------------------
(* What other programs do.                                                 *)

LEMMA RecordFacts ==
    /\ RootRecord \in Records /\ RootRecord \notin UserRecords /\ 0 \notin UserRecords
    /\ UserRecords \subseteq Records /\ Records \subseteq Nat
    /\ Sequences \subseteq Nat /\ 1 \in Sequences
    /\ \A n \in Nat : n % SequenceLimit \in Sequences
<1>1. SequenceLimit \in Nat \ {0} /\ SequenceLimit > 1
    BY DEF Sequences
<1>2. \A n \in Nat : n % SequenceLimit \in 0 .. SequenceLimit - 1
    BY <1>1
<1> QED
    BY <1>1, <1>2 DEF Records, UserRecords, Sequences

LEMMA NamesForType ==
    ASSUME TableOK(table), NEW name \in Names, NEW r \in LiveDirs
    PROVE  /\ NamesFor(name, r) \in Seq(FileNames) /\ NamesFor(name, r) # <<>>
           /\ \E n \in Range(NamesFor(name, r)) : n.kind = "win"
<1> DEFINE w == LinkTo(name, "win", r)
           d == LinkTo(Alias, "dos", r)
<1>1. r \in Records /\ table[r] \in FileRecords
    BY RecordFacts DEF LiveDirs, IsLive, IsFile, TableOK, FileRecords, OtherRecords
<1>2. w \in FileNames /\ d \in FileNames /\ w.kind = "win"
    <2>1. table[r].sequence \in Sequences /\ r \in Nat
        BY <1>1, RecordFacts DEF FileRecords
    <2>2. name \in Names \cup SystemNames /\ Alias \in Names \cup SystemNames
        BY VolumeAssumption
    <2> QED
        BY <2>1, <2>2 DEF LinkTo, FileNames
<1>3. NamesFor(name, r) = (IF name \in LongNames THEN <<d>> ELSE <<>>) \o <<w>>
    BY DEF NamesFor
<1> HIDE DEF w, d
<1>4. CASE name \in LongNames
    <2>1. /\ <<d>> \in Seq(FileNames) /\ <<w>> \in Seq(FileNames)
          /\ Len(<<d>>) = 1 /\ 1 \in DOMAIN <<w>> /\ <<w>>[1] = w
        BY <1>2
    <2> DEFINE both == <<d>> \o <<w>>
    <2>2. both \in Seq(FileNames) /\ \E i \in DOMAIN both : both[i] = w
        <3>1. /\ <<d>> \o <<w>> \in Seq(FileNames) /\ Len(<<d>>) + 1 \in DOMAIN (<<d>> \o <<w>>)
              /\ (<<d>> \o <<w>>)[Len(<<d>>) + 1] = <<w>>[1]
            BY <2>1, ConcatAt
        <3> HIDE DEF both
        <3>2. both = <<d>> \o <<w>>
            BY DEF both
        <3> QED
            BY <2>1, <3>1, <3>2
    <2>3. NamesFor(name, r) = both
        BY <1>3, <1>4
    <2> HIDE DEF both
    <2>4. both # <<>>
        BY <2>2
    <2> QED
        BY <2>2, <2>3, <2>4, <1>2 DEF Range
<1>5. CASE name \notin LongNames
    <2>1. <<>> \o <<w>> = <<w>>
        OBVIOUS
    <2>2. NamesFor(name, r) = <<w>>
        BY <1>3, <1>5, <2>1
    <2>3. <<w>> \in Seq(FileNames) /\ 1 \in DOMAIN <<w>> /\ <<w>>[1] = w
        BY <1>2
    <2> QED
        BY <2>2, <2>3, <1>2 DEF Range
<1> QED
    BY <1>4, <1>5

LEMMA OthersChange ==
    ASSUME TableOK(table), OtherPrograms
    PROVE  \E t : Changed(t) /\ TableOK(t) /\ t[RootRecord] = table[RootRecord]
<1>1. PICK r \in UserRecords :
          \/ Delete(r)
          \/ \E parent \in LiveDirs, name \in Names :
                \/ \E dir \in BOOLEAN : Create(r, dir, parent, name)
                \/ Move(r, parent, name)
                \/ HardLink(r, parent, name)
    BY DEF OtherPrograms
<1>2. r \in Records /\ r # RootRecord /\ RootRecord \in Records
    BY RecordFacts
<1>3. table \in [Records -> FileRecords \cup OtherRecords]
    BY DEF TableOK
<1>4. ASSUME NEW new \in FileRecords, SoundRecord(r, new)
      PROVE  /\ TableOK([table EXCEPT ![r] = new])
             /\ [table EXCEPT ![r] = new][RootRecord] = table[RootRecord]
    BY <1>2, <1>3, <1>4 DEF TableOK
<1>5. ASSUME Delete(r) PROVE \E t : Changed(t) /\ TableOK(t) /\ t[RootRecord] = table[RootRecord]
    <2> DEFINE freed(u) == [table[u] EXCEPT !.inUse = FALSE,
                               !.sequence = (table[u].sequence + 1) % SequenceLimit]
               gone(u) == u = r \/ (IsLive(u) /\ table[u].base = r)
               t == [u \in Records |-> IF gone(u) THEN freed(u) ELSE table[u]]
    <2>1. Changed(t)
        BY <1>5 DEF Delete
    <2>2. ASSUME NEW u \in Records, gone(u)
          PROVE  freed(u) \in FileRecords /\ SoundRecord(u, freed(u))
        <3>1. table[u] \in FileRecords
            BY <2>2, <1>3, <1>5 DEF Delete, IsLive, IsFile, OtherRecords
        <3>2. (table[u].sequence + 1) % SequenceLimit \in Sequences
            <4>1. table[u].sequence \in Sequences
                BY <3>1 DEF FileRecords
            <4>2. table[u].sequence \in Nat
                BY <4>1, RecordFacts
            <4>3. table[u].sequence + 1 \in Nat
                BY <4>2
            <4> QED
                BY <4>3, RecordFacts, Zenon
        <3>3. SoundRecord(u, table[u])
            BY DEF TableOK
        <3>4. /\ freed(u) \in FileRecords
              /\ freed(u).kind = table[u].kind /\ freed(u).base = table[u].base
              /\ freed(u).names = table[u].names /\ freed(u).whole = table[u].whole
              /\ freed(u).listed = table[u].listed
            BY <3>1, <3>2 DEF FileRecords
        <3> QED
            BY <3>3, <3>4 DEF SoundRecord
    <2>3. ~gone(RootRecord)
        <3>1. table[RootRecord].base = 0 /\ r # 0
            BY RecordFacts DEF TableOK
        <3> QED
            BY <3>1, <1>2
    <2>4. t[RootRecord] = table[RootRecord]
        BY <2>3, <1>2
    <2>5. t \in [Records -> FileRecords \cup OtherRecords]
        BY <2>2, <1>3
    <2>6. \A u \in Records : SoundRecord(u, t[u])
        BY <2>2 DEF TableOK
    <2>7. TableOK(t)
        BY <2>4, <2>5, <2>6 DEF TableOK
    <2> QED
        BY <2>1, <2>4, <2>7
<1>6. ASSUME NEW parent \in LiveDirs, NEW name \in Names, NEW dir \in BOOLEAN,
             Create(r, dir, parent, name)
      PROVE  \E t : Changed(t) /\ TableOK(t) /\ t[RootRecord] = table[RootRecord]
    <2> DEFINE seq == IF IsFile(r) THEN table[r].sequence ELSE 1
               new == FileRecord(seq, TRUE, dir, NamesFor(name, parent))
    <2>1. seq \in Sequences
        BY <1>2, <1>3, RecordFacts DEF IsFile, FileRecords, OtherRecords
    <2>2. new \in FileRecords
        BY <2>1, NamesForType DEF FileRecord, FileRecords
    <2>3. SoundRecord(r, new)
        BY NamesForType DEF SoundRecord, FileRecord
    <2>4. Changed([table EXCEPT ![r] = new])
        BY <1>6 DEF Create
    <2> QED
        BY <2>2, <2>3, <2>4, <1>4
<1>7. ASSUME NEW parent \in LiveDirs, NEW name \in Names, Move(r, parent, name)
      PROVE  \E t : Changed(t) /\ TableOK(t) /\ t[RootRecord] = table[RootRecord]
    <2> DEFINE new == [table[r] EXCEPT !.names = NamesFor(name, parent)]
    <2>1. table[r] \in FileRecords
        BY <1>2, <1>3, <1>7 DEF Move, IsLive, IsFile, OtherRecords
    <2>2. new \in FileRecords /\ new.names = NamesFor(name, parent)
        BY <2>1, NamesForType DEF FileRecords
    <2>3. SoundRecord(r, new)
        BY <2>2, NamesForType DEF SoundRecord
    <2>4. Changed([table EXCEPT ![r] = new])
        BY <1>7 DEF Move
    <2> QED
        BY <2>2, <2>3, <2>4, <1>4
<1>8. ASSUME NEW parent \in LiveDirs, NEW name \in Names, HardLink(r, parent, name)
      PROVE  \E t : Changed(t) /\ TableOK(t) /\ t[RootRecord] = table[RootRecord]
    <2> DEFINE more == NamesFor(name, parent)
               old  == table[r].names
               all  == old \o more
               new  == [table[r] EXCEPT !.names = all]
    <2>1. table[r] \in FileRecords
        BY <1>2, <1>3, <1>8 DEF HardLink, IsLive, IsFile, OtherRecords
    <2>2. old \in Seq(FileNames) /\ more \in Seq(FileNames)
        BY <2>1, NamesForType DEF FileRecords
    <2>3. PICK i \in DOMAIN more : more[i].kind = "win"
        BY NamesForType DEF Range
    <2> HIDE DEF more, old
    <2>4. /\ all \in Seq(FileNames) /\ Len(old) + i \in DOMAIN all
          /\ all[Len(old) + i] = more[i]
        <3>1. /\ old \o more \in Seq(FileNames) /\ Len(old) + i \in DOMAIN (old \o more)
              /\ (old \o more)[Len(old) + i] = more[i]
            BY <2>2, <2>3, ConcatAt
        <3> QED
            BY <3>1
    <2> HIDE DEF all
    <2>a. all # <<>>
        BY <2>4
    <2>5. \E n \in Range(all) : n.kind = "win"
        BY <2>3, <2>4 DEF Range
    <2>6. new \in FileRecords /\ new.names = all
        BY <2>1, <2>4 DEF FileRecords
    <2>7. SoundRecord(r, new)
        BY <2>a, <2>5, <2>6 DEF SoundRecord
    <2>8. Changed([table EXCEPT ![r] = new])
        BY <1>8 DEF HardLink, all, more, old
    <2> QED
        BY <2>6, <2>7, <2>8, <1>4
<1> QED
    BY <1>1, <1>5, <1>6, <1>7, <1>8

(* A table gives typed links, one for each name that is not an alias.      *)
LEMMA LinksAreTyped ==
    ASSUME NEW t, TableOK(t)
    PROVE  /\ LinksIn(t) \subseteq Links
           /\ \A r \in Records : t[r] \in FileRecords =>
                 \A n \in Range(t[r].names) : n.kind # "dos" => LinkOf(r, t[r], n) \in LinksIn(t)
<1>1. \A r \in Records : t[r].kind = "file" <=> t[r] \in FileRecords
    BY DEF TableOK, FileRecords, OtherRecords
<1>2. ASSUME NEW r \in Records, t[r] \in FileRecords, NEW n \in Range(t[r].names)
      PROVE  LinkOf(r, t[r], n) \in Links
    <2>1. n \in FileNames
        BY <1>2 DEF FileRecords, Range
    <2>2. (t[r].sequence - 1) % SequenceLimit \in Sequences
        <3>a. t[r].sequence \in Sequences
            BY <1>2 DEF FileRecords
        <3>b. t[r].sequence \in Nat
            BY <3>a, RecordFacts
        <3>1. t[r].sequence - 1 \in Int
            BY <3>b
        <3>2. SequenceLimit \in Nat \ {0}
            BY LimitsAssumption
        <3>3. \A i \in Int : i % SequenceLimit \in 0 .. SequenceLimit - 1
            BY <3>2
        <3> QED
            BY <3>1, <3>3 DEF Sequences
    <2>3. Identity(r, t[r]) \in Nodes
        BY <1>2, <2>2, RecordFacts DEF Identity, Nodes, FileRecords
    <2> QED
        BY <2>1, <2>3 DEF LinkOf, Links, Nodes, FileNames
<1>3. ASSUME NEW r \in Records, t[r] \in FileRecords, NEW n \in Range(t[r].names), n.kind # "dos"
      PROVE  LinkOf(r, t[r], n) \in LinksIn(t)
    <2> DEFINE of(u) == {LinkOf(u, t[u], m) : m \in {x \in Range(t[u].names) : x.kind # "dos"}}
    <2>1. t[r].kind = "file"
        BY <1>1, <1>3
    <2>2. LinkOf(r, t[r], n) \in of(r)
        BY <1>3
    <2>3. LinksIn(t) = UNION {of(u) : u \in {v \in Records : t[v].kind = "file"}}
        BY DEF LinksIn, LinkOf
    <2> HIDE DEF of
    <2> QED
        BY <2>1, <2>2, <2>3
<1>4. ASSUME NEW l \in LinksIn(t) PROVE l \in Links
    <2>1. PICK r \in Records : /\ t[r].kind = "file"
                               /\ \E n \in Range(t[r].names) : l = LinkOf(r, t[r], n)
        BY DEF LinksIn, LinkOf
    <2> QED
        BY <2>1, <1>1, <1>2
<1> QED
    BY <1>3, <1>4

LEMMA VolumeStarts ==
    ASSUME VolumeInit
    PROVE  VolumeInv
<1>1. TableOK(table)
    BY TreesAssumption DEF VolumeInit, TableOK
<1> QED
    BY <1>1, LinksAreTyped DEF VolumeInit, VolumeInv

(* Other programs add to what has been true, and leave the root alone.     *)
LEMMA OthersKeepVolume ==
    ASSUME VolumeInv, OtherPrograms
    PROVE  /\ VolumeInv'
           /\ links \subseteq links'
           /\ table'[RootRecord] = table[RootRecord]
           /\ \A r \in quiet' : r \in quiet /\ table'[r] = table[r]
<1>1. PICK t : Changed(t) /\ TableOK(t) /\ t[RootRecord] = table[RootRecord]
    BY OthersChange DEF VolumeInv
<1>2. /\ table' = t /\ links' = links \cup LinksIn(t)
      /\ quiet' = {r \in quiet : t[r] = table[r]}
    BY <1>1 DEF Changed
<1>3. VolumeInv'
    <2>1. TableOK(table') /\ LinksIn(table') \subseteq links' /\ links' \subseteq Links
        BY <1>1, <1>2, LinksAreTyped DEF VolumeInv
    <2> QED
        BY <2>1, <1>2 DEF VolumeInv, TableOK, LinksIn, Identity
<1> QED
    BY <1>1, <1>2, <1>3

-----------------------------------------------------------------------------
(* What is learnt of one record.                                           *)

LEMMA PutFacts ==
    ASSUME NEW f, NEW r, NEW value
    PROVE  /\ DOMAIN Put(f, r, value) = DOMAIN f \cup {r}
           /\ Put(f, r, value)[r] = value
           /\ \A u \in DOMAIN f : u # r => Put(f, r, value)[u] = f[u]
BY DEF Put

LEMMA PutEntry ==
    ASSUME NEW f \in EntryMaps, NEW r \in Records, NEW e \in Entries
    PROVE  Put(f, r, e) \in EntryMaps
<1>1. PICK S \in SUBSET Records : f \in [S -> Entries]
    BY DEF EntryMaps
<1>2. Put(f, r, e) \in [S \cup {r} -> Entries]
    BY <1>1 DEF Put
<1> QED
    BY <1>2 DEF EntryMaps

LEMMA PutReference ==
    ASSUME NEW f \in References, NEW b \in Nat, NEW s \in Seq(Records)
    PROVE  Put(f, b, s) \in References
<1>1. PICK S \in SUBSET Nat : f \in [S -> Seq(Records)]
    BY DEF References
<1>2. Put(f, b, s) \in [S \cup {b} -> Seq(Records)]
    <2> DEFINE A == Seq(Records)
    <2>1. f \in [S -> A] /\ s \in A
        BY <1>1
    <2> HIDE DEF A
    <2>2. Put(f, b, s) \in [S \cup {b} -> A]
        BY <2>1 DEF Put
    <2> QED
        BY <2>2 DEF A
<1>3. S \cup {b} \in SUBSET Nat
    OBVIOUS
<1> QED
    BY <1>2, <1>3 DEF References

(* Every record that can be read of a table of that kind.                  *)
AnyRecord == FileRecords \cup OtherRecords

LEMMA ProcessedIsTyped ==
    ASSUME NEW k \in Knowledge, NEW r \in Records, NEW record \in AnyRecord
    PROVE  ProcessMftRecord(k, r, record) \in Knowledge
<1>1. Lost(k) \in Knowledge
    BY DEF Lost, Knowledge
<1>2. ASSUME record \in FileRecords
      PROVE  RetainBaseEntry(k, r, ParsedEntry(r, record)) \in Knowledge
    <2> DEFINE e == ParsedEntry(r, record)
               more == Put(k.entries, r, e)
    <2>0. r \in Nat
        BY RecordFacts
    <2>1. e \in Entries
        BY <1>2, <2>0 DEF ParsedEntry, Entries, FileRecords
    <2>2. more \in EntryMaps
        BY <2>1, PutEntry DEF Knowledge
    <2>3. e.whole \in BOOLEAN
        BY <2>1 DEF Entries
    <2> HIDE DEF more
    <2>4. [k EXCEPT !.entries = more, !.complete = k.complete /\ e.whole] \in Knowledge
        BY <2>2, <2>3 DEF Knowledge
    <2> QED
        BY <1>1, <2>4 DEF RetainBaseEntry, more
<1>3. ASSUME record \in FileRecords
      PROVE  RetainReference(k, record.base, r) \in Knowledge
    <2> DEFINE b == record.base
               refs == IF b \in DOMAIN k.extensions THEN k.extensions[b] ELSE <<>>
               more == Put(k.extensions, b, Append(refs, r))
    <2>1. b \in Nat
        BY <1>3 DEF FileRecords
    <2>2. refs \in Seq(Records)
        <3>0. k.extensions \in References
            BY DEF Knowledge
        <3>1. PICK S \in SUBSET Nat : k.extensions \in [S -> Seq(Records)]
            BY <3>0 DEF References
        <3>2. <<>> \in Seq(Records)
            OBVIOUS
        <3>3. b \in DOMAIN k.extensions => k.extensions[b] \in Seq(Records)
            BY <3>1
        <3> QED
            BY <3>2, <3>3
    <2>3. Append(refs, r) \in Seq(Records)
        BY <2>2
    <2>4. more \in References
        BY <2>1, <2>3, PutReference DEF Knowledge
    <2> HIDE DEF more
    <2>5. [k EXCEPT !.extensions = more] \in Knowledge
        BY <2>4 DEF Knowledge
    <2> QED
        BY <1>1, <2>5 DEF RetainReference, more
<1>4. record.kind = "file" => record \in FileRecords
    BY DEF AnyRecord, OtherRecords
<1> QED
    BY <1>1, <1>2, <1>3, <1>4 DEF ProcessMftRecord

(* One record more.                                                        *)
LEMMA ProcessedIsKnown ==
    ASSUME VolumeInv, NEW n \in Records, NEW k, KnownOK(k, n),
           NEW record, record = table[n] \/ record = [kind |-> "torn"]
    PROVE  KnownOK(ProcessMftRecord(k, n, record), n + 1)
<1> DEFINE new == ProcessMftRecord(k, n, record)
<1>0. /\ table[n] \in AnyRecord /\ record \in AnyRecord /\ k \in Knowledge
      /\ SoundRecord(n, table[n])
    BY DEF VolumeInv, TableOK, AnyRecord, OtherRecords, KnownOK
<1>1. new \in Knowledge
    BY <1>0, ProcessedIsTyped
<1>2. \A r \in Records : r < n + 1 => r < n \/ r = n
    BY RecordFacts
<1>3. Untouched(n) => /\ table[n].kind = "file" /\ table[n].base = 0 /\ ~table[n].inUse
                      /\ n >= FirstUserRecord
    BY DEF Untouched, IsBase, IsFile, UserRecords
<1>4. CASE /\ record.kind = "file" /\ record.base = 0
           /\ record.dir \/ ~(record.inUse \/ n < FirstUserRecord)
    <2> DEFINE e == ParsedEntry(n, record)
               more == Put(k.entries, n, e)
    <2>1. record = table[n] /\ record \in FileRecords
        BY <1>0, <1>4 DEF AnyRecord, OtherRecords
    <2>2. /\ e.sequence = record.sequence /\ e.inUse = record.inUse /\ e.dir = record.dir
          /\ e.names = record.names /\ e.whole = (record.whole /\ ~record.listed)
        BY DEF ParsedEntry
    <2>3. new = RetainBaseEntry(k, n, e)
        BY <1>4 DEF ProcessMftRecord
    <2>4. EntryOK(n, e)
        <3>1. \A m \in Range(e.names) : m.kind # "dos" => LinkOf(n, e, m) \in links
            <4>1. \A m \in Range(table[n].names) : m.kind # "dos" => LinkOf(n, table[n], m) \in LinksIn(table)
                BY <2>1, LinksAreTyped DEF VolumeInv
            <4>2. Identity(n, e) = Identity(n, table[n])
                BY <2>1, <2>2 DEF Identity
            <4> QED
                BY <4>1, <4>2, <2>1, <2>2 DEF LinkOf, VolumeInv
        <3>2. e.names # <<>> => \E m \in Range(e.names) : m.kind # "dos"
            <4>1. e.names # <<>> => \E m \in Range(e.names) : m.kind = "win"
                BY <1>0, <1>4, <2>1, <2>2 DEF SoundRecord
            <4> QED
                BY <4>1
        <3>3. n = RootRecord => e.sequence = table[RootRecord].sequence /\ e.inUse /\ e.dir
            BY <2>1, <2>2 DEF VolumeInv, TableOK
        <3> QED
            BY <3>1, <3>2, <3>3 DEF EntryOK
    <2>5. /\ DOMAIN more = DOMAIN k.entries \cup {n} /\ more[n] = e
          /\ \A u \in DOMAIN k.entries : u # n => more[u] = k.entries[u]
        <3> HIDE DEF e, more
        <3>1. /\ DOMAIN Put(k.entries, n, e) = DOMAIN k.entries \cup {n}
              /\ Put(k.entries, n, e)[n] = e
              /\ \A u \in DOMAIN k.entries : u # n => Put(k.entries, n, e)[u] = k.entries[u]
            BY DEF Put
        <3> QED
            BY <3>1, Zenon DEF more
    <2>6. Untouched(n) /\ e.whole => /\ ~e.inUse /\ e.sequence = table[n].sequence
                                     /\ e.names = table[n].names /\ table[n].names # <<>>
        <3> SUFFICES ASSUME Untouched(n), e.whole
                     PROVE  /\ ~e.inUse /\ e.sequence = table[n].sequence
                            /\ e.names = table[n].names /\ table[n].names # <<>>
            OBVIOUS
        <3>0. ~(n < FirstUserRecord)
            BY <1>3, RecordFacts
        <3>1. record.whole /\ ~record.listed /\ ~(n < FirstUserRecord)
            BY <3>0, <2>2, Zenon
        <3>2. table[n].names # <<>>
            BY <3>1, <2>1, <1>0, <1>3 DEF SoundRecord
        <3> QED
            BY <3>2, <2>1, <2>2, <1>3
    <2>7. \/ new = Lost(k)
          \/ new.entries = more /\ new.complete = (k.complete /\ e.whole)
        <3> HIDE DEF e, more
        <3>1. \/ new = Lost(k)
              \/ new = [k EXCEPT !.entries = more, !.complete = k.complete /\ e.whole]
            BY <2>3 DEF RetainBaseEntry, more
        <3> QED
            BY <3>1, <1>0 DEF Knowledge
    <2>8. CASE new = Lost(k)
        <3>1. new.entries = k.entries /\ ~new.complete
            BY <2>8, <1>0 DEF Lost, Knowledge
        <3> QED
            BY <3>1, <1>1 DEF KnownOK
    <2>9. CASE new.entries = more /\ new.complete = (k.complete /\ e.whole)
        <3> HIDE DEF e, more, new
        <3>1. \A r \in DOMAIN new.entries : EntryOK(r, new.entries[r])
            BY <2>4, <2>5, <2>9 DEF KnownOK
        <3>2. ASSUME new.complete PROVE HasAll(new, n + 1)
            <4>1. HasAll(k, n) /\ e.whole
                BY <3>2, <2>9 DEF KnownOK
            <4> SUFFICES ASSUME NEW r \in Records, r < n + 1, Untouched(r)
                         PROVE  /\ r \in DOMAIN more
                                /\ more[r].sequence = table[r].sequence /\ ~more[r].inUse
                                /\ more[r].names = table[r].names /\ table[r].names # <<>>
                BY <2>9 DEF HasAll
            <4>2. CASE r = n
                BY <4>1, <4>2, <2>5, <2>6
            <4>3. CASE r # n
                <5>1. r < n
                    BY <4>3, <1>2
                <5>2. /\ r \in DOMAIN k.entries
                      /\ k.entries[r].sequence = table[r].sequence /\ ~k.entries[r].inUse
                      /\ k.entries[r].names = table[r].names /\ table[r].names # <<>>
                    BY <5>1, <4>1 DEF HasAll
                <5> QED
                    BY <5>2, <4>3, <2>5
            <4> QED
                BY <4>2, <4>3
        <3> QED
            BY <3>1, <3>2, <1>1 DEF KnownOK, new
    <2> QED
        BY <2>7, <2>8, <2>9
<1>5. CASE ~ /\ record.kind = "file" /\ record.base = 0
             /\ record.dir \/ ~(record.inUse \/ n < FirstUserRecord)
    <2>1. new.entries = k.entries /\ (new.complete => k.complete)
        <3>1. new = k \/ new = Lost(k) \/ new = RetainReference(k, record.base, n)
            BY <1>5 DEF ProcessMftRecord
        <3>2. \A more : [k EXCEPT !.extensions = more].entries = k.entries
                     /\ [k EXCEPT !.extensions = more].complete = k.complete
            BY <1>0 DEF Knowledge
        <3>3. Lost(k).entries = k.entries /\ ~Lost(k).complete
            BY <1>0 DEF Lost, Knowledge
        <3> QED
            BY <3>1, <3>2, <3>3 DEF RetainReference
    <2>2. Untouched(n) => ~new.complete
        <3> SUFFICES ASSUME Untouched(n) PROVE ~new.complete
            OBVIOUS
        <3>0. ~(n < FirstUserRecord)
            BY <1>3, RecordFacts
        <3>1. record # table[n]
            BY <1>3, <1>5, <3>0
        <3>2. new = Lost(k)
            BY <3>1 DEF ProcessMftRecord
        <3> QED
            BY <3>2, <1>0 DEF Lost, Knowledge
    <2>3. \A r \in DOMAIN new.entries : EntryOK(r, new.entries[r])
        BY <2>1 DEF KnownOK
    <2>4. ASSUME new.complete PROVE HasAll(new, n + 1)
        <3>1. HasAll(k, n) /\ ~Untouched(n)
            BY <2>4, <2>1, <2>2 DEF KnownOK
        <3> HIDE DEF new
        <3> QED
            BY <3>1, <2>1, <1>2 DEF HasAll
    <2> QED
        BY <1>1, <2>3, <2>4 DEF KnownOK
<1> QED
    BY <1>4, <1>5

(* A record more is never a reason to call it complete.                    *)
LEMMA LearnedIsLess ==
    ASSUME VolumeInv, NEW k \in Knowledge, NEW r, NEW record
    PROVE  ProcessMftRecord(k, r, record).complete => k.complete
<1>1. /\ ~Lost(k).complete
      /\ \A more : [k EXCEPT !.extensions = more].complete = k.complete
      /\ \A more, b : [k EXCEPT !.entries = more, !.complete = k.complete /\ b].complete
                          = (k.complete /\ b)
    BY DEF Lost, Knowledge
<1> QED
    BY <1>1, Zenon DEF ProcessMftRecord, RetainBaseEntry, RetainReference

(* And a run of records.                                                   *)
LEMMA KnownInTurn ==
    ASSUME VolumeInv, NEW n \in Nat, next \in Nat, next + n <= LastRecord + 1,
           KnownOK(Known, next), NEW torn
    PROVE  /\ KnownOK(KnownAfter(n, torn), next + n)
           /\ KnownAfter(n, torn).complete => complete
<1> DEFINE step == [k \in 1 .. n |-> [a \in Knowledge |->
                       ProcessMftRecord(a, next + k - 1, Read(next + k - 1, torn))]]
           known == CHOOSE f : f = [i \in 0 .. n |->
                       IF i = 0 THEN Known
                       ELSE ProcessMftRecord(f[i - 1], next + i - 1, Read(next + i - 1, torn))]
<1>1. Known \in Knowledge
    BY DEF KnownOK
<1>2. ASSUME NEW k \in 1 .. n
      PROVE  /\ next + k - 1 \in Records /\ next + (k - 1) = next + k - 1
             /\ next + k - 1 + 1 = next + k
    BY LimitsAssumption DEF Records
<1>3. ASSUME NEW r \in Records
      PROVE  /\ Read(r, torn) = table[r] \/ Read(r, torn) = [kind |-> "torn"]
             /\ Read(r, torn) \in AnyRecord
    BY DEF Read, VolumeInv, TableOK, AnyRecord, OtherRecords
<1>4. \A k \in 1 .. n : \A a \in Knowledge : step[k][a] \in Knowledge
    <2> SUFFICES ASSUME NEW k \in 1 .. n, NEW a \in Knowledge
                 PROVE  ProcessMftRecord(a, next + k - 1, Read(next + k - 1, torn)) \in Knowledge
        OBVIOUS
    <2> QED
        BY <1>2, <1>3, ProcessedIsTyped
<1>5. PICK g \in [0 .. n -> Knowledge] :
          g[0] = Known /\ \A k \in 1 .. n : g[k] = step[k][g[k - 1]]
    <2> HIDE DEF step
    <2>1. Recursions(n, Knowledge, Known, step) # {}
        BY <1>1, <1>4, RecursionExists, Zenon
    <2> QED
        BY <2>1 DEF Recursions
<1>6. /\ 0 \in 0 .. n /\ n \in 0 .. n
      /\ \A k \in 1 .. n : k \in 0 .. n /\ k - 1 \in 0 .. n /\ k # 0
      /\ \A k \in 0 .. n : k # 0 => k \in 1 .. n
    OBVIOUS
<1>7. g = [i \in 0 .. n |->
              IF i = 0 THEN Known
              ELSE ProcessMftRecord(g[i - 1], next + i - 1, Read(next + i - 1, torn))]
    <2>1. ASSUME NEW k \in 1 .. n
          PROVE  g[k] = ProcessMftRecord(g[k - 1], next + k - 1, Read(next + k - 1, torn))
        <3>1. g[k - 1] \in Knowledge
            BY <1>5, <1>6
        <3> QED
            BY <3>1, <1>5
    <2> QED
        BY <2>1, <1>5, <1>6
<1>8. known = [i \in 0 .. n |->
                  IF i = 0 THEN Known
                  ELSE ProcessMftRecord(known[i - 1], next + i - 1, Read(next + i - 1, torn))]
    BY <1>7, Zenon
<1>9. KnownAfter(n, torn) = known[n]
    BY DEF KnownAfter
<1> HIDE DEF known, step
<1> DEFINE Fine(i) == KnownOK(known[i], next + i) /\ (known[i].complete => complete)
           G == {k \in 0 .. n : Fine(k)}
<1>10. 0 \in G
    <2>1. known[0] = Known /\ next + 0 = next /\ Known.complete = complete
        BY <1>6, <1>8 DEF Known
    <2> QED
        BY <2>1, <1>6
<1>11. ASSUME NEW k \in 1 .. n, k - 1 \in G PROVE k \in G
    <2>1. known[k] = ProcessMftRecord(known[k - 1], next + k - 1, Read(next + k - 1, torn))
        BY <1>6, <1>8
    <2>0. KnownOK(known[k - 1], next + (k - 1)) /\ (known[k - 1].complete => complete)
        <3> HIDE DEF Fine
        <3>1. Fine(k - 1)
            BY <1>11
        <3> QED
            BY <3>1 DEF Fine
    <2>2. KnownOK(known[k - 1], next + k - 1) /\ next + k - 1 \in Records
        <3>1. next + (k - 1) = next + k - 1 /\ next + k - 1 \in Records
            BY <1>2
        <3> QED
            BY <3>1, <2>0
    <2> DEFINE old == known[k - 1]
               m == next + k - 1
               record == Read(m, torn)
    <2>3. record = table[m] \/ record = [kind |-> "torn"]
        BY <1>3, <2>2
    <2> HIDE DEF old, m, record
    <2>4. KnownOK(ProcessMftRecord(old, m, record), m + 1)
        BY <2>2, <2>3, ProcessedIsKnown DEF old, m
    <2>5. KnownOK(known[k], next + k)
        BY <2>1, <2>4, <1>2 DEF old, m, record
    <2>6. known[k].complete => complete
        <3>1. old \in Knowledge /\ (old.complete => complete)
            BY <2>0, <2>2 DEF KnownOK, old
        <3>2. ProcessMftRecord(old, m, record).complete => old.complete
            BY <3>1, LearnedIsLess
        <3> QED
            BY <3>1, <3>2, <2>1 DEF old, m, record
    <2> QED
        BY <2>5, <2>6, <1>6
<1>12. \A k \in 0 .. n : k \in G
    <2> HIDE DEF G
    <2> QED
        BY <1>10, <1>11, Upward
<1> QED
    <2>1. n \in G
        <3> HIDE DEF G
        <3> QED
            BY <1>6, <1>12
    <2>2. KnownOK(known[n], next + n) /\ (known[n].complete => complete)
        <3> HIDE DEF Fine
        <3>1. Fine(n)
            BY <2>1
        <3> QED
            BY <3>1 DEF Fine
    <2> QED
        BY <1>9, <2>2

-----------------------------------------------------------------------------
(* The steps of the scan.                                                  *)

(* What is known stays true while the volume stays as it is.               *)
LEMMA KnownWhenSame ==
    ASSUME UNCHANGED volumeVars, NEW k, NEW n, KnownOK(k, n), Known' = k, next' = n
    PROVE  KnownOK(Known, next)'
BY DEF KnownOK, EntryOK, HasAll, Untouched, IsBase, IsFile, volumeVars

LEMMA VolumeWhenSame ==
    ASSUME VolumeInv, UNCHANGED volumeVars
    PROVE  VolumeInv'
BY DEF VolumeInv, TableOK, LinksIn, volumeVars

LEMMA BootstrapKeeps ==
    ASSUME ScanInv, Bootstrap
    PROVE  ScanInv'
<1>1. VolumeInv' /\ UNCHANGED volumeVars
    BY VolumeWhenSame DEF ScanInv, Bootstrap
<1>2. PICK count \in TrustedRecords : /\ trusted' = count
                                      /\ complete' = (count = LastRecord + 1)
    BY DEF Bootstrap
<1>3. count \in 1 .. LastRecord + 1
    BY ScanAssumption
<1>4. next' = 0 /\ alone' = alone /\ phase' = "records" /\ next = 0
    BY DEF Bootstrap, ScanInv
<1>5. KnownOK(Known, next)'
    <2> DEFINE k == [entries |-> entries, extensions |-> extensions,
                     complete |-> (count = LastRecord + 1)]
    <2>1. Known' = k
        BY <1>2 DEF Known, Bootstrap
    <2>2. k \in Knowledge
        BY DEF ScanInv, KnownOK, Knowledge, Known
    <2>3. \A r \in DOMAIN entries : EntryOK(r, entries[r])
        BY DEF ScanInv, KnownOK, Known
    <2>4. HasAll(k, 0)
        BY RecordFacts DEF HasAll, Records
    <2>5. KnownOK(k, 0)
        BY <2>2, <2>3, <2>4 DEF KnownOK
    <2> HIDE DEF k
    <2> QED
        BY <1>1, <1>4, <2>1, <2>5, KnownWhenSame
<1>6. alone' \in 0 .. trusted'
    <2>1. alone' = 0 /\ trusted' \in Nat
        BY <1>2, <1>3, <1>4, LimitsAssumption DEF ScanInv, Bootstrap
    <2> QED
        BY <2>1
<1>7. trusted' \in 0 .. LastRecord + 1 /\ next' \in 0 .. trusted'
    BY <1>2, <1>3, <1>4, LimitsAssumption
<1>8. complete' => trusted' = LastRecord + 1
    BY <1>2
<1> QED
    BY <1>7, <1>8, <1>1, <1>2, <1>3, <1>4, <1>5, <1>6 DEF ScanInv, Phases

(* What the rest of the invariant needs of a step that reads records.      *)
LEMMA ReadKeeps ==
    ASSUME ScanInv, phase = "records", UNCHANGED <<volumeVars, phase, trusted, merging,
                                                   namespace, candidates>>,
           NEW k, NEW m \in 0 .. trusted, KnownOK(k, m), Learn(k), next' = m,
           alone' \in 0 .. trusted, complete' => complete
    PROVE  ScanInv'
<1>1. VolumeInv' /\ UNCHANGED volumeVars
    BY VolumeWhenSame DEF ScanInv
<1>2. Known' = k
    <2>1. k = [entries |-> k.entries, extensions |-> k.extensions, complete |-> k.complete]
        BY DEF KnownOK, Knowledge
    <2> QED
        BY <2>1 DEF Learn, Known
<1>3. KnownOK(Known, next)'
    BY <1>1, <1>2, KnownWhenSame
<1> QED
    BY <1>1, <1>3 DEF ScanInv, Phases

LEMMA ReadBatchKeeps ==
    ASSUME ScanInv, ReadBatch
    PROVE  ScanInv'
<1> DEFINE m == BatchEnd
<1>1. /\ next \in Nat /\ trusted \in Nat /\ next < trusted /\ trusted <= LastRecord + 1
      /\ BatchRecords \in Nat /\ BatchRecords > 0
    BY LimitsAssumption, ScanAssumption DEF ScanInv, ReadBatch
<1>2. m \in 0 .. trusted /\ m - next \in Nat /\ next + (m - next) = m /\ m <= LastRecord + 1
    BY <1>1, LimitsAssumption DEF BatchEnd, Min2
<1>3. PICK torn : Learn(KnownAfter(m - next, torn))
    BY DEF ReadBatch
<1>4. next' = m
    BY DEF ReadBatch
<1> DEFINE k == KnownAfter(m - next, torn)
<1> HIDE DEF m
<1>5. KnownOK(k, m)
    <2> DEFINE n == m - next
    <2>1. n \in Nat /\ next + n = m
        BY <1>2
    <2> HIDE DEF n
    <2>2. next + n <= LastRecord + 1
        BY <1>2, <2>1
    <2>3. VolumeInv /\ KnownOK(Known, next)
        BY DEF ScanInv
    <2>4. KnownOK(KnownAfter(n, torn), next + n)
        BY <2>1, <2>2, <2>3, <1>1, KnownInTurn
    <2> QED
        BY <2>1, <2>4 DEF n
<1>7. (k.complete => complete) /\ alone' = 0 /\ 0 \in 0 .. trusted
    <2>1. (KnownAfter(m - next, torn).complete => complete)
        BY <1>1, <1>2, KnownInTurn DEF ScanInv
    <2> QED
        BY <2>1, <1>1 DEF ReadBatch
<1> HIDE DEF k
<1>6. Learn(k)
    BY <1>3 DEF k
<1>8. complete' => complete
    BY <1>6, <1>7 DEF Learn
<1> QED
    BY <1>2, <1>4, <1>5, <1>6, <1>7, <1>8, ReadKeeps DEF ReadBatch

LEMMA ReadAloneKeeps ==
    ASSUME ScanInv, ReadAlone
    PROVE  ScanInv'
<1>1. /\ next \in Nat /\ alone \in 0 .. trusted /\ trusted \in 0 .. LastRecord + 1
      /\ next < alone
    BY LimitsAssumption DEF ScanInv, ReadAlone
<1>2. next + 1 \in 0 .. trusted /\ next \in Records /\ 0 \in 0 .. trusted
    BY <1>1, LimitsAssumption DEF Records
<1>3. next' = next + 1 /\ alone' \in 0 .. trusted
    BY <1>1, <1>2 DEF ReadAlone
<1>4. KnownOK(Known, next) /\ VolumeInv /\ Known \in Knowledge
    BY DEF ScanInv, KnownOK
<1>5. PICK k : Learn(k) /\ KnownOK(k, next + 1) /\ (k.complete => complete)
    <2> DEFINE known == Known
    <2>0. known.complete = complete
        BY DEF Known
    <2>1. CASE Learn(ProcessMftRecord(Known, next, table[next]))
        <3> HIDE DEF known
        <3>1. KnownOK(ProcessMftRecord(known, next, table[next]), next + 1)
            BY <1>2, <1>4, ProcessedIsKnown DEF known
        <3>2. ProcessMftRecord(known, next, table[next]).complete => known.complete
            BY <1>4, LearnedIsLess DEF known
        <3> QED
            BY <2>0, <2>1, <3>1, <3>2 DEF known
    <2>2. CASE Learn(Lost(Known))
        <3> HIDE DEF known
        <3>1. Lost(known) \in Knowledge /\ Lost(known).entries = known.entries /\ ~Lost(known).complete
            BY <1>4 DEF Lost, Knowledge, known
        <3>2. KnownOK(Lost(known), next + 1)
            BY <3>1, <1>4 DEF KnownOK, known
        <3> QED
            BY <2>2, <3>1, <3>2 DEF known
    <2> QED
        BY <2>1, <2>2 DEF ReadAlone
<1>6. complete' => complete
    BY <1>5 DEF Learn
<1> QED
    BY <1>2, <1>3, <1>5, <1>6, ReadKeeps DEF ReadAlone

(* A step that leaves what is known alone.                                 *)
LEMMA StillKnown ==
    ASSUME ScanInv, UNCHANGED <<volumeVars, next, entries, extensions, complete>>
    PROVE  VolumeInv' /\ KnownOK(Known, next)'
<1>1. Known' = Known
    BY DEF Known
<1>2. VolumeInv'
    BY VolumeWhenSame DEF ScanInv
<1>3. PICK k, n : k = Known /\ n = next
    OBVIOUS
<1>4. KnownOK(k, n)
    BY <1>3 DEF ScanInv
<1>5. Known' = k /\ next' = n
    BY <1>1, <1>3
<1> QED
    BY <1>2, <1>4, <1>5, KnownWhenSame

LEMMA BeginMergeKeeps ==
    ASSUME ScanInv, BeginMerge
    PROVE  ScanInv'
<1> DEFINE S == {b \in DOMAIN extensions : b \in DOMAIN entries /\ entries[b].listed}
           all == [k \in 1 .. LastRecord + 1 |-> k - 1]
<1>1. VolumeInv' /\ KnownOK(Known, next)'
    BY StillKnown DEF BeginMerge
<1>2. all \in Seq(Nat)
    <2>1. LastRecord + 1 \in Nat /\ \A k \in 1 .. LastRecord + 1 : k - 1 \in Nat
        BY LimitsAssumption
    <2> QED
        BY <2>1
<1>3. merging' = Filter(all, S)
    BY DEF BeginMerge, InOrder
<1> HIDE DEF all, S
<1>4. Filter(all, S) \in Seq(Nat) /\ \A i \in DOMAIN Filter(all, S) : Filter(all, S)[i] \in S
    <2>1. Filter(all, S) \in Seq(Nat \cap S)
        BY <1>2, FilterKeeps
    <2> QED
        BY <2>1
<1>5. /\ merging' \in Seq(Nat)
      /\ \A i \in DOMAIN merging' : merging'[i] \in DOMAIN extensions'
    BY <1>3, <1>4 DEF S, BeginMerge
<1> QED
    BY <1>1, <1>5 DEF ScanInv, BeginMerge, Phases

LEMMA MergeExtensionsKeeps ==
    ASSUME ScanInv, MergeExtensions
    PROVE  ScanInv'
<1> DEFINE b == Head(merging)
           refs == extensions[b]
<1>1. /\ merging \in Seq(Nat) /\ merging # <<>>
      /\ \A i \in DOMAIN merging : merging[i] \in DOMAIN extensions
    BY DEF ScanInv, MergeExtensions
<1>2. b \in DOMAIN extensions
    BY <1>1
<1>3. PICK bad :
          LET extra == Readable(refs, bad)
              fits  == MergedStreams + Len(extra) <= MaxExtensionStreams
          IN  /\ complete' = (complete /\ fits /\ extra = refs
                                /\ \A r \in Range(extra) : table[r].whole)
              /\ entries' = IF fits THEN [entries EXCEPT ![b].pieces = @ \o extra] ELSE entries
              /\ merging' = IF fits THEN Tail(merging) ELSE <<>>
    BY DEF MergeExtensions
<1> DEFINE extra == Readable(refs, bad)
           more == [entries EXCEPT ![b].pieces = @ \o extra]
<1>4. /\ complete' => complete /\ complete' \in BOOLEAN
      /\ entries' = more \/ entries' = entries
      /\ merging' = Tail(merging) \/ merging' = <<>>
    BY <1>3
<1>5. /\ merging' \in Seq(Nat)
      /\ \A i \in DOMAIN merging' : merging'[i] \in DOMAIN extensions
    <2>1. Tail(merging) \in Seq(Nat) /\ \A i \in DOMAIN Tail(merging) :
              i + 1 \in DOMAIN merging /\ Tail(merging)[i] = merging[i + 1]
        BY <1>1
    <2>2. <<>> \in Seq(Nat) /\ DOMAIN <<>> = {}
        OBVIOUS
    <2> QED
        BY <1>1, <1>4, <2>1, <2>2
<1>6. extra \in Seq(Nat)
    <2> HIDE DEF b
    <2>1. PICK S \in SUBSET Nat : extensions \in [S -> Seq(Records)]
        BY DEF ScanInv, KnownOK, Knowledge, Known, References
    <2>2. refs \in Seq(Records)
        BY <1>2, <2>1
    <2> HIDE DEF refs
    <2>3. extra \in Seq(Records \cap {r \in Records \ bad : IsFile(r)})
        BY <2>2, FilterKeeps DEF Readable
    <2>4. Records \cap {r \in Records \ bad : IsFile(r)} \subseteq Nat
        BY RecordFacts
    <2> HIDE DEF extra
    <2> QED
        BY <2>3, <2>4
<1>7. PICK S \in SUBSET Records : entries \in [S -> Entries]
    BY DEF ScanInv, KnownOK, Knowledge, Known, EntryMaps
<1> HIDE DEF extra, b
<1>8. /\ more \in [S -> Entries]
      /\ \A r \in S : /\ more[r].sequence = entries[r].sequence /\ more[r].inUse = entries[r].inUse
                      /\ more[r].dir = entries[r].dir /\ more[r].names = entries[r].names
    <2>1. CASE b \notin S
        <3>1. more = entries
            BY <1>7, <2>1
        <3> QED
            BY <1>7, <3>1
    <2>2. CASE b \in S
        <3> DEFINE e == [entries[b] EXCEPT !.pieces = @ \o extra]
        <3>1. entries[b] \in Entries
            BY <1>7, <2>2
        <3>2. entries[b].pieces \o extra \in Seq(Nat)
            BY <3>1, <1>6 DEF Entries
        <3>3. e \in Entries /\ e.sequence = entries[b].sequence /\ e.inUse = entries[b].inUse
              /\ e.dir = entries[b].dir /\ e.names = entries[b].names
            BY <3>1, <3>2 DEF Entries
        <3>4. more = [entries EXCEPT ![b] = e]
            OBVIOUS
        <3> HIDE DEF e
        <3> QED
            BY <1>7, <2>2, <3>3, <3>4
    <2> QED
        BY <2>1, <2>2
<1> HIDE DEF more
<1>9. /\ entries' \in [S -> Entries]
      /\ \A r \in S : /\ entries'[r].sequence = entries[r].sequence
                      /\ entries'[r].inUse = entries[r].inUse
                      /\ entries'[r].dir = entries[r].dir /\ entries'[r].names = entries[r].names
    BY <1>4, <1>7, <1>8
<1>10. KnownOK(Known, next)'
    <2>1. PICK k, n : k = Known' /\ n = next'
        OBVIOUS
    <2>2. /\ k.entries = entries' /\ k.extensions = extensions /\ k.complete = complete'
          /\ n = next
        BY <2>1 DEF Known, MergeExtensions
    <2>3. k \in Knowledge
        <3>1. extensions \in References
            BY DEF ScanInv, KnownOK, Knowledge, Known
        <3>2. entries' \in EntryMaps
            BY <1>9 DEF EntryMaps
        <3> QED
            BY <2>1, <3>1, <3>2, <1>4 DEF Known, Knowledge, MergeExtensions
    <2>4. DOMAIN k.entries = S /\ DOMAIN entries = S
        BY <1>7, <1>9, <2>2
    <2>5. \A r \in DOMAIN k.entries : EntryOK(r, k.entries[r])
        <3> SUFFICES ASSUME NEW r \in S PROVE EntryOK(r, entries'[r])
            BY <2>2, <2>4
        <3>1. EntryOK(r, entries[r])
            BY <2>4 DEF ScanInv, KnownOK, Known
        <3> QED
            BY <3>1, <1>9 DEF EntryOK, LinkOf, Identity
    <2>6. ASSUME k.complete PROVE HasAll(k, n)
        <3>1. HasAll(Known, next)
            BY <2>2, <2>6, <1>4 DEF ScanInv, KnownOK, Known
        <3> QED
            BY <3>1, <2>2, <2>4, <1>9 DEF HasAll, Known
    <2>7. KnownOK(k, n)
        BY <2>3, <2>5, <2>6 DEF KnownOK
    <2> QED
        BY <2>1, <2>7, KnownWhenSame DEF MergeExtensions
<1>11. VolumeInv'
    BY VolumeWhenSame DEF ScanInv, MergeExtensions
<1> QED
    BY <1>4, <1>5, <1>10, <1>11 DEF ScanInv, MergeExtensions, Phases

LEMMA OthersKeep ==
    ASSUME ScanInv, OtherPrograms, UNCHANGED scanVars, phase # "complete"
    PROVE  ScanInv'
<1>1. /\ VolumeInv' /\ links \subseteq links'
      /\ table'[RootRecord] = table[RootRecord]
      /\ \A r \in quiet' : r \in quiet /\ table'[r] = table[r]
    BY OthersKeepVolume DEF ScanInv
<1>2. PICK k, n : k = Known /\ n = next /\ k = Known' /\ n = next'
    BY DEF Known, scanVars
<1>3. KnownOK(k, n)
    BY <1>2 DEF ScanInv
<1>4. \A r \in DOMAIN k.entries : EntryOK(r, k.entries[r])'
    BY <1>1, <1>3 DEF KnownOK, EntryOK
<1>5. ASSUME k.complete PROVE HasAll(k, n)'
    <2>1. HasAll(k, n)
        BY <1>3, <1>5 DEF KnownOK
    <2> QED
        BY <2>1, <1>1 DEF HasAll, Untouched, IsBase, IsFile
<1>6. KnownOK(Known, next)'
    <2>1. KnownOK(k, n)'
        BY <1>3, <1>4, <1>5 DEF KnownOK
    <2> QED
        BY <1>2, <2>1
<1> QED
    BY <1>1, <1>6 DEF ScanInv, scanVars, Phases, Deleted, Candidate

LEMMA ScanKeepsInv ==
    ASSUME ScanInv, [NtfsNext]_ntfsVars
    PROVE  ScanInv'
<1>1. ASSUME BootstrapFails PROVE ScanInv'
    <2>1. VolumeInv' /\ KnownOK(Known, next)'
        BY <1>1, StillKnown DEF BootstrapFails
    <2> QED
        BY <1>1, <2>1 DEF ScanInv, BootstrapFails, Phases
<1>2. ASSUME ReadBatchFails PROVE ScanInv'
    <2>1. VolumeInv' /\ KnownOK(Known, next)'
        BY <1>2, StillKnown DEF ReadBatchFails
    <2>2. BatchEnd \in 0 .. trusted
        <3>1. next \in Nat /\ trusted \in Nat /\ next < trusted /\ BatchRecords \in Nat
            BY <1>2, LimitsAssumption, ScanAssumption DEF ScanInv, ReadBatchFails
        <3> QED
            BY <3>1 DEF BatchEnd, Min2
    <2> QED
        BY <1>2, <2>1, <2>2 DEF ScanInv, ReadBatchFails, Phases
<1>3. ASSUME MakeNamespace PROVE ScanInv'
    <2>1. VolumeInv' /\ KnownOK(Known, next)'
        BY <1>3, StillKnown DEF MakeNamespace
    <2> QED
        BY <1>3, <2>1 DEF ScanInv, MakeNamespace, Phases
<1>4. ASSUME MakeCandidates PROVE ScanInv'
    <2>1. VolumeInv' /\ KnownOK(Known, next)'
        BY <1>4, StillKnown DEF MakeCandidates
    <2>2. candidates' = {Candidate(r) : r \in Deleted}
        BY <1>4 DEF MakeCandidates, Deleted
    <2>3. candidates' = {Candidate(r) : r \in Deleted}'
        BY <1>4, <2>2 DEF MakeCandidates, Deleted, Candidate
    <2> QED
        BY <1>4, <2>1, <2>3 DEF ScanInv, MakeCandidates, Phases
<1>5. ASSUME UNCHANGED ntfsVars PROVE ScanInv'
    <2>1. VolumeInv' /\ KnownOK(Known, next)'
        BY <1>5, StillKnown DEF ntfsVars, scanVars
    <2> QED
        BY <1>5, <2>1 DEF ScanInv, ntfsVars, scanVars, Phases, Deleted, Candidate
<1> QED
    BY <1>1, <1>2, <1>3, <1>4, <1>5, BootstrapKeeps, ReadBatchKeeps, ReadAloneKeeps,
       BeginMergeKeeps, MergeExtensionsKeeps, OthersKeep DEF NtfsNext, ScanStep

LEMMA ScanStarts ==
    ASSUME NtfsInit
    PROVE  ScanInv
<1>1. VolumeInv
    BY VolumeStarts DEF NtfsInit
<1>2. Known = [entries |-> Nothing, extensions |-> [r \in {} |-> <<>>], complete |-> TRUE]
    BY DEF NtfsInit, ScanInit, Known
<1>3. Nothing \in EntryMaps
    <2>1. Nothing \in [{} -> Entries]
        BY DEF Nothing
    <2> QED
        BY <2>1 DEF EntryMaps
<1>4. [r \in {} |-> <<>>] \in References
    <2>1. [r \in {} |-> <<>>] \in [{} -> Seq(Records)]
        OBVIOUS
    <2> QED
        BY <2>1 DEF References
<1>5. Known \in Knowledge /\ DOMAIN Known.entries = {}
    BY <1>2, <1>3, <1>4 DEF Knowledge, Nothing
<1>6. HasAll(Known, 0)
    BY RecordFacts DEF HasAll, Records
<1>7. KnownOK(Known, next)
    BY <1>5, <1>6 DEF KnownOK, NtfsInit, ScanInit
<1> QED
    BY <1>1, <1>7, LimitsAssumption DEF ScanInv, NtfsInit, ScanInit, Phases

THEOREM ScanInvariant == NtfsSpec => []ScanInv
<1>1. NtfsInit => ScanInv
    BY ScanStarts
<1>2. ScanInv /\ [NtfsNext]_ntfsVars => ScanInv'
    BY ScanKeepsInv
<1> QED
    BY <1>1, <1>2, PTL DEF NtfsSpec

(* A scan that calls itself complete has every file that was deleted when  *)
(* it began and that nobody has touched since (complete is cleared by each *)
(* record that is lost, and by each that may have been freed unseen).      *)
THEOREM NothingMissed == NtfsSpec => []CompleteScanMissesNothing
<1>1. ASSUME ScanInv PROVE CompleteScanMissesNothing
    <2> SUFFICES ASSUME phase = "complete", namespace.complete,
                        NEW r \in quiet \cap UserRecords, IsBase(r), ~table[r].inUse
                 PROVE  \E c \in candidates : /\ c.id = r /\ c.sequence = table[r].sequence
                                              /\ c.name = BestName(table[r].names)[1].name
        BY DEF CompleteScanMissesNothing
    <2>1. complete
        <3>1. namespace = BuildNamespace(entries, complete)
            BY <1>1 DEF ScanInv
        <3>2. \A e, c : BuildNamespace(e, c).complete => c
            BY DEF BuildNamespace
        <3> QED
            BY <3>1, <3>2
    <2>2. r \in Records /\ r < next /\ r >= FirstUserRecord
        <3>1. next = LastRecord + 1
            BY <1>1, <2>1 DEF ScanInv
        <3>2. r \in Records /\ r \in FirstUserRecord .. LastRecord
            BY RecordFacts DEF UserRecords
        <3> QED
            BY <3>1, <3>2, LimitsAssumption
    <2>3. HasAll(Known, next)
        BY <1>1, <2>1 DEF ScanInv, KnownOK, Known
    <2>4. /\ r \in DOMAIN entries
          /\ entries[r].sequence = table[r].sequence /\ ~entries[r].inUse
          /\ entries[r].names = table[r].names /\ table[r].names # <<>>
        BY <2>2, <2>3 DEF HasAll, Untouched, Known
    <2>5. r \in Deleted
        BY <2>2, <2>4 DEF Deleted
    <2>6. Candidate(r) \in candidates
        BY <1>1, <2>5 DEF ScanInv
    <2>7. /\ Candidate(r).id = r /\ Candidate(r).sequence = entries[r].sequence
          /\ Candidate(r).name = BestName(entries[r].names)[1].name
        BY DEF Candidate
    <2> QED
        BY <2>4, <2>6, <2>7
<1> QED
    BY <1>1, ScanInvariant, PTL

-----------------------------------------------------------------------------
(* What is said of folders and paths: the links up from what is retained.  *)

ParentOf(n) == [record |-> n.parent, sequence |-> n.parentSequence]
ProperLinks ==
    UNION {{n \in Range(entries[r].names) : n.kind # "dos"} : r \in DOMAIN entries}

LEMMA EntryFacts ==
    ASSUME ScanInv
    PROVE  /\ DOMAIN entries \subseteq Records
           /\ \A r \in DOMAIN entries : entries[r] \in Entries /\ EntryOK(r, entries[r])
           /\ ProperLinks \subseteq LinksOf(entries) /\ LinksOf(entries) \subseteq FileNames
           /\ \A r \in DOMAIN entries :
                 /\ UsefulNames(entries[r]) \in Seq(FileNames)
                 /\ \A i \in DOMAIN UsefulNames(entries[r]) :
                       /\ UsefulNames(entries[r])[i] \in Range(entries[r].names)
                       /\ UsefulNames(entries[r])[i].kind # "dos"
                       /\ UsefulNames(entries[r])[i] \in ProperLinks
                 /\ \A n \in Range(entries[r].names) : n.kind # "dos" =>
                       \E i \in DOMAIN UsefulNames(entries[r]) : UsefulNames(entries[r])[i] = n
<1>1. PICK S \in SUBSET Records : entries \in [S -> Entries]
    BY DEF ScanInv, KnownOK, Knowledge, Known, EntryMaps
<1>2. DOMAIN entries \subseteq Records /\ \A r \in DOMAIN entries : entries[r] \in Entries
    BY <1>1
<1>3. \A r \in DOMAIN entries : EntryOK(r, entries[r])
    BY DEF ScanInv, KnownOK, Known
<1>4. \A r \in DOMAIN entries : Range(entries[r].names) \subseteq FileNames
    BY <1>2 DEF Entries, Range
<1> DEFINE own(r) == {n \in Range(entries[r].names) : n.kind # "dos"}
<1>5. ProperLinks = UNION {own(r) : r \in DOMAIN entries}
    BY DEF ProperLinks
<1>6. LinksOf(entries) \subseteq FileNames
    BY <1>4 DEF LinksOf
<1>7. ProperLinks \subseteq LinksOf(entries)
    BY <1>5 DEF LinksOf
<1>8. ASSUME NEW r \in DOMAIN entries
      PROVE  /\ UsefulNames(entries[r]) \in Seq(FileNames)
             /\ \A i \in DOMAIN UsefulNames(entries[r]) :
                   /\ UsefulNames(entries[r])[i] \in Range(entries[r].names)
                   /\ UsefulNames(entries[r])[i].kind # "dos"
                   /\ UsefulNames(entries[r])[i] \in ProperLinks
             /\ \A n \in Range(entries[r].names) : n.kind # "dos" =>
                   \E i \in DOMAIN UsefulNames(entries[r]) : UsefulNames(entries[r])[i] = n
    <2> DEFINE names == entries[r].names
               P == {n \in Range(names) : n.kind # "dos"}
               kept == Filter(names, P)
    <2>1. names \in Seq(FileNames)
        BY <1>2 DEF Entries
    <2>2. UsefulNames(entries[r]) = kept
        BY DEF UsefulNames, Proper
    <2> HIDE DEF names
    <2>3. kept \in Seq(FileNames \cap P)
        <3> HIDE DEF P
        <3> QED
            BY <2>1, FilterKeeps
    <2>4. \A i \in DOMAIN names : names[i] \in P => \E j \in DOMAIN kept : kept[j] = names[i]
        <3> HIDE DEF P, names
        <3> TAKE i \in DOMAIN names
        <3> HAVE names[i] \in P
        <3> QED
            BY <2>1, FilterReaches
    <2>5. own(r) = P
        BY DEF names
    <2>6. \A i \in DOMAIN kept : kept[i] \in P
        BY <2>3
    <2>7. kept \in Seq(FileNames)
        BY <2>3
    <2>8. P \subseteq ProperLinks
        <3> HIDE DEF P, own
        <3> QED
            BY <1>5, <2>5
    <2>9. \A n \in P : \E j \in DOMAIN kept : kept[j] = n
        BY <2>4 DEF Range
    <2> HIDE DEF kept
    <2>10. /\ kept \in Seq(FileNames)
           /\ \A i \in DOMAIN kept : /\ kept[i] \in Range(names) /\ kept[i].kind # "dos"
                                     /\ kept[i] \in ProperLinks
           /\ \A n \in Range(names) : n.kind # "dos" => \E i \in DOMAIN kept : kept[i] = n
        BY <2>6, <2>7, <2>8, <2>9
    <2> QED
        BY <2>2, <2>10 DEF names
<1> QED
    BY <1>2, <1>3, <1>6, <1>7, <1>8

(* A reference to a record that passes for the generation it names, and is *)
(* not mistaken, names the generation that was retained.                   *)
LEMMA SmallRemainder ==
    ASSUME NEW m \in Nat, NEW i \in 0 .. m - 1
    PROVE  i % m = i
<1>1. i = (m * (i \div m)) + (i % m) /\ (i % m) \in 0 .. m - 1 /\ i \div m \in Int
    OBVIOUS
<1> QED
    BY <1>1

LEMMA Generations ==
    ASSUME ScanInv, ~Mistaken, NEW n \in LinksOf(entries), n.parent \in DOMAIN entries,
           SameGeneration(entries[n.parent], n.parentSequence)
    PROVE  Identity(n.parent, entries[n.parent]) = ParentOf(n)
<1> DEFINE p == n.parent
           e == entries[p]
           s == n.parentSequence
<1>1. n \in FileNames /\ e \in Entries
    BY EntryFacts
<1>2. s \in Sequences /\ e.sequence \in Sequences /\ e.inUse \in BOOLEAN
    BY <1>1 DEF FileNames, Entries
<1>3. CASE e.inUse
    <2>1. e.sequence = s
        BY <1>3 DEF SameGeneration
    <2> QED
        BY <2>1, <1>3 DEF Identity, ParentOf
<1>4. CASE ~e.inUse
    <2>1. e.sequence # s
        <3>1. PICK r \in DOMAIN entries : n \in Range(entries[r].names)
            BY DEF LinksOf
        <3> QED
            BY <1>4, <3>1 DEF Mistaken
    <2>2. e.sequence = (s + 1) % SequenceLimit
        BY <2>1 DEF SameGeneration
    <2> DEFINE L == SequenceLimit
    <2>3. L \in Nat \ {0} /\ s \in 0 .. L - 1
        BY <1>2, LimitsAssumption DEF Sequences
    <2> HIDE DEF s, L, e
    <2>4. (((s + 1) % L) - 1) % L = s
        <3>1. CASE s + 1 = L
            <4>1. L % L = 0 /\ (0 - 1) % L = L - 1
                BY <2>3
            <4> QED
                BY <3>1, <4>1, <2>3
        <3>2. CASE s + 1 # L
            <4>1. s + 1 \in 0 .. L - 1
                BY <3>2, <2>3
            <4>2. (s + 1) % L = s + 1
                BY <4>1, <2>3, SmallRemainder
            <4>3. s % L = s
                BY <2>3, SmallRemainder
            <4>4. s + 1 - 1 = s
                BY <2>3
            <4> DEFINE t == (s + 1) % L
            <4>5. t = s + 1
                BY <4>2
            <4> HIDE DEF t
            <4>6. t - 1 = s
                BY <4>4, <4>5, <2>3
            <4>7. (t - 1) % L = s
                BY <4>3, <4>6
            <4> QED
                BY <4>7 DEF t
        <3> QED
            BY <3>1, <3>2
    <2>5. (e.sequence - 1) % L = s
        BY <2>2, <2>4 DEF L
    <2> QED
        BY <2>5, <1>4 DEF Identity, ParentOf, s, L, e
<1> QED
    BY <1>2, <1>3, <1>4

(* The link from what is retained of a record up along one of its names.   *)
LEMMA RetainedLinks ==
    ASSUME ScanInv, NEW r \in DOMAIN entries, NEW n \in Range(entries[r].names), n.kind # "dos"
    PROVE  /\ LinkOf(r, entries[r], n) \in links
           /\ LinkOf(r, entries[r], n).node = Identity(r, entries[r])
           /\ LinkOf(r, entries[r], n).name = n.name
           /\ LinkOf(r, entries[r], n).parent = ParentOf(n)
           /\ Identity(r, entries[r]) \in Nodes /\ ParentOf(n) \in Nodes
<1>1. LinkOf(r, entries[r], n) \in links
    BY EntryFacts DEF EntryOK
<1>2. LinkOf(r, entries[r], n) \in Links
    BY <1>1 DEF ScanInv, VolumeInv
<1> QED
    BY <1>1, <1>2 DEF LinkOf, ParentOf, Links

(* The sets that Reaching goes through, one for each number of links.      *)
Above(found, avoided) ==
    found \cup {l.node : l \in {m \in links : m.parent \in found /\ m.node \notin avoided}}
Ladders(goal, avoided) ==
    {b \in [0 .. MaxPathDepth + 1 -> SUBSET Nodes] :
        /\ b[0] = {goal} \ avoided
        /\ \A k \in 1 .. MaxPathDepth + 1 : b[k] = Above(b[k - 1], avoided)
        /\ Reaching(goal, avoided) = b[MaxPathDepth + 1]}

LEMMA LadderExists ==
    ASSUME links \subseteq Links, NEW goal \in Nodes, NEW avoided
    PROVE  Ladders(goal, avoided) # {}
<1> DEFINE n == MaxPathDepth + 1
           A == SUBSET Nodes
           step == [k \in 1 .. n |-> [a \in A |-> Above(a, avoided)]]
           below == CHOOSE f : f = [k \in 0 .. n |->
                       IF k = 0 THEN {goal} \ avoided ELSE Above(f[k - 1], avoided)]
<1>1. n \in Nat /\ {goal} \ avoided \in A
    BY LimitsAssumption
<1>2. \A a \in A : Above(a, avoided) \in A
    BY DEF Above, Links
<1>3. PICK g \in [0 .. n -> A] :
          g[0] = {goal} \ avoided /\ \A k \in 1 .. n : g[k] = step[k][g[k - 1]]
    <2>1. \A k \in 1 .. n : \A a \in A : step[k][a] \in A
        BY <1>2
    <2> HIDE DEF n, A, step
    <2>2. Recursions(n, A, {goal} \ avoided, step) # {}
        BY <1>1, <2>1, RecursionExists, Zenon
    <2> QED
        BY <2>2 DEF Recursions
<1> HIDE DEF n
<1>4. /\ 0 \in 0 .. n /\ n \in 0 .. n
      /\ \A k \in 1 .. n : k \in 0 .. n /\ k - 1 \in 0 .. n /\ k # 0
      /\ \A k \in 0 .. n : k # 0 => k \in 1 .. n
    BY <1>1
<1>5. \A k \in 1 .. n : g[k] = Above(g[k - 1], avoided)
    BY <1>3, <1>4
<1>6. g = [k \in 0 .. n |-> IF k = 0 THEN {goal} \ avoided ELSE Above(g[k - 1], avoided)]
    BY <1>3, <1>4, <1>5
<1>7. below = [k \in 0 .. n |->
                 IF k = 0 THEN {goal} \ avoided ELSE Above(below[k - 1], avoided)]
    BY <1>6, Zenon
<1>8. Reaching(goal, avoided) = below[n]
    BY DEF Reaching, Above, n
<1> HIDE DEF below
<1>9. below[0] = {goal} \ avoided /\ \A k \in 1 .. n : below[k] = Above(below[k - 1], avoided)
    BY <1>4, <1>7
<1>10. \A k \in 0 .. n : below[k] \in A
    <2> DEFINE G == {k \in 0 .. n : below[k] \in A}
    <2> HIDE DEF A
    <2>1. 0 \in G
        BY <1>1, <1>4, <1>9
    <2>2. \A k \in 1 .. n : k - 1 \in G => k \in G
        BY <1>2, <1>4, <1>9
    <2> HIDE DEF G
    <2>3. \A k \in 0 .. n : k \in G
        BY <1>1, <2>1, <2>2, Upward
    <2> QED
        BY <2>3 DEF G
<1>11. below \in [0 .. n -> A]
    BY <1>7, <1>10
<1>12. below \in Ladders(goal, avoided)
    BY <1>8, <1>9, <1>11 DEF Ladders, n
<1> QED
    BY <1>12

(* Each contains the one before, and whoever has a link into it.           *)
LEMMA LadderFacts ==
    ASSUME NEW goal, NEW avoided, NEW b \in Ladders(goal, avoided),
           NEW k \in 1 .. MaxPathDepth + 1
    PROVE  /\ b[k - 1] \subseteq b[k]
           /\ \A l \in links : l.parent \in b[k - 1] /\ l.node \notin avoided => l.node \in b[k]
<1>1. b[k] = Above(b[k - 1], avoided)
    BY DEF Ladders
<1>2. \A found : /\ found \subseteq Above(found, avoided)
                 /\ \A l \in links : l.parent \in found /\ l.node \notin avoided =>
                       l.node \in Above(found, avoided)
    BY DEF Above
<1> QED
    BY <1>1, <1>2

LEMMA LadderStarts ==
    ASSUME NEW goal, NEW avoided, NEW b \in Ladders(goal, avoided), goal \notin avoided
    PROVE  \A k \in 0 .. MaxPathDepth + 1 : goal \in b[k]
<1> DEFINE n == MaxPathDepth + 1
           G == {k \in 0 .. n : goal \in b[k]}
<1>1. n \in Nat /\ 0 \in 0 .. n
    BY LimitsAssumption
<1>2. 0 \in G
    BY <1>1 DEF Ladders
<1>3. ASSUME NEW k \in 1 .. n, k - 1 \in G PROVE k \in G
    <2>1. b[k - 1] \subseteq b[k] /\ k \in 0 .. n
        BY LadderFacts
    <2> QED
        BY <1>3, <2>1
<1>4. \A k \in 0 .. n : k \in G
    <2> HIDE DEF G, n
    <2> QED
        BY <1>1, <1>2, <1>3, Upward
<1> QED
    BY <1>4

(* Those that had a path: the top of the volume, and then name by name.    *)
Named(name, above) ==
    {l.node : l \in {m \in links : m.name = name /\ m.parent \in above}}
Tops == {l.parent : l \in {m \in links : m.parent.record = RootRecord}}
Chains(components) ==
    {c \in [0 .. Len(components) -> SUBSET Nodes] :
        /\ c[0] = Tops
        /\ \A k \in 1 .. Len(components) : c[k] = Named(components[k], c[k - 1])
        /\ HavingPath(components) = c[Len(components)]}

LEMMA ChainExists ==
    ASSUME links \subseteq Links, NEW T, NEW components \in Seq(T)
    PROVE  Chains(components) # {}
<1> DEFINE n == Len(components)
           A == SUBSET Nodes
           step == [k \in 1 .. n |-> [a \in A |-> Named(components[k], a)]]
           at == CHOOSE f : f = [k \in 0 .. n |->
                       IF k = 0 THEN Tops ELSE Named(components[k], f[k - 1])]
<1>1. n \in Nat /\ Tops \in A
    <2>1. \A l \in links : l.parent \in Nodes
        BY DEF Links
    <2>2. Tops \subseteq Nodes
        BY <2>1 DEF Tops
    <2> QED
        BY <2>2
<1>2. \A name : \A a \in A : Named(name, a) \in A
    BY DEF Named, Links
<1>3. PICK g \in [0 .. n -> A] : g[0] = Tops /\ \A k \in 1 .. n : g[k] = step[k][g[k - 1]]
    <2>1. \A k \in 1 .. n : \A a \in A : step[k][a] \in A
        BY <1>2
    <2> HIDE DEF n, A, step
    <2>2. Recursions(n, A, Tops, step) # {}
        BY <1>1, <2>1, RecursionExists, Zenon
    <2> QED
        BY <2>2 DEF Recursions
<1> HIDE DEF n
<1>4. /\ 0 \in 0 .. n /\ n \in 0 .. n
      /\ \A k \in 1 .. n : k \in 0 .. n /\ k - 1 \in 0 .. n /\ k # 0
      /\ \A k \in 0 .. n : k # 0 => k \in 1 .. n
    BY <1>1
<1>5. \A k \in 1 .. n : g[k] = Named(components[k], g[k - 1])
    BY <1>3, <1>4
<1>6. g = [k \in 0 .. n |-> IF k = 0 THEN Tops ELSE Named(components[k], g[k - 1])]
    BY <1>3, <1>4, <1>5
<1>7. at = [k \in 0 .. n |-> IF k = 0 THEN Tops ELSE Named(components[k], at[k - 1])]
    BY <1>6, Zenon
<1>8. HavingPath(components) = at[n]
    BY DEF HavingPath, Named, Tops, n
<1> HIDE DEF at
<1>9. at[0] = Tops /\ \A k \in 1 .. n : at[k] = Named(components[k], at[k - 1])
    BY <1>4, <1>7
<1>10. \A k \in 0 .. n : at[k] \in A
    <2> DEFINE G == {k \in 0 .. n : at[k] \in A}
    <2> HIDE DEF A
    <2>1. 0 \in G
        BY <1>1, <1>4, <1>9
    <2>2. \A k \in 1 .. n : k - 1 \in G => k \in G
        BY <1>2, <1>4, <1>9
    <2> HIDE DEF G
    <2>3. \A k \in 0 .. n : k \in G
        BY <1>1, <2>1, <2>2, Upward
    <2> QED
        BY <2>3 DEF G
<1>11. at \in [0 .. n -> A]
    BY <1>7, <1>10
<1>12. at \in Chains(components)
    BY <1>8, <1>9, <1>11 DEF Chains, n
<1> QED
    BY <1>12

LEMMA HavingNoName ==
    ASSUME links \subseteq Links
    PROVE  HavingPath(<<>>) = Tops
<1>1. <<>> \in Seq(Nat) /\ Len(<<>>) = 0
    OBVIOUS
<1>2. PICK c : c \in Chains(<<>>)
    BY <1>1, ChainExists
<1> QED
    BY <1>1, <1>2 DEF Chains

LEMMA HavingOneMore ==
    ASSUME links \subseteq Links, NEW T, NEW folders \in Seq(T), NEW name \in T
    PROVE  HavingPath(Append(folders, name)) = Named(name, HavingPath(folders))
<1> DEFINE more == Append(folders, name)
           n == Len(folders)
<1>1. /\ more \in Seq(T) /\ n \in Nat /\ Len(more) = n + 1 /\ more[n + 1] = name
      /\ \A k \in 1 .. n : more[k] = folders[k]
    OBVIOUS
<1> HIDE DEF more
<1>2. PICK c : c \in Chains(folders)
    BY ChainExists
<1>3. PICK d : d \in Chains(more)
    BY <1>1, ChainExists
<1>4. /\ c[0] = Tops /\ \A k \in 1 .. n : c[k] = Named(folders[k], c[k - 1])
      /\ HavingPath(folders) = c[n]
    BY <1>2 DEF Chains
<1>5. /\ d[0] = Tops /\ \A k \in 1 .. n + 1 : d[k] = Named(more[k], d[k - 1])
      /\ HavingPath(more) = d[n + 1]
    BY <1>1, <1>3 DEF Chains
<1> HIDE DEF n
<1>6. /\ 0 \in 0 .. n /\ n \in 0 .. n /\ n + 1 \in 1 .. n + 1 /\ n + 1 - 1 = n
      /\ \A k \in 1 .. n : k \in 0 .. n /\ k \in 1 .. n + 1
    BY <1>1
<1>7. \A k \in 0 .. n : c[k] = d[k]
    <2> DEFINE G == {k \in 0 .. n : c[k] = d[k]}
    <2>1. 0 \in G
        BY <1>4, <1>5, <1>6
    <2>2. \A k \in 1 .. n : k - 1 \in G => k \in G
        BY <1>1, <1>4, <1>5, <1>6
    <2> HIDE DEF G
    <2>3. \A k \in 0 .. n : k \in G
        BY <1>1, <2>1, <2>2, Upward
    <2> QED
        BY <2>3 DEF G
<1>8. d[n + 1] = Named(name, d[n])
    BY <1>1, <1>5, <1>6
<1> QED
    BY <1>4, <1>5, <1>6, <1>7, <1>8 DEF more

-----------------------------------------------------------------------------
(* The ways up that are found for a name.                                  *)

States == {"exact", "reconstructed", "incomplete", "orphaned"}
Trusted == {"exact", "reconstructed"}
WaysUp == [folders : Seq(Names \cup SystemNames), ancestors : Seq(Nodes), state : States]
Found  == [paths : Seq(WaysUp), complete : BOOLEAN]

(* What a way up p from the parent of n says of directory d: in is the set *)
(* of what reaches d, out of what reaches the root without d.              *)
TrueWay(n, p, d, in, out) ==
    /\ d \in Range(p.ancestors) => ParentOf(n) \in in
    /\ d \notin Range(p.ancestors) /\ p.state \in Trusted => ParentOf(n) \in out
    /\ p.state = "exact" => ParentOf(n) \in HavingPath(p.folders)
TrueWays(n, x, d, in, out) ==
    /\ x \in Found /\ x.paths # <<>>
    /\ \A i \in DOMAIN x.paths : TrueWay(n, x.paths[i], d, in, out)

LEMMA WorseFacts ==
    ASSUME NEW p \in States, NEW q \in States
    PROVE  /\ Worse(p, q) \in States
           /\ Worse(p, q) \in Trusted => p \in Trusted
           /\ Worse(p, q) = "exact" => p = "exact"
           /\ Worse(p, q) \in Trusted => q \in Trusted
           /\ Worse(p, q) = "exact" => q = "exact"
BY DEF Worse, Rank, States, Trusted

LEMMA AppendRange ==
    ASSUME NEW T, NEW s \in Seq(T), NEW x \in T
    PROVE  /\ Append(s, x) \in Seq(T)
           /\ \A y : y \in Range(Append(s, x)) <=> y \in Range(s) \/ y = x
<1>1. /\ Append(s, x) \in Seq(T) /\ DOMAIN Append(s, x) = 1 .. Len(s) + 1 /\ Len(s) \in Nat
      /\ DOMAIN s = 1 .. Len(s) /\ Append(s, x)[Len(s) + 1] = x
      /\ \A i \in 1 .. Len(s) : Append(s, x)[i] = s[i]
    OBVIOUS
<1> DEFINE t == Append(s, x)
<1> HIDE DEF t
<1>2. \A i \in DOMAIN s : i \in DOMAIN t /\ t[i] = s[i]
    BY <1>1 DEF t
<1>3. \A i \in DOMAIN t : i \in DOMAIN s \/ i = Len(s) + 1
    BY <1>1 DEF t
<1>4. Len(s) + 1 \in DOMAIN t /\ t[Len(s) + 1] = x
    BY <1>1 DEF t
<1>5. \A y : y \in Range(t) <=> y \in Range(s) \/ y = x
    BY <1>2, <1>3, <1>4 DEF Range
<1> QED
    BY <1>1, <1>5 DEF t

LEMMA UptoFacts ==
    ASSUME NEW T, NEW s \in Seq(T), NEW n \in Nat \ {0}
    PROVE  /\ Upto(s, n) \in Seq(T) /\ (s # <<>> => Upto(s, n) # <<>>)
           /\ \A i \in DOMAIN Upto(s, n) : i \in DOMAIN s /\ Upto(s, n)[i] = s[i]
<1>1. CASE Len(s) <= n
    BY <1>1 DEF Upto
<1>2. CASE ~(Len(s) <= n)
    <2> DEFINE t == SubSeq(s, 1, n)
    <2>1. /\ t \in Seq(T) /\ Len(t) = n /\ n \in 1 .. Len(s)
          /\ \A i \in 1 .. n : t[i] = s[i] /\ i \in 1 .. Len(s)
        BY <1>2
    <2>2. Upto(s, n) = t
        BY <1>2 DEF Upto
    <2> HIDE DEF t
    <2>3. DOMAIN t = 1 .. n /\ DOMAIN s = 1 .. Len(s) /\ t # <<>>
        BY <2>1
    <2> QED
        BY <2>1, <2>2, <2>3
<1> QED
    BY <1>1, <1>2

(* One link further up: the generation that n names has a link that was    *)
(* retained to what m names.                                               *)
LEMMA WayOneUp ==
    ASSUME ScanInv, ~Mistaken, NEW n \in LinksOf(entries), n.parent \in DOMAIN entries,
           SameGeneration(entries[n.parent], n.parentSequence),
           NEW r \in DOMAIN entries, entries[r].inUse, NEW d, d = Node(entries, r),
           NEW b \in Ladders(d, {}), NEW c \in Ladders(Root, {d}),
           NEW k \in 1 .. MaxPathDepth + 1,
           NEW m \in Range(entries[n.parent].names), m.kind # "dos",
           NEW p \in WaysUp, TrueWay(m, p, d, b[k - 1], c[k - 1]), NEW state \in States
    PROVE  TrueWay(n, Parents(Append(p.folders, m.name),
                              Append(p.ancestors, Node(entries, n.parent)),
                              Worse(p.state, state)), d, b[k], c[k])
<1> DEFINE node == Node(entries, n.parent)
           q == Parents(Append(p.folders, m.name), Append(p.ancestors, node),
                        Worse(p.state, state))
           l == LinkOf(n.parent, entries[n.parent], m)
<1>1. /\ l \in links /\ l.node = ParentOf(n) /\ l.name = m.name /\ l.parent = ParentOf(m)
    BY Generations, RetainedLinks
<1>2. /\ q.folders = Append(p.folders, m.name) /\ q.ancestors = Append(p.ancestors, node)
      /\ q.state = Worse(p.state, state)
    BY DEF Parents
<1>3. /\ p.state \in States /\ p.ancestors \in Seq(Nodes)
      /\ p.folders \in Seq(Names \cup SystemNames) /\ m.name \in Names \cup SystemNames
    <2>1. m \in FileNames
        BY EntryFacts DEF Entries, Range
    <2> QED
        BY <2>1 DEF WaysUp, FileNames
<1>4. node \in Nodes
    <2>1. n.parent \in Records /\ entries[n.parent] \in Entries
        BY EntryFacts
    <2> QED
        BY <2>1, RecordFacts DEF Node, Nodes, Entries
<1>5. (n.parent = r \/ node = d) => ParentOf(n) = d /\ node = d
    <2>1. node = d => n.parent = r
        BY DEF Node
    <2>2. n.parent = r => ParentOf(n) = d /\ node = d
        BY Generations DEF Identity, Node
    <2> QED
        BY <2>1, <2>2
<1>6. \A y : y \in Range(q.ancestors) <=> y \in Range(p.ancestors) \/ y = node
    <2> HIDE DEF q, l, node
    <2>1. p.ancestors \in Seq(Nodes)
        BY <1>3
    <2>2. \A y : y \in Range(Append(p.ancestors, node)) <=> y \in Range(p.ancestors) \/ y = node
        BY <2>1, <1>4, AppendRange
    <2>3. q.ancestors = Append(p.ancestors, node)
        BY <1>2
    <2> QED
        BY <2>2, <2>3
<1> HIDE DEF q, l, node
<1>7. ASSUME d \in Range(q.ancestors) PROVE ParentOf(n) \in b[k]
    <2>1. CASE d = node
        <3>1. d \in b[k]
            <4>1. k \in 0 .. MaxPathDepth + 1
                BY LimitsAssumption
            <4> QED
                BY <4>1, LadderStarts
        <3> QED
            BY <2>1, <3>1, <1>5
    <2>2. CASE d \in Range(p.ancestors)
        <3>1. l.parent \in b[k - 1]
            BY <2>2, <1>1 DEF TrueWay
        <3> QED
            BY <3>1, <1>1, LadderFacts
    <2> QED
        BY <1>6, <1>7, <2>1, <2>2
<1>8. ASSUME d \notin Range(q.ancestors), q.state \in Trusted PROVE ParentOf(n) \in c[k]
    <2>1. d \notin Range(p.ancestors) /\ d # node /\ p.state \in Trusted
        BY <1>2, <1>3, <1>6, <1>8, WorseFacts
    <2>2. l.parent \in c[k - 1]
        BY <2>1, <1>1 DEF TrueWay
    <2>3. ParentOf(n) # d
        <3> SUFFICES ASSUME ParentOf(n) = d PROVE FALSE
            OBVIOUS
        <3>1. n.parent = r
            BY DEF ParentOf, Node
        <3> QED
            BY <3>1, <2>1, <1>5
    <2> QED
        BY <2>2, <2>3, <1>1, LadderFacts
<1>9. ASSUME q.state = "exact" PROVE ParentOf(n) \in HavingPath(q.folders)
    <2>1. p.state = "exact"
        BY <1>2, <1>3, <1>9, WorseFacts
    <2>2. ParentOf(m) \in HavingPath(p.folders)
        BY <2>1 DEF TrueWay
    <2>3. HavingPath(q.folders) = Named(m.name, HavingPath(p.folders))
        BY <1>2, <1>3, HavingOneMore DEF ScanInv, VolumeInv
    <2>4. l.node \in Named(m.name, HavingPath(p.folders))
        BY <2>2, <1>1 DEF Named
    <2> QED
        BY <2>3, <2>4, <1>1
<1>10. TrueWay(n, q, d, b[k], c[k])
    BY <1>7, <1>8, <1>9 DEF TrueWay
<1> QED
    BY <1>10 DEF q, node

(* The ways up from directory r: those of each of its names, one further.  *)
StateOf(r) ==
    IF ~entries[r].whole THEN "incomplete"
    ELSE IF ~entries[r].inUse THEN "reconstructed" ELSE "exact"
Longer(r, m, p) ==
    Parents(Append(p.folders, m.name), Append(p.ancestors, Node(entries, r)),
            Worse(p.state, StateOf(r)))
Ways(r, above) ==
    LET names == UsefulNames(entries[r])
    IN  Flattened([i \in DOMAIN names |->
            [j \in DOMAIN above[i].paths |-> Longer(r, names[i], above[i].paths[j])]])

LEMMA StateFacts ==
    ASSUME NEW r
    PROVE  StateOf(r) \in States
BY DEF StateOf, States

LEMMA LongerIsTyped ==
    ASSUME ScanInv, NEW r \in DOMAIN entries, NEW m \in FileNames, NEW p \in WaysUp
    PROVE  Longer(r, m, p) \in WaysUp
<1>1. Node(entries, r) \in Nodes
    <2>1. r \in Records /\ entries[r] \in Entries
        BY EntryFacts
    <2> QED
        BY <2>1, RecordFacts DEF Node, Nodes, Entries
<1>2. /\ p.folders \in Seq(Names \cup SystemNames) /\ p.ancestors \in Seq(Nodes)
      /\ p.state \in States /\ m.name \in Names \cup SystemNames
    BY DEF WaysUp, FileNames
<1>3. /\ Append(p.folders, m.name) \in Seq(Names \cup SystemNames)
      /\ Append(p.ancestors, Node(entries, r)) \in Seq(Nodes)
      /\ Worse(p.state, StateOf(r)) \in States
    BY <1>1, <1>2, StateFacts, WorseFacts
<1> QED
    BY <1>3 DEF Longer, Parents, WaysUp

LEMMA WaysFacts ==
    ASSUME ScanInv, NEW r \in DOMAIN entries, UsefulNames(entries[r]) # <<>>, NEW above,
           \A i \in DOMAIN UsefulNames(entries[r]) : above[i] \in Found
    PROVE  LET names == UsefulNames(entries[r])
               kept  == Upto(Ways(r, above), MaxPathsPerName)
           IN  /\ kept \in Seq(WaysUp) /\ Len(Ways(r, above)) \in Nat
               /\ (\A i \in DOMAIN names : above[i].paths # <<>>) => kept # <<>>
               /\ \A k \in DOMAIN kept : \E i \in DOMAIN names : \E j \in DOMAIN above[i].paths :
                     kept[k] = Longer(r, names[i], above[i].paths[j])
<1> DEFINE names == UsefulNames(entries[r])
           row(i) == [j \in DOMAIN above[i].paths |-> Longer(r, names[i], above[i].paths[j])]
           s == [i \in DOMAIN names |-> row(i)]
           all == Ways(r, above)
           kept == Upto(all, MaxPathsPerName)
<1>1. /\ names \in Seq(FileNames) /\ names # <<>>
      /\ \A i \in DOMAIN names : names[i] \in FileNames
    BY EntryFacts
<1>2. ASSUME NEW i \in DOMAIN names PROVE row(i) \in Seq(WaysUp)
    <2> DEFINE paths == above[i].paths
               m == names[i]
    <2>1. paths \in Seq(WaysUp) /\ m \in FileNames
        BY <1>1 DEF Found
    <2> HIDE DEF paths, m
    <2>2. \A j \in DOMAIN paths : Longer(r, m, paths[j]) \in WaysUp
        BY <2>1, LongerIsTyped
    <2>3. [j \in DOMAIN paths |-> Longer(r, m, paths[j])] \in Seq(WaysUp)
        BY <2>1, <2>2
    <2> QED
        BY <2>3 DEF paths, m
<1>3. all = Flattened(s)
    BY DEF Ways
<1> HIDE DEF names, all, row
<1>4. s \in Seq(Seq(WaysUp)) /\ DOMAIN s = DOMAIN names
    BY <1>1, <1>2
<1>5. \A i \in DOMAIN names : s[i] = row(i)
    OBVIOUS
<1> HIDE DEF s
<1>6. /\ all \in Seq(WaysUp)
      /\ \A i \in DOMAIN s : \A j \in DOMAIN s[i] : \E k \in DOMAIN all : all[k] = s[i][j]
      /\ \A k \in DOMAIN all : \E i \in DOMAIN s : \E j \in DOMAIN s[i] : all[k] = s[i][j]
    <2>1. /\ Flattened(s) \in Seq(WaysUp)
          /\ \A i \in DOMAIN s : \A j \in DOMAIN s[i] :
                \E k \in DOMAIN Flattened(s) : Flattened(s)[k] = s[i][j]
          /\ \A k \in DOMAIN Flattened(s) :
                \E i \in DOMAIN s : \E j \in DOMAIN s[i] : Flattened(s)[k] = s[i][j]
        BY <1>4, FlattenedHas
    <2> QED
        BY <1>3, <2>1
<1>7. /\ kept \in Seq(WaysUp) /\ (all # <<>> => kept # <<>>) /\ Len(all) \in Nat
      /\ \A k \in DOMAIN kept : k \in DOMAIN all /\ kept[k] = all[k]
    BY <1>6, UptoFacts, LimitsAssumption
<1>8. ASSUME \A i \in DOMAIN names : above[i].paths # <<>> PROVE kept # <<>>
    <2>1. 1 \in DOMAIN names
        BY <1>1
    <2>2. above[1].paths \in Seq(WaysUp) /\ above[1].paths # <<>>
        BY <2>1, <1>8 DEF Found, names
    <2>3. 1 \in DOMAIN row(1)
        BY <2>2 DEF row
    <2>4. \E k \in DOMAIN all : TRUE
        BY <2>1, <2>3, <1>4, <1>5, <1>6
    <2>5. all # <<>>
        BY <2>4
    <2> QED
        BY <2>5, <1>7
<1>9. ASSUME NEW k \in DOMAIN kept
      PROVE  \E i \in DOMAIN names : \E j \in DOMAIN above[i].paths :
                 kept[k] = Longer(r, names[i], above[i].paths[j])
    <2>1. k \in DOMAIN all /\ kept[k] = all[k]
        BY <1>7, <1>9
    <2>2. PICK i \in DOMAIN s : \E j \in DOMAIN s[i] : all[k] = s[i][j]
        BY <2>1, <1>6
    <2>3. PICK j \in DOMAIN s[i] : all[k] = s[i][j]
        BY <2>2
    <2>4. i \in DOMAIN names /\ s[i] = row(i)
        BY <1>4, <1>5
    <2>5. j \in DOMAIN above[i].paths /\ row(i)[j] = Longer(r, names[i], above[i].paths[j])
        BY <2>3, <2>4 DEF row
    <2> QED
        BY <2>1, <2>3, <2>4, <2>5
<1> QED
    BY <1>7, <1>8, <1>9 DEF names, all

(* What PathsThrough has, case by case.                                    *)
LEMMA ThroughCases ==
    ASSUME ScanInv, NEW n \in LinksOf(entries), n.parent \in DOMAIN entries, NEW above
    PROVE  LET r == n.parent
               x == PathsThrough(entries, n, above)
           IN  \/ x = Orphaned
               \/ /\ r = RootRecord /\ ParentOf(n) = Node(entries, r)
                  /\ x = [paths |-> <<Parents(<<>>, <<Node(entries, r)>>, StateOf(r))>>,
                          complete |-> TRUE]
               \/ /\ SameGeneration(entries[r], n.parentSequence)
                  /\ x = [paths |-> <<Parents(<<>>, <<Node(entries, r)>>, "orphaned")>>,
                          complete |-> TRUE]
               \/ /\ SameGeneration(entries[r], n.parentSequence)
                  /\ UsefulNames(entries[r]) # <<>>
                  /\ x = [paths |-> Upto(Ways(r, above), MaxPathsPerName),
                          complete |-> /\ Len(Ways(r, above)) <= MaxPathsPerName
                                       /\ \A i \in DOMAIN UsefulNames(entries[r]) :
                                             above[i].complete]
<1> DEFINE r == n.parent
           x == PathsThrough(entries, n, above)
<1>1. CASE ~entries[r].dir
    BY <1>1, Zenon DEF PathsThrough
<1>2. CASE entries[r].dir /\ r = RootRecord
    <2>1. ParentOf(n) = Node(entries, r) <=> entries[r].sequence = n.parentSequence
        BY DEF ParentOf, Node
    <2> QED
        BY <1>2, <2>1, Zenon DEF PathsThrough, StateOf
<1>3. CASE entries[r].dir /\ r # RootRecord
    <2>1. x = IF ~SameGeneration(entries[r], n.parentSequence) THEN Orphaned
              ELSE IF UsefulNames(entries[r]) = <<>>
              THEN [paths |-> <<Parents(<<>>, <<Node(entries, r)>>, "orphaned")>>,
                    complete |-> TRUE]
              ELSE [paths |-> Upto(Ways(r, above), MaxPathsPerName),
                    complete |-> /\ Len(Ways(r, above)) <= MaxPathsPerName
                                 /\ \A i \in DOMAIN UsefulNames(entries[r]) :
                                       above[i].complete]
        BY <1>3, Zenon DEF PathsThrough, StateOf, Longer, Ways
    <2> QED
        BY <2>1
<1> QED
    BY <1>1, <1>2, <1>3

LEMMA OneWay ==
    ASSUME NEW w \in WaysUp, NEW done \in BOOLEAN
    PROVE  /\ [paths |-> <<w>>, complete |-> done] \in Found /\ <<w>> # <<>>
           /\ \A i \in DOMAIN <<w>> : <<w>>[i] = w
<1>1. /\ <<w>> \in Seq(WaysUp) /\ <<w>> # <<>>
      /\ \A i \in DOMAIN <<w>> : <<w>>[i] = w
    OBVIOUS
<1> QED
    BY <1>1 DEF Found

LEMMA SimpleWays ==
    ASSUME ScanInv
    PROVE  /\ \A state \in States : Parents(<<>>, <<>>, state) \in WaysUp
           /\ \A r \in DOMAIN entries, state \in States :
                 Parents(<<>>, <<Node(entries, r)>>, state) \in WaysUp
<1>1. \A r \in DOMAIN entries : Node(entries, r) \in Nodes
    <2> TAKE r \in DOMAIN entries
    <2>1. r \in Records /\ entries[r] \in Entries
        BY EntryFacts
    <2> QED
        BY <2>1, RecordFacts DEF Node, Nodes, Entries
<1>2. \A r \in DOMAIN entries : <<Node(entries, r)>> \in Seq(Nodes)
    BY <1>1
<1>3. <<>> \in Seq(Nodes) /\ <<>> \in Seq(Names \cup SystemNames)
    OBVIOUS
<1> QED
    BY <1>2, <1>3 DEF Parents, WaysUp

LEMMA ThroughIsTyped ==
    ASSUME ScanInv, NEW n \in LinksOf(entries), n.parent \in DOMAIN entries, NEW above,
           \A i \in DOMAIN UsefulNames(entries[n.parent]) : above[i] \in Found
    PROVE  PathsThrough(entries, n, above) \in Found
<1> DEFINE r == n.parent
           x == PathsThrough(entries, n, above)
<1>0. "orphaned" \in States /\ StateOf(r) \in States
    BY StateFacts DEF States
<1>1. CASE x = Orphaned
    BY <1>0, <1>1, SimpleWays, OneWay DEF Orphaned
<1>2. CASE x = [paths |-> <<Parents(<<>>, <<Node(entries, r)>>, StateOf(r))>>, complete |-> TRUE]
    BY <1>0, <1>2, SimpleWays, OneWay
<1>3. CASE x = [paths |-> <<Parents(<<>>, <<Node(entries, r)>>, "orphaned")>>, complete |-> TRUE]
    BY <1>0, <1>3, SimpleWays, OneWay
<1>4. CASE /\ UsefulNames(entries[r]) # <<>>
           /\ x = [paths |-> Upto(Ways(r, above), MaxPathsPerName),
                   complete |-> /\ Len(Ways(r, above)) <= MaxPathsPerName
                                /\ \A i \in DOMAIN UsefulNames(entries[r]) : above[i].complete]
    <2>1. Upto(Ways(r, above), MaxPathsPerName) \in Seq(WaysUp)
        BY <1>4, WaysFacts
    <2> DEFINE done == /\ Len(Ways(r, above)) <= MaxPathsPerName
                       /\ \A i \in DOMAIN UsefulNames(entries[r]) : above[i].complete
               kept == Upto(Ways(r, above), MaxPathsPerName)
    <2>2. done \in BOOLEAN /\ kept \in Seq(WaysUp) /\ x = [paths |-> kept, complete |-> done]
        BY <2>1, <1>4
    <2> HIDE DEF done, kept, x
    <2>3. x \in Found
        BY <2>2 DEF Found
    <2> QED
        BY <2>3 DEF x
<1> HIDE DEF x
<1>5. x \in Found
    <2>1. \/ x = Orphaned
          \/ x = [paths |-> <<Parents(<<>>, <<Node(entries, r)>>, StateOf(r))>>, complete |-> TRUE]
          \/ x = [paths |-> <<Parents(<<>>, <<Node(entries, r)>>, "orphaned")>>, complete |-> TRUE]
          \/ /\ UsefulNames(entries[r]) # <<>>
             /\ x = [paths |-> Upto(Ways(r, above), MaxPathsPerName),
                     complete |-> /\ Len(Ways(r, above)) <= MaxPathsPerName
                                  /\ \A i \in DOMAIN UsefulNames(entries[r]) : above[i].complete]
        BY ThroughCases, Zenon DEF x
    <2> QED
        BY <2>1, <1>1, <1>2, <1>3, <1>4 DEF x
<1> QED
    BY <1>5 DEF x

(* One step of the expansion keeps its ways true.                          *)
LEMMA ThroughIsTrue ==
    ASSUME ScanInv, ~Mistaken, NEW n \in ProperLinks, n.parent \in DOMAIN entries, NEW above,
           NEW r \in DOMAIN entries, entries[r].inUse, NEW d, d = Node(entries, r),
           NEW b \in Ladders(d, {}), NEW c \in Ladders(Root, {d}),
           NEW k \in 1 .. MaxPathDepth + 1,
           \A i \in DOMAIN UsefulNames(entries[n.parent]) :
               TrueWays(UsefulNames(entries[n.parent])[i], above[i], d, b[k - 1], c[k - 1])
    PROVE  TrueWays(n, PathsThrough(entries, n, above), d, b[k], c[k])
<1> DEFINE u == n.parent
           names == UsefulNames(entries[u])
           x == PathsThrough(entries, n, above)
           node == Node(entries, u)
<1>1. n \in LinksOf(entries) /\ \A i \in DOMAIN names : above[i] \in Found
    BY EntryFacts DEF TrueWays
<1>2. x \in Found
    BY <1>1, ThroughIsTyped
<1>3. SameGeneration(entries[u], n.parentSequence) => (node = d => ParentOf(n) = d)
    <2> SUFFICES ASSUME SameGeneration(entries[u], n.parentSequence), node = d
                 PROVE  ParentOf(n) = d
        OBVIOUS
    <2>1. u = r
        BY DEF Node
    <2>2. Identity(u, entries[u]) = node
        BY <2>1 DEF Identity, Node
    <2>3. Identity(u, entries[u]) = ParentOf(n)
        BY <1>1, Generations
    <2> QED
        BY <2>2, <2>3
<1>4. d \in b[k] /\ (d # Root => Root \in c[k])
    <2>1. k \in 0 .. MaxPathDepth + 1
        BY LimitsAssumption
    <2>2. d \in b[k]
        BY <2>1, LadderStarts
    <2>3. d # Root => Root \in c[k]
        BY <2>1, LadderStarts
    <2> QED
        BY <2>2, <2>3
<1>5. ASSUME NEW w, x = [paths |-> <<w>>, complete |-> TRUE], TrueWay(n, w, d, b[k], c[k])
      PROVE  TrueWays(n, x, d, b[k], c[k])
    <2>1. x.paths = <<w>> /\ <<w>> # <<>> /\ \A i \in DOMAIN <<w>> : <<w>>[i] = w
        BY <1>5
    <2> HIDE DEF x
    <2> QED
        BY <2>1, <1>2, <1>5 DEF TrueWays
<1>6. CASE x = Orphaned
    <2> DEFINE w == Parents(<<>>, <<>>, "orphaned")
    <2>1. w.ancestors = <<>> /\ w.state = "orphaned" /\ Range(<<>>) = {}
        BY DEF Parents, Range
    <2>2. TrueWay(n, w, d, b[k], c[k])
        BY <2>1 DEF TrueWay, Trusted
    <2>3. x = [paths |-> <<w>>, complete |-> TRUE]
        BY <1>6 DEF Orphaned
    <2> HIDE DEF w, x
    <2> QED
        BY <2>2, <2>3, <1>5 DEF x
<1>7. CASE /\ u = RootRecord /\ ParentOf(n) = node
           /\ x = [paths |-> <<Parents(<<>>, <<node>>, StateOf(u))>>, complete |-> TRUE]
    <2> DEFINE w == Parents(<<>>, <<node>>, StateOf(u))
    <2>1. w.ancestors = <<node>> /\ w.folders = <<>> /\ Range(<<node>>) = {node}
        BY DEF Parents, Range
    <2>2. node = Root
        <3>1. EntryOK(u, entries[u])
            BY EntryFacts
        <3> QED
            BY <3>1, <1>7 DEF EntryOK, Node, Root
    <2>3. ParentOf(n) \in HavingPath(<<>>)
        <3>1. PICK v \in DOMAIN entries : n \in Range(entries[v].names) /\ n.kind # "dos"
            BY DEF ProperLinks
        <3>2. /\ LinkOf(v, entries[v], n) \in links
              /\ LinkOf(v, entries[v], n).parent = ParentOf(n)
            BY <3>1, RetainedLinks
        <3>3. ParentOf(n).record = RootRecord
            BY <1>7 DEF ParentOf
        <3>4. ParentOf(n) \in Tops
            BY <3>2, <3>3 DEF Tops
        <3> QED
            BY <3>4, HavingNoName DEF ScanInv, VolumeInv
    <2>4. TrueWay(n, w, d, b[k], c[k])
        BY <2>1, <2>2, <2>3, <1>4, <1>7 DEF TrueWay
    <2>5. x = [paths |-> <<w>>, complete |-> TRUE]
        BY <1>7
    <2> HIDE DEF w, x
    <2> QED
        BY <2>4, <2>5, <1>5 DEF x
<1>8. CASE /\ SameGeneration(entries[u], n.parentSequence)
           /\ x = [paths |-> <<Parents(<<>>, <<node>>, "orphaned")>>, complete |-> TRUE]
    <2> DEFINE w == Parents(<<>>, <<node>>, "orphaned")
    <2>1. w.ancestors = <<node>> /\ w.state = "orphaned" /\ Range(<<node>>) = {node}
        BY DEF Parents, Range
    <2>2. TrueWay(n, w, d, b[k], c[k])
        BY <2>1, <1>3, <1>4, <1>8 DEF TrueWay, Trusted
    <2>3. x = [paths |-> <<w>>, complete |-> TRUE]
        BY <1>8
    <2> HIDE DEF w, x
    <2> QED
        BY <2>2, <2>3, <1>5 DEF x
<1>9. CASE /\ SameGeneration(entries[u], n.parentSequence)
           /\ names # <<>>
           /\ x = [paths |-> Upto(Ways(u, above), MaxPathsPerName),
                   complete |-> /\ Len(Ways(u, above)) <= MaxPathsPerName
                                /\ \A i \in DOMAIN names : above[i].complete]
    <2> DEFINE kept == Upto(Ways(u, above), MaxPathsPerName)
    <2>1. /\ (\A i \in DOMAIN names : above[i].paths # <<>>) => kept # <<>>
          /\ \A l \in DOMAIN kept : \E i \in DOMAIN names : \E j \in DOMAIN above[i].paths :
                kept[l] = Longer(u, names[i], above[i].paths[j])
        BY <1>1, <1>9, WaysFacts
    <2> HIDE DEF kept
    <2>2. kept # <<>>
        BY <2>1 DEF TrueWays
    <2>3. ASSUME NEW l \in DOMAIN kept PROVE TrueWay(n, kept[l], d, b[k], c[k])
        <3>0. PICK i \in DOMAIN names : \E j \in DOMAIN above[i].paths :
                  kept[l] = Longer(u, names[i], above[i].paths[j])
            BY <2>1
        <3>1. PICK j \in DOMAIN above[i].paths : kept[l] = Longer(u, names[i], above[i].paths[j])
            BY <3>0
        <3> DEFINE m == names[i]
                   p == above[i].paths[j]
                   state == StateOf(u)
        <3>2. m \in Range(entries[u].names) /\ m.kind # "dos"
            BY EntryFacts
        <3>3. TrueWays(m, above[i], d, b[k - 1], c[k - 1])
            OBVIOUS
        <3>4. p \in WaysUp /\ TrueWay(m, p, d, b[k - 1], c[k - 1]) /\ state \in States
            BY <3>3, StateFacts DEF TrueWays, Found
        <3> HIDE DEF m, p, state
        <3>5. TrueWay(n, Parents(Append(p.folders, m.name), Append(p.ancestors, Node(entries, u)),
                                 Worse(p.state, state)), d, b[k], c[k])
            BY <3>2, <3>4, <1>1, <1>9, WayOneUp
        <3> QED
            BY <3>1, <3>5 DEF Longer, m, p, state
    <2> HIDE DEF x
    <2>4. x.paths = kept
        BY <1>9 DEF kept
    <2>5. TrueWays(n, x, d, b[k], c[k])
        BY <2>2, <2>3, <2>4, <1>2 DEF TrueWays
    <2> QED
        BY <2>5 DEF x
<1> HIDE DEF x, node, names
<1>10. \/ x = Orphaned
       \/ /\ u = RootRecord /\ ParentOf(n) = node
          /\ x = [paths |-> <<Parents(<<>>, <<node>>, StateOf(u))>>, complete |-> TRUE]
       \/ /\ SameGeneration(entries[u], n.parentSequence)
          /\ x = [paths |-> <<Parents(<<>>, <<node>>, "orphaned")>>, complete |-> TRUE]
       \/ /\ SameGeneration(entries[u], n.parentSequence)
          /\ names # <<>>
          /\ x = [paths |-> Upto(Ways(u, above), MaxPathsPerName),
                  complete |-> /\ Len(Ways(u, above)) <= MaxPathsPerName
                               /\ \A i \in DOMAIN names : above[i].complete]
    BY <1>1, ThroughCases, Zenon DEF x, node, names
<1>11. TrueWays(n, x, d, b[k], c[k])
    BY <1>10, <1>6, <1>7, <1>8, <1>9, Zenon DEF x, node, names
<1> QED
    BY <1>11 DEF x

(* The function that the expansion computes, by what is left of the depth. *)
Tables == [LinksOf(entries) -> [SUBSET DOMAIN entries -> Found]]
Cut == [paths |-> <<Parents(<<>>, <<>>, "incomplete")>>, complete |-> FALSE]
AllCut == [m \in LinksOf(entries) |-> [seen \in SUBSET DOMAIN entries |-> Cut]]
Onward(m, seen, above) ==
    [i \in DOMAIN UsefulNames(entries[m.parent]) |->
        above[UsefulNames(entries[m.parent])[i]][seen \cup {m.parent}]]

LEMMA CutIsFound ==
    ASSUME ScanInv
    PROVE  Cut \in Found /\ Orphaned \in Found /\ AllCut \in Tables
<1>1. "incomplete" \in States /\ "orphaned" \in States
    BY DEF States
<1>2. Cut \in Found /\ Orphaned \in Found
    BY <1>1, SimpleWays, OneWay DEF Cut, Orphaned
<1>3. AllCut \in Tables
    <2> HIDE DEF Cut
    <2> QED
        BY <1>2 DEF AllCut, Tables
<1> QED
    BY <1>2, <1>3

LEMMA PathsFromFacts ==
    ASSUME ScanInv, NEW above \in Tables, NEW m \in LinksOf(entries),
           NEW seen \in SUBSET DOMAIN entries
    PROVE  /\ PathsFrom(entries, above)[m][seen] \in Found
           /\ \/ PathsFrom(entries, above)[m][seen] = Orphaned
              \/ /\ m.parent \in DOMAIN entries
                 /\ PathsFrom(entries, above)[m][seen]
                       = PathsThrough(entries, m, Onward(m, seen, above))
<1>1. PathsFrom(entries, above)[m][seen] =
          IF m.parent \in seen \/ m.parent \notin DOMAIN entries THEN Orphaned
          ELSE PathsThrough(entries, m, Onward(m, seen, above))
    BY DEF PathsFrom, Onward
<1>2. ASSUME m.parent \in DOMAIN entries
      PROVE  PathsThrough(entries, m, Onward(m, seen, above)) \in Found
    <2> DEFINE names == UsefulNames(entries[m.parent])
               on == seen \cup {m.parent}
    <2>1. on \in SUBSET DOMAIN entries
        BY <1>2
    <2>2. \A i \in DOMAIN names : names[i] \in LinksOf(entries)
        BY <1>2, EntryFacts
    <2>3. \A i \in DOMAIN names : Onward(m, seen, above)[i] = above[names[i]][on]
        BY DEF Onward
    <2> HIDE DEF names, on
    <2>4. \A i \in DOMAIN names : Onward(m, seen, above)[i] \in Found
        BY <2>1, <2>2, <2>3 DEF Tables
    <2> QED
        BY <2>4, <1>2, ThroughIsTyped DEF names
<1> QED
    BY <1>1, <1>2, CutIsFound

Expansions ==
    {up \in [0 .. MaxPathDepth -> Tables] :
        /\ up[0] = AllCut
        /\ \A k \in 1 .. MaxPathDepth : up[k] = PathsFrom(entries, up[k - 1])
        /\ \A m, seen : ExpandParentPaths(entries, m, seen) = up[MaxPathDepth][m][seen]}

LEMMA ExpansionExists ==
    ASSUME ScanInv
    PROVE  Expansions # {}
<1> DEFINE n == MaxPathDepth
           A == Tables
           step == [k \in 1 .. n |-> [a \in A |-> PathsFrom(entries, a)]]
           up == CHOOSE f : f = [k \in 0 .. n |->
                    IF k = 0 THEN AllCut ELSE PathsFrom(entries, f[k - 1])]
<1>1. n \in Nat /\ AllCut \in A
    BY LimitsAssumption, CutIsFound
<1>2. \A a \in A : PathsFrom(entries, a) \in A
    <2> TAKE a \in A
    <2>1. \A m \in LinksOf(entries), seen \in SUBSET DOMAIN entries :
              PathsFrom(entries, a)[m][seen] \in Found
        BY PathsFromFacts
    <2>2. PathsFrom(entries, a) = [m \in LinksOf(entries) |->
              [seen \in SUBSET DOMAIN entries |-> PathsFrom(entries, a)[m][seen]]]
        BY Zenon DEF PathsFrom
    <2> DEFINE F == PathsFrom(entries, a)
    <2> HIDE DEF F
    <2>3. F \in Tables
        BY <2>1, <2>2 DEF Tables, F
    <2> QED
        BY <2>3 DEF F
<1>3. PICK g \in [0 .. n -> A] : g[0] = AllCut /\ \A k \in 1 .. n : g[k] = step[k][g[k - 1]]
    <2>1. \A k \in 1 .. n : \A a \in A : step[k][a] \in A
        BY <1>2
    <2> HIDE DEF n, A, step
    <2>2. Recursions(n, A, AllCut, step) # {}
        BY <1>1, <2>1, RecursionExists, Zenon
    <2> QED
        BY <2>2 DEF Recursions
<1> HIDE DEF n
<1>4. /\ 0 \in 0 .. n /\ n \in 0 .. n
      /\ \A k \in 1 .. n : k \in 0 .. n /\ k - 1 \in 0 .. n /\ k # 0
      /\ \A k \in 0 .. n : k # 0 => k \in 1 .. n
    BY <1>1
<1>5. \A k \in 1 .. n : g[k] = PathsFrom(entries, g[k - 1])
    BY <1>3, <1>4
<1>6. g = [k \in 0 .. n |-> IF k = 0 THEN AllCut ELSE PathsFrom(entries, g[k - 1])]
    BY <1>3, <1>4, <1>5
<1>7. up = [k \in 0 .. n |-> IF k = 0 THEN AllCut ELSE PathsFrom(entries, up[k - 1])]
    BY <1>6, Zenon
<1>8. \A m, seen : ExpandParentPaths(entries, m, seen) = up[n][m][seen]
    BY Zenon DEF ExpandParentPaths, AllCut, Cut, n
<1> HIDE DEF up
<1>9. up[0] = AllCut /\ \A k \in 1 .. n : up[k] = PathsFrom(entries, up[k - 1])
    BY <1>4, <1>7
<1>10. \A k \in 0 .. n : up[k] \in A
    <2> DEFINE G == {k \in 0 .. n : up[k] \in A}
    <2> HIDE DEF A
    <2>1. 0 \in G
        BY <1>1, <1>4, <1>9
    <2>2. \A k \in 1 .. n : k - 1 \in G => k \in G
        BY <1>2, <1>4, <1>9
    <2> HIDE DEF G
    <2>3. \A k \in 0 .. n : k \in G
        BY <1>1, <2>1, <2>2, Upward
    <2> QED
        BY <2>3 DEF G
<1>11. up \in [0 .. n -> A]
    <2> HIDE DEF A
    <2> QED
        BY <1>7, <1>10
<1>12. up \in Expansions
    BY <1>8, <1>9, <1>11 DEF Expansions, n
<1> QED
    BY <1>12

(* Every way up that the expansion finds is true.                          *)
LEMMA ExpandedWays ==
    ASSUME ScanInv, ~Mistaken,
           NEW r \in DOMAIN entries, entries[r].inUse, NEW d, d = Node(entries, r),
           NEW b \in Ladders(d, {}), NEW c \in Ladders(Root, {d}),
           NEW n \in ProperLinks, NEW visited \in SUBSET DOMAIN entries
    PROVE  TrueWays(n, ExpandParentPaths(entries, n, visited), d,
                    b[MaxPathDepth], c[MaxPathDepth])
<1>1. PICK up : up \in Expansions
    BY ExpansionExists
<1>2. /\ up \in [0 .. MaxPathDepth -> Tables] /\ up[0] = AllCut
      /\ \A k \in 1 .. MaxPathDepth : up[k] = PathsFrom(entries, up[k - 1])
      /\ ExpandParentPaths(entries, n, visited) = up[MaxPathDepth][n][visited]
    BY <1>1 DEF Expansions
<1> DEFINE T(k) == \A m \in ProperLinks, seen \in SUBSET DOMAIN entries :
                      TrueWays(m, up[k][m][seen], d, b[k], c[k])
           G == {k \in 0 .. MaxPathDepth : T(k)}
<1>3. MaxPathDepth \in Nat /\ 0 \in 0 .. MaxPathDepth /\ MaxPathDepth \in 0 .. MaxPathDepth
    BY LimitsAssumption
<1>a. \A w, x, m, k : /\ x = [paths |-> <<w>>, complete |-> TRUE]
                         \/ x = [paths |-> <<w>>, complete |-> FALSE]
                      /\ x \in Found
                      /\ w = Parents(<<>>, <<>>, "orphaned") \/ w = Parents(<<>>, <<>>, "incomplete")
                      => TrueWays(m, x, d, b[k], c[k])
    <2> SUFFICES ASSUME NEW w, NEW x, NEW m, NEW k,
                        \/ x = [paths |-> <<w>>, complete |-> TRUE]
                        \/ x = [paths |-> <<w>>, complete |-> FALSE],
                        x \in Found,
                        \/ w = Parents(<<>>, <<>>, "orphaned")
                        \/ w = Parents(<<>>, <<>>, "incomplete")
                 PROVE  TrueWays(m, x, d, b[k], c[k])
        OBVIOUS
    <2>1. x.paths = <<w>> /\ <<w>> # <<>> /\ \A i \in DOMAIN <<w>> : <<w>>[i] = w
        OBVIOUS
    <2>2. w.ancestors = <<>> /\ w.state \notin Trusted /\ w.state # "exact" /\ Range(<<>>) = {}
        BY DEF Parents, Trusted, Range
    <2>3. TrueWay(m, w, d, b[k], c[k])
        BY <2>2 DEF TrueWay
    <2> QED
        BY <2>1, <2>3 DEF TrueWays
<1>b. \A m, k : TrueWays(m, Orphaned, d, b[k], c[k]) /\ TrueWays(m, Cut, d, b[k], c[k])
    BY <1>a, CutIsFound DEF Orphaned, Cut
<1>4. T(0)
    <2> TAKE m \in ProperLinks, seen \in SUBSET DOMAIN entries
    <2>1. m \in LinksOf(entries)
        BY EntryFacts
    <2>2. up[0][m][seen] = Cut
        BY <1>2, <2>1 DEF AllCut
    <2> QED
        BY <2>2, <1>b
<1>5. ASSUME NEW k \in 1 .. MaxPathDepth, T(k - 1) PROVE T(k)
    <2> TAKE m \in ProperLinks, seen \in SUBSET DOMAIN entries
    <2> DEFINE above == up[k - 1]
               p == m.parent
               names == UsefulNames(entries[p])
    <2>1. m \in LinksOf(entries) /\ above \in Tables /\ up[k] = PathsFrom(entries, above)
        <3>1. k - 1 \in 0 .. MaxPathDepth
            BY <1>3
        <3> QED
            BY <1>2, <3>1, EntryFacts
    <2> HIDE DEF above
    <2>2. CASE up[k][m][seen] = Orphaned
        BY <2>2, <1>b
    <2>3. CASE /\ p \in DOMAIN entries
               /\ up[k][m][seen] = PathsThrough(entries, m, Onward(m, seen, above))
        <3> DEFINE on == Onward(m, seen, above)
                   further == seen \cup {p}
        <3>1. \A i \in DOMAIN names : names[i] \in ProperLinks
            BY <2>3, EntryFacts
        <3>2. further \in SUBSET DOMAIN entries
            BY <2>3
        <3>3. \A i \in DOMAIN names : on[i] = above[names[i]][further]
            BY DEF Onward
        <3> HIDE DEF on, further, names
        <3>4. \A i \in DOMAIN names : TrueWays(names[i], on[i], d, b[k - 1], c[k - 1])
            BY <3>1, <3>2, <3>3, <1>5 DEF above
        <3>5. k \in 1 .. MaxPathDepth + 1
            BY <1>3
        <3>6. TrueWays(m, PathsThrough(entries, m, on), d, b[k], c[k])
            BY <3>4, <3>5, <2>3, ThroughIsTrue DEF names
        <3> QED
            BY <3>6, <2>3 DEF on
    <2> QED
        BY <2>1, <2>2, <2>3, PathsFromFacts
<1>6. \A k \in 0 .. MaxPathDepth : k \in G
    <2> HIDE DEF T
    <2>1. 0 \in G
        BY <1>3, <1>4
    <2>2. ASSUME NEW k \in 1 .. MaxPathDepth, k - 1 \in G PROVE k \in G
        <3>1. T(k - 1) /\ k \in 0 .. MaxPathDepth
            BY <2>2
        <3> QED
            BY <3>1, <1>5
    <2> HIDE DEF G
    <2> QED
        BY <1>3, <2>1, <2>2, Upward
<1>7. T(MaxPathDepth)
    <2> HIDE DEF T
    <2> QED
        BY <1>3, <1>6
<1> QED
    BY <1>2, <1>7

-----------------------------------------------------------------------------
(* The namespace has the ways up of every record, and no others.           *)

PathOf(r, n, p) ==
    [node |-> Node(entries, r), name |-> n.name, folders |-> p.folders,
     ancestors |-> p.ancestors,
     state |-> Worse(p.state, IF entries[r].whole THEN "exact" ELSE "incomplete")]
UpFrom(r, n) == ExpandParentPaths(entries, n, {r}).paths
Listed == DOMAIN entries \ {RootRecord}

LEMMA ExpandedIsFound ==
    ASSUME ScanInv, NEW n \in LinksOf(entries), NEW visited \in SUBSET DOMAIN entries
    PROVE  ExpandParentPaths(entries, n, visited) \in Found
<1>1. PICK up : up \in Expansions
    BY ExpansionExists
<1>2. /\ up[MaxPathDepth] \in Tables
      /\ ExpandParentPaths(entries, n, visited) = up[MaxPathDepth][n][visited]
    BY <1>1, LimitsAssumption DEF Expansions
<1> QED
    BY <1>2 DEF Tables

LEMMA InOrderFacts ==
    ASSUME NEW S \in SUBSET Records
    PROVE  /\ InOrder(S) \in Seq(S)
           /\ \A r \in S : \E i \in DOMAIN InOrder(S) : InOrder(S)[i] = r
<1> DEFINE all == [k \in 1 .. LastRecord + 1 |-> k - 1]
<1>1. all \in Seq(Records) /\ DOMAIN all = 1 .. LastRecord + 1
    <2>1. LastRecord + 1 \in Nat /\ \A k \in 1 .. LastRecord + 1 : k - 1 \in Records
        BY LimitsAssumption DEF Records
    <2> QED
        BY <2>1
<1>2. \A r \in Records : r + 1 \in DOMAIN all /\ all[r + 1] = r
    <2> TAKE r \in Records
    <2>1. r + 1 \in 1 .. LastRecord + 1 /\ (r + 1) - 1 = r
        BY LimitsAssumption DEF Records
    <2>2. all[r + 1] = (r + 1) - 1
        BY <2>1
    <2> QED
        BY <2>1, <2>2, <1>1
<1>3. InOrder(S) = Filter(all, S)
    BY DEF InOrder
<1> HIDE DEF all
<1>4. Filter(all, S) \in Seq(Records \cap S)
    BY <1>1, FilterKeeps, Zenon
<1>5. \A i \in DOMAIN all : all[i] \in S =>
          \E j \in DOMAIN Filter(all, S) : Filter(all, S)[j] = all[i]
    <2> TAKE i \in DOMAIN all
    <2> HAVE all[i] \in S
    <2> QED
        BY <1>1, FilterReaches
<1>6. Records \cap S = S
    OBVIOUS
<1>7. InOrder(S) \in Seq(S)
    BY <1>3, <1>4, <1>6, Zenon
<1>8. \A r \in S : \E i \in DOMAIN InOrder(S) : InOrder(S)[i] = r
    <2> TAKE r \in S
    <2>1. r + 1 \in DOMAIN all /\ all[r + 1] \in S
        BY <1>2
    <2>2. PICK j \in DOMAIN Filter(all, S) : Filter(all, S)[j] = all[r + 1]
        BY <2>1, <1>5, Zenon
    <2> QED
        BY <2>2, <1>2, <1>3, Zenon
<1> QED
    BY <1>7, <1>8

(* A prefix that is counted by some of its positions is one.               *)
LEMMA PrefixFacts ==
    ASSUME NEW T, NEW s \in Seq(T), NEW K \in SUBSET DOMAIN s
    PROVE  LET p == SubSeq(s, 1, Cardinality(K))
           IN  /\ p \in Seq(T)
               /\ \A i \in DOMAIN p : i \in DOMAIN s /\ p[i] = s[i]
               /\ Cardinality(K) = Len(s) => p = s
<1> DEFINE n == Cardinality(K)
<1>1. DOMAIN s = 1 .. Len(s) /\ Len(s) \in Nat
    OBVIOUS
<1>2. n \in Nat /\ n <= Len(s)
    <2>1. IsFiniteSet(1 .. Len(s)) /\ Cardinality(1 .. Len(s)) = Len(s)
        <3> DEFINE L == Len(s)
        <3> HIDE DEF L
        <3>1. IsFiniteSet(1 .. L) /\ Cardinality(1 .. L) = IF 1 > L THEN 0 ELSE L - 1 + 1
            <4>1. 1 \in Int /\ L \in Int
                BY <1>1 DEF L
            <4> QED
                BY <4>1, FS_Interval, Zenon
        <3>2. (1 > L => L = 0) /\ L - 1 + 1 = L
            BY <1>1 DEF L
        <3> QED
            BY <3>1, <3>2 DEF L
    <2>2. IsFiniteSet(K) /\ Cardinality(K) <= Len(s)
        BY <1>1, <2>1, FS_Subset
    <2> QED
        BY <2>2, FS_CardinalityType
<1> HIDE DEF n
<1> DEFINE p == SubSeq(s, 1, n)
<1>3. /\ p \in Seq(T) /\ Len(p) = n /\ DOMAIN p = 1 .. n
      /\ \A i \in 1 .. n : p[i] = s[i] /\ i \in 1 .. Len(s)
    <2>1. \A i \in 1 .. n : i \in 1 .. Len(s) /\ s[i] \in T
        BY <1>1, <1>2
    <2>2. p = [i \in 1 .. n |-> s[i]]
        BY <1>2
    <2> QED
        BY <2>1, <2>2, <1>2
<1>4. n = Len(s) => p = s
    BY <1>1, <1>2
<1> QED
    BY <1>1, <1>3, <1>4 DEF n

LEMMA NamespaceFacts ==
    ASSUME ScanInv
    PROVE  LET ns == BuildNamespace(entries, complete)
           IN  /\ \A p \in Range(ns.paths) :
                     \E r \in Listed : \E i \in DOMAIN UsefulNames(entries[r]) :
                        \E j \in DOMAIN UpFrom(r, UsefulNames(entries[r])[i]) :
                           p = PathOf(r, UsefulNames(entries[r])[i],
                                      UpFrom(r, UsefulNames(entries[r])[i])[j])
               /\ ns.complete =>
                     \A r \in Listed : \A i \in DOMAIN UsefulNames(entries[r]) :
                        \A j \in DOMAIN UpFrom(r, UsefulNames(entries[r])[i]) :
                           PathOf(r, UsefulNames(entries[r])[i],
                                  UpFrom(r, UsefulNames(entries[r])[i])[j]) \in Range(ns.paths)
<1> DEFINE records == InOrder(Listed)
           names(r) == UsefulNames(entries[r])
           one(r, i) == PathsOfName(entries, r, names(r)[i])
           row(r) == [k \in DOMAIN names(r) |-> one(r, k)]
           rows == [i \in DOMAIN records |-> row(records[i])]
           found == Flattened(rows)
           lists == [i \in DOMAIN found |-> found[i].paths]
           all == Flattened(lists)
           K == {k \in DOMAIN all : Within(SubSeq(all, 1, k))}
           ns == BuildNamespace(entries, complete)
           AllPaths == {PathOf(r, m, p) : r \in Listed, m \in ProperLinks, p \in WaysUp}
           AllFound == [paths : Seq(AllPaths), complete : BOOLEAN]
<1>1. Listed \in SUBSET Records /\ Listed \subseteq DOMAIN entries
    BY EntryFacts DEF Listed
<1>2. /\ records \in Seq(Listed)
      /\ \A r \in Listed : \E i \in DOMAIN records : records[i] = r
    BY <1>1, InOrderFacts
<1>3. \A r \in Listed : \A i \in DOMAIN names(r) : names(r)[i] \in ProperLinks
    BY <1>1, EntryFacts
<1>4. /\ ns.paths = SubSeq(all, 1, Cardinality(K))
      /\ ns.complete => Cardinality(K) = Len(all)
    BY DEF BuildNamespace, Listed
<1>5. ASSUME NEW r \in Listed, NEW i \in DOMAIN names(r)
      PROVE  /\ one(r, i).paths = [j \in DOMAIN UpFrom(r, names(r)[i]) |->
                                      PathOf(r, names(r)[i], UpFrom(r, names(r)[i])[j])]
             /\ one(r, i) \in AllFound
    <2> DEFINE m == names(r)[i]
               up == ExpandParentPaths(entries, m, {r})
               paths == [j \in DOMAIN up.paths |-> PathOf(r, m, up.paths[j])]
    <2>1. m \in ProperLinks /\ m \in LinksOf(entries) /\ {r} \in SUBSET DOMAIN entries
        BY <1>1, <1>3, EntryFacts
    <2> HIDE DEF m
    <2>2. up \in Found
        BY <2>1, ExpandedIsFound
    <2>3. one(r, i) = [paths |-> paths, complete |-> up.complete]
        BY DEF PathsOfName, PathOf, m
    <2> HIDE DEF up
    <2>4. up.paths \in Seq(WaysUp) /\ up.complete \in BOOLEAN
        BY <2>2 DEF Found
    <2>5. \A j \in DOMAIN up.paths : PathOf(r, m, up.paths[j]) \in AllPaths
        <3>1. \A w \in WaysUp : PathOf(r, m, w) \in AllPaths
            BY <2>1
        <3> HIDE DEF AllPaths
        <3> QED
            BY <3>1, <2>4
    <2> HIDE DEF AllPaths
    <2>6. paths \in Seq(AllPaths)
        BY <2>4, <2>5
    <2>7. one(r, i) \in AllFound
        BY <2>3, <2>4, <2>6
    <2>8. paths = [j \in DOMAIN UpFrom(r, m) |-> PathOf(r, m, UpFrom(r, m)[j])]
        BY DEF UpFrom, up
    <2> QED
        BY <2>3, <2>7, <2>8 DEF m
<1> HIDE DEF AllPaths, one, ns
<1>6. ASSUME NEW r \in Listed PROVE row(r) \in Seq(AllFound) /\ DOMAIN row(r) = DOMAIN names(r)
    <2>1. names(r) \in Seq(FileNames)
        BY <1>1, EntryFacts
    <2> DEFINE nm == names(r)
    <2> HIDE DEF nm
    <2>2. \A k \in DOMAIN nm : one(r, k) \in AllFound
        BY <1>5 DEF nm
    <2> HIDE DEF AllFound
    <2>3. [k \in DOMAIN nm |-> one(r, k)] \in Seq(AllFound)
        BY <2>1, <2>2 DEF nm
    <2> QED
        BY <2>3 DEF nm
<1>7. rows \in Seq(Seq(AllFound)) /\ DOMAIN rows = DOMAIN records
    <2> DEFINE F == Seq(AllFound)
    <2>1. \A i \in DOMAIN records : records[i] \in Listed
        BY <1>2
    <2>2. \A i \in DOMAIN records : row(records[i]) \in F
        BY <2>1, <1>6
    <2> HIDE DEF F, row, records
    <2>3. rows \in Seq(F)
        BY <1>2, <2>2
    <2> QED
        BY <2>3 DEF F
<1>8. \A i \in DOMAIN records : rows[i] = row(records[i])
    OBVIOUS
<1> HIDE DEF rows, records, AllFound
<1>9. /\ found \in Seq(AllFound)
      /\ \A i \in DOMAIN rows : \A j \in DOMAIN rows[i] :
            \E k \in DOMAIN found : found[k] = rows[i][j]
      /\ \A k \in DOMAIN found :
            \E i \in DOMAIN rows : \E j \in DOMAIN rows[i] : found[k] = rows[i][j]
    BY <1>7, FlattenedHas
<1> HIDE DEF found
<1>10. lists \in Seq(Seq(AllPaths)) /\ DOMAIN lists = DOMAIN found
    <2> DEFINE F == Seq(AllPaths)
    <2>a. \A x \in AllFound : x.paths \in F
        BY DEF AllFound
    <2>1. \A i \in DOMAIN found : found[i].paths \in F
        <3> HIDE DEF F
        <3> QED
            BY <2>a, <1>9
    <2> HIDE DEF F
    <2>2. lists \in Seq(F)
        BY <1>9, <2>1
    <2> QED
        BY <2>2 DEF F
<1>11. \A i \in DOMAIN found : lists[i] = found[i].paths
    OBVIOUS
<1> HIDE DEF lists
<1>12. /\ all \in Seq(AllPaths)
       /\ \A i \in DOMAIN lists : \A j \in DOMAIN lists[i] :
             \E k \in DOMAIN all : all[k] = lists[i][j]
       /\ \A k \in DOMAIN all :
             \E i \in DOMAIN lists : \E j \in DOMAIN lists[i] : all[k] = lists[i][j]
    BY <1>10, FlattenedHas
<1> HIDE DEF all
<1>13. /\ \A i \in DOMAIN ns.paths : i \in DOMAIN all /\ ns.paths[i] = all[i]
       /\ ns.complete => ns.paths = all
    <2>1. K \in SUBSET DOMAIN all
        OBVIOUS
    <2> HIDE DEF K
    <2> QED
        BY <1>4, <1>12, <2>1, PrefixFacts
<1> HIDE DEF row, names
<1>14. ASSUME NEW k \in DOMAIN found
       PROVE  \E r \in Listed : \E i \in DOMAIN names(r) : found[k] = one(r, i)
    <2>1. PICK i \in DOMAIN rows : \E j \in DOMAIN rows[i] : found[k] = rows[i][j]
        BY <1>9
    <2>2. PICK j \in DOMAIN rows[i] : found[k] = rows[i][j]
        BY <2>1
    <2>3. records[i] \in Listed /\ rows[i] = row(records[i])
        BY <1>2, <1>7, <1>8
    <2>4. j \in DOMAIN names(records[i]) /\ row(records[i])[j] = one(records[i], j)
        BY <2>2, <2>3, <1>6 DEF row
    <2> QED
        BY <2>2, <2>3, <2>4
<1>15. ASSUME NEW r \in Listed, NEW i \in DOMAIN names(r)
       PROVE  \E k \in DOMAIN found : found[k] = one(r, i)
    <2>1. PICK l \in DOMAIN records : records[l] = r
        BY <1>2
    <2>2. rows[l] = row(r) /\ l \in DOMAIN rows
        BY <2>1, <1>7, <1>8
    <2>3. i \in DOMAIN row(r) /\ row(r)[i] = one(r, i)
        BY <1>6 DEF row
    <2> QED
        BY <2>2, <2>3, <1>9
<1>16. ASSUME NEW p \in Range(ns.paths)
       PROVE  \E r \in Listed : \E i \in DOMAIN names(r) :
                  \E j \in DOMAIN UpFrom(r, names(r)[i]) :
                     p = PathOf(r, names(r)[i], UpFrom(r, names(r)[i])[j])
    <2>1. PICK k \in DOMAIN all : p = all[k]
        BY <1>13 DEF Range
    <2>2. PICK i \in DOMAIN lists : \E j \in DOMAIN lists[i] : p = lists[i][j]
        BY <2>1, <1>12
    <2>3. PICK j \in DOMAIN lists[i] : p = lists[i][j]
        BY <2>2
    <2>4. i \in DOMAIN found /\ lists[i] = found[i].paths
        BY <1>10, <1>11
    <2>5. PICK r \in Listed : \E l \in DOMAIN names(r) : found[i] = one(r, l)
        BY <2>4, <1>14
    <2>6. PICK l \in DOMAIN names(r) : found[i] = one(r, l)
        BY <2>5
    <2> DEFINE m == names(r)[l]
               U == UpFrom(r, m)
    <2>7. one(r, l).paths = [x \in DOMAIN U |-> PathOf(r, m, U[x])]
        BY <1>5 DEF names
    <2> HIDE DEF m, U
    <2>8. j \in DOMAIN U /\ p = PathOf(r, m, U[j])
        BY <2>3, <2>4, <2>6, <2>7
    <2> QED
        BY <2>8 DEF m, U
<1>17. ASSUME ns.complete, NEW r \in Listed, NEW i \in DOMAIN names(r),
              NEW j \in DOMAIN UpFrom(r, names(r)[i])
       PROVE  PathOf(r, names(r)[i], UpFrom(r, names(r)[i])[j]) \in Range(ns.paths)
    <2> DEFINE m == names(r)[i]
               U == UpFrom(r, m)
    <2>1. one(r, i).paths = [x \in DOMAIN U |-> PathOf(r, m, U[x])]
        BY <1>5 DEF names
    <2>2. j \in DOMAIN U
        OBVIOUS
    <2> HIDE DEF m, U
    <2>3. PICK k \in DOMAIN found : found[k] = one(r, i)
        BY <1>15
    <2>4. lists[k] = one(r, i).paths /\ k \in DOMAIN lists
        BY <2>3, <1>10, <1>11
    <2>5. j \in DOMAIN lists[k] /\ lists[k][j] = PathOf(r, m, U[j])
        BY <2>1, <2>2, <2>4
    <2>6. \E l \in DOMAIN all : all[l] = PathOf(r, m, U[j])
        BY <2>4, <2>5, <1>12
    <2>7. PathOf(r, m, U[j]) \in Range(ns.paths)
        BY <2>6, <1>13, <1>17 DEF Range
    <2> QED
        BY <2>7 DEF m, U
<1> QED
    BY <1>16, <1>17 DEF names, ns

-----------------------------------------------------------------------------
(* The path that is shown for a candidate.                                 *)

Shown == [path : Seq(Names \cup SystemNames), confidence : {"high", "medium", "low"}]
ShownTables == [LinksOf(entries) -> [SUBSET DOMAIN entries -> Shown]]
NoneShown == [m \in LinksOf(entries) |-> [seen \in SUBSET DOMAIN entries |-> Orphan]]
TruePath(n, x) == x # Orphan => ParentOf(n) \in HavingPath(x.path)

LEMMA BestFacts ==
    ASSUME ScanInv, NEW r \in DOMAIN entries, entries[r].names # <<>>
    PROVE  LET m == BestName(entries[r].names)[1]
           IN  /\ m \in Range(entries[r].names) /\ m.kind # "dos" /\ m \in ProperLinks
               /\ m \in FileNames /\ m.name \in Names \cup SystemNames
               /\ BestName(entries[r].names) # <<>>
<1> DEFINE kept == UsefulNames(entries[r])
<1>1. PICK n \in Range(entries[r].names) : n.kind # "dos"
    BY EntryFacts DEF EntryOK
<1>2. /\ kept \in Seq(FileNames) /\ \E i \in DOMAIN kept : kept[i] = n
      /\ \A i \in DOMAIN kept : /\ kept[i] \in Range(entries[r].names)
                                /\ kept[i].kind # "dos" /\ kept[i] \in ProperLinks
    BY <1>1, EntryFacts
<1>3. Proper(entries[r].names) = kept
    BY DEF UsefulNames
<1> HIDE DEF kept
<1>4. kept # <<>> /\ 1 \in DOMAIN kept
    BY <1>2
<1>5. BestName(entries[r].names) = <<kept[1]>>
    BY <1>3, <1>4 DEF BestName
<1>6. kept[1] \in FileNames /\ kept[1].name \in Names \cup SystemNames
    <2>1. \A f \in FileNames : f.name \in Names \cup SystemNames
        BY DEF FileNames
    <2> QED
        BY <2>1, <1>2, <1>4
<1> QED
    BY <1>2, <1>4, <1>5, <1>6

LEMMA NoBestName ==
    ASSUME ScanInv, NEW r \in DOMAIN entries, entries[r].names = <<>>
    PROVE  BestName(entries[r].names) = <<>>
<1> DEFINE kept == UsefulNames(entries[r])
<1>1. \A i \in DOMAIN kept : kept[i] \in Range(<<>>)
    BY EntryFacts
<1>2. kept \in Seq(FileNames) /\ Range(<<>>) = {}
    BY EntryFacts DEF Range
<1>3. Proper(entries[r].names) = kept
    BY DEF UsefulNames
<1> HIDE DEF kept
<1>4. kept = <<>>
    BY <1>1, <1>2
<1>5. Len(<<>>) <= 1
    OBVIOUS
<1> QED
    BY <1>3, <1>4, <1>5 DEF BestName, Upto

(* What a walk shows, case by case, if the walk up from there shows rest.  *)
ShownCases(n, rest, x) ==
    LET r == n.parent
        m == BestName(entries[r].names)[1]
    IN  \/ x = Orphan
        \/ r = RootRecord /\ x = [path |-> <<>>, confidence |-> "high"]
        \/ /\ r \in DOMAIN entries /\ entries[r].names # <<>>
           /\ SameGeneration(entries[r], n.parentSequence)
           /\ rest # Orphan /\ rest \in Shown
           /\ x = [path |-> Append(rest.path, m.name),
                   confidence |-> IF entries[r].inUse THEN rest.confidence ELSE "medium"]

LEMMA PathFromFacts ==
    ASSUME ScanInv, NEW above \in ShownTables, NEW n \in LinksOf(entries),
           NEW seen \in SUBSET DOMAIN entries
    PROVE  /\ PathFrom(entries, above)[n][seen] \in Shown
           /\ ShownCases(n, above[BestName(entries[n.parent].names)[1]][seen \cup {n.parent}],
                         PathFrom(entries, above)[n][seen])
<1> DEFINE r == n.parent
           best == BestName(entries[r].names)
           m == best[1]
           rest == above[m][seen \cup {r}]
           x == PathFrom(entries, above)[n][seen]
<1>1. x = IF r \notin DOMAIN entries THEN Orphan
          ELSE IF ~entries[r].dir THEN Orphan
          ELSE IF r = RootRecord
          THEN IF entries[r].inUse /\ entries[r].sequence = n.parentSequence
               THEN [path |-> <<>>, confidence |-> "high"] ELSE Orphan
          ELSE IF r \in seen \/ best = <<>> \/ ~SameGeneration(entries[r], n.parentSequence)
          THEN Orphan
          ELSE IF rest = Orphan THEN Orphan
          ELSE [path |-> Append(rest.path, m.name),
                confidence |-> IF entries[r].inUse THEN rest.confidence ELSE "medium"]
    BY DEF PathFrom
<1>2. Orphan \in Shown /\ [path |-> <<>>, confidence |-> "high"] \in Shown
    <2>1. <<>> \in Seq(Names \cup SystemNames)
        OBVIOUS
    <2> QED
        BY <2>1 DEF Orphan, Shown
<1>3. r \in DOMAIN entries /\ best # <<>> => entries[r].names # <<>>
    BY NoBestName
<1>4. ASSUME r \in DOMAIN entries, entries[r].names # <<>>
      PROVE  rest \in Shown /\ m.name \in Names \cup SystemNames
    <2>1. m \in LinksOf(entries) /\ m.name \in Names \cup SystemNames
        BY <1>4, BestFacts, EntryFacts
    <2>2. seen \cup {r} \in SUBSET DOMAIN entries
        BY <1>4
    <2> DEFINE on == seen \cup {r}
    <2> HIDE DEF m, on
    <2>3. above[m][on] \in Shown
        BY <2>1, <2>2 DEF ShownTables, on
    <2> QED
        BY <2>1, <2>3 DEF on
<1>5. ASSUME r \in DOMAIN entries, entries[r].names # <<>>
      PROVE  [path |-> Append(rest.path, m.name),
              confidence |-> IF entries[r].inUse THEN rest.confidence ELSE "medium"] \in Shown
    <2> HIDE DEF rest, m
    <2>1. /\ rest.path \in Seq(Names \cup SystemNames)
          /\ rest.confidence \in {"high", "medium", "low"}
          /\ m.name \in Names \cup SystemNames
        BY <1>4, <1>5 DEF Shown
    <2>2. Append(rest.path, m.name) \in Seq(Names \cup SystemNames)
        BY <2>1
    <2> QED
        BY <2>1, <2>2 DEF Shown
<1> HIDE DEF rest, m, best, x
<1>6. x \in Shown
    BY <1>1, <1>2, <1>3, <1>5
<1>7. \/ x = Orphan
      \/ /\ r = RootRecord /\ x = [path |-> <<>>, confidence |-> "high"]
      \/ /\ r \in DOMAIN entries /\ entries[r].names # <<>>
         /\ SameGeneration(entries[r], n.parentSequence)
         /\ rest # Orphan /\ rest \in Shown
         /\ x = [path |-> Append(rest.path, m.name),
                 confidence |-> IF entries[r].inUse THEN rest.confidence ELSE "medium"]
    BY <1>1, <1>3, <1>4
<1> QED
    BY <1>6, <1>7 DEF ShownCases, rest, m, best, x

Walks ==
    {up \in [0 .. MaxPathDepth -> ShownTables] :
        /\ up[0] = NoneShown
        /\ \A k \in 1 .. MaxPathDepth : up[k] = PathFrom(entries, up[k - 1])
        /\ \A m, seen : WalkUp(entries, m, seen) = up[MaxPathDepth][m][seen]}

LEMMA WalkExists ==
    ASSUME ScanInv
    PROVE  Walks # {}
<1> DEFINE n == MaxPathDepth
           A == ShownTables
           step == [k \in 1 .. n |-> [a \in A |-> PathFrom(entries, a)]]
           up == CHOOSE f : f = [k \in 0 .. n |->
                    IF k = 0 THEN NoneShown ELSE PathFrom(entries, f[k - 1])]
<1>1. n \in Nat /\ NoneShown \in A
    <2>1. Orphan \in Shown
        <3>1. <<>> \in Seq(Names \cup SystemNames)
            OBVIOUS
        <3> QED
            BY <3>1 DEF Orphan, Shown
    <2>2. n \in Nat
        BY LimitsAssumption
    <2>3. NoneShown \in A
        <3> HIDE DEF n
        <3> QED
            BY <2>1, Zenon DEF NoneShown, ShownTables
    <2> QED
        BY <2>2, <2>3
<1>2. \A a \in A : PathFrom(entries, a) \in A
    <2> TAKE a \in A
    <2> DEFINE F == PathFrom(entries, a)
    <2>1. \A m \in LinksOf(entries), seen \in SUBSET DOMAIN entries : F[m][seen] \in Shown
        BY PathFromFacts, Zenon
    <2>2. ASSUME NEW m \in LinksOf(entries)
          PROVE  F[m] \in [SUBSET DOMAIN entries -> Shown]
        <3>1. F[m] = [seen \in SUBSET DOMAIN entries |-> F[m][seen]]
            BY Zenon DEF PathFrom
        <3> HIDE DEF F
        <3> QED
            BY <2>1, <3>1
    <2>3. F = [m \in LinksOf(entries) |-> F[m]]
        BY Zenon DEF PathFrom
    <2> HIDE DEF F
    <2>4. F \in ShownTables
        BY <2>2, <2>3 DEF ShownTables
    <2> QED
        BY <2>4 DEF F
<1>3. PICK g \in [0 .. n -> A] : g[0] = NoneShown /\ \A k \in 1 .. n : g[k] = step[k][g[k - 1]]
    <2>1. \A k \in 1 .. n : \A a \in A : step[k][a] \in A
        BY <1>2
    <2> HIDE DEF n, A, step
    <2>2. Recursions(n, A, NoneShown, step) # {}
        BY <1>1, <2>1, RecursionExists, Zenon
    <2> QED
        BY <2>2 DEF Recursions
<1> HIDE DEF n
<1>4. /\ 0 \in 0 .. n /\ n \in 0 .. n
      /\ \A k \in 1 .. n : k \in 0 .. n /\ k - 1 \in 0 .. n /\ k # 0
      /\ \A k \in 0 .. n : k # 0 => k \in 1 .. n
    BY <1>1
<1>5. \A k \in 1 .. n : g[k] = PathFrom(entries, g[k - 1])
    BY <1>3, <1>4
<1>6. g = [k \in 0 .. n |-> IF k = 0 THEN NoneShown ELSE PathFrom(entries, g[k - 1])]
    BY <1>3, <1>4, <1>5
<1>7. up = [k \in 0 .. n |-> IF k = 0 THEN NoneShown ELSE PathFrom(entries, up[k - 1])]
    BY <1>6, Zenon
<1>8. \A m, seen : WalkUp(entries, m, seen) = up[n][m][seen]
    BY Zenon DEF WalkUp, NoneShown, n
<1> HIDE DEF up
<1>9. up[0] = NoneShown /\ \A k \in 1 .. n : up[k] = PathFrom(entries, up[k - 1])
    BY <1>4, <1>7
<1>10. \A k \in 0 .. n : up[k] \in A
    <2> DEFINE G == {k \in 0 .. n : up[k] \in A}
    <2> HIDE DEF A
    <2>1. 0 \in G
        BY <1>1, <1>4, <1>9
    <2>2. \A k \in 1 .. n : k - 1 \in G => k \in G
        BY <1>2, <1>4, <1>9
    <2> HIDE DEF G
    <2>3. \A k \in 0 .. n : k \in G
        BY <1>1, <2>1, <2>2, Upward
    <2> QED
        BY <2>3 DEF G
<1>11. up \in [0 .. n -> A]
    <2> HIDE DEF A
    <2> QED
        BY <1>7, <1>10
<1>12. up \in Walks
    BY <1>8, <1>9, <1>11 DEF Walks, n
<1> QED
    BY <1>12

LEMMA TopOfVolume ==
    ASSUME ScanInv, NEW n \in ProperLinks, n.parent = RootRecord
    PROVE  ParentOf(n) \in HavingPath(<<>>)
<1>1. PICK v \in DOMAIN entries : n \in Range(entries[v].names) /\ n.kind # "dos"
    BY DEF ProperLinks
<1>2. LinkOf(v, entries[v], n) \in links /\ LinkOf(v, entries[v], n).parent = ParentOf(n)
    BY <1>1, RetainedLinks
<1>3. ParentOf(n).record = RootRecord
    BY DEF ParentOf
<1>4. ParentOf(n) \in Tops
    BY <1>2, <1>3 DEF Tops
<1> QED
    BY <1>4, HavingNoName DEF ScanInv, VolumeInv

(* Every path that the walk up finds was that of the parent.               *)
LEMMA WalkIsTrue ==
    ASSUME ScanInv, ~Mistaken, NEW n \in ProperLinks, NEW visited \in SUBSET DOMAIN entries
    PROVE  TruePath(n, WalkUp(entries, n, visited)) /\ WalkUp(entries, n, visited) \in Shown
<1>1. PICK up : up \in Walks
    BY WalkExists
<1>2. /\ up \in [0 .. MaxPathDepth -> ShownTables] /\ up[0] = NoneShown
      /\ \A k \in 1 .. MaxPathDepth : up[k] = PathFrom(entries, up[k - 1])
      /\ WalkUp(entries, n, visited) = up[MaxPathDepth][n][visited]
    BY <1>1 DEF Walks
<1> DEFINE T(k) == \A m \in ProperLinks, seen \in SUBSET DOMAIN entries :
                      TruePath(m, up[k][m][seen])
           G == {k \in 0 .. MaxPathDepth : T(k)}
<1>3. MaxPathDepth \in Nat /\ 0 \in 0 .. MaxPathDepth /\ MaxPathDepth \in 0 .. MaxPathDepth
    BY LimitsAssumption
<1>4. T(0)
    <2> TAKE m \in ProperLinks, seen \in SUBSET DOMAIN entries
    <2>1. m \in LinksOf(entries)
        BY EntryFacts
    <2>2. up[0][m][seen] = Orphan
        BY <1>2, <2>1 DEF NoneShown
    <2> QED
        BY <2>2 DEF TruePath
<1>5. ASSUME NEW k \in 1 .. MaxPathDepth, T(k - 1) PROVE T(k)
    <2> TAKE a \in ProperLinks, seen \in SUBSET DOMAIN entries
    <2> DEFINE above == up[k - 1]
               r == a.parent
               m == BestName(entries[r].names)[1]
               on == seen \cup {r}
               rest == above[m][on]
               y == PathFrom(entries, above)[a][seen]
               x == up[k][a][seen]
    <2>1. a \in LinksOf(entries) /\ above \in ShownTables /\ up[k] = PathFrom(entries, above)
        <3>1. k - 1 \in 0 .. MaxPathDepth
            BY <1>3
        <3> QED
            BY <1>2, <3>1, EntryFacts
    <2> HIDE DEF above
    <2>2. \/ x = Orphan
          \/ /\ r = RootRecord /\ x = [path |-> <<>>, confidence |-> "high"]
          \/ /\ r \in DOMAIN entries /\ entries[r].names # <<>>
             /\ SameGeneration(entries[r], a.parentSequence)
             /\ rest # Orphan /\ rest \in Shown
             /\ x = [path |-> Append(rest.path, m.name),
                     confidence |-> IF entries[r].inUse THEN rest.confidence ELSE "medium"]
        <3>1. ShownCases(a, rest, y)
            BY <2>1, PathFromFacts
        <3>2. x = y
            BY <2>1
        <3> HIDE DEF x, y, rest
        <3> QED
            BY <3>1, <3>2 DEF ShownCases
    <2>3. CASE x = Orphan
        BY <2>3 DEF TruePath
    <2>4. CASE r = RootRecord /\ x = [path |-> <<>>, confidence |-> "high"]
        <3>1. x.path = <<>>
            BY <2>4
        <3>2. ParentOf(a) \in HavingPath(<<>>)
            BY <2>4, TopOfVolume
        <3> HIDE DEF x
        <3>3. TruePath(a, x)
            BY <3>1, <3>2 DEF TruePath
        <3> QED
            BY <3>3 DEF x
    <2>5. CASE /\ r \in DOMAIN entries /\ entries[r].names # <<>>
               /\ SameGeneration(entries[r], a.parentSequence)
               /\ rest # Orphan /\ rest \in Shown
               /\ x = [path |-> Append(rest.path, m.name),
                       confidence |-> IF entries[r].inUse THEN rest.confidence ELSE "medium"]
        <3>1. /\ m \in Range(entries[r].names) /\ m.kind # "dos" /\ m \in ProperLinks
              /\ m.name \in Names \cup SystemNames /\ on \in SUBSET DOMAIN entries
            BY <2>5, BestFacts
        <3> DEFINE l == LinkOf(r, entries[r], m)
        <3>2. l \in links /\ l.node = ParentOf(a) /\ l.name = m.name /\ l.parent = ParentOf(m)
            <4>1. /\ l \in links /\ l.node = Identity(r, entries[r])
                  /\ l.name = m.name /\ l.parent = ParentOf(m)
                BY <2>5, <3>1, RetainedLinks
            <4>2. Identity(r, entries[r]) = ParentOf(a)
                BY <2>1, <2>5, Generations
            <4> HIDE DEF l
            <4> QED
                BY <4>1, <4>2
        <3>3. x.path = Append(rest.path, m.name) /\ rest # Orphan
              /\ rest.path \in Seq(Names \cup SystemNames)
            <4> HIDE DEF x, rest, m
            <4> QED
                BY <2>5 DEF Shown
        <3> HIDE DEF l, m, on, x
        <3>4. TruePath(m, rest)
            BY <1>5, <3>1 DEF above
        <3> HIDE DEF rest
        <3>5. ParentOf(m) \in HavingPath(rest.path)
            BY <3>3, <3>4 DEF TruePath
        <3>6. HavingPath(x.path) = Named(m.name, HavingPath(rest.path))
            BY <3>1, <3>3, HavingOneMore DEF ScanInv, VolumeInv
        <3>7. ParentOf(a) \in Named(m.name, HavingPath(rest.path))
            BY <3>2, <3>5 DEF Named
        <3>8. TruePath(a, x)
            BY <3>6, <3>7 DEF TruePath
        <3> QED
            BY <3>8 DEF x
    <2> QED
        BY <2>2, <2>3, <2>4, <2>5
<1>6. \A k \in 0 .. MaxPathDepth : k \in G
    <2> HIDE DEF T
    <2>1. 0 \in G
        BY <1>3, <1>4
    <2>2. ASSUME NEW k \in 1 .. MaxPathDepth, k - 1 \in G PROVE k \in G
        <3>1. T(k - 1) /\ k \in 0 .. MaxPathDepth
            BY <2>2
        <3> QED
            BY <3>1, <1>5
    <2> HIDE DEF G
    <2> QED
        BY <1>3, <2>1, <2>2, Upward
<1>7. T(MaxPathDepth)
    <2> HIDE DEF T
    <2> QED
        BY <1>3, <1>6
<1>8. n \in LinksOf(entries) /\ up[MaxPathDepth] \in ShownTables
    BY <1>2, <1>3, EntryFacts
<1> QED
    BY <1>2, <1>7, <1>8 DEF ShownTables

-----------------------------------------------------------------------------
(* What the results say.                                                   *)

LEMMA ActiveFacts ==
    ASSUME ScanInv, phase = "complete", NEW d \in ActiveDirectories
    PROVE  \E r \in DOMAIN entries : entries[r].inUse /\ d = Node(entries, r) /\ d \in Nodes
<1> DEFINE dirs == {[node |-> Node(entries, r), active |-> entries[r].inUse] :
                       r \in {u \in DOMAIN entries : entries[u].dir}}
<1>1. namespace.directories = dirs
    <2>1. namespace = BuildNamespace(entries, complete)
        BY DEF ScanInv
    <2>2. BuildNamespace(entries, complete).directories = dirs
        BY DEF BuildNamespace
    <2> QED
        BY <2>1, <2>2
<1> HIDE DEF dirs
<1>2. PICK e \in dirs : e.active /\ d = e.node
    BY <1>1 DEF ActiveDirectories
<1>3. PICK r \in DOMAIN entries : e = [node |-> Node(entries, r), active |-> entries[r].inUse]
    BY DEF dirs
<1>4. r \in Records /\ entries[r] \in Entries
    BY EntryFacts
<1>5. Node(entries, r) \in Nodes
    BY <1>4, RecordFacts DEF Node, Nodes, Entries
<1> QED
    BY <1>2, <1>3, <1>5

LEMMA CandidateFacts ==
    ASSUME ScanInv, phase = "complete", NEW c \in candidates
    PROVE  \E r \in Deleted :
              /\ r \in Listed /\ c = Candidate(r) /\ c.id = r
              /\ CandidateNode(c) = Node(entries, r)
              /\ Generation(c) = Identity(r, entries[r])
<1>1. PICK r \in Deleted : c = Candidate(r)
    BY DEF ScanInv
<1>2. r \in Listed
    <2>1. r # RootRecord
        BY LimitsAssumption, VolumeAssumption DEF Deleted
    <2> QED
        BY <2>1 DEF Deleted, Listed
<1>3. c.id = r /\ c.sequence = entries[r].sequence
    BY <1>1 DEF Candidate
<1> QED
    BY <1>1, <1>2, <1>3 DEF CandidateNode, Generation, Identity, Node, Deleted

(* The record, the name and the way up that a path is made of.             *)
LEMMA PathFacts ==
    ASSUME ScanInv, phase = "complete", NEW p \in Range(namespace.paths)
    PROVE  \E r \in Listed : \E m \in Range(entries[r].names) : \E j \in DOMAIN UpFrom(r, m) :
              m \in ProperLinks /\ m.kind # "dos" /\ p = PathOf(r, m, UpFrom(r, m)[j])
<1>1. namespace = BuildNamespace(entries, complete)
    BY DEF ScanInv
<1>2. PICK r \in Listed : \E i \in DOMAIN UsefulNames(entries[r]) :
          \E j \in DOMAIN UpFrom(r, UsefulNames(entries[r])[i]) :
              p = PathOf(r, UsefulNames(entries[r])[i], UpFrom(r, UsefulNames(entries[r])[i])[j])
    BY <1>1, NamespaceFacts
<1>3. PICK i \in DOMAIN UsefulNames(entries[r]) :
          \E j \in DOMAIN UpFrom(r, UsefulNames(entries[r])[i]) :
              p = PathOf(r, UsefulNames(entries[r])[i], UpFrom(r, UsefulNames(entries[r])[i])[j])
    BY <1>2
<1> DEFINE m == UsefulNames(entries[r])[i]
<1>4. m \in Range(entries[r].names) /\ m \in ProperLinks /\ m.kind # "dos"
    BY EntryFacts DEF Listed
<1>5. PICK j \in DOMAIN UpFrom(r, m) : p = PathOf(r, m, UpFrom(r, m)[j])
    BY <1>3
<1> HIDE DEF m
<1> QED
    BY <1>4, <1>5

LEMMA UpFromFacts ==
    ASSUME ScanInv, ~Mistaken, NEW r \in DOMAIN entries, entries[r].inUse,
           NEW d, d = Node(entries, r),
           NEW b \in Ladders(d, {}), NEW c \in Ladders(Root, {d}),
           NEW u \in Listed, NEW m \in ProperLinks
    PROVE  /\ UpFrom(u, m) \in Seq(WaysUp) /\ UpFrom(u, m) # <<>>
           /\ \A j \in DOMAIN UpFrom(u, m) :
                 TrueWay(m, UpFrom(u, m)[j], d, b[MaxPathDepth], c[MaxPathDepth])
<1>1. {u} \in SUBSET DOMAIN entries
    BY DEF Listed
<1>2. TrueWays(m, ExpandParentPaths(entries, m, {u}), d, b[MaxPathDepth], c[MaxPathDepth])
    BY <1>1, ExpandedWays
<1> DEFINE x == ExpandParentPaths(entries, m, {u})
<1>3. UpFrom(u, m) = x.paths
    BY DEF UpFrom
<1> HIDE DEF x
<1> QED
    BY <1>2, <1>3 DEF TrueWays, Found, x

LEMMA LaddersExist ==
    ASSUME ScanInv, NEW d \in Nodes
    PROVE  Ladders(d, {}) # {} /\ Ladders(Root, {d}) # {}
<1>1. Root \in Nodes
    <2>1. table[RootRecord].sequence \in Sequences
        BY DEF ScanInv, VolumeInv, TableOK, FileRecords
    <2> QED
        BY <2>1, LimitsAssumption DEF Root, Nodes
<1>2. links \subseteq Links
    BY DEF ScanInv, VolumeInv
<1> QED
    BY <1>1, <1>2, LadderExists

(* A folder that a candidate is said to be in, or not to be in.            *)
LEMMA MembershipHolds ==
    ASSUME ScanInv, phase = "complete", ~Mistaken,
           NEW c \in candidates, NEW d \in ActiveDirectories
    PROVE  MembershipIsTrue(c, d)
<1>1. PICK q \in Deleted : /\ q \in Listed /\ c.id = q
                           /\ CandidateNode(c) = Node(entries, q)
                           /\ Generation(c) = Identity(q, entries[q])
    BY CandidateFacts
<1>2. PICK r \in DOMAIN entries : entries[r].inUse /\ d = Node(entries, r) /\ d \in Nodes
    BY ActiveFacts
<1>3. PICK b : b \in Ladders(d, {})
    BY <1>2, LaddersExist
<1>4. PICK o : o \in Ladders(Root, {d})
    BY <1>2, LaddersExist
<1>5. /\ Reaching(d, {}) = b[MaxPathDepth + 1] /\ Reaching(Root, {d}) = o[MaxPathDepth + 1]
    BY <1>3, <1>4 DEF Ladders
<1>6. /\ MaxPathDepth + 1 \in 1 .. MaxPathDepth + 1 /\ MaxPathDepth + 1 - 1 = MaxPathDepth
    BY LimitsAssumption
<1>7. /\ b[MaxPathDepth] \subseteq b[MaxPathDepth + 1]
      /\ o[MaxPathDepth] \subseteq o[MaxPathDepth + 1]
      /\ \A l \in links : l.parent \in b[MaxPathDepth] => l.node \in b[MaxPathDepth + 1]
    <2> DEFINE k == MaxPathDepth + 1
    <2>1. k \in 1 .. MaxPathDepth + 1 /\ k - 1 = MaxPathDepth
        BY <1>6
    <2> HIDE DEF k
    <2>2. b[k - 1] \subseteq b[k] /\ o[k - 1] \subseteq o[k]
        BY <1>3, <1>4, <2>1, LadderFacts
    <2>3. \A l \in links : l.parent \in b[k - 1] => l.node \in b[k]
        BY <1>3, <2>1, LadderFacts
    <2> QED
        BY <2>1, <2>2, <2>3 DEF k
<1> DEFINE paths == PathsOf(namespace, CandidateNode(c))
           answer == ClassifyCandidate(namespace, CandidateNode(c), d)
<1>8. /\ answer = "match" => \E p \in paths : d \in Range(p.ancestors)
      /\ answer = "noMatch" => /\ ~ \E p \in paths : d \in Range(p.ancestors)
                               /\ namespace.complete
                               /\ \A p \in paths : p.state \in Trusted
    BY DEF ClassifyCandidate, Trusted
<1> HIDE DEF answer
<1>9. ASSUME answer = "match" PROVE Generation(c) \in Reaching(d, {})
    <2>1. PICK p \in paths : d \in Range(p.ancestors)
        BY <1>8, <1>9
    <2>2. p \in Range(namespace.paths) /\ p.node = Node(entries, q)
        BY <1>1 DEF PathsOf
    <2>3. PICK u \in Listed : \E m \in Range(entries[u].names) : \E j \in DOMAIN UpFrom(u, m) :
              m \in ProperLinks /\ m.kind # "dos" /\ p = PathOf(u, m, UpFrom(u, m)[j])
        BY <2>2, PathFacts
    <2>4. PICK m \in Range(entries[u].names) : \E j \in DOMAIN UpFrom(u, m) :
              m \in ProperLinks /\ m.kind # "dos" /\ p = PathOf(u, m, UpFrom(u, m)[j])
        BY <2>3
    <2>5. PICK j \in DOMAIN UpFrom(u, m) :
              m \in ProperLinks /\ m.kind # "dos" /\ p = PathOf(u, m, UpFrom(u, m)[j])
        BY <2>4
    <2> DEFINE w == UpFrom(u, m)[j]
    <2> HIDE DEF w
    <2>a. p.node = Node(entries, u) /\ p.ancestors = w.ancestors
        BY <2>5 DEF PathOf, w
    <2>6. u = q
        BY <2>a, <2>2 DEF Node
    <2>7. TrueWay(m, w, d, b[MaxPathDepth], o[MaxPathDepth])
        BY <1>2, <1>3, <1>4, <2>5, UpFromFacts DEF w
    <2>8. ParentOf(m) \in b[MaxPathDepth]
        BY <2>1, <2>a, <2>7 DEF TrueWay
    <2>9. /\ LinkOf(q, entries[q], m) \in links
          /\ LinkOf(q, entries[q], m).node = Generation(c)
          /\ LinkOf(q, entries[q], m).parent = ParentOf(m)
        BY <1>1, <2>5, <2>6, RetainedLinks DEF Listed
    <2> QED
        BY <2>8, <2>9, <1>5, <1>7
<1>10. ASSUME answer = "noMatch", NEW n \in Range(entries[q].names), n.kind # "dos"
       PROVE  ParentOf(n) \in Reaching(Root, {d})
    <2> DEFINE U == UpFrom(q, n)
               w == U[1]
               p == PathOf(q, n, w)
    <2>1. n \in ProperLinks
        BY <1>1, <1>10 DEF Listed, ProperLinks
    <2>2. /\ U \in Seq(WaysUp) /\ U # <<>>
          /\ \A j \in DOMAIN U : TrueWay(n, U[j], d, b[MaxPathDepth], o[MaxPathDepth])
        BY <1>1, <1>2, <1>3, <1>4, <2>1, UpFromFacts
    <2>3. PICK i \in DOMAIN UsefulNames(entries[q]) : UsefulNames(entries[q])[i] = n
        BY <1>1, <1>10, EntryFacts DEF Listed
    <2>4. namespace = BuildNamespace(entries, complete) /\ namespace.complete
        BY <1>8, <1>10 DEF ScanInv
    <2> HIDE DEF U
    <2>5. 1 \in DOMAIN U /\ w \in WaysUp
        BY <2>2
    <2>6. p \in Range(namespace.paths)
        <3>1. \A j \in DOMAIN UpFrom(q, UsefulNames(entries[q])[i]) :
                  PathOf(q, UsefulNames(entries[q])[i],
                         UpFrom(q, UsefulNames(entries[q])[i])[j]) \in Range(namespace.paths)
            BY <1>1, <2>4, NamespaceFacts
        <3>2. \A j \in DOMAIN U : PathOf(q, n, U[j]) \in Range(namespace.paths)
            BY <3>1, <2>3 DEF U
        <3> QED
            BY <3>2, <2>5
    <2> HIDE DEF w
    <2>7. /\ p.node = Node(entries, q) /\ p.ancestors = w.ancestors
          /\ p.state = Worse(w.state, IF entries[q].whole THEN "exact" ELSE "incomplete")
        BY DEF PathOf
    <2> HIDE DEF p
    <2>8. p \in paths
        BY <2>6, <2>7, <1>1 DEF PathsOf
    <2>9. d \notin Range(w.ancestors) /\ w.state \in Trusted
        <3>1. p.state \in Trusted /\ d \notin Range(p.ancestors)
            BY <2>8, <1>8, <1>10
        <3>2. w.state \in States /\ "exact" \in States /\ "incomplete" \in States
            BY <2>5 DEF WaysUp, States
        <3> QED
            BY <3>1, <3>2, <2>7, WorseFacts
    <2>10. ParentOf(n) \in o[MaxPathDepth]
        <3>1. TrueWay(n, w, d, b[MaxPathDepth], o[MaxPathDepth])
            BY <2>2, <2>5 DEF w
        <3> QED
            BY <3>1, <2>9 DEF TrueWay
    <2> QED
        BY <2>10, <1>5, <1>7
<1> QED
    BY <1>1, <1>9, <1>10 DEF MembershipIsTrue, answer, ParentOf

(* A folder that was found by its path had that path.                      *)
LEMMA FolderHolds ==
    ASSUME ScanInv, phase = "complete", ~Mistaken, NEW components,
           ResolveActiveDirectory(namespace, components).answer = "unique",
           components # <<>>,
           NEW node \in ResolveActiveDirectory(namespace, components).nodes
    PROVE  node \in HavingPath(components)
<1> DEFINE active == {e.node : e \in {x \in namespace.directories : x.active}}
           matching == {p \in Range(namespace.paths) :
                           /\ p.node \in active
                           /\ Append(p.folders, p.name) = components}
           exact == {p.node : p \in {x \in matching : x.state = "exact"}}
           found == ResolveActiveDirectory(namespace, components)
<1>1. found.nodes = exact
    <2>1. \/ found = [answer |-> "ambiguous", nodes |-> {}]
          \/ found = [answer |-> "unknown", nodes |-> {}]
          \/ found = [answer |-> IF namespace.complete THEN "notFound" ELSE "unknown",
                      nodes |-> {}]
          \/ found = [answer |-> "unique", nodes |-> exact]
        BY Zenon DEF ResolveActiveDirectory
    <2> HIDE DEF found, exact
    <2>2. found.answer = "unique"
        BY DEF found
    <2> QED
        BY <2>1, <2>2
<1> HIDE DEF found
<1>2. PICK p \in matching : p.state = "exact" /\ node = p.node
    BY <1>1 DEF found
<1>3. /\ p \in Range(namespace.paths) /\ node \in active
      /\ Append(p.folders, p.name) = components
    BY <1>2
<1>4. node \in ActiveDirectories
    BY <1>3 DEF ActiveDirectories
<1>5. PICK r \in DOMAIN entries : entries[r].inUse /\ node = Node(entries, r) /\ node \in Nodes
    BY <1>4, ActiveFacts
<1> HIDE DEF active, matching, exact
<1>6. PICK u \in Listed : \E m \in Range(entries[u].names) : \E j \in DOMAIN UpFrom(u, m) :
          m \in ProperLinks /\ m.kind # "dos" /\ p = PathOf(u, m, UpFrom(u, m)[j])
    BY <1>3, PathFacts
<1>7. PICK m \in Range(entries[u].names) : \E j \in DOMAIN UpFrom(u, m) :
          m \in ProperLinks /\ m.kind # "dos" /\ p = PathOf(u, m, UpFrom(u, m)[j])
    BY <1>6
<1>8. PICK j \in DOMAIN UpFrom(u, m) :
          m \in ProperLinks /\ m.kind # "dos" /\ p = PathOf(u, m, UpFrom(u, m)[j])
    BY <1>7
<1> DEFINE w == UpFrom(u, m)[j]
<1> HIDE DEF w
<1>9. /\ p.node = Node(entries, u) /\ p.folders = w.folders /\ p.name = m.name
      /\ p.state = Worse(w.state, IF entries[u].whole THEN "exact" ELSE "incomplete")
    BY <1>8 DEF PathOf, w
<1>10. u = r
    <2>1. Node(entries, u) = Node(entries, r)
        BY <1>2, <1>5, <1>9
    <2>2. Node(entries, u).record = u /\ Node(entries, r).record = r
        BY DEF Node
    <2> QED
        BY <2>1, <2>2
<1>11. PICK b : b \in Ladders(node, {})
    BY <1>5, LaddersExist
<1>12. PICK o : o \in Ladders(Root, {node})
    BY <1>5, LaddersExist
<1>13. TrueWay(m, w, node, b[MaxPathDepth], o[MaxPathDepth]) /\ w \in WaysUp
    <2>1. /\ UpFrom(u, m) \in Seq(WaysUp)
          /\ TrueWay(m, UpFrom(u, m)[j], node, b[MaxPathDepth], o[MaxPathDepth])
        BY <1>5, <1>8, <1>11, <1>12, UpFromFacts
    <2>2. UpFrom(u, m)[j] \in WaysUp
        BY <2>1, <1>8
    <2> QED
        BY <2>1, <2>2 DEF w
<1>14. w.state = "exact" /\ w.folders \in Seq(Names \cup SystemNames)
    <2>1. w.state \in States /\ "exact" \in States /\ "incomplete" \in States
        BY <1>13 DEF WaysUp, States
    <2>2. w.folders \in Seq(Names \cup SystemNames)
        BY <1>13 DEF WaysUp
    <2> QED
        BY <2>1, <2>2, <1>2, <1>9, WorseFacts
<1>15. ParentOf(m) \in HavingPath(w.folders)
    BY <1>13, <1>14 DEF TrueWay
<1>16. /\ LinkOf(r, entries[r], m) \in links
       /\ LinkOf(r, entries[r], m).node = node /\ LinkOf(r, entries[r], m).name = m.name
       /\ LinkOf(r, entries[r], m).parent = ParentOf(m)
    <2>1. Identity(r, entries[r]) = node
        BY <1>5 DEF Identity, Node
    <2> QED
        BY <2>1, <1>8, <1>10, RetainedLinks
<1>17. m.name \in Names \cup SystemNames
    <2>1. m \in FileNames
        BY <1>8, EntryFacts
    <2> QED
        BY <2>1 DEF FileNames
<1>18. node \in Named(m.name, HavingPath(w.folders))
    BY <1>15, <1>16 DEF Named
<1>19. HavingPath(components) = Named(m.name, HavingPath(w.folders))
    <2>1. components = Append(w.folders, m.name)
        BY <1>3, <1>9
    <2> QED
        BY <2>1, <1>14, <1>17, HavingOneMore DEF ScanInv, VolumeInv
<1> QED
    BY <1>18, <1>19

(* The path that is shown for a candidate was its own.                     *)
LEMMA ShownPathHolds ==
    ASSUME ScanInv, phase = "complete", ~Mistaken, NEW c \in candidates, c.confidence # "low"
    PROVE  Generation(c) \in HavingPath(Append(c.path, c.name))
<1>1. PICK q \in Deleted : /\ q \in Listed /\ c = Candidate(q)
                           /\ Generation(c) = Identity(q, entries[q])
    BY CandidateFacts
<1> DEFINE m == BestName(entries[q].names)[1]
           x == WalkUp(entries, m, {q})
<1>2. /\ m \in Range(entries[q].names) /\ m.kind # "dos" /\ m \in ProperLinks
      /\ m.name \in Names \cup SystemNames /\ q \in DOMAIN entries
    BY BestFacts DEF Deleted
<1>3. c.path = x.path /\ c.confidence = x.confidence /\ c.name = m.name
    BY <1>1 DEF Candidate, ReconstructPath
<1> HIDE DEF m
<1>4. {q} \in SUBSET DOMAIN entries
    BY <1>2
<1>5. TruePath(m, x) /\ x \in Shown
    BY <1>2, <1>4, WalkIsTrue
<1> HIDE DEF x
<1>6. x # Orphan
    BY <1>3 DEF Orphan
<1>7. ParentOf(m) \in HavingPath(x.path)
    BY <1>5, <1>6 DEF TruePath
<1>8. /\ LinkOf(q, entries[q], m) \in links
      /\ LinkOf(q, entries[q], m).node = Generation(c)
      /\ LinkOf(q, entries[q], m).name = m.name
      /\ LinkOf(q, entries[q], m).parent = ParentOf(m)
    BY <1>1, <1>2, RetainedLinks
<1>9. Generation(c) \in Named(m.name, HavingPath(x.path))
    BY <1>7, <1>8 DEF Named
<1>10. HavingPath(Append(x.path, m.name)) = Named(m.name, HavingPath(x.path))
    <2>1. x.path \in Seq(Names \cup SystemNames)
        BY <1>5 DEF Shown
    <2> QED
        BY <2>1, <1>2, HavingOneMore DEF ScanInv, VolumeInv
<1> QED
    BY <1>3, <1>9, <1>10

(* What the scan says of folders and paths is true of the volume: nothing  *)
(* is placed in a folder it was not in, nor excluded from the one it was   *)
(* in, however records are reused, moved and linked while they are read.   *)
THEOREM NamespaceTrue == NtfsSpec => []NamespaceIsTrue
<1>1. ASSUME ScanInv PROVE NamespaceIsTrue
    <2> SUFFICES ASSUME phase = "complete", ~Mistaken
                 PROVE  /\ PathsAreTrue
                        /\ \A c \in candidates, d \in ActiveDirectories : MembershipIsTrue(c, d)
        BY DEF NamespaceIsTrue
    <2>1. \A c \in candidates, d \in ActiveDirectories : MembershipIsTrue(c, d)
        BY <1>1, MembershipHolds
    <2>2. ASSUME NEW p \in Range(namespace.paths),
                 ResolveActiveDirectory(namespace, Append(p.folders, p.name)).answer = "unique"
          PROVE  ResolveActiveDirectory(namespace, Append(p.folders, p.name)).nodes
                     \subseteq HavingPath(Append(p.folders, p.name))
        <3> DEFINE components == Append(p.folders, p.name)
        <3>1. components # <<>>
            <4>1. PICK r \in Listed : \E m \in Range(entries[r].names) :
                      \E j \in DOMAIN UpFrom(r, m) :
                         m \in ProperLinks /\ p = PathOf(r, m, UpFrom(r, m)[j])
                BY <1>1, PathFacts
            <4>2. PICK m \in Range(entries[r].names) : \E j \in DOMAIN UpFrom(r, m) :
                      m \in ProperLinks /\ p = PathOf(r, m, UpFrom(r, m)[j])
                BY <4>1
            <4>3. PICK j \in DOMAIN UpFrom(r, m) :
                      m \in ProperLinks /\ p = PathOf(r, m, UpFrom(r, m)[j])
                BY <4>2
            <4>4. ExpandParentPaths(entries, m, {r}) \in Found
                <5>1. m \in LinksOf(entries) /\ {r} \in SUBSET DOMAIN entries
                    BY <1>1, <4>3, EntryFacts DEF Listed
                <5> QED
                    BY <1>1, <5>1, ExpandedIsFound
            <4>5. UpFrom(r, m) \in Seq(WaysUp)
                BY <4>4 DEF UpFrom, Found
            <4>6. UpFrom(r, m)[j] \in WaysUp
                BY <4>3, <4>5
            <4>7. p.folders = UpFrom(r, m)[j].folders
                BY <4>3 DEF PathOf
            <4>8. p.folders \in Seq(Names \cup SystemNames)
                BY <4>6, <4>7 DEF WaysUp
            <4> QED
                BY <4>8
        <3> HIDE DEF components
        <3>2. ResolveActiveDirectory(namespace, components).answer = "unique"
            BY <2>2 DEF components
        <3>3. \A node \in ResolveActiveDirectory(namespace, components).nodes :
                  node \in HavingPath(components)
            BY <1>1, <3>1, <3>2, FolderHolds
        <3> QED
            BY <3>3 DEF components
    <2>3. \A c \in candidates : c.confidence # "low" =>
              Generation(c) \in HavingPath(Append(c.path, c.name))
        BY <1>1, ShownPathHolds
    <2>4. PathsAreTrue
        BY <2>2, <2>3 DEF PathsAreTrue
    <2> QED
        BY <2>1, <2>4
<1> QED
    BY <1>1, ScanInvariant, PTL
=============================================================================
