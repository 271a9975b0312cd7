----------------------------- MODULE ImageLayout ----------------------------
(***************************************************************************)
(* Where the volumes of a disk image are (crates/partition), and the scan  *)
(* of each of them in turn (crates/cli/src/lib.rs).                        *)
(*                                                                         *)
(* The image is a sequence of sectors, each of which holds one thing: a    *)
(* master or extended boot record, a GPT header, a GPT entry table (one    *)
(* sector), the boot sector of a file system, or nothing.  A checksum is   *)
(* the content it was made of.  The tool that last partitioned the disk    *)
(* wrote its sectors one by one and may have been stopped between two; a   *)
(* sector may be unreadable, or hold garbage.                              *)
(***************************************************************************)
EXTENDS Integers, Sequences, FiniteSets, SequencesExt, Lists

CONSTANTS
    LastLba,      \* of the disk that was partitioned
    Layouts,      \* what it may be partitioned as
    Boots,        \* boot sectors of volumes
    Code,         \* what the code in one reads like as partition entries
    MaxEntries,   \* MAX_ENTRIES, of a GPT entry table
    MaxEbrChain,  \* MAX_EBR_CHAIN
    Fat12Limit,   \* clusters from which a FAT volume is FAT16 (4085)
    Fat16Limit,   \* and FAT32 (65525)
    MaxDamaged    \* sectors unreadable or garbage

ASSUME LayoutAssumption ==
    /\ LastLba \in Nat /\ LastLba >= 8
    /\ MaxEntries \in Nat \ {0} /\ MaxEbrChain \in Nat \ {0} /\ MaxDamaged \in Nat
    /\ Fat12Limit \in Nat /\ Fat16Limit \in Nat /\ Fat12Limit <= Fat16Limit

PartitionEntries ==
    [type : {"none", "plain", "extended", "protective"}, start : Nat, sectors : Nat]
LogicalVolumes == [at : Nat, start : Nat, sectors : Nat]
EndOf(e) == e.start + e.sectors - 1
Extended(e) == e.type = "extended" /\ e.sectors > 0

(* A GPT has room for its entries; an MBR has primary volumes and at most  *)
(* one extended partition, with a chain of a logical volume in each record *)
(* that can be followed to its end, where it may lead back into itself.    *)
GptLayout(l) ==
    /\ l.logical = <<>> /\ l.back = 0 /\ Len(l.entries) \in 1 .. MaxEntries
    /\ \A k \in DOMAIN l.entries : l.entries[k].type \in {"none", "plain"}
MbrLayout(l) ==
    /\ Len(l.entries) >= 2 /\ \A k \in DOMAIN l.entries : l.entries[k].type # "protective"
    /\ Len(l.logical) <= MaxEbrChain
    /\ \A k \in DOMAIN l.logical :
          LET v == l.logical[k]
          IN  /\ v.at \in l.logical[1].at .. LastLba /\ v.at > 0 /\ v.at <= v.start
              /\ v.sectors > 0 /\ EndOf(v) <= LastLba
    /\ \A j, k \in DOMAIN l.logical : l.logical[j].at = l.logical[k].at => j = k
    /\ l.back \in {0} \cup {l.logical[k].at : k \in DOMAIN l.logical}
    /\ LET extended == {k \in DOMAIN l.entries : Extended(l.entries[k])}
       IN  IF l.logical = <<>> THEN extended = {}
           ELSE \E k \in DOMAIN l.entries :
                   extended = {k} /\ l.entries[k].start = l.logical[1].at

ASSUME LayoutsAssumption ==
    \A l \in Layouts :
       /\ l \in [kind : {"gpt", "mbr", "none"}, name : STRING, entries : Seq(PartitionEntries),
                 logical : Seq(LogicalVolumes), back : Nat]
       /\ CASE l.kind = "gpt" -> GptLayout(l)
            [] l.kind = "mbr" -> MbrLayout(l)
            [] l.kind = "none" -> l.entries = <<>> /\ l.logical = <<>>

(* The code in a boot sector reads as no partition of the disk: parse_mbr  *)
(* has nothing to tell entries from code by.                               *)
ASSUME CodeAssumption ==
    /\ Code \in Seq(PartitionEntries) /\ Len(Code) >= 2
    /\ \A k \in DOMAIN Code : /\ Code[k].type \notin {"extended", "protective"}
                               /\ (Code[k].sectors = 0 \/ EndOf(Code[k]) > LastLba + 1)

VARIABLES
    imagePhase,  \* "use", "open", "volumes", "done" or "failed"
    old, new,    \* the layout before and after the tool's work
    image,       \* the sectors
    pending,     \* what the tool has yet to write
    last,        \* the last sector of the image
    unreadable,  \* the sectors that cannot be read
    damaged,     \* these and the ones that hold garbage
    partitions,  \* the partition table found
    reports,     \* the volumes scanned so far
    imageError   \* why the scan failed

imageVars == <<imagePhase, old, new, image, pending, last, unreadable, damaged, partitions,
               reports, imageError>>

-----------------------------------------------------------------------------
(* What a partitioning tool writes.                                        *)

Empty == [kind |-> "nothing"]
Garbage == [kind |-> "garbage"]
Entry(type, start, sectors) == [type |-> type, start |-> start, sectors |-> sectors]
Unused  == Entry("none", 0, 0)
FirstUsable == 3
LastUsable  == LastLba - 2

Header(layout, primary) ==
    [kind |-> "gptHeader", guid |-> layout.name,
     current |-> IF primary THEN 1 ELSE LastLba, backup |-> IF primary THEN LastLba ELSE 1,
     firstUsable |-> FirstUsable, lastUsable |-> LastUsable,
     entryLba |-> IF primary THEN 2 ELSE LastLba - 1,
     count |-> Len(layout.entries), crc |-> layout.entries]
Table(layout) == [kind |-> "gptTable", entries |-> layout.entries]
BootRecord(entries) == [kind |-> "mbr", signed |-> TRUE, entries |-> entries]
Protective == BootRecord(<<Entry("protective", 1, LastLba), Unused>>)

(* An extended boot record has the logical volume after it, relative to    *)
(* itself, and the next record, relative to the extended partition.        *)
EbrChain(layout) ==
    [k \in DOMAIN layout.logical |->
        LET l    == layout.logical[k]
            next == IF k < Len(layout.logical) THEN layout.logical[k + 1].at ELSE layout.back
        IN  <<l.at, BootRecord(<<Entry("plain", l.start - l.at, l.sectors),
                                 IF next = 0 THEN Unused
                                 ELSE Entry("extended", next - layout.logical[1].at, 1)>>)>>]

(* The order a tool writes in: the backup of a GPT before the primary, and *)
(* a record of a chain before the one that leads to it.                    *)
Writes(layout) ==
    CASE layout.kind = "gpt" -> <<<<LastLba - 1, Table(layout)>>, <<LastLba, Header(layout, FALSE)>>,
                                  <<2, Table(layout)>>, <<1, Header(layout, TRUE)>>,
                                  <<0, Protective>>>>
      [] layout.kind = "mbr" -> Reverse(EbrChain(layout)) \o <<<<0, BootRecord(layout.entries)>>>>
      [] layout.kind = "none" -> <<>>
(* A tool that makes an MBR disk of a GPT disk first wipes both headers;   *)
(* discover would prefer what is left of one to any MBR.                   *)
Clearing(layout) ==
    IF layout.kind = "gpt" THEN <<<<1, Empty>>, <<LastLba, Empty>>>> ELSE <<>>

Volume == [kind |-> "boot", signed |-> TRUE, entries |-> Code]

(* Of the writes to a sector the last one stands.                          *)
Write(sectors, w) == [sectors EXCEPT ![w[1]] = w[2]]
AfterWrites(sectors, ws) ==
    LET lastOf(k) == \A j \in DOMAIN ws : ws[j][1] = ws[k][1] => j <= k
    IN  [s \in DOMAIN sectors |->
            IF \E k \in DOMAIN ws : ws[k][1] = s
            THEN ws[CHOOSE k \in DOMAIN ws : ws[k][1] = s /\ lastOf(k)][2] ELSE sectors[s]]

(* The file systems stay where they are when the disk is partitioned anew. *)
VolumesOf(layout) ==
    IF layout.kind = "none" THEN {0}
    ELSE {layout.entries[k].start :
             k \in {j \in DOMAIN layout.entries :
                       layout.entries[j].type = "plain" /\ layout.entries[j].sectors > 0}}
         \cup {layout.logical[k].start : k \in DOMAIN layout.logical}

ImageInit ==
    /\ imagePhase = "use"
    /\ old \in Layouts /\ new \in Layouts
    /\ new.kind = "none" => old = new
    /\ image = AfterWrites([s \in 0 .. LastLba + 1 |->
                           IF s \in VolumesOf(old) THEN Volume ELSE Empty], Writes(old))
    /\ pending = IF old = new THEN <<>>
                 ELSE (IF new.kind = "gpt" THEN <<>> ELSE Clearing(old)) \o Writes(new)
    /\ last \in {LastLba, LastLba + 1}
    /\ unreadable = {} /\ damaged = {} /\ reports = <<>> /\ imageError = "none"
    /\ partitions = [kind |-> "none", regions |-> <<>>]

ToolWrites ==
    /\ imagePhase = "use" /\ pending # <<>>
    /\ image' = Write(image, Head(pending))
    /\ pending' = Tail(pending)
    /\ UNCHANGED <<imagePhase, old, new, last, unreadable, damaged, partitions, reports, imageError>>

(* The image is taken, now or after a stop of the tool.                    *)
TakeImage ==
    /\ imagePhase = "use"
    /\ \E lost, garbled \in SUBSET {s \in 0 .. last : image[s] # Empty} :
          /\ lost \cap garbled = {} /\ Cardinality(lost \cup garbled) <= MaxDamaged
          /\ unreadable' = lost /\ damaged' = lost \cup garbled
          /\ image' = [s \in DOMAIN image |-> IF s \in garbled THEN Garbage ELSE image[s]]
    /\ imagePhase' = "open"
    /\ UNCHANGED <<old, new, pending, last, partitions, reports, imageError>>

-----------------------------------------------------------------------------
(* GPT.  A copy is where it has to be, or it is not used.                  *)

NoHeader(failure) == [failure |-> failure]
Found(header)     == [failure |-> "none", header |-> header]

ValidateHeaderTopology(h, primary) ==
    /\ h.backup = IF primary THEN last ELSE 1
    /\ h.firstUsable <= h.lastUsable /\ h.firstUsable > 1 /\ h.lastUsable < last

ReadValidatedHeader(lba, primary) ==
    LET h == image[lba]
    IN  IF lba \in unreadable THEN NoHeader("read")
        ELSE IF h.kind # "gptHeader" THEN NoHeader("notRecognized")
        ELSE IF h.current # lba THEN NoHeader("notRecognized")
        ELSE IF ~ValidateHeaderTopology(h, primary) THEN NoHeader("corrupt")
        ELSE Found(h)

(* Bug: the checksums of the entries are not compared.                     *)
HeadersAreReciprocalBug(p, b) ==
    /\ p.current = b.backup /\ p.backup = b.current
    /\ p.firstUsable = b.firstUsable /\ p.lastUsable = b.lastUsable
    /\ p.count = b.count

HeadersAreReciprocal(p, b) ==
    /\ p.current = b.backup /\ p.backup = b.current
    /\ p.firstUsable = b.firstUsable /\ p.lastUsable = b.lastUsable
    /\ p.guid = b.guid /\ p.count = b.count /\ p.crc = b.crc

Region(e) == [start |-> e.start, sectors |-> e.sectors]
GptRegions(entries, h) ==
    LET ok(e) == /\ e.type # "none" /\ EndOf(e) >= e.start
                 /\ e.start >= h.firstUsable /\ EndOf(e) <= h.lastUsable
                 /\ EndOf(e) <= last
        used  == Filter(entries, {e \in Range(entries) : ok(e)})
    IN  [k \in DOMAIN used |-> Region(used[k])]

NoCopy(failure) == [failure |-> failure, regions |-> <<>>]
ParseGptCopy(found) ==
    LET h        == found.header
        reserved == IF h.current = 1 THEN h.entryLba > 1 /\ h.entryLba + 1 <= h.firstUsable
                    ELSE h.entryLba > h.lastUsable /\ h.entryLba + 1 <= h.current
        sector   == image[h.entryLba]
    IN  IF found.failure # "none" THEN NoCopy(found.failure)
        ELSE IF h.count \notin 1 .. MaxEntries \/ ~reserved THEN NoCopy("corrupt")
        ELSE IF h.entryLba \in unreadable THEN NoCopy("read")
        ELSE IF sector # [kind |-> "gptTable", entries |-> h.crc] THEN NoCopy("corrupt")
        ELSE IF GptRegions(sector.entries, h) = <<>> THEN NoCopy("notRecognized")
        ELSE [failure |-> "none", regions |-> GptRegions(sector.entries, h)]

PreferCopyFailure(primary, backup) ==
    IF primary \in {"read", "corrupt"} THEN primary
    ELSE IF backup \in {"read", "corrupt"} THEN backup ELSE "notRecognized"

ParseGpt ==
    LET p == ReadValidatedHeader(1, TRUE)
        b == ReadValidatedHeader(last, FALSE)
        primary == ParseGptCopy(p)
        backup  == ParseGptCopy(b)
    IN  IF p.failure = "none" /\ b.failure = "none"
        THEN IF ~HeadersAreReciprocal(p.header, b.header) THEN NoCopy("corrupt")
             ELSE IF primary.failure = "none" THEN primary
             ELSE IF backup.failure = "none" THEN backup
             ELSE NoCopy(PreferCopyFailure(primary.failure, backup.failure))
        ELSE IF primary.failure = "none" THEN primary
        ELSE IF backup.failure = "none" THEN backup
        ELSE NoCopy(PreferCopyFailure(primary.failure, backup.failure))

-----------------------------------------------------------------------------
(* MBR.  The boot sector of a volume is signed like a boot record: what is *)
(* in the place of its entries is code.                                    *)

HasEntries(lba) == image[lba].kind \in {"mbr", "boot"} /\ image[lba].signed
InBounds(start, sectors) == sectors > 0 /\ start + sectors - 1 <= last

(* The logical volumes, as far as the chain can be followed.               *)
Regions == [start : Nat, sectors : Nat]
Walks == [current : Nat, visited : SUBSET Nat, regions : Seq(Regions), ended : BOOLEAN]

NextEbr(base, w) ==
    LET first  == image[w.current].entries[1]
        second == image[w.current].entries[2]
        here   == [start |-> w.current + first.start, sectors |-> first.sectors]
    IN  IF w.ended THEN w
        ELSE IF \/ w.current \in w.visited \/ w.current > last
                \/ w.current \in unreadable \/ ~HasEntries(w.current)
        THEN [w EXCEPT !.ended = TRUE]
        ELSE [current |-> base + second.start, visited |-> w.visited \cup {w.current},
              regions |-> IF first.type # "none" /\ InBounds(here.start, here.sectors)
                          THEN Append(w.regions, here) ELSE w.regions,
              ended   |-> ~Extended(second)]

FollowEbr(base) ==
    Folded([k \in 1 .. MaxEbrChain |-> [w \in Walks |-> NextEbr(base, w)]],
           [current |-> base, visited |-> {}, regions |-> <<>>, ended |-> FALSE],
           MaxEbrChain).regions

ParseMbr ==
    LET entries  == image[0].entries
        plain    == Filter(entries, {e \in Range(entries) : e.type \notin {"none", "extended"}
                                                  /\ InBounds(e.start, e.sectors)})
        extended == Filter(entries, {e \in Range(entries) : Extended(e)})
        regions  == [k \in DOMAIN plain |-> Region(plain[k])]
                    \o Flattened([k \in DOMAIN extended |-> FollowEbr(extended[k].start)])
    IN  IF 0 \in unreadable THEN NoCopy("read")
        ELSE IF ~HasEntries(0) THEN NoCopy("notRecognized")
        ELSE IF \E e \in Range(entries) : e.type = "protective" THEN NoCopy("corrupt")
        ELSE IF regions = <<>> THEN NoCopy("notRecognized")
        ELSE [failure |-> "none", regions |-> regions]

(* GPT first; without any table the image is one volume.                   *)
Discover ==
    LET gpt == ParseGpt
        mbr == ParseMbr
    IN  IF gpt.failure = "none" THEN [kind |-> "gpt", regions |-> gpt.regions]
        ELSE IF gpt.failure # "notRecognized" THEN [kind |-> gpt.failure, regions |-> <<>>]
        ELSE IF mbr.failure = "none" THEN [kind |-> "mbr", regions |-> mbr.regions]
        ELSE IF mbr.failure # "notRecognized" THEN [kind |-> mbr.failure, regions |-> <<>>]
        ELSE [kind |-> "none", regions |-> <<[start |-> 0, sectors |-> last + 1]>>]

(* The path names a plain image file, or nothing is opened.                *)
RefusePath ==
    /\ imagePhase = "use"
    /\ \E why \in {"forbiddenSourcePath", "notRegularFile", "unsupportedExtension",
                   "open", "emptyImage"} : imageError' = why
    /\ imagePhase' = "failed"
    /\ UNCHANGED <<old, new, image, pending, last, unreadable, damaged, partitions, reports>>

ScanImagePath ==
    /\ imagePhase = "open"
    /\ LET found == Discover
       IN  IF found.kind \in {"read", "corrupt"}
           THEN imagePhase' = "failed" /\ imageError' = found.kind /\ UNCHANGED partitions
           ELSE imagePhase' = "volumes" /\ partitions' = found /\ UNCHANGED imageError
    /\ UNCHANGED <<old, new, image, pending, last, unreadable, damaged, reports>>

-----------------------------------------------------------------------------
(* The volumes.                                                            *)

PowersOfTwo == {1, 2, 4, 8, 16, 32, 64, 128}

NtfsBoot(b, sectors) ==
    LET clusters == b.total \div b.perCluster
    IN  IF b.oem # "NTFS" \/ ~b.signed THEN "notRecognized"
        ELSE IF b.perCluster \notin PowersOfTwo \/ b.total = 0 \/ b.total > sectors
        THEN "corrupt"
        ELSE IF b.mft = 0 \/ b.mft >= clusters THEN "corrupt" ELSE "ntfs"

FatBoot(b, sectors) ==
    LET start    == b.reserved + b.fats * b.fatSectors + b.rootSectors
        clusters == (b.total - start) \div b.perCluster
        variant  == IF clusters < Fat12Limit THEN "fat12"
                    ELSE IF clusters < Fat16Limit THEN "fat16" ELSE "fat32"
        fits     == IF variant = "fat32"
                    THEN b.rootSectors = 0 /\ b.rootCluster >= 2 /\ b.rootCluster < clusters + 2
                    ELSE b.rootSectors > 0
    IN  IF \/ ~b.signed \/ b.perCluster \notin PowersOfTwo \/ b.reserved = 0
           \/ b.fats \notin 1 .. 4 \/ b.total = 0
        THEN "notRecognized"
        ELSE IF b.total > sectors THEN "corrupt"
        ELSE IF b.fatSectors = 0 THEN "notRecognized"
        ELSE IF start >= b.total THEN "corrupt"
        ELSE IF clusters = 0 THEN "corrupt"
        ELSE IF ~fits THEN "corrupt" ELSE variant

FileSystem(r, b) ==
    LET ntfs == NtfsBoot(b, r.sectors)
        fat  == FatBoot(b, r.sectors)
    IN  IF r.start \in unreadable THEN "read"
        ELSE IF image[r.start].kind # "boot" THEN "unrecognized"
        ELSE IF ntfs # "notRecognized" THEN ntfs
        ELSE IF fat # "notRecognized" THEN fat ELSE "unrecognized"

Report(k, r, fs, status) ==
    [index |-> k, region |-> r, fileSystem |-> fs, status |-> status]

(* One volume after the other.  What cannot be scanned ends it all; a deep *)
(* scan of anything but NTFS is partial.                                   *)
ScanVolume ==
    /\ imagePhase = "volumes" /\ Len(reports) < Len(partitions.regions)
    /\ LET k  == Len(reports) + 1
           r  == partitions.regions[k]
       IN  \E boot \in Boots, outcome \in {"complete", "partial", "failed"},
              deep \in BOOLEAN :
              LET fs == FileSystem(r, boot) IN
              IF fs \in {"read", "corrupt"} \/ (outcome = "failed" /\ fs # "unrecognized")
              THEN /\ imagePhase' = "failed" /\ imageError' = "volumeScan"
                   /\ UNCHANGED reports
              ELSE /\ reports' = Append(reports, Report(k, r, fs,
                          CASE fs = "unrecognized"       -> "unrecognized"
                            [] fs = "ntfs"               -> outcome
                            [] OTHER -> IF deep THEN "partial" ELSE outcome))
                   /\ UNCHANGED <<imagePhase, imageError>>
    /\ UNCHANGED <<old, new, image, pending, last, unreadable, damaged, partitions>>

FinishImage ==
    /\ imagePhase = "volumes" /\ Len(reports) = Len(partitions.regions)
    /\ imagePhase' = "done"
    /\ UNCHANGED <<old, new, image, pending, last, unreadable, damaged, partitions, reports,
                   imageError>>

ImageNext == ToolWrites \/ TakeImage \/ RefusePath \/ ScanImagePath \/ ScanVolume
             \/ FinishImage

-----------------------------------------------------------------------------
(* Properties.                                                             *)

Wanted(layout) ==
    LET ok(e) == /\ e.type = "plain" /\ e.sectors > 0
                 /\ IF layout.kind = "gpt" THEN e.start >= FirstUsable /\ EndOf(e) <= LastUsable
                    ELSE EndOf(e) <= last
        used  == Filter(layout.entries, {e \in Range(layout.entries) : ok(e)})
    IN  [k \in DOMAIN used |-> Region(used[k])] \o
        [k \in DOMAIN layout.logical |-> Region(layout.logical[k])]
WholeDisk == <<[start |-> 0, sectors |-> last + 1]>>

Whole(layout, primary) ==
    LET h == Header(layout, primary)
    IN  {h.current, h.entryLba} \cap damaged = {} /\ layout.kind = "gpt"
        /\ image[h.current] = h /\ image[h.entryLba] = Table(layout)
PrimaryCopy == {1, 2}
BackupCopy  == {LastLba - 1, LastLba}

(* The volumes scanned are those of the disk: inside the image, and those  *)
(* of the layout before or after the tool's work, never some of each; if   *)
(* the tool was finished, of the one after it.  Two whole copies of a GPT  *)
(* that differ are not believed, damage to one copy does not cost the      *)
(* other, a disk said to be GPT is never scanned as anything else, and     *)
(* every volume gets its report.                                           *)
PartitionsAreSound ==
    /\ imagePhase \in {"volumes", "done"} =>
          LET rs == partitions.regions
          IN  /\ \A r \in Range(rs) : r.sectors > 0 /\ EndOf(r) <= last
              /\ partitions.kind = "gpt" =>
                    /\ \E l \in {old, new} : l.kind = "gpt" /\ rs = Wanted(l)
                    /\ pending = <<>> => new.kind = "gpt" /\ rs = Wanted(new)
                    /\ ~(old # new /\ last = LastLba /\ Whole(old, TRUE) /\ Whole(new, FALSE))
              /\ partitions.kind = "mbr" =>
                    /\ pending = <<>> => new.kind = "mbr" /\ Range(rs) \subseteq Range(Wanted(new))
                    /\ pending = <<>> /\ damaged = {} => rs = Wanted(new)
              /\ partitions.kind # "gpt" => image[0] # Protective
              /\ pending = <<>> /\ new.kind = "none" => rs = WholeDisk
    /\ imageError \in {"read", "corrupt"} /\ pending = <<>> =>
          ~(/\ last = LastLba /\ new.kind = "gpt" /\ Wanted(new) # <<>>
            /\ \E copy \in {PrimaryCopy, BackupCopy} : damaged \subseteq {0} \cup copy)
    /\ imagePhase = "done" => [k \in DOMAIN reports |-> reports[k].region] = partitions.regions
=============================================================================
