----------------------------- MODULE NtfsVolume -----------------------------
(***************************************************************************)
(* The master file table of a mounted NTFS volume and the programs that    *)
(* use it while it is scanned.  None of this is the scanner's: it is what  *)
(* the scanner has to make sense of.  A record that is freed keeps its     *)
(* contents and counts its sequence number up; whoever takes it over       *)
(* overwrites them.                                                        *)
(***************************************************************************)
EXTENDS NtfsNamespace

CONSTANTS
    Names,          \* what files are called
    SystemNames,    \* what other records are called
    LongNames,      \* those NTFS gives a DOS alias
    Trees,          \* the tables a scan may find
    MaxChanges      \* how often other programs change the table

Alias == "DOS~1"

ASSUME VolumeAssumption ==
    /\ RootRecord < FirstUserRecord /\ RootRecord <= LastRecord
    /\ Alias \in SystemNames /\ LongNames \subseteq Names /\ MaxChanges \in Nat
    /\ SequenceLimit > 1

Records == 0 .. LastRecord
UserRecords == FirstUserRecord .. LastRecord
Sequences == 0 .. SequenceLimit - 1

FileNames == [name : Names \cup SystemNames, kind : {"dos", "win"}, parent : Nat,
              parentSequence : Sequences]
FileRecords == [kind : {"file"}, sequence : Sequences, inUse : BOOLEAN, dir : BOOLEAN,
                names : Seq(FileNames), base : Nat, whole : BOOLEAN, listed : BOOLEAN]
OtherRecords == [kind : {"zero", "torn", "other"}]

(* What NTFS guarantees: the root is a directory and stays one, a DOS      *)
(* alias comes with the name it is for, and a file whose attributes are    *)
(* all in its record has a name there.                                     *)
SoundRecord(r, record) ==
    record.kind = "file" /\ record.base = 0 =>
       /\ record.names # <<>> => \E n \in Range(record.names) : n.kind = "win"
       /\ record.names = <<>> => r < FirstUserRecord \/ ~record.whole \/ record.listed
ASSUME TreesAssumption ==
    \A t \in Trees :
       /\ t \in [Records -> FileRecords \cup OtherRecords]
       /\ \A r \in Records : SoundRecord(r, t[r])
       /\ t[RootRecord] \in FileRecords
       /\ t[RootRecord].base = 0 /\ t[RootRecord].inUse /\ t[RootRecord].dir

VARIABLES
    table,    \* the records on the disk
    links,    \* what has been true of parents and names since the scan began
    quiet,    \* the records nobody has changed since
    changes   \* how often the table was changed

volumeVars == <<table, links, quiet, changes>>

Zero == [kind |-> "zero"]
FileRecord(sequence, inUse, dir, names) ==
    [kind |-> "file", sequence |-> sequence, inUse |-> inUse, dir |-> dir,
     names |-> names, base |-> 0, whole |-> TRUE, listed |-> FALSE]

IsFile(r)    == table[r].kind = "file"
IsLive(r)    == IsFile(r) /\ table[r].inUse
IsBase(r)    == IsFile(r) /\ table[r].base = 0
LiveDirs     == {r \in UserRecords \cup {RootRecord} :
                    IsLive(r) /\ IsBase(r) /\ table[r].dir}
LinkTo(name, kind, r) ==
    [name |-> name, kind |-> kind, parent |-> r,
     parentSequence |-> table[r].sequence]

(* $FILE_NAME attributes: a long name comes with its DOS alias before it.  *)
NamesFor(name, r) ==
    (IF name \in LongNames THEN <<LinkTo(Alias, "dos", r)>> ELSE <<>>)
        \o <<LinkTo(name, "win", r)>>

(* The generation a record holds or, once freed, held.                     *)
Identity(r, record) ==
    [record |-> r,
     sequence |-> IF record.inUse THEN record.sequence
                  ELSE (record.sequence - 1) % SequenceLimit]

LinksIn(t) ==
    UNION {{[node |-> Identity(r, t[r]), name |-> n.name,
             parent |-> [record |-> n.parent, sequence |-> n.parentSequence]] :
               n \in {m \in Range(t[r].names) : m.kind # "dos"}} :
           r \in {u \in Records : t[u].kind = "file"}}

VolumeInit ==
    /\ table \in Trees
    /\ links = LinksIn(table)
    /\ quiet = Records
    /\ changes = 0

Changed(t) ==
    /\ changes < MaxChanges
    /\ table' = t
    /\ links' = links \cup LinksIn(t)
    /\ quiet' = {r \in quiet : t[r] = table[r]}
    /\ changes' = changes + 1

Children(r) == {c \in UserRecords :
                   /\ IsLive(c)
                   /\ \E n \in Range(table[c].names) : n.parent = r}
Taken(r, name) == \E c \in Children(r) : \E n \in Range(table[c].names) :
                      n.parent = r /\ n.name = name

Create(r, dir, parent, name) ==
    /\ ~IsLive(r) /\ parent \in LiveDirs /\ ~Taken(parent, name)
    /\ Changed([table EXCEPT ![r] =
          FileRecord(IF IsFile(r) THEN table[r].sequence ELSE 1, TRUE, dir,
                     NamesFor(name, parent))])

(* Freeing a file frees its extension records as well.                     *)
Delete(r) ==
    /\ IsLive(r) /\ IsBase(r) /\ Children(r) = {}
    /\ Changed([u \in Records |->
          IF u = r \/ (IsLive(u) /\ table[u].base = r)
          THEN [table[u] EXCEPT !.inUse = FALSE,
                    !.sequence = (table[u].sequence + 1) % SequenceLimit]
          ELSE table[u]])

(* Directory d, or below it, by no more links than there are records.      *)
IsBelow(r, d) ==
    LET below[k \in 0 .. LastRecord] ==
            IF k = 0 THEN {d}
            ELSE LET found == below[k - 1]
                 IN  found \cup {c \in Records \ {RootRecord} :
                         IsFile(c) /\ \E n \in Range(table[c].names) : n.parent \in found}
    IN  r \in below[LastRecord]

Move(r, parent, name) ==
    /\ IsLive(r) /\ IsBase(r) /\ parent \in LiveDirs /\ ~Taken(parent, name)
    /\ table[r].dir => ~IsBelow(parent, r)
    /\ Changed([table EXCEPT ![r].names = NamesFor(name, parent)])

HardLink(r, parent, name) ==
    /\ IsLive(r) /\ IsBase(r) /\ ~table[r].dir
    /\ parent \in LiveDirs /\ ~Taken(parent, name)
    /\ Changed([table EXCEPT ![r].names = @ \o NamesFor(name, parent)])

OtherPrograms ==
    \E r \in UserRecords :
       \/ Delete(r)
       \/ \E parent \in LiveDirs, name \in Names :
             \/ \E dir \in BOOLEAN : Create(r, dir, parent, name)
             \/ Move(r, parent, name)
             \/ HardLink(r, parent, name)

-----------------------------------------------------------------------------
(* What was true: the links up from a generation, and the chain of names   *)
(* that leads to it.                                                       *)

(* The generations that are goal, or reach it by no more than MaxPathDepth *)
(* + 1 links, without any of those to avoid.                               *)
Reaching(goal, avoided) ==
    LET below[k \in 0 .. MaxPathDepth + 1] ==
            IF k = 0 THEN {goal} \ avoided
            ELSE LET found == below[k - 1]
                 IN  found \cup {l.node : l \in {m \in links : m.parent \in found
                                                          /\ m.node \notin avoided}}
    IN  below[MaxPathDepth + 1]

(* Those that had the path.                                                *)
HavingPath(components) ==
    LET at[k \in 0 .. Len(components)] ==
            IF k = 0 THEN {l.parent : l \in {m \in links : m.parent.record = RootRecord}}
            ELSE LET above == at[k - 1]
                 IN  {l.node : l \in {m \in links : m.name = components[k] /\ m.parent \in above}}
    IN  at[Len(components)]
=============================================================================
