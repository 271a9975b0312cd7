---------------------------- MODULE NtfsNamespace ---------------------------
(***************************************************************************)
(* What crates/fs-ntfs/src/scan.rs concludes about paths and folders from  *)
(* the directory and deleted records it has retained: the paths of a       *)
(* record, the membership of a candidate in a folder, the directory that   *)
(* has a given path, and the path shown for a candidate.                   *)
(*                                                                         *)
(* entries maps record numbers to what was retained of them.  A name is    *)
(* what $FILE_NAME holds: the name, its kind ("dos" or "win"), and the     *)
(* record and sequence of the parent directory.                            *)
(***************************************************************************)
EXTENDS Naturals, Sequences, FiniteSets, SequencesExt, Lists

CONSTANTS
    RootRecord,             \* the record of the root directory (5)
    FirstUserRecord,        \* the first record of an ordinary file (16)
    LastRecord,             \* the last record of the table
    SequenceLimit,          \* sequence numbers wrap here (2^16)
    MaxPathDepth,           \* 255
    MaxPathsPerName,        \* 256
    MaxNamespacePaths,      \* 65536
    MaxNamespaceComponents  \* 1048576

ASSUME LimitsAssumption ==
    /\ RootRecord \in Nat /\ FirstUserRecord \in Nat /\ LastRecord \in Nat
    /\ SequenceLimit \in Nat \ {0}
    /\ MaxPathDepth \in Nat /\ MaxPathsPerName \in Nat \ {0}
    /\ MaxNamespacePaths \in Nat /\ MaxNamespaceComponents \in Nat

(* Records in the order of their numbers.                                  *)
InOrder(records) == Filter([k \in 1 .. LastRecord + 1 |-> k - 1], records)

Node(entries, r) == [record |-> r, sequence |-> entries[r].sequence]

-----------------------------------------------------------------------------
(* How much a path can be trusted; merging keeps the worse.                *)

Rank == [exact |-> 0, reconstructed |-> 1, incomplete |-> 2, orphaned |-> 3]
Worse(left, right) == IF Rank[left] < Rank[right] THEN right ELSE left

Upto(s, n) == IF Len(s) <= n THEN s ELSE SubSeq(s, 1, n)

Proper(names) == Filter(names, {n \in Range(names) : n.kind # "dos"})
UsefulNames(entry) == Proper(entry.names)

(* The first name that is not a DOS alias, or else the first one.          *)
BestName(names) ==
    IF Proper(names) # <<>> THEN <<Proper(names)[1]>> ELSE Upto(names, 1)

(* Bug: a directory that took over the record passes for the freed one.    *)
SameGenerationBug(entry, sequence) ==
    \/ entry.sequence = sequence
    \/ entry.sequence = (sequence + 1) % SequenceLimit

(* The record is that of the generation the reference names: either still, *)
(* or freed since, which counts the sequence up by one.                    *)
SameGeneration(entry, sequence) ==
    \/ entry.sequence = sequence
    \/ ~entry.inUse /\ entry.sequence = (sequence + 1) % SequenceLimit

Parents(folders, ancestors, state) ==
    [folders |-> folders, ancestors |-> ancestors, state |-> state]
Orphaned == [paths |-> <<Parents(<<>>, <<>>, "orphaned")>>, complete |-> TRUE]

(* What a parent reference n leads to, if above[i] is what the i-th name   *)
(* of the directory it refers to leads to.                                 *)
PathsThrough(entries, n, above) ==
    LET parent == entries[n.parent]
        node   == Node(entries, n.parent)
        names  == UsefulNames(parent)
        state  == IF ~parent.whole THEN "incomplete"
                  ELSE IF ~parent.inUse THEN "reconstructed" ELSE "exact"
        below(i, p) == Parents(Append(p.folders, names[i].name),
                               Append(p.ancestors, node), Worse(p.state, state))
        all    == Flattened([i \in DOMAIN names |->
                     [j \in DOMAIN above[i].paths |-> below(i, above[i].paths[j])]])
    IN  CASE ~parent.dir -> Orphaned
          [] parent.dir /\ n.parent = RootRecord ->
                IF ~parent.inUse \/ parent.sequence # n.parentSequence THEN Orphaned
                ELSE [paths |-> <<Parents(<<>>, <<node>>, state)>>, complete |-> TRUE]
          [] OTHER ->
                IF ~SameGeneration(parent, n.parentSequence) THEN Orphaned
                ELSE IF names = <<>>
                THEN [paths |-> <<Parents(<<>>, <<node>>, "orphaned")>>, complete |-> TRUE]
                ELSE [paths |-> Upto(all, MaxPathsPerName),
                      complete |-> /\ Len(all) <= MaxPathsPerName
                                   /\ \A i \in DOMAIN names : above[i].complete]

LinksOf(entries) == UNION {Range(entries[r].names) : r \in DOMAIN entries}

PathsFrom(entries, above) ==
    [n \in LinksOf(entries) |-> [seen \in SUBSET DOMAIN entries |->
        IF n.parent \in seen \/ n.parent \notin DOMAIN entries THEN Orphaned
        ELSE LET names == UsefulNames(entries[n.parent])
             IN  PathsThrough(entries, n,
                    [i \in DOMAIN names |-> above[names[i]][seen \cup {n.parent}]])]]

(* Every way up from the parent reference of a name, root first; left is   *)
(* what is left of MAX_PATH_DEPTH.                                         *)
ExpandParentPaths(entries, name, visited) ==
    LET cut == [paths |-> <<Parents(<<>>, <<>>, "incomplete")>>, complete |-> FALSE]
        up[left \in 0 .. MaxPathDepth] ==
            IF left = 0 THEN [n \in LinksOf(entries) |-> [seen \in SUBSET DOMAIN entries |-> cut]]
            ELSE PathsFrom(entries, up[left - 1])
    IN  up[MaxPathDepth][name][visited]

-----------------------------------------------------------------------------
(* The namespace: every path of every retained record but the root, in the *)
(* order of the records, as far as the budgets reach.                      *)

PathsOfName(entries, r, n) ==
    LET up   == ExpandParentPaths(entries, n, {r})
        own  == IF entries[r].whole THEN "exact" ELSE "incomplete"
        path(p) == [node |-> Node(entries, r), name |-> n.name,
                    folders |-> p.folders, ancestors |-> p.ancestors,
                    state |-> Worse(p.state, own)]
    IN  [paths |-> [i \in DOMAIN up.paths |-> path(up.paths[i])],
         complete |-> up.complete]

Cost(path) == Len(path.folders) + Len(path.ancestors) + 1

Within(paths) ==
    /\ Len(paths) <= MaxNamespacePaths
    /\ FoldLeft(LAMBDA sum, p : sum + Cost(p), 0, paths) <= MaxNamespaceComponents

BuildNamespace(entries, scanComplete) ==
    LET records  == InOrder(DOMAIN entries \ {RootRecord})
        found    == Flattened([i \in DOMAIN records |->
                       LET names == UsefulNames(entries[records[i]])
                       IN  [k \in DOMAIN names |->
                              PathsOfName(entries, records[i], names[k])]])
        all      == Flattened([i \in DOMAIN found |-> found[i].paths])
        kept     == Cardinality({k \in DOMAIN all : Within(SubSeq(all, 1, k))})
    IN  [paths       |-> SubSeq(all, 1, kept),
         directories |-> {[node |-> Node(entries, r), active |-> entries[r].inUse] :
                             r \in {d \in DOMAIN entries : entries[d].dir}},
         complete    |-> /\ scanComplete /\ kept = Len(all)
                         /\ \A i \in DOMAIN found : found[i].complete]

PathsOf(namespace, node) ==
    {p \in Range(namespace.paths) : p.node = node}

(* Does the candidate belong to the folder?                                *)
ClassifyCandidate(namespace, candidate, directory) ==
    LET paths == PathsOf(namespace, candidate)
    IN  IF \E p \in paths : directory \in Range(p.ancestors) THEN "match"
        ELSE IF \/ paths = {} \/ ~namespace.complete
                \/ \E p \in paths : p.state \notin {"exact", "reconstructed"}
        THEN "unknown"
        ELSE "noMatch"

(* What the results say about the path of a candidate.                     *)
CandidatePathEvidence(namespace, node) ==
    LET paths == SelectSeq(namespace.paths, LAMBDA p : p.node = node)
    IN  CASE Len(paths) = 0 -> "reconstructed"
          [] Len(paths) = 1 -> paths[1].state
          [] OTHER          -> "ambiguous"

(* The active directory that has the path of the folder the user picked.   *)
ResolveActiveDirectory(namespace, components) ==
    LET active   == {d.node : d \in {e \in namespace.directories : e.active}}
        roots    == {d \in active : d.record = RootRecord}
        matching == {p \in Range(namespace.paths) :
                        /\ p.node \in active
                        /\ Append(p.folders, p.name) = components}
        exact    == {p.node : p \in {q \in matching : q.state = "exact"}}
        unsure   == \E p \in matching : p.state # "exact"
        candidates == IF components = <<>> THEN roots ELSE exact
        none     == IF namespace.complete THEN "notFound" ELSE "unknown"
    IN  IF Cardinality(candidates) > 1
        THEN [answer |-> "ambiguous", nodes |-> {}]
        ELSE IF components # <<>> /\ unsure
        THEN [answer |-> "unknown", nodes |-> {}]
        ELSE IF candidates = {} THEN [answer |-> none, nodes |-> {}]
        ELSE [answer |-> "unique", nodes |-> candidates]

-----------------------------------------------------------------------------
(* The path shown for a candidate follows the best name of each ancestor,  *)
(* and gives up on the first one that is missing, reused or nameless.      *)

Orphan == [path |-> <<>>, confidence |-> "low"]

PathFrom(entries, above) ==
    [n \in LinksOf(entries) |-> [seen \in SUBSET DOMAIN entries |->
        LET r    == n.parent
            best == BestName(entries[r].names)
            rest == above[best[1]][seen \cup {r}]
        IN  IF r \notin DOMAIN entries THEN Orphan
            ELSE IF ~entries[r].dir THEN Orphan
            ELSE IF r = RootRecord
            THEN IF entries[r].inUse /\ entries[r].sequence = n.parentSequence
                 THEN [path |-> <<>>, confidence |-> "high"] ELSE Orphan
            ELSE IF \/ r \in seen \/ best = <<>>
                    \/ ~SameGeneration(entries[r], n.parentSequence)
            THEN Orphan
            ELSE IF rest = Orphan THEN Orphan
            ELSE [path |-> Append(rest.path, best[1].name),
                  confidence |-> IF entries[r].inUse THEN rest.confidence ELSE "medium"]]]

WalkUp(entries, name, visited) ==
    LET up[left \in 0 .. MaxPathDepth] ==
            IF left = 0
            THEN [n \in LinksOf(entries) |-> [seen \in SUBSET DOMAIN entries |-> Orphan]]
            ELSE PathFrom(entries, up[left - 1])
    IN  up[MaxPathDepth][name][visited]

ReconstructPath(entries, r) == WalkUp(entries, BestName(entries[r].names)[1], {r})
=============================================================================
