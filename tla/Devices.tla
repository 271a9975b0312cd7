------------------------------ MODULE Devices ------------------------------
(***************************************************************************)
(* The disks and volumes of the machine, as the queries of                 *)
(* crates/io-windows see them.  The operating system and its user are not  *)
(* part of the repository: a disk is pulled out and put back under another *)
(* number, a volume is formatted again, a directory is deleted and its     *)
(* file record used again, a timer runs.  What the code asks of them is    *)
(* stated here once: an enumeration, and queries on a handle.              *)
(***************************************************************************)
EXTENDS Naturals, FiniteSets

CONSTANTS
    Disks,      \* physical disks
    Source,     \* the volume that is scanned
    Target,     \* the volume that holds the recovery destination
    MaxChanges  \* bound on what happens to the world and to the processes

ASSUME DevicesAssumption ==
    /\ Disks # {} /\ IsFiniteSet(Disks) /\ Source # Target /\ MaxChanges \in Nat

VARIABLE world

Volumes == {Source, Target}
Numbers == 1 .. Cardinality(Disks) + 1  \* PhysicalDrive numbers, one to spare
Absent  == 0                            \* the number of a disk that is not attached

World == [disk    : [Volumes -> Disks],                  \* where a volume lies
          number  : [Disks -> Numbers \union {Absent}],  \* as Windows counts them now
          epoch   : [Disks -> 0 .. MaxChanges],          \* times it was attached again
          serial  : [Volumes -> 0 .. MaxChanges],        \* times it was formatted
          reuse   : 0 .. MaxChanges,                     \* of the chosen folder's record
          changes : 0 .. MaxChanges]                           \* and faults so far

(* Every disk is attached, under a number of its own (which one has which  *)
(* does not matter: disks have no other name).                             *)
WorldInit ==
    \E d \in [Volumes -> Disks] :
        world = [disk    |-> d,
                 number  |-> CHOOSE n \in [Disks -> Numbers] :
                                \A x, y \in Disks : n[x] = n[y] => x = y,
                 epoch   |-> [x \in Disks |-> 0],
                 serial  |-> [v \in Volumes |-> 0],
                 reuse   |-> 0,
                 changes |-> 0]

NumberOf(v) == world.number[world.disk[v]]
Mounted(v)  == NumberOf(v) # Absent

(* The opaque identity of a volume: its GUID and its serial number.        *)
Identity(v)  == [volume |-> v, serial |-> world.serial[v]]
Identities   == [volume : Volumes, serial : 0 .. MaxChanges]

(* One enumeration: a volume whose queries fail is left out.               *)
Enumerations == SUBSET {Identity(v) : v \in {w \in Volumes : Mounted(w)}}

(* A handle is good for as long as its disk stays attached; a handle on a  *)
(* directory also needs the file system it was opened in.                  *)
Handle        == [volume : Volumes, epoch : 0 .. MaxChanges, serial : 0 .. MaxChanges]
HandleOn(v)   == [volume |-> v, epoch |-> world.epoch[world.disk[v]],
                  serial |-> world.serial[v]]
Attached(h)   == Mounted(h.volume) /\ h.epoch = world.epoch[world.disk[h.volume]]
Alive(h)      == Attached(h) /\ h.serial = world.serial[h.volume]
---------------------------------------------------------------------------
Changed(w) == world.changes < MaxChanges
              /\ world' = [w EXCEPT !.changes = @ + 1]

Detach(d) == world.number[d] # Absent
             /\ Changed([world EXCEPT !.number[d] = Absent])

(* A disk that comes back gets a free number, not always the old one.      *)
Attach(d, n) ==
    /\ world.number[d] = Absent
    /\ \A x \in Disks : world.number[x] # n
    /\ world.epoch[d] < MaxChanges
    /\ Changed([world EXCEPT !.number[d] = n, !.epoch[d] = @ + 1])

Format(v) == Mounted(v) /\ Changed([world EXCEPT !.serial[v] = @ + 1])

(* The chosen folder is deleted and its file record is used again: the     *)
(* sequence number of the record changes.                                  *)
ReuseRecord == Mounted(Source) /\ Changed([world EXCEPT !.reuse = @ + 1])

WorldChange ==
    \/ \E d \in Disks : Detach(d)
    \/ \E d \in Disks, n \in Numbers : Attach(d, n)
    \/ \E v \in Volumes : Format(v)
    \/ ReuseRecord
=============================================================================
