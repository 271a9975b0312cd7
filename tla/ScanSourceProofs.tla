-------------------------- MODULE ScanSourceProofs --------------------------
(***************************************************************************)
(* Machine-checked proofs about DestinationRoot and the modules below it,  *)
(* for every number of disks, of changes and of faults, and every length   *)
(* and interval.                                                           *)
(***************************************************************************)
EXTENDS DestinationRoot, FiniteSetTheorems, TLAPS

-----------------------------------------------------------------------------
(* The world keeps its type.                                               *)

WorldShape ==
    world = [disk |-> world.disk, number |-> world.number, epoch |-> world.epoch,
             serial |-> world.serial, reuse |-> world.reuse, changes |-> world.changes]
WorldType ==
    /\ WorldShape
    /\ world.disk \in [Volumes -> Disks]
    /\ world.number \in [Disks -> Numbers \union {Absent}]
    /\ world.epoch \in [Disks -> Nat]
    /\ world.serial \in [Volumes -> Nat]

(* There are enough numbers for the disks.                                 *)
LEMMA DisksAreNumbered ==
    \E n \in [Disks -> Numbers] : \A x, y \in Disks : n[x] = n[y] => x = y
  <1>1. PICK f \in Bijection(1 .. Cardinality(Disks), Disks) : TRUE
    BY FS_CardinalityType, DevicesAssumption DEF ExistsBijection
  <1>2. \A x \in Disks : \E i \in 1 .. Cardinality(Disks) : f[i] = x
    BY <1>1 DEF Bijection, Surjection
  <1>3. f \in [1 .. Cardinality(Disks) -> Disks]
    BY <1>1 DEF Bijection, Injection
  <1> DEFINE n == [x \in Disks |-> CHOOSE i \in 1 .. Cardinality(Disks) : f[i] = x]
  <1>4. \A x \in Disks : n[x] \in 1 .. Cardinality(Disks) /\ f[n[x]] = x
    BY <1>2
  <1>5. 1 .. Cardinality(Disks) \subseteq Numbers
    BY FS_CardinalityType, DevicesAssumption DEF Numbers
  <1>6. n \in [Disks -> Numbers]
    BY <1>4, <1>5
  <1>7. \A x, y \in Disks : n[x] = n[y] => x = y
    BY <1>4
  <1> HIDE DEF n
  <1> QED BY <1>6, <1>7

LEMMA WorldInitType ==
    ASSUME WorldInit
    PROVE  WorldType
  <1> DEFINE Good(n) == n \in [Disks -> Numbers] /\ \A x, y \in Disks : n[x] = n[y] => x = y
  <1>1. PICK d \in [Volumes -> Disks] :
            world = [disk    |-> d,
                     number  |-> CHOOSE n \in [Disks -> Numbers] :
                                    \A x, y \in Disks : n[x] = n[y] => x = y,
                     epoch   |-> [x \in Disks |-> 0],
                     serial  |-> [v \in Volumes |-> 0],
                     reuse   |-> 0,
                     changes |-> 0]
    BY DEF WorldInit
  <1>2. world.number \in [Disks -> Numbers]
    BY <1>1, DisksAreNumbered
  <1>3. world.number \in [Disks -> Numbers \union {Absent}]
    BY <1>2
  <1> QED BY <1>1, <1>3 DEF WorldType, WorldShape

(* What other things of the machine may do to it.                          *)
LEMMA WorldChanges ==
    ASSUME WorldType, WorldChange
    PROVE  /\ WorldType'
           /\ world'.disk = world.disk
           /\ \A d \in Disks : \/ world'.epoch[d] = world.epoch[d]
                                  /\ world'.number[d] \in {world.number[d], Absent}
                               \/ world'.epoch[d] = world.epoch[d] + 1
           /\ \A v \in Volumes : world.serial[v] <= world'.serial[v]
  <1>1. CASE \E d \in Disks : Detach(d)
    <2>1. PICK d \in Disks :
             world' = [[world EXCEPT !.number[d] = Absent] EXCEPT !.changes = @ + 1]
      BY <1>1 DEF Detach, Changed
    <2>2. /\ world'.number = [world.number EXCEPT ![d] = Absent]
          /\ world'.disk = world.disk /\ world'.epoch = world.epoch
          /\ world'.serial = world.serial
          /\ WorldShape'
      BY <2>1 DEF WorldType, WorldShape
    <2> QED BY <2>2 DEF WorldType
  <1>2. CASE \E d \in Disks, n \in Numbers : Attach(d, n)
    <2>1. PICK d \in Disks, n \in Numbers :
             world' = [[world EXCEPT !.number[d] = n, !.epoch[d] = @ + 1]
                          EXCEPT !.changes = @ + 1]
      BY <1>2 DEF Attach, Changed
    <2>2. /\ world'.number = [world.number EXCEPT ![d] = n]
          /\ world'.epoch = [world.epoch EXCEPT ![d] = @ + 1]
          /\ world'.disk = world.disk /\ world'.serial = world.serial
          /\ WorldShape'
      BY <2>1 DEF WorldType, WorldShape
    <2> QED BY <2>2 DEF WorldType
  <1>3. CASE \E v \in Volumes : Format(v)
    <2>1. PICK v \in Volumes :
             world' = [[world EXCEPT !.serial[v] = @ + 1] EXCEPT !.changes = @ + 1]
      BY <1>3 DEF Format, Changed
    <2>2. /\ world'.serial = [world.serial EXCEPT ![v] = @ + 1]
          /\ world'.number = world.number /\ world'.epoch = world.epoch
          /\ world'.disk = world.disk
          /\ WorldShape'
      BY <2>1 DEF WorldType, WorldShape
    <2> QED BY <2>2 DEF WorldType
  <1>4. CASE ReuseRecord
    <2>1. world' = [[world EXCEPT !.reuse = @ + 1] EXCEPT !.changes = @ + 1]
      BY <1>4 DEF ReuseRecord, Changed
    <2>2. /\ world'.number = world.number /\ world'.epoch = world.epoch
          /\ world'.disk = world.disk /\ world'.serial = world.serial
          /\ WorldShape'
      BY <2>1 DEF WorldType, WorldShape
    <2> QED BY <2>2 DEF WorldType
  <1> QED BY <1>1, <1>2, <1>3, <1>4 DEF WorldChange

(* A step of this system changes the world as other things of the machine  *)
(* do, or counts a fault.                                                  *)
WorldStep ==
    /\ WorldType'
    /\ world'.disk = world.disk
    /\ \A d \in Disks : \/ world'.epoch[d] = world.epoch[d]
                           /\ world'.number[d] \in {world.number[d], Absent}
                        \/ world'.epoch[d] = world.epoch[d] + 1
    /\ \A v \in Volumes : world.serial[v] <= world'.serial[v]

LEMMA WorldStays ==
    ASSUME WorldType, UNCHANGED world
    PROVE  WorldStep
  BY DEF WorldType, WorldShape, WorldStep

LEMMA FaultsLeaveTheWorld ==
    ASSUME WorldType, Fault
    PROVE  /\ WorldStep
           /\ world'.serial = world.serial
  <1>1. world' = [world EXCEPT !.changes = @ + 1]
    BY DEF Fault, Changed
  <1>2. /\ world'.number = world.number /\ world'.epoch = world.epoch
        /\ world'.disk = world.disk /\ world'.serial = world.serial
        /\ WorldShape'
    BY <1>1 DEF WorldType, WorldShape
  <1> QED BY <1>2 DEF WorldType, WorldStep

-----------------------------------------------------------------------------
(* The source of the broker.                                               *)

RawShape ==
    raw = [pc |-> raw.pc, id |-> raw.id, handle |-> raw.handle, number |-> raw.number,
           read |-> raw.read, met |-> raw.met, counted |-> raw.counted,
           elapsed |-> raw.elapsed, late |-> raw.late, code |-> raw.code]

Opening == {"enumerating", "opening", "serial", "describing", "confirming"}
Serves  == \/ raw.pc \in {"listing", "reading", "open", "answered"}
           \/ raw.pc = "failed" /\ raw.code = "ReadFailed"

RawType ==
    /\ RawShape
    /\ raw.pc \in Opening \union {"closed", "listing", "comparing", "reading", "open",
                                  "answered", "failed"}
    /\ raw.code \in SourceErrors \union {NoError}
    /\ raw.pc = "failed" => raw.code # NoError
    /\ raw.counted \in 0 .. Interval /\ raw.elapsed \in BOOLEAN /\ raw.late \in Nat

(* What was enumerated was there with that serial number; serial numbers   *)
(* only grow.                                                              *)
Listed ==
    Serves \/ raw.pc \in {"opening", "serial", "describing", "confirming", "comparing"} =>
       /\ raw.id.volume \in Volumes /\ raw.id.serial \in Nat
       /\ raw.id.serial <= world.serial[raw.id.volume]

(* Reads past the second are counted, and a proof in between fails.        *)
LateReads ==
    /\ raw.pc \in Opening \union {"closed", "comparing"} => raw.late = 0
    /\ raw.late <= Interval
    /\ raw.late > 0 /\ Serves => raw.elapsed /\ ~SameSerial
    /\ raw.late > 0 /\ raw.pc = "reading" =>
          raw.late <= raw.counted /\ raw.counted < Interval
    /\ Serves /\ raw.pc \notin {"listing", "reading"} => raw.late <= raw.counted + 1

RawInv == RawType /\ Listed /\ LateReads

LEMMA ClosedInv ==
    ASSUME raw' = Closed
    PROVE  RawInv'
  BY SourceAssumption DEF RawInv, RawType, RawShape, Listed, LateReads, Closed, Serves,
     Opening, NoError

LEMMA RawStepsKeepRawInv ==
    ASSUME WorldType, RawInv, RawStep, UNCHANGED world
    PROVE  RawInv'
  <1> USE DEF WorldType, RawInv, RawType, SourceErrors, NoError
  <1>0. \A seen \in Enumerations : \A id \in seen :
           id.volume \in Volumes /\ id.serial = world.serial[id.volume]
    BY DEF Enumerations, Identity
  <1>1. CASE EnumerateBefore
    <2>1. PICK seen \in Enumerations :
             raw' = IF raw.id \in seen THEN At("opening") ELSE Fails("SourceNotFound")
      BY <1>1 DEF EnumerateBefore
    <2>2. CASE raw.id \in seen
      BY <1>0, <1>1, <2>1, <2>2 DEF EnumerateBefore, At, RawShape, Listed, LateReads, Serves, Opening
    <2>3. CASE raw.id \notin seen
      BY <1>1, <2>1, <2>3 DEF EnumerateBefore, Fails, RawShape, Listed, LateReads, Serves, Opening
    <2> QED BY <2>2, <2>3
  <1>2. CASE OpenVolume
    BY <1>2 DEF OpenVolume, At, Unsupported, Fails, RawShape, Listed, LateReads, Serves, Opening
  <1>3. CASE CheckSerial
    <2>1. raw' \in {At("describing"), Fails("SourceChanged"), Unsupported}
      BY <1>3 DEF CheckSerial
    <2>2. CASE raw' = At("describing")
      BY <1>3, <2>2 DEF CheckSerial, At, RawShape, Listed, LateReads, Serves, Opening
    <2>3. CASE raw' \in {Fails("SourceChanged"), Unsupported}
      BY <1>3, <2>3 DEF CheckSerial, Unsupported, Fails, RawShape, Listed, LateReads, Serves, Opening
    <2> QED BY <2>1, <2>2, <2>3
  <1>4. CASE Describe
    BY <1>4 DEF Describe, At, Unsupported, Fails, RawShape, Listed, LateReads, Serves, Opening
  <1>5. CASE EnumerateAfter
    <2>1. CASE raw' = At("listing")
      BY <1>5, <2>1 DEF EnumerateAfter, At, RawShape, Listed, LateReads, Serves, Opening
    <2>2. CASE raw' = Fails("SourceChanged")
      BY <1>5, <2>2 DEF EnumerateAfter, Fails, RawShape, Listed, LateReads, Serves, Opening
    <2> QED BY <1>5, <2>1, <2>2 DEF EnumerateAfter
  <1>6. CASE ProveListed
    <2>1. PICK seen \in Enumerations :
             raw' = IF raw.id \in seen THEN At("comparing") ELSE Fails("SourceChanged")
      BY <1>6 DEF ProveListed
    <2>2. CASE raw.id \in seen
      <3>1. SameSerial
        BY <1>0, <2>2 DEF SameSerial
      <3>2. raw.late = 0
        BY <1>6, <3>1 DEF ProveListed, LateReads, Serves
      <3> QED BY <1>0, <1>6, <2>1, <2>2, <3>2
            DEF ProveListed, At, RawShape, Listed, LateReads, Serves, Opening
    <2>3. CASE raw.id \notin seen
      BY <1>6, <2>1, <2>3 DEF ProveListed, Fails, RawShape, Listed, LateReads, Serves, Opening
    <2> QED BY <2>2, <2>3
  <1>7. CASE ProveHandle
    <2>1. CASE raw' = Fails("SourceChanged") \/ raw' = Unsupported
      BY <1>7, <2>1 DEF ProveHandle, Unsupported, Fails, RawShape, Listed, LateReads, Serves,
         Opening
    <2>2. CASE \E pc \in {"open", "reading"} :
                  raw' = [At(pc) EXCEPT !.counted = 0, !.elapsed = FALSE]
      <3>1. PICK pc \in {"open", "reading"} :
               raw' = [At(pc) EXCEPT !.counted = 0, !.elapsed = FALSE]
        BY <2>2
      <3>2. /\ raw'.pc = pc /\ raw'.id = raw.id /\ raw'.late = raw.late
            /\ raw'.counted = 0 /\ raw'.elapsed = FALSE /\ raw'.code = raw.code
            /\ RawShape'
        BY <3>1 DEF At, RawShape
      <3>3. raw.late = 0
        BY <1>7 DEF ProveHandle, LateReads
      <3>4. RawType'
        <4>1. raw'.counted \in 0 .. Interval
          BY <3>2, SourceAssumption
        <4>2. raw'.elapsed \in BOOLEAN
          BY <3>2
        <4> QED BY <3>2, <4>1, <4>2
      <3>6. raw.pc = "comparing" /\ UNCHANGED world
        BY <1>7 DEF ProveHandle
      <3>7. Listed'
        BY <3>2, <3>6 DEF Listed, Serves, Opening
      <3>5. LateReads'
        BY <3>2, <3>3, SourceAssumption DEF LateReads, Serves, Opening
      <3> QED BY <3>4, <3>5, <3>7
    <2> QED BY <1>7, <2>1, <2>2 DEF ProveHandle
  <1>8. CASE ReadVolume
    <2>1. CASE raw' = Fails("ReadFailed")
      <3>1. /\ raw'.pc = "failed" /\ raw'.code = "ReadFailed" /\ raw'.id = raw.id
            /\ raw'.counted = raw.counted /\ raw'.elapsed = raw.elapsed
            /\ raw'.late = raw.late
            /\ RawShape'
        BY <2>1 DEF Fails, RawShape
      <3>2. raw.pc = "reading" /\ UNCHANGED world
        BY <1>8 DEF ReadVolume
      <3>3. SameSerial' <=> SameSerial
        BY <3>1, <3>2 DEF SameSerial
      <3>4. RawType' /\ Listed'
        BY <3>1, <3>2, SourceAssumption DEF Listed, Serves, Opening
      <3>5. LateReads'
        BY <3>1, <3>2, <3>3, SourceAssumption DEF LateReads, Serves, Opening
      <3> QED BY <3>4, <3>5
    <2>2. CASE raw' # Fails("ReadFailed")
      <3>1. /\ raw'.pc = "answered" /\ raw'.id = raw.id /\ raw'.counted = raw.counted
            /\ raw'.elapsed = raw.elapsed /\ raw'.code = raw.code
            /\ RawShape'
        BY <1>8, <2>2 DEF ReadVolume, At, RawShape
      <3>2. raw'.late = IF raw.elapsed /\ ~SameSerial THEN raw.late + 1 ELSE raw.late
        BY <1>8, <2>2 DEF ReadVolume, At, RawShape
      <3>3. raw.pc = "reading"
        BY <1>8 DEF ReadVolume
      <3>4. SameSerial' <=> SameSerial
        BY <3>1 DEF SameSerial
      <3>5. RawType' /\ Listed'
        BY <3>1, <3>2, <3>3, SourceAssumption DEF Listed, Serves, Opening
      <3>6. LateReads'
        BY <3>1, <3>2, <3>3, <3>4, SourceAssumption DEF LateReads, Serves, Opening
      <3> QED BY <3>5, <3>6
    <2> QED BY <2>1, <2>2
  <1> QED BY <1>1, <1>2, <1>3, <1>4, <1>5, <1>6, <1>7, <1>8 DEF RawStep

LEMMA TickKeepsRawInv ==
    ASSUME WorldType, RawInv, Tick, UNCHANGED world
    PROVE  RawInv'
  <1>1. /\ raw'.pc = raw.pc /\ raw'.id = raw.id /\ raw'.code = raw.code
        /\ raw'.counted = raw.counted /\ raw'.late = raw.late
        /\ raw'.elapsed = TRUE
        /\ RawShape'
    BY DEF Tick, RawInv, RawType, RawShape
  <1>2. raw'.elapsed \in BOOLEAN
    BY <1>1
  <1>3. RawType'
    BY <1>1, <1>2 DEF RawInv, RawType
  <1>4. Listed'
    BY <1>1 DEF RawInv, Listed, Serves
  <1>5. SameSerial' <=> SameSerial
    BY <1>1 DEF SameSerial
  <1>6. LateReads'
    BY <1>1, <1>5 DEF RawInv, LateReads, Serves
  <1> QED BY <1>3, <1>4, <1>6 DEF RawInv

(* Whatever other things of the machine do, a serial number that has       *)
(* changed does not change back.                                           *)
LEMMA WorldStepsKeepRawInv ==
    ASSUME WorldType, RawInv, WorldStep, UNCHANGED raw
    PROVE  RawInv'
  <1>1. RawType'
    BY DEF RawInv, RawType, RawShape
  <1>2. Listed'
    BY DEF RawInv, Listed, Serves, WorldStep, WorldType
  <1>3. raw.late > 0 /\ Serves => ~SameSerial'
    BY DEF RawInv, LateReads, Listed, SameSerial, WorldStep, WorldType
  <1>4. LateReads'
    BY <1>3 DEF RawInv, LateReads, Serves
  <1> QED BY <1>1, <1>2, <1>4 DEF RawInv

LEMMA QuietKeepsRawInv ==
    ASSUME RawInv, UNCHANGED <<raw, world>>
    PROVE  RawInv'
  BY DEF RawInv, RawType, RawShape, Listed, LateReads, Serves, SameSerial

(* A source that is open starts a read.                                    *)
LEMMA BeginReadKeepsRawInv ==
    ASSUME RawInv, NEW r, raw.pc = "open", BeginRead(r), UNCHANGED world
    PROVE  RawInv' /\ raw'.pc \in {"listing", "reading"}
  <1> DEFINE due == RevalidationDue(Counted, raw.elapsed)
  <1>1. /\ Counted \in 0 .. Interval
        /\ Counted < Interval => Counted = raw.counted + 1
    BY SourceAssumption DEF Counted, RawInv, RawType
  <1>2. /\ raw'.pc = IF due THEN "listing" ELSE "reading"
        /\ raw'.id = raw.id /\ raw'.code = raw.code /\ raw'.counted = Counted
        /\ raw'.elapsed = raw.elapsed /\ raw'.late = raw.late
        /\ RawShape'
    BY DEF BeginRead, At, RawInv, RawType, RawShape
  <1>3. RawType'
    BY <1>1, <1>2 DEF RawInv, RawType
  <1>4. Listed'
    BY <1>2 DEF RawInv, Listed, Serves
  <1>5. SameSerial' <=> SameSerial
    BY <1>2 DEF SameSerial
  <1>6. raw.late > 0 => raw.elapsed /\ ~SameSerial
    BY DEF RawInv, LateReads, Serves
  <1>7. raw.late > 0 /\ ~due => Counted < Interval
    BY <1>1, <1>6, SourceAssumption DEF RevalidationDue
  <1>8. LateReads'
    <2>1. raw.late <= raw.counted + 1 /\ raw.late <= Interval
      BY DEF RawInv, LateReads, Serves
    <2>2. raw.late > 0 /\ ~due => raw.late <= Counted
      BY <1>1, <1>7, <2>1
    <2> QED BY <1>2, <1>5, <1>6, <1>7, <2>1, <2>2 DEF LateReads, Serves, Opening
  <1> QED BY <1>2, <1>3, <1>4, <1>8 DEF RawInv

-----------------------------------------------------------------------------
(* The broker works on its source only while it serves a request.          *)

BrokerShape == broker = [pc |-> broker.pc, next |-> broker.next, expects |-> broker.expects]
BrokerInv ==
    /\ BrokerShape
    /\ broker.pc \in {"absent", "started", "ended"} => raw.pc = "closed"
    /\ broker.pc = "serving" => raw.pc \in {"closed", "open"}

SourceInv == WorldType /\ RawInv /\ BrokerInv

LEMMA EndsAfterKeepsSourceInv ==
    ASSUME SourceInv, NEW f, EndsAfter(f), WorldType'
    PROVE  SourceInv'
  <1>1. raw' = Closed
    BY DEF EndsAfter
  <1>2. BrokerInv'
    BY <1>1 DEF EndsAfter, BrokerInv, BrokerShape, BrokerOff, Closed
  <1> QED BY <1>1, <1>2, ClosedInv DEF SourceInv

LEMMA LaunchKeepsSourceInv ==
    ASSUME SourceInv, NEW id, Launch(id), UNCHANGED world
    PROVE  SourceInv'
  <1>1. WorldType'
    BY DEF SourceInv, WorldType, WorldShape
  <1>2. CASE broker' = BrokerStarted /\ raw' = Closed
    BY <1>1, <1>2, ClosedInv
       DEF SourceInv, BrokerInv, BrokerShape, BrokerStarted, BrokerOff, Closed
  <1>3. CASE UNCHANGED <<broker, raw>>
    BY <1>1, <1>3, QuietKeepsRawInv DEF SourceInv, BrokerInv, BrokerShape
  <1> QED BY <1>2, <1>3 DEF Launch

LEMMA ReceiveKeepsSourceInv ==
    ASSUME SourceInv, Receive, UNCHANGED world
    PROVE  SourceInv'
  <1>0. WorldType'
    BY DEF SourceInv, WorldType, WorldShape
  <1>1. CASE BrokerEnds
    BY <1>0, <1>1, EndsAfterKeepsSourceInv DEF BrokerEnds
  <1>2. CASE Serve([broker EXCEPT !.expects = @ + 1], pipe.frame.msg)
    <2> DEFINE b   == [broker EXCEPT !.expects = @ + 1]
               msg == pipe.frame.msg
    <2>1. /\ b.pc = broker.pc /\ broker.pc \in {"started", "serving"}
          /\ b = [pc |-> b.pc, next |-> b.next, expects |-> b.expects]
      BY DEF Receive, SourceInv, BrokerInv, BrokerShape
    <2>0. Serve(b, msg)
      BY <1>2
    <2> HIDE DEF b, msg
    <2>2. ASSUME NEW f, EndsAfter(f) PROVE SourceInv'
      BY <1>0, <2>2, EndsAfterKeepsSourceInv
    <2>3. CASE UNCHANGED raw /\ broker'.pc = "serving" /\ BrokerShape'
      <3>1. raw.pc \in {"closed", "open"}
        BY <2>1 DEF SourceInv, BrokerInv
      <3> QED BY <1>0, <2>3, <3>1, QuietKeepsRawInv DEF SourceInv, BrokerInv
    <2>4. CASE /\ raw' = [Closed EXCEPT !.pc = "enumerating", !.id = msg.id]
               /\ broker'.pc = "opening" /\ BrokerShape'
      <3>1. /\ raw'.pc = "enumerating" /\ raw'.late = 0 /\ raw'.counted = 0
            /\ raw'.elapsed = FALSE /\ raw'.code = NoError /\ RawShape'
        BY <2>4 DEF Closed, RawShape
      <3>2. raw'.counted \in 0 .. Interval
        BY <3>1, SourceAssumption
      <3>3. raw'.elapsed \in BOOLEAN
        BY <3>1
      <3>4. RawType'
        BY <3>1, <3>2, <3>3 DEF RawType, Opening
      <3>5. RawInv'
        BY <3>1, <3>4, SourceAssumption DEF RawInv, Listed, LateReads, Serves
      <3> QED BY <1>0, <2>4, <3>5 DEF SourceInv, BrokerInv
    <2>5. CASE /\ BeginRead(msg.range) /\ raw.pc # "closed" /\ b.pc = "serving"
               /\ broker'.pc = "reading" /\ BrokerShape'
      <3>1. raw.pc = "open"
        BY <2>1, <2>5 DEF SourceInv, BrokerInv
      <3>2. RawInv'
        BY <2>5, <3>1, BeginReadKeepsRawInv DEF SourceInv
      <3> QED BY <1>0, <2>5, <3>2 DEF SourceInv, BrokerInv
    <2>6. CASE raw' = Closed /\ broker'.pc = "serving" /\ BrokerShape'
      BY <1>0, <2>6, ClosedInv DEF SourceInv, BrokerInv, Closed
    <2>7. ASSUME NEW c, c.pc = "serving", NEW m, Answer(c, m),
                 c = [pc |-> c.pc, next |-> c.next, expects |-> c.expects]
          PROVE  broker'.pc = "serving" /\ BrokerShape'
      BY <2>7 DEF Answer, BrokerShape
    <2>8. /\ [b EXCEPT !.pc = "serving"].pc = "serving"
          /\ [b EXCEPT !.pc = "serving"] =
               [pc |-> "serving", next |-> b.next, expects |-> b.expects]
      BY <2>1
    <2>9. b.pc = "started" \/ b.pc = "serving"
      BY <2>1
    <2> QED
      <3>1. CASE b.pc = "started"
        BY <2>0, <2>2, <2>3, <2>7, <2>8, <3>1 DEF Serve
      <3>2. CASE b.pc = "serving"
        BY <2>0, <2>1, <2>3, <2>4, <2>5, <2>6, <2>7, <3>2 DEF Serve, BrokerShape
      <3> QED BY <2>9, <3>1, <3>2
  <1> QED BY <1>1, <1>2 DEF Receive

LEMMA FinishKeepsSourceInv ==
    ASSUME SourceInv, Finish, UNCHANGED world
    PROVE  SourceInv'
  <1>0. WorldType'
    BY DEF SourceInv, WorldType, WorldShape
  <1>1. broker'.pc = "serving" /\ BrokerShape'
    BY DEF Finish, Answer, Serving, SourceInv, BrokerInv, BrokerShape
  <1>2. CASE UNCHANGED raw /\ raw.pc = "open"
    BY <1>0, <1>1, <1>2, QuietKeepsRawInv DEF SourceInv, BrokerInv
  <1>3. CASE raw' = Closed
    BY <1>0, <1>1, <1>3, ClosedInv DEF SourceInv, BrokerInv, Closed
  <1> DEFINE Reopened ==
         /\ raw'.pc = "open" /\ raw'.id = raw.id /\ raw'.late = raw.late
         /\ raw'.counted = raw.counted /\ raw'.elapsed = raw.elapsed
         /\ raw'.code \in {raw.code, NoError}
         /\ RawShape'
  <1>4. ASSUME Reopened, Serves, raw.pc \notin {"listing", "reading"}
        PROVE  SourceInv'
    <2>1. RawType'
      BY <1>4 DEF SourceInv, RawInv, RawType
    <2>2. Listed'
      BY <1>4 DEF SourceInv, RawInv, Listed
    <2>3. SameSerial' <=> SameSerial
      BY <1>4 DEF SameSerial
    <2>4. LateReads'
      BY <1>4, <2>3 DEF SourceInv, RawInv, LateReads, Opening
    <2> QED BY <1>0, <1>1, <1>4, <2>1, <2>2, <2>4 DEF SourceInv, RawInv, BrokerInv
  <1>5. CASE raw.pc = "failed" /\ raw' = Kept
    <2>1. CASE raw.code \in IdentityErrors
      BY <1>3, <1>5, <2>1 DEF Kept
    <2>2. CASE raw.code \notin IdentityErrors
      <3>1. raw' = [raw EXCEPT !.pc = "open", !.read = NoRead, !.met = NothingMet,
                               !.code = NoError]
        BY <1>5, <2>2 DEF Kept
      <3>2. Reopened
        BY <3>1 DEF SourceInv, RawInv, RawType, RawShape
      <3>3. Serves
        BY <1>5, <2>2 DEF SourceInv, RawInv, RawType, SourceErrors, IdentityErrors, Serves
      <3> QED BY <1>4, <1>5, <3>2, <3>3
    <2> QED BY <2>1, <2>2
  <1>6. CASE /\ raw.pc = "answered"
             /\ raw' = [raw EXCEPT !.pc = "open", !.read = NoRead, !.met = NothingMet]
    <2>1. Reopened
      BY <1>6 DEF SourceInv, RawInv, RawType, RawShape
    <2> QED BY <1>4, <1>6, <2>1 DEF Serves
  <1> QED BY <1>2, <1>5, <1>6, Zenon DEF Finish

LEMMA SourceInvInit ==
    ASSUME Init
    PROVE  SourceInv
  <1>1. raw = Closed /\ broker = BrokerOff
    BY DEF Init, SessionInit
  <1>2. RawInv
    BY <1>1, SourceAssumption DEF RawInv, RawType, RawShape, Listed, LateReads, Closed, Serves,
       Opening, NoError
  <1>3. WorldType
    BY WorldInitType DEF Init
  <1> QED BY <1>1, <1>2, <1>3 DEF SourceInv, BrokerInv, BrokerShape, BrokerOff, Closed

LEMMA SourceInvStep ==
    ASSUME SourceInv, [Next]_vars
    PROVE  SourceInv'
  <1>0. WorldType
    BY DEF SourceInv
  <1>1. ASSUME UNCHANGED <<raw, broker>>, WorldStep
        PROVE  SourceInv'
    BY <1>0, <1>1, WorldStepsKeepRawInv DEF SourceInv, WorldStep, BrokerInv, BrokerShape
  <1>2. ASSUME UNCHANGED <<raw, broker, world>>
        PROVE  SourceInv'
    BY <1>0, <1>1, <1>2, WorldStays
  <1>3. CASE User
    <2>1. CASE UNCHANGED <<world, sessionVars, dest>> \/ UNCHANGED <<world, sessionVars, app>>
      BY <1>2, <2>1 DEF sessionVars
    <2>2. CASE StartScan /\ UNCHANGED <<world, dest>>
      BY <1>2, <2>2, LaunchKeepsSourceInv DEF StartScan
    <2>3. CASE ReopenSource /\ UNCHANGED <<world, dest>>
      BY <2>3, LaunchKeepsSourceInv DEF ReopenSource
    <2> QED BY <1>3, <2>1, <2>2, <2>3 DEF User
  <1>4. CASE Environment
    <2>1. CASE WorldChange /\ UNCHANGED <<sessionVars, app, dest>>
      BY <1>0, <1>1, <2>1, WorldChanges DEF WorldStep, sessionVars
    <2>2. CASE Tick /\ UNCHANGED <<world, broker, pipe, client, faults, app, dest>>
      <3>1. RawInv' /\ WorldType'
        BY <1>0, <2>2, TickKeepsRawInv, WorldStays DEF SourceInv, WorldStep
      <3>2. BrokerInv'
        BY <2>2 DEF SourceInv, BrokerInv, BrokerShape, Tick, RawInv, RawType, RawShape
      <3> QED BY <3>1, <3>2 DEF SourceInv
    <2>3. CASE Fault /\ UNCHANGED <<app, dest>>
      <3>1. WorldStep
        BY <1>0, <2>3, FaultsLeaveTheWorld
      <3>2. CASE BrokerDies
        BY <3>1, <3>2, EndsAfterKeepsSourceInv DEF BrokerDies, BrokerEnds, WorldStep
      <3>3. CASE Resequence \/ Misfit
        BY <1>1, <3>1, <3>3 DEF Resequence, Misfit
      <3> QED BY <2>3, <3>2, <3>3 DEF Fault
    <2> QED BY <1>4, <2>1, <2>2, <2>3 DEF Environment
  <1>5. CASE Work
    <2>1. UNCHANGED <<raw, broker, world>>
      BY <1>5 DEF Work, ScanStep, ScanRead, EndScan, StartEngine, sessionVars
    <2> QED BY <1>2, <2>1
  <1>6. CASE Processes
    <2>1. UNCHANGED world
      BY <1>6 DEF Processes
    <2>2. CASE ClientStep
      BY <1>2, <2>1, <2>2 DEF ClientStep, Accept, Greeted, SourceOpened, ReadAnswered, SourceClosed
    <2>3. CASE Receive \/ Finish
      BY <2>1, <2>3, ReceiveKeepsSourceInv, FinishKeepsSourceInv
    <2>4. CASE RawStep /\ UNCHANGED <<broker, pipe, client, faults>>
      <3>1. RawInv' /\ WorldType'
        BY <1>0, <2>1, <2>4, RawStepsKeepRawInv, WorldStays DEF SourceInv, WorldStep
      <3>2. raw.pc \notin {"closed", "open"}
        BY <2>4 DEF RawStep, EnumerateBefore, OpenVolume, CheckSerial, Describe, EnumerateAfter,
           ProveListed, ProveHandle, ReadVolume
      <3>3. BrokerInv'
        BY <2>4, <3>2 DEF SourceInv, BrokerInv, BrokerShape
      <3> QED BY <3>1, <3>3 DEF SourceInv
    <2> QED BY <1>6, <2>2, <2>3, <2>4 DEF Processes, BrokerStep
  <1>7. CASE UNCHANGED vars
    BY <1>2, <1>7 DEF vars, sessionVars
  <1> QED BY <1>3, <1>4, <1>5, <1>6, <1>7 DEF Next

(* However the volume behind the broker's handle is replaced, at most      *)
(* REVALIDATION_READ_INTERVAL reads are served from it once its identity   *)
(* is gone and the second since the last proof is over (the revalidation   *)
(* cadence of crates/elevated-broker), whatever that interval is.          *)
THEOREM FewStaleReads == Spec => []StaleReadsAreFew
  <1>1. SourceInv => StaleReadsAreFew
    BY DEF SourceInv, RawInv, LateReads, StaleReadsAreFew
  <1> QED BY <1>1, SourceInvInit, SourceInvStep, PTL DEF Spec

-----------------------------------------------------------------------------
(* Records have their fields.                                              *)

ClientShape(c) ==
    c = [pc |-> c.pc, next |-> c.next, expects |-> c.expects, id |-> c.id,
         number |-> c.number, read |-> c.read, got |-> c.got, failed |-> c.failed,
         lost |-> c.lost, error |-> c.error]
FrameShape(f) ==
    \/ f = NoFrame
    \/ f.to \in {"broker", "client"} /\ f = Frame(f.to, f.seq, f.msg)
PipeShape ==
    /\ pipe = [open |-> pipe.open, frame |-> pipe.frame, old |-> pipe.old]
    /\ FrameShape(pipe.frame) /\ FrameShape(pipe.old)
    /\ pipe.old # NoFrame => pipe.old.to = "client"
AppShape ==
    app = [pc |-> app.pc, generation |-> app.generation, scope |-> app.scope,
           folder |-> app.folder, reads |-> app.reads, directory |-> app.directory,
           session |-> app.session, error |-> app.error]
DestShape ==
    dest = [pc |-> dest.pc, stage |-> dest.stage, handle |-> dest.handle,
            number |-> dest.number, asked |-> dest.asked]
Shapes == RawShape /\ ClientShape(client) /\ PipeShape /\ AppShape /\ DestShape

-----------------------------------------------------------------------------
(* The scanned volume is the only one the client asks for and the broker   *)
(* opens.                                                                  *)

Asking  == client.pc \notin {"off", "over"}
Request == pipe.frame.to = "broker" /\ pipe.frame.msg.kind = "OpenSource"
AsksSource ==
    /\ Asking => client.id.volume = Source
    /\ Request => pipe.frame.msg.id.volume = Source
    /\ raw.pc # "closed" => raw.id.volume = Source
OnlySource ==
    /\ AsksSource
    /\ app.pc \in {"storing", "stored", "reopening"} => app.session.volume.volume = Source

(* While the handle of the destination is attached, its disk keeps the     *)
(* number that was asked for.                                              *)
Held     == Attached(dest.handle)
OneDisk  == world.disk[Source] = world.disk[Target]
Recovery == {"stored", "reopening", "restoring"}
DestinationKept ==
    /\ dest.handle.volume = Target /\ dest.handle.epoch \in Nat
    /\ dest.handle.epoch <= world.epoch[world.disk[Target]]
    /\ dest.pc = "policy" /\ Held => dest.asked = NumberOf(Target)
    /\ dest.pc = "started" /\ Held /\ app.pc \in Recovery =>
          NumberOf(Target) # app.session.number
    /\ dest.pc # "none" => app.pc \in Recovery \union {"ended"}
    /\ app.pc \in {"reopening", "restoring"} => dest.pc = "started"

(* When the source is opened again, the number that is asked for, answered *)
(* and received is that of the destination's disk, if they are the same.   *)
Fresh(n)  == Held /\ OneDisk => n = NumberOf(Target)
Reopening == app.pc = "reopening" /\ Asking
Described == \/ raw.pc \in {"confirming", "comparing", "listing", "reading", "open", "answered"}
             \/ raw.pc = "failed" /\ raw.code \notin IdentityErrors
Announced == pipe.frame.to = "client" /\ pipe.frame.msg.kind = "Opened"
FreshNumbers ==
    /\ client.pc \in {"accepting", "greeting", "opening", "open"}
    /\ Described => Fresh(raw.number)
    /\ client.pc = "opening" =>
          /\ Announced => Fresh(pipe.frame.msg.number)
          /\ pipe.old # NoFrame => pipe.old.msg.kind # "Opened"
    /\ client.pc = "open" => Fresh(client.number)
NumberIsFresh ==
    /\ Reopening => FreshNumbers
    /\ app.pc = "restoring" => ~(Held /\ OneDisk)

DiskInv == /\ SourceInv /\ Shapes /\ OnlySource /\ DestinationKept /\ NumberIsFresh

(* The kinds of messages.                                                  *)
LEMMA MessageKinds ==
    /\ \A c : HelloAck(c).kind = "HelloAck" /\ Err(c).kind = "Error"
    /\ \A h, n : Opened(h, n).kind = "Opened" /\ Opened(h, n).number = n
    /\ \A h, r : ReadAt(h, r).kind = "ReadAt"
    /\ \A b : ReadData(b).kind = "ReadData"
    /\ \A h : CloseSource(h).kind = "CloseSource" /\ ClosedMsg(h).kind = "Closed"
    /\ \A id : OpenSource(id).kind = "OpenSource" /\ OpenSource(id).id = id
    /\ Hello.kind = "Hello"
  BY DEF HelloAck, Err, Opened, ReadAt, ReadData, CloseSource, ClosedMsg, OpenSource, Hello

LEMMA FrameFields ==
    ASSUME NEW to, NEW seq, NEW msg
    PROVE  /\ Frame(to, seq, msg).to = to /\ Frame(to, seq, msg).seq = seq
           /\ Frame(to, seq, msg).msg = msg
           /\ NoFrame.to = "nobody"
           /\ to \in {"broker", "client"} => FrameShape(Frame(to, seq, msg))
  BY DEF Frame, NoFrame, FrameShape

LEMMA DiskInvInit ==
    ASSUME Init
    PROVE  DiskInv
  <1>1. /\ raw = Closed /\ client = ClientOff /\ pipe = PipeOff /\ app = Start
        /\ dest = [pc |-> "none", stage |-> "opening", handle |-> HandleOn(Target),
                   number |-> Absent, asked |-> Absent]
        /\ WorldType
    BY WorldInitType DEF Init, SessionInit, AppInit, DestInit
  <1>2. Shapes
    <2>1. RawShape /\ AppShape /\ DestShape
      BY <1>1 DEF RawShape, Closed, AppShape, Start, DestShape
    <2>2. ClientShape(client)
      BY <1>1 DEF ClientShape, ClientOff
    <2>3. PipeShape
      BY <1>1 DEF PipeShape, PipeOff, FrameShape
    <2> QED BY <2>1, <2>2, <2>3 DEF Shapes
  <1>3. OnlySource
    BY <1>1 DEF OnlySource, AsksSource, Asking, Request, Closed, ClientOff, PipeOff, NoFrame, Start
  <1>4. world.epoch[world.disk[Target]] \in Nat
    BY <1>1 DEF WorldType, Volumes
  <1>5. dest.handle.volume = Target /\ dest.handle.epoch = world.epoch[world.disk[Target]]
    BY <1>1 DEF HandleOn
  <1>6. DestinationKept
    BY <1>1, <1>4, <1>5 DEF DestinationKept, Start, Recovery
  <1>7. NumberIsFresh
    BY <1>1 DEF NumberIsFresh, Start, Reopening
  <1> QED BY <1>2, <1>3, <1>6, <1>7, SourceInvInit DEF DiskInv

(* Nothing that happens to disks attaches a handle again or renumbers the  *)
(* disk of an attached one.                                                *)
LEMMA HeldStays ==
    ASSUME DiskInv, WorldStep, dest'.handle = dest.handle
    PROVE  /\ Held' => Held /\ NumberOf(Target)' = NumberOf(Target)
           /\ OneDisk' <=> OneDisk
           /\ dest.handle.epoch <= world'.epoch[world'.disk[Target]]
  <1> DEFINE d == world.disk[Target]
  <1>1. d \in Disks /\ world'.disk = world.disk
    BY DEF DiskInv, SourceInv, WorldType, WorldStep, Volumes
  <1>2. \/ world'.epoch[d] = world.epoch[d]
           /\ world'.number[d] \in {world.number[d], Absent}
        \/ world'.epoch[d] = world.epoch[d] + 1
    BY <1>1 DEF WorldStep
  <1>3. /\ dest.handle.epoch \in Nat /\ world.epoch[d] \in Nat
        /\ dest.handle.epoch <= world.epoch[d] /\ dest.handle.volume = Target
    BY <1>1 DEF DiskInv, DestinationKept, SourceInv, WorldType
  <1>4. Held' => world'.number[d] # Absent /\ dest.handle.epoch = world'.epoch[d]
    BY <1>1, <1>3 DEF Held, Attached, Mounted, NumberOf
  <1>5. Held' => world'.epoch[d] = world.epoch[d] /\ world'.number[d] = world.number[d]
    BY <1>2, <1>3, <1>4
  <1>6. Held' => Held
    BY <1>3, <1>4, <1>5 DEF Held, Attached, Mounted, NumberOf
  <1>7. dest.handle.epoch <= world'.epoch[d]
    BY <1>2, <1>3
  <1> QED BY <1>1, <1>5, <1>6, <1>7 DEF NumberOf, OneDisk

LEMMA WorldStepsKeepDiskInv ==
    ASSUME DiskInv, WorldStep, SourceInv', UNCHANGED <<sessionVars, app, dest>>
    PROVE  DiskInv'
  <1>1. /\ Held' => Held /\ NumberOf(Target)' = NumberOf(Target)
        /\ OneDisk' <=> OneDisk
        /\ dest.handle.epoch <= world'.epoch[world'.disk[Target]]
    BY HeldStays
  <1> USE DEF DiskInv, sessionVars
  <1>2. Shapes'
    BY DEF Shapes, RawShape, ClientShape, PipeShape, AppShape, DestShape
  <1>3. OnlySource'
    BY DEF OnlySource, AsksSource, Asking, Request
  <1>4. DestinationKept'
    BY <1>1 DEF DestinationKept
  <1>5. NumberIsFresh'
    BY <1>1 DEF NumberIsFresh, FreshNumbers, Fresh, Reopening, Asking, Described, Announced
  <1> QED BY <1>2, <1>3, <1>4, <1>5

-----------------------------------------------------------------------------
(* Steps of the destination and of the application alone.                  *)

LEMMA DestStepsKeepDiskInv ==
    ASSUME DiskInv, SourceInv', DestStep, UNCHANGED <<world, sessionVars, app>>
    PROVE  DiskInv'
  <1> USE DEF DiskInv, sessionVars
  <1>0. OnlySource'
    BY DEF OnlySource, AsksSource, Asking, Request
  <1>1. CASE OpenRoot
    <2>1. /\ dest'.pc = "root" /\ dest'.handle = HandleOn(Target) /\ DestShape'
          /\ app.pc = "stored"
      BY <1>1 DEF OpenRoot, Shapes, DestShape
    <2>2. Shapes'
      BY <2>1 DEF Shapes, RawShape, ClientShape, PipeShape, AppShape
    <2>3. world.epoch[world.disk[Target]] \in Nat
      BY DEF SourceInv, WorldType, Volumes
    <2>4. DestinationKept'
      BY <2>1, <2>3 DEF DestinationKept, HandleOn, Recovery
    <2>5. NumberIsFresh'
      BY <2>1 DEF NumberIsFresh, Reopening
    <2> QED BY <1>0, <2>2, <2>4, <2>5
  <1>2. ASSUME dest'.handle = dest.handle, DestShape', dest.pc # "none",
               dest.pc \notin {"started", "none"}, dest'.pc # "none",
               dest'.pc = "policy" /\ Held => dest'.asked = NumberOf(Target),
               dest'.pc = "started" /\ Held => NumberOf(Target) # app.session.number
        PROVE  DiskInv'
    <2>1. Shapes'
      BY <1>2 DEF Shapes, RawShape, ClientShape, PipeShape, AppShape
    <2>2. (Held' <=> Held) /\ NumberOf(Target)' = NumberOf(Target) /\ (OneDisk' <=> OneDisk)
      BY <1>2 DEF Held, Attached, Mounted, NumberOf, OneDisk
    <2>3. app.pc \notin {"reopening", "restoring"}
      BY <1>2 DEF DestinationKept
    <2>4. DestinationKept'
      BY <1>2, <2>2, <2>3 DEF DestinationKept
    <2>5. NumberIsFresh'
      BY <2>3 DEF NumberIsFresh, Reopening
    <2> QED BY <1>0, <2>1, <2>4, <2>5
  <1>3. ASSUME dest' = Refused, dest.pc \in {"root", "volume", "policy"}
        PROVE  DiskInv'
    <2>1. dest'.handle = dest.handle /\ dest'.pc = "refused" /\ DestShape'
      BY <1>3 DEF Refused, Shapes, DestShape
    <2> QED BY <1>2, <1>3, <2>1
  <1>4. CASE QueryRoot
    <2>1. CASE dest' = [dest EXCEPT !.pc = "volume"]
      <3>1. dest'.handle = dest.handle /\ dest'.pc = "volume" /\ DestShape'
        BY <2>1 DEF Shapes, DestShape
      <3> QED BY <1>2, <1>4, <3>1 DEF QueryRoot
    <2> QED BY <1>3, <1>4, <2>1 DEF QueryRoot
  <1>5. CASE QueryVolume
    <2>1. CASE dest' = [dest EXCEPT !.pc = "policy", !.asked = VolumeNow.number]
      <3>1. /\ dest'.handle = dest.handle /\ dest'.pc = "policy" /\ DestShape'
            /\ dest'.asked = NumberOf(Target)
        BY <2>1 DEF Shapes, DestShape, VolumeNow
      <3> QED BY <1>2, <1>5, <3>1 DEF QueryVolume
    <2> QED BY <1>3, <1>5, <2>1 DEF QueryVolume
  <1>6. CASE ApplyPolicy
    <2>1. CASE dest' = Refused
      BY <1>3, <1>6, <2>1 DEF ApplyPolicy
    <2>2. CASE dest' # Refused
      <3>1. dest.stage = "opening" \/ ValidateDestinationSeparation
        BY <1>6, <2>2 DEF ApplyPolicy
      <3>2. dest' = [dest EXCEPT
                       !.pc = IF dest.stage = "starting" THEN "started" ELSE "held",
                       !.stage = NextStage, !.asked = Absent,
                       !.number = IF dest.stage = "opening" THEN dest.asked ELSE @]
        BY <1>6, <2>2 DEF ApplyPolicy
      <3>3. /\ dest'.handle = dest.handle /\ DestShape'
            /\ dest'.pc = IF dest.stage = "starting" THEN "started" ELSE "held"
        BY <3>2 DEF Shapes, DestShape
      <3>4. dest'.pc = "started" => dest.asked # app.session.number
        BY <3>1, <3>3 DEF ValidateDestinationSeparation
      <3>5. dest.pc = "policy" /\ (Held => dest.asked = NumberOf(Target))
        BY <1>6 DEF ApplyPolicy, DestinationKept
      <3> QED BY <1>2, <3>3, <3>4, <3>5
    <2> QED BY <2>1, <2>2
  <1>7. CASE Revalidate
    <2>1. dest'.handle = dest.handle /\ dest'.pc = "root" /\ DestShape' /\ dest.pc = "held"
      BY <1>7 DEF Revalidate, Shapes, DestShape
    <2> QED BY <1>2, <2>1
  <1> QED BY <1>1, <1>4, <1>5, <1>6, <1>7 DEF DestStep

(* What the world and the destination are stays as it is.                  *)
LEMMA DisksStay ==
    ASSUME UNCHANGED <<world, dest>>
    PROVE  /\ Held' <=> Held
           /\ OneDisk' <=> OneDisk
           /\ NumberOf(Target)' = NumberOf(Target)
  BY DEF Held, Attached, Mounted, NumberOf, OneDisk

(* A step of the application that does not begin or open a recovery.       *)
LEMMA AppStepsKeepDiskInv ==
    ASSUME DiskInv, SourceInv', UNCHANGED <<world, sessionVars, dest>>, AppShape',
           app.pc \notin Recovery =>
              \/ app'.pc \notin Recovery \union {"storing"}
              \/ /\ app'.pc = "stored" /\ app.pc = "storing"
                 /\ app'.session = app.session,
           app.pc \in Recovery => app'.pc = "ended",
           app.pc = "ended" => app'.pc = "ended"
    PROVE  DiskInv'
  <1> USE DEF DiskInv, sessionVars
  <1>1. dest.pc # "none" => app.pc \in Recovery \union {"ended"}
    BY DEF DestinationKept
  <1>2. app'.pc \notin {"reopening", "restoring"}
    BY DEF Recovery
  <1>3. Shapes'
    BY DEF Shapes, RawShape, ClientShape, PipeShape, DestShape
  <1>4. OnlySource'
    BY <1>2 DEF OnlySource, AsksSource, Asking, Request, Recovery
  <1>5. DestinationKept'
    BY <1>1, <1>2, DisksStay DEF DestinationKept, Recovery
  <1>6. NumberIsFresh'
    BY <1>2 DEF NumberIsFresh, Reopening
  <1> QED BY <1>3, <1>4, <1>5, <1>6

LEMMA ApplicationKeepsDiskInv ==
    ASSUME DiskInv, SourceInv', UNCHANGED <<world, sessionVars, dest>>,
           ListStorageSources \/ SelectScanFolder \/ OpeningFailed \/ Stored \/ ReopeningFailed
    PROVE  DiskInv'
  <1> USE DEF DiskInv
  <1>1. ASSUME NEW e, app' = Ends(e), app.pc # "ended"
        PROVE  DiskInv'
    <2>1. app'.pc = "ended" /\ AppShape'
      BY <1>1 DEF Ends, Start, AppShape
    <2> QED BY <1>1, <2>1, AppStepsKeepDiskInv DEF Recovery
  <1>2. ASSUME app.pc \in {"start", "listed", "picking", "folder", "confirming"}, AppShape',
               app'.pc \in {"listed", "picking", "folder", "confirming"}
        PROVE  DiskInv'
    BY <1>2, AppStepsKeepDiskInv DEF Recovery
  <1>3. CASE ListStorageSources
    <2>1. app'.pc = "listed" /\ AppShape' /\ app.pc \in {"start", "listed"}
      BY <1>3 DEF ListStorageSources, Shapes, AppShape
    <2> QED BY <1>2, <2>1
  <1>4. CASE OpenFolderPicker
    <2>1. CASE app' = Ends("SOURCE_IDENTITY_CHANGED")
      BY <1>1, <1>4, <2>1 DEF OpenFolderPicker
    <2>2. CASE app' = [app EXCEPT !.pc = "picking"]
      <3>1. app'.pc = "picking" /\ AppShape'
        BY <2>2 DEF Shapes, AppShape
      <3> QED BY <1>2, <1>4, <3>1 DEF OpenFolderPicker
    <2> QED BY <1>4, <2>1, <2>2 DEF OpenFolderPicker
  <1>5. CASE FolderPicked
    <2>1. CASE app' = Ends("SOURCE_IDENTITY_CHANGED")
      BY <1>1, <1>5, <2>1 DEF FolderPicked
    <2>2. CASE app' = [app EXCEPT !.pc = "folder"]
      <3>1. app'.pc = "folder" /\ AppShape'
        BY <2>2 DEF Shapes, AppShape
      <3> QED BY <1>2, <1>5, <3>1 DEF FolderPicked
    <2> QED BY <1>5, <2>1, <2>2 DEF FolderPicked
  <1>6. CASE OpenFolder
    <2>1. CASE app' = Ends("FOLDER_MISMATCH")
      BY <1>1, <1>6, <2>1 DEF OpenFolder
    <2>2. CASE app' = [app EXCEPT !.pc = "confirming", !.folder = PickedFolder]
      <3>1. app'.pc = "confirming" /\ AppShape'
        BY <2>2 DEF Shapes, AppShape
      <3> QED BY <1>2, <1>6, <3>1 DEF OpenFolder
    <2> QED BY <1>6, <2>1, <2>2 DEF OpenFolder
  <1>7. CASE StoreScope
    <2>1. CASE app' = Ends("SOURCE_IDENTITY_CHANGED")
      BY <1>1, <1>7, <2>1 DEF StoreScope
    <2>2. CASE app' = [app EXCEPT !.pc = "listed", !.scope = app.folder, !.folder = NoScope]
      <3>1. app'.pc = "listed" /\ AppShape'
        BY <2>2 DEF Shapes, AppShape
      <3> QED BY <1>2, <1>7, <3>1 DEF StoreScope
    <2> QED BY <1>7, <2>1, <2>2 DEF StoreScope
  <1>8. CASE OpeningFailed \/ ReopeningFailed
    BY <1>1, <1>8 DEF OpeningFailed, ReopeningFailed
  <1>9. CASE Stored
    <2>1. /\ app.pc = "storing" /\ app'.pc = "stored" /\ app'.session = app.session
          /\ AppShape'
      BY <1>9 DEF Stored, Start, AppShape
    <2> QED BY <2>1, AppStepsKeepDiskInv DEF Recovery
  <1> QED BY <1>3, <1>4, <1>5, <1>6, <1>7, <1>8, <1>9 DEF SelectScanFolder

-----------------------------------------------------------------------------
(* Steps of the session.                                                   *)

SessionShapes == RawShape /\ ClientShape(client) /\ PipeShape

LEMMA FreshStays ==
    ASSUME DiskInv, WorldStep, UNCHANGED dest
    PROVE  \A n : Fresh(n) => Fresh(n)'
  BY HeldStays DEF Fresh

(* They leave the application and the destination alone.                   *)
LEMMA SessionStepsKeepDiskInv ==
    ASSUME DiskInv, WorldStep, SourceInv', UNCHANGED <<app, dest>>,
           SessionShapes', AsksSource', Reopening' => FreshNumbers'
    PROVE  DiskInv'
  <1> USE DEF DiskInv
  <1>1. /\ Held' => Held /\ NumberOf(Target)' = NumberOf(Target)
        /\ OneDisk' <=> OneDisk
        /\ dest.handle.epoch <= world'.epoch[world'.disk[Target]]
    BY HeldStays
  <1>2. Shapes'
    BY DEF Shapes, SessionShapes, AppShape, DestShape
  <1>3. OnlySource'
    BY DEF OnlySource
  <1>4. DestinationKept'
    BY <1>1 DEF DestinationKept
  <1>5. NumberIsFresh'
    BY <1>1 DEF NumberIsFresh
  <1> QED BY <1>2, <1>3, <1>4, <1>5

LEMMA TakenFields ==
    ASSUME PipeShape
    PROVE  /\ Taken.open = pipe.open /\ Taken.frame = NoFrame
           /\ Taken = [open |-> Taken.open, frame |-> Taken.frame, old |-> Taken.old]
           /\ pipe.frame.to = "client" => Taken.old = pipe.frame
           /\ pipe.frame.to # "client" => Taken.old = pipe.old
           /\ FrameShape(Taken.old)
           /\ Taken.old # NoFrame => Taken.old.to = "client"
  <1>1. pipe = [open |-> pipe.open, frame |-> pipe.frame, old |-> pipe.old]
    BY DEF PipeShape
  <1>2. Taken.open = pipe.open /\ Taken.frame = NoFrame
    BY <1>1 DEF Taken
  <1>3. Taken.old = IF pipe.frame.to = "client" THEN pipe.frame ELSE pipe.old
    BY <1>1 DEF Taken
  <1>4. FrameShape(Taken.old) /\ (Taken.old # NoFrame => Taken.old.to = "client")
    BY <1>3 DEF PipeShape
  <1>5. ASSUME NEW x, x = Taken
        PROVE  x = [open |-> x.open, frame |-> x.frame, old |-> x.old]
    BY <1>1, <1>5 DEF Taken
  <1> QED BY <1>2, <1>3, <1>4, <1>5

LEMMA TakenShape ==
    ASSUME PipeShape, pipe' = Taken
    PROVE  PipeShape' /\ pipe'.frame = NoFrame
  BY TakenFields DEF PipeShape, FrameShape

LEMMA SendShape ==
    ASSUME PipeShape, NEW c, NEW msg, ClientShape(c), Send(c, msg)
    PROVE  /\ ClientShape(client)' /\ PipeShape'
           /\ client'.pc = c.pc /\ client'.id = c.id /\ client'.number = c.number
           /\ pipe'.frame.to = "broker" /\ pipe'.frame.msg = msg
           /\ pipe.frame.to = "client" => pipe'.old = pipe.frame
  <1>1. /\ ClientShape(client)' /\ client'.pc = c.pc /\ client'.id = c.id
        /\ client'.number = c.number
    BY DEF Send, ClientShape
  <1>2. /\ pipe' = [open |-> Taken.open, frame |-> Frame("broker", c.next, msg),
                    old |-> Taken.old]
    BY TakenFields DEF Send
  <1>3. /\ pipe'.frame = Frame("broker", c.next, msg) /\ pipe'.old = Taken.old
        /\ pipe' = [open |-> pipe'.open, frame |-> pipe'.frame, old |-> pipe'.old]
    BY <1>2
  <1>4. FrameShape(pipe'.frame) /\ pipe'.frame.to = "broker" /\ pipe'.frame.msg = msg
    BY <1>3, FrameFields
  <1>5. FrameShape(pipe'.old) /\ (pipe'.old # NoFrame => pipe'.old.to = "client")
    BY <1>3, TakenFields
  <1>6. PipeShape'
    BY <1>3, <1>4, <1>5 DEF PipeShape, FrameShape
  <1> QED BY <1>1, <1>3, <1>4, <1>6, TakenFields

LEMMA LeaveShape ==
    ASSUME NEW e, Leave(e)
    PROVE  /\ ClientShape(client)' /\ PipeShape' /\ client'.pc = "over"
           /\ pipe'.frame = NoFrame
  <1>1. ClientShape(client)' /\ client'.pc = "over"
    BY DEF Leave, ClientShape, ClientOff
  <1>2. pipe'.frame = NoFrame /\ pipe'.old = NoFrame
        /\ pipe' = [open |-> pipe'.open, frame |-> pipe'.frame, old |-> pipe'.old]
    BY DEF Leave, PipeOff
  <1> QED BY <1>1, <1>2 DEF PipeShape, FrameShape

(* The client's record, edited.                                            *)
LEMMA AcceptedShape ==
    ASSUME ClientShape(client)
    PROVE  ClientShape(Accepted) /\ Accepted.id = client.id /\ Accepted.pc = client.pc
  <1>1. ASSUME NEW c, c = Accepted
        PROVE  ClientShape(c) /\ c.id = client.id /\ c.pc = client.pc
    BY <1>1 DEF Accepted, ClientShape
  <1> QED BY <1>1

LEMMA SpoiltShape ==
    ASSUME ClientShape(client), NEW e
    PROVE  /\ ClientShape(Spoilt(e)) /\ Spoilt(e).id = client.id
           /\ ClientShape([Spoilt(e) EXCEPT !.expects = @ + 1])
           /\ [Spoilt(e) EXCEPT !.expects = @ + 1].id = client.id
  <1>1. ASSUME NEW c, c = Spoilt(e)
        PROVE  ClientShape(c) /\ c.id = client.id
    BY <1>1 DEF Spoilt, ClientShape
  <1>2. ASSUME NEW a, ClientShape(a), NEW c, c = [a EXCEPT !.expects = @ + 1]
        PROVE  ClientShape(c) /\ c.id = a.id
    BY <1>2 DEF ClientShape
  <1> QED BY <1>1, <1>2

LEMMA ClientStepsKeepDiskInv ==
    ASSUME DiskInv, SourceInv', ClientStep, UNCHANGED <<world, app, dest>>
    PROVE  DiskInv'
  <1>0. /\ WorldStep /\ UNCHANGED raw /\ RawShape'
        /\ PipeShape /\ ClientShape(client) /\ AsksSource
        /\ Reopening => FreshNumbers
        /\ \A n : Fresh(n)' <=> Fresh(n)
    <2>1. UNCHANGED raw
      BY DEF ClientStep, Accept, Greeted, SourceOpened, ReadAnswered, SourceClosed
    <2>2. WorldStep
      BY WorldStays DEF DiskInv, SourceInv
    <2>3. \A n : Fresh(n)' <=> Fresh(n)
      BY DisksStay DEF Fresh
    <2> QED BY <2>1, <2>2, <2>3 DEF DiskInv, Shapes, OnlySource, NumberIsFresh, RawShape
  <1>1. ASSUME NEW e, Leave(e)
        PROVE  DiskInv'
    <2>1. /\ ClientShape(client)' /\ PipeShape' /\ client'.pc = "over"
          /\ pipe'.frame.to = "nobody"
      BY <1>1, LeaveShape DEF NoFrame
    <2>2. SessionShapes' /\ AsksSource' /\ ~Reopening'
      BY <1>0, <2>1 DEF SessionShapes, AsksSource, Asking, Request, Reopening
    <2> QED BY <1>0, <2>2, SessionStepsKeepDiskInv
  <1>2. ASSUME NEW c, ClientShape(c), NEW msg, Send(c, msg),
               c.id = client.id, c.pc \in {"greeting", "reading"}, Asking,
               client.pc \in {"accepting", "reading"},
               c.pc = client.pc \/ c.pc = "greeting",
               msg.kind # "OpenSource"
        PROVE  DiskInv'
    <2>1. /\ ClientShape(client)' /\ PipeShape' /\ client'.pc = c.pc
          /\ client'.id = client.id /\ pipe'.frame.msg = msg
      BY <1>0, <1>2, SendShape
    <2>2. SessionShapes' /\ AsksSource'
      BY <1>0, <1>2, <2>1 DEF SessionShapes, AsksSource, Asking, Request
    <2>3. Reopening' => FreshNumbers'
      BY <1>0, <1>2, <2>1 DEF Reopening, FreshNumbers, Described
    <2> QED BY <1>0, <2>2, <2>3, SessionStepsKeepDiskInv
  <1>3. CASE Accept
    <2> DEFINE c == [client EXCEPT !.pc = "greeting"]
    <2>1. ClientShape(c) /\ c.pc = "greeting" /\ c.id = client.id
      BY <1>0 DEF ClientShape
    <2>2. client.pc = "accepting" /\ (Send(c, Hello) \/ Leave("Transport"))
      BY <1>3 DEF Accept
    <2> HIDE DEF c
    <2> QED BY <1>1, <1>2, <2>1, <2>2, MessageKinds DEF Asking
  <1>4. CASE Greeted
    <2> DEFINE c == [Accepted EXCEPT !.pc = "opening"]
    <2>1. ClientShape(c) /\ c.pc = "opening" /\ c.id = client.id
      <3>1. ASSUME NEW a, ClientShape(a), NEW d, d = [a EXCEPT !.pc = "opening"]
            PROVE  ClientShape(d) /\ d.id = a.id /\ d.pc = "opening"
        BY <3>1 DEF ClientShape
      <3> QED BY <1>0, <3>1, AcceptedShape
    <2>2. CASE Received /\ Reply = HelloAck("ours") /\ Send(c, OpenSource(client.id))
      <3>1. client.pc = "greeting" /\ pipe.frame.to = "client"
            /\ pipe.frame.msg.kind = "HelloAck"
        BY <1>4, <2>2, MessageKinds DEF Greeted, Received, Reply
      <3>2. /\ ClientShape(client)' /\ PipeShape' /\ client'.pc = "opening"
            /\ client'.id = client.id /\ pipe'.frame.to = "broker"
            /\ pipe'.frame.msg = OpenSource(client.id)
            /\ pipe'.old = pipe.frame
        <4> HIDE DEF c
        <4> QED BY <1>0, <2>1, <2>2, <3>1, SendShape
      <3>3. pipe'.frame.msg.id = client.id
        BY <3>2, MessageKinds
      <3>4. SessionShapes' /\ AsksSource'
        BY <1>0, <3>1, <3>2, <3>3 DEF SessionShapes, AsksSource, Asking
      <3>5. Reopening' => FreshNumbers'
        BY <1>0, <3>1, <3>2 DEF Reopening, Asking, FreshNumbers, Described, Announced
      <3> QED BY <1>0, <3>4, <3>5, SessionStepsKeepDiskInv
    <2> QED BY <1>1, <1>4, <2>2 DEF Greeted
  <1>5. CASE SourceOpened
    <2>1. CASE /\ Received /\ Reply.kind = "Opened"
               /\ client' = [Accepted EXCEPT !.pc = "open", !.number = Reply.number]
               /\ pipe' = Taken
      <3>1. /\ ClientShape(client)' /\ client'.pc = "open" /\ client'.id = client.id
            /\ client'.number = pipe.frame.msg.number
        BY <1>0, <2>1 DEF ClientShape, Accepted, Reply
      <3>2. PipeShape' /\ pipe'.frame.to = "nobody"
        BY <1>0, <2>1, TakenShape DEF NoFrame
      <3>3. client.pc = "opening" /\ Announced
        BY <1>5, <2>1 DEF SourceOpened, Received, Reply, Announced
      <3>4. SessionShapes' /\ AsksSource'
        BY <1>0, <3>1, <3>2, <3>3 DEF SessionShapes, AsksSource, Asking, Request
      <3>5. Reopening' => FreshNumbers'
        BY <1>0, <3>1, <3>2, <3>3 DEF Reopening, Asking, FreshNumbers, Described
      <3> QED BY <1>0, <3>4, <3>5, SessionStepsKeepDiskInv
    <2> QED BY <1>1, <1>5, <2>1 DEF SourceOpened
  <1>6. CASE ReadAnswered
    <2>1. client.pc = "reading" /\ app.pc # "reopening"
      BY <1>0, <1>6 DEF ReadAnswered, Reopening, Asking, FreshNumbers
    <2>2. ASSUME ClientShape(client)', client'.id = client.id, pipe' = Taken
          PROVE  DiskInv'
      <3>1. PipeShape' /\ pipe'.frame.to = "nobody"
        BY <1>0, <2>2, TakenShape DEF NoFrame
      <3>2. SessionShapes' /\ AsksSource' /\ ~Reopening'
        BY <1>0, <2>1, <2>2, <3>1 DEF SessionShapes, AsksSource, Asking, Request, Reopening
      <3> QED BY <1>0, <3>2, SessionStepsKeepDiskInv
    <2>3. ASSUME NEW c, ClientShape(c), c.id = client.id, NEW e, ReadFails(c, e)
          PROVE  DiskInv'
      <3>1. ClientShape(client)' /\ client'.id = client.id /\ pipe' = Taken
        BY <2>3 DEF ReadFails, ClientShape
      <3> QED BY <2>2, <3>1
    <2>4. CASE Received /\ Fits
      <3> DEFINE got == client.got \o Reply.bytes
                 c   == [Accepted EXCEPT !.got = got]
      <3>1. ClientShape(c) /\ c.pc = "reading" /\ c.id = client.id
        <4>1. ASSUME NEW a, ClientShape(a), NEW d, d = [a EXCEPT !.got = got]
              PROVE  ClientShape(d) /\ d.id = a.id /\ d.pc = a.pc
          BY <4>1 DEF ClientShape
        <4> QED BY <1>0, <2>1, <4>1, AcceptedShape
      <3>2. \/ client' = [c EXCEPT !.pc = "open"] /\ pipe' = Taken
            \/ Send(c, ReadAt(TheHandle, Piece(client.read, Len(got))))
        <4>1. ~(Received /\ Reply.kind = "Error") /\ ~(Received /\ ~Fits) /\ ~Unreceived
          BY <2>4, FrameFields DEF Fits, Received, Unreceived
        <4> QED BY <1>6, <4>1, Zenon DEF ReadAnswered
      <3> HIDE DEF c, got
      <3>3. CASE client' = [c EXCEPT !.pc = "open"] /\ pipe' = Taken
        <4>1. ClientShape(client)' /\ client'.id = client.id
          BY <3>1, <3>3 DEF ClientShape
        <4> QED BY <2>2, <3>3, <4>1
      <3>4. CASE Send(c, ReadAt(TheHandle, Piece(client.read, Len(got))))
        BY <1>2, <2>1, <3>1, <3>4, MessageKinds DEF Asking
      <3> QED BY <3>2, <3>3, <3>4
    <2> QED BY <1>0, <1>6, <2>3, <2>4, AcceptedShape, SpoiltShape DEF ReadAnswered
  <1>7. CASE SourceClosed
    BY <1>1, <1>7 DEF SourceClosed
  <1> QED BY <1>3, <1>4, <1>5, <1>6, <1>7 DEF ClientStep

(* What the broker puts into the pipe.                                     *)
LEMMA AnswerShape ==
    ASSUME PipeShape, NEW b, NEW msg, Answer(b, msg)
    PROVE  /\ PipeShape' /\ pipe'.old = pipe.old
           /\ \/ pipe'.frame.to = "nobody"
              \/ pipe'.frame.to = "client" /\ pipe'.frame.msg = msg
  <1> DEFINE f == IF pipe.open THEN Frame("client", b.next, msg) ELSE NoFrame
  <1>1. /\ FrameShape(f)
        /\ f.to = "nobody" \/ (f.to = "client" /\ f.msg = msg)
    BY FrameFields DEF FrameShape
  <1>2. pipe' = [pipe EXCEPT !.frame = f]
    BY DEF Answer
  <1> HIDE DEF f
  <1>3. /\ pipe' = [open |-> pipe'.open, frame |-> pipe'.frame, old |-> pipe'.old]
        /\ pipe'.frame = f /\ pipe'.old = pipe.old
    BY <1>2 DEF PipeShape
  <1> QED BY <1>1, <1>3 DEF PipeShape, FrameShape

LEMMA EndsAfterShape ==
    ASSUME PipeShape, NEW f, FrameShape(f), EndsAfter(f)
    PROVE  PipeShape' /\ pipe'.old = pipe.old /\ pipe'.frame = f /\ raw' = Closed
  <1>1. pipe' = [pipe EXCEPT !.open = FALSE, !.frame = f] /\ raw' = Closed
    BY DEF EndsAfter
  <1>2. /\ pipe' = [open |-> pipe'.open, frame |-> pipe'.frame, old |-> pipe'.old]
        /\ pipe'.frame = f /\ pipe'.old = pipe.old
    BY <1>1 DEF PipeShape
  <1> QED BY <1>1, <1>2 DEF PipeShape, FrameShape

LEMMA BrokerEndsShape ==
    ASSUME PipeShape, BrokerEnds
    PROVE  /\ PipeShape' /\ pipe'.old = pipe.old
           /\ pipe'.frame.to = "nobody" \/ pipe'.frame = pipe.frame
           /\ raw' = Closed
  <1> DEFINE f == IF pipe.frame.to = "client" THEN pipe.frame ELSE NoFrame
  <1>1. /\ FrameShape(f)
        /\ f.to = "nobody" \/ f = pipe.frame
    BY FrameFields DEF PipeShape, FrameShape
  <1>2. EndsAfter(f)
    BY DEF BrokerEnds
  <1> HIDE DEF f
  <1> QED BY <1>1, <1>2, EndsAfterShape

(* What a step of the broker has to leave right.                           *)
LEMMA BrokerSideKeepsDiskInv ==
    ASSUME DiskInv, WorldStep, SourceInv', UNCHANGED <<client, app, dest>>,
           PipeShape', RawShape',
           raw'.pc # "closed" => raw'.id.volume = Source,
           Request' => pipe'.frame.msg.id.volume = Source,
           Reopening => (Described' => Fresh(raw'.number)),
           Reopening /\ client.pc = "opening" =>
              /\ Announced' => Fresh(pipe'.frame.msg.number)
              /\ pipe'.old # NoFrame => pipe'.old.msg.kind # "Opened"
    PROVE  DiskInv'
  <1>1. \A n : Fresh(n) => Fresh(n)'
    BY FreshStays
  <1>2. SessionShapes'
    BY DEF DiskInv, Shapes, SessionShapes, ClientShape
  <1>3. AsksSource'
    BY DEF DiskInv, OnlySource, AsksSource, Asking
  <1>4. Reopening' => FreshNumbers'
    BY <1>1 DEF DiskInv, NumberIsFresh, FreshNumbers, Reopening, Asking
  <1> QED BY <1>2, <1>3, <1>4, SessionStepsKeepDiskInv

LEMMA RawStepsKeepDiskInv ==
    ASSUME DiskInv, SourceInv', RawStep \/ Tick,
           UNCHANGED <<world, broker, pipe, client, app, dest>>
    PROVE  DiskInv'
  <1>0. /\ WorldStep /\ RawShape /\ PipeShape'
        /\ raw.pc # "closed" => raw.id.volume = Source
        /\ Reopening => FreshNumbers
        /\ Request' => pipe'.frame.msg.id.volume = Source
    BY WorldStays DEF DiskInv, SourceInv, Shapes, PipeShape, OnlySource, AsksSource, Request,
       NumberIsFresh
  <1>1. ASSUME RawShape', raw'.id = raw.id, raw.pc # "closed",
               Reopening => (Described' => Fresh(raw'.number))
        PROVE  DiskInv'
    <2>1. Reopening /\ client.pc = "opening" =>
              /\ Announced' => Fresh(pipe'.frame.msg.number)
              /\ pipe'.old # NoFrame => pipe'.old.msg.kind # "Opened"
      BY <1>0 DEF FreshNumbers, Announced
    <2> QED BY <1>0, <1>1, <2>1, BrokerSideKeepsDiskInv
  <1>2. ASSUME RawShape', raw'.id = raw.id, raw'.number = raw.number, raw.pc # "closed",
               Described' => Described
        PROVE  DiskInv'
    BY <1>0, <1>1, <1>2 DEF FreshNumbers
  <1>3. ASSUME NEW pc, raw' = At(pc), raw.pc # "closed", Described,
               pc # "failed"
        PROVE  DiskInv'
    <2>1. RawShape' /\ raw'.id = raw.id /\ raw'.number = raw.number
      BY <1>0, <1>3 DEF At, RawShape
    <2> QED BY <1>2, <1>3, <2>1
  <1>4. ASSUME NEW e \in IdentityErrors \union {"ReadFailed"}, raw' = Fails(e),
               raw.pc # "closed", e = "ReadFailed" => Described
        PROVE  DiskInv'
    <2>1. /\ RawShape' /\ raw'.id = raw.id /\ raw'.number = raw.number
          /\ raw'.pc = "failed" /\ raw'.code = e
      BY <1>0, <1>4 DEF Fails, RawShape
    <2>2. Described' => Described
      BY <1>4, <2>1 DEF Described
    <2> QED BY <1>2, <1>4, <2>1, <2>2
  <1>5. CASE EnumerateBefore
    <2>1. /\ raw.pc = "enumerating"
          /\ raw' = At("opening") \/ raw' = Fails("SourceNotFound")
      BY <1>5 DEF EnumerateBefore
    <2>2. CASE raw' = At("opening")
      <3>1. /\ RawShape' /\ raw'.id = raw.id /\ raw'.number = raw.number
            /\ raw'.pc = "opening"
        BY <1>0, <2>2 DEF At, RawShape
      <3> QED BY <1>2, <2>1, <3>1 DEF Described
    <2> QED BY <1>4, <2>1, <2>2 DEF IdentityErrors, SourceErrors
  <1>6. CASE OpenVolume
    <2>1. /\ raw.pc = "opening"
          /\ \/ raw' = [At("serial") EXCEPT !.handle = HandleOn(raw.id.volume)]
             \/ raw' = Fails("SourceUnavailable")
      BY <1>6 DEF OpenVolume, Unsupported
    <2>2. CASE raw' = [At("serial") EXCEPT !.handle = HandleOn(raw.id.volume)]
      <3>1. /\ RawShape' /\ raw'.id = raw.id /\ raw'.number = raw.number
            /\ raw'.pc = "serial"
        BY <1>0, <2>2 DEF At, RawShape
      <3> QED BY <1>2, <2>1, <3>1 DEF Described
    <2> QED BY <1>4, <2>1, <2>2 DEF IdentityErrors, SourceErrors
  <1>7. CASE CheckSerial
    <2>1. /\ raw.pc = "serial"
          /\ \/ raw' = At("describing")
             \/ raw' = Fails("SourceChanged") \/ raw' = Fails("SourceUnavailable")
      BY <1>7 DEF CheckSerial, Unsupported
    <2>2. CASE raw' = At("describing")
      <3>1. /\ RawShape' /\ raw'.id = raw.id /\ raw'.number = raw.number
            /\ raw'.pc = "describing"
        BY <1>0, <2>2 DEF At, RawShape
      <3> QED BY <1>2, <2>1, <3>1 DEF Described
    <2> QED BY <1>4, <2>1, <2>2 DEF IdentityErrors, SourceErrors
  <1>8. CASE Describe
    <2>1. /\ raw.pc = "describing"
          /\ \/ raw' = [At("confirming") EXCEPT !.number = NumberOf(raw.id.volume)]
             \/ raw' = Fails("SourceUnavailable")
      BY <1>8 DEF Describe, Unsupported
    <2>2. CASE raw' = [At("confirming") EXCEPT !.number = NumberOf(raw.id.volume)]
      <3>1. /\ RawShape' /\ raw'.id = raw.id /\ raw'.number = NumberOf(raw.id.volume)
            /\ raw'.pc = "confirming"
        BY <1>0, <2>2 DEF At, RawShape
      <3>2. Fresh(raw'.number)
        BY <1>0, <2>1, <3>1 DEF Fresh, OneDisk, NumberOf
      <3> QED BY <1>1, <2>1, <3>1, <3>2
    <2> QED BY <1>4, <2>1, <2>2 DEF IdentityErrors, SourceErrors
  <1>9. CASE EnumerateAfter \/ ProveListed
    <2>1. /\ raw.pc # "closed" /\ Described
          /\ raw' = At("listing") \/ raw' = At("comparing") \/ raw' = Fails("SourceChanged")
      BY <1>9 DEF EnumerateAfter, ProveListed, Described
    <2> QED BY <1>3, <1>4, <2>1 DEF IdentityErrors, SourceErrors
  <1>10. CASE ProveHandle
    <2> DEFINE pc == IF raw.read = NoRead THEN "open" ELSE "reading"
    <2>1. /\ raw.pc # "closed" /\ Described
          /\ \/ raw' = [At(pc) EXCEPT !.counted = 0, !.elapsed = FALSE]
             \/ raw' = Fails("SourceChanged") \/ raw' = Fails("SourceUnavailable")
      BY <1>10 DEF ProveHandle, Described, Unsupported
    <2> HIDE DEF pc
    <2>2. CASE raw' = [At(pc) EXCEPT !.counted = 0, !.elapsed = FALSE]
      <3>1. RawShape' /\ raw'.id = raw.id /\ raw'.number = raw.number
        BY <1>0, <2>2 DEF At, RawShape
      <3> QED BY <1>2, <2>1, <3>1
    <2> QED BY <1>4, <2>1, <2>2 DEF IdentityErrors, SourceErrors
  <1>11. CASE ReadVolume
    <2> DEFINE met == [serial |-> world.serial[raw.id.volume], reuse |-> world.reuse]
               late == IF raw.elapsed /\ ~SameSerial THEN raw.late + 1 ELSE raw.late
    <2>1. /\ raw.pc = "reading" /\ Described
          /\ \/ raw' = [raw EXCEPT !.pc = "answered", !.met = met, !.late = late]
             \/ raw' = Fails("ReadFailed")
      <3>1. At("answered").late = raw.late
        BY <1>0 DEF At, RawShape
      <3> QED BY <1>11, <3>1 DEF ReadVolume, Described, At
    <2> HIDE DEF met, late
    <2>2. CASE raw' = [raw EXCEPT !.pc = "answered", !.met = met, !.late = late]
      <3>1. RawShape' /\ raw'.id = raw.id /\ raw'.number = raw.number
        BY <1>0, <2>2 DEF RawShape
      <3> QED BY <1>2, <2>1, <3>1
    <2> QED BY <1>4, <2>1, <2>2
  <1>12. CASE Tick
    <2>1. /\ raw.pc # "closed" /\ Described /\ RawShape'
          /\ raw'.id = raw.id /\ raw'.number = raw.number
      BY <1>0, <1>12 DEF Tick, Described, RawShape
    <2> QED BY <1>2, <2>1
  <1> QED BY <1>5, <1>6, <1>7, <1>8, <1>9, <1>10, <1>11, <1>12 DEF RawStep

LEMMA ClosedShape ==
    ASSUME raw' = Closed
    PROVE  RawShape' /\ raw'.pc = "closed" /\ ~Described'
  BY DEF RawShape, Closed, Described

LEMMA ReceiveKeepsDiskInv ==
    ASSUME DiskInv, SourceInv', Receive, UNCHANGED <<world, app, dest>>
    PROVE  DiskInv'
  <1>0. /\ WorldStep /\ RawShape /\ PipeShape /\ UNCHANGED client
        /\ raw.pc # "closed" => raw.id.volume = Source
        /\ Request => pipe.frame.msg.id.volume = Source
        /\ Reopening => FreshNumbers
    BY WorldStays DEF DiskInv, SourceInv, Shapes, OnlySource, AsksSource, NumberIsFresh,
       Receive
  <1>1. ASSUME PipeShape', RawShape',
               \/ raw'.pc = "closed" \/ raw'.id.volume = Source
               \/ raw'.id = raw.id /\ raw.pc # "closed",
               Described' => Described /\ raw'.number = raw.number,
               pipe'.old = pipe.old,
               \/ pipe'.frame = pipe.frame
               \/ pipe'.frame.to = "nobody"
               \/ /\ pipe'.frame.to = "client"
                  /\ pipe'.frame.msg.kind \notin {"Opened", "OpenSource"}
        PROVE  DiskInv'
    <2>1. raw'.pc # "closed" => raw'.id.volume = Source
      BY <1>0, <1>1
    <2>2. Request' => pipe'.frame.msg.id.volume = Source
      BY <1>0, <1>1 DEF Request
    <2>3. Reopening => (Described' => Fresh(raw'.number))
      BY <1>0, <1>1 DEF FreshNumbers
    <2>4. Reopening /\ client.pc = "opening" =>
             /\ Announced' => Fresh(pipe'.frame.msg.number)
             /\ pipe'.old # NoFrame => pipe'.old.msg.kind # "Opened"
      BY <1>0, <1>1 DEF FreshNumbers, Announced
    <2> QED BY <1>0, <1>1, <2>1, <2>2, <2>3, <2>4, BrokerSideKeepsDiskInv
  <1>2. CASE BrokerEnds
    BY <1>0, <1>1, <1>2, BrokerEndsShape, ClosedShape
  <1>3. ASSUME NEW b, NEW m, Answer(b, m), m.kind \notin {"Opened", "OpenSource"},
               UNCHANGED raw \/ raw' = Closed
        PROVE  DiskInv'
    <2>1. /\ PipeShape' /\ pipe'.old = pipe.old
          /\ \/ pipe'.frame.to = "nobody"
             \/ pipe'.frame.to = "client" /\ pipe'.frame.msg = m
      BY <1>0, <1>3, AnswerShape
    <2>2. CASE UNCHANGED raw
      BY <1>0, <1>1, <1>3, <2>1, <2>2 DEF RawShape, Described
    <2>3. CASE raw' = Closed
      BY <1>1, <1>3, <2>1, <2>3, ClosedShape
    <2> QED BY <1>3, <2>2, <2>3
  <1>4. CASE Serve([broker EXCEPT !.expects = @ + 1], pipe.frame.msg)
    <2> DEFINE b   == [broker EXCEPT !.expects = @ + 1]
               msg == pipe.frame.msg
    <2>0. \/ Serve(b, msg) /\ pipe.frame.to = "broker"
          \/ BrokerEnds
      BY <1>4 DEF Receive
    <2>1. /\ b.pc = broker.pc /\ broker.pc \in {"started", "serving"}
      BY DEF Receive, DiskInv, SourceInv, BrokerInv, BrokerShape
    <2>2. pipe.frame.to # "client" /\ pipe' = Taken =>
             /\ PipeShape' /\ pipe'.old = pipe.old /\ pipe'.frame.to = "nobody"
      BY <1>0, TakenShape, TakenFields DEF NoFrame
    <2> HIDE DEF b
    <2>3. CASE /\ raw' = [Closed EXCEPT !.pc = "enumerating", !.id = msg.id]
               /\ pipe' = Taken /\ msg.kind = "OpenSource"
               /\ pipe.frame.to = "broker"
      <3>1. RawShape' /\ raw'.pc = "enumerating" /\ raw'.id = msg.id /\ ~Described'
        BY <2>3 DEF RawShape, Closed, Described
      <3>2. raw'.id.volume = Source
        BY <1>0, <2>3, <3>1 DEF Request
      <3> QED BY <1>1, <2>2, <2>3, <3>1, <3>2
    <2>4. CASE /\ BeginRead(msg.range) /\ pipe' = Taken
               /\ raw.pc # "closed" /\ b.pc = "serving"
               /\ pipe.frame.to = "broker"
      <3>1. raw.pc = "open"
        BY <2>1, <2>4 DEF DiskInv, SourceInv, BrokerInv
      <3>2. RawShape' /\ raw'.id = raw.id /\ raw'.number = raw.number /\ Described
        BY <1>0, <2>4, <3>1 DEF BeginRead, At, RawShape, Described
      <3> QED BY <1>1, <2>2, <2>4, <3>2
    <2> DEFINE refusal == IF pipe.open THEN Frame("client", b.next, Err("AuthenticationFailed"))
                          ELSE NoFrame
    <2>5. CASE EndsAfter(refusal)
      <3>1. /\ FrameShape(refusal)
            /\ \/ refusal.to = "nobody"
               \/ refusal.to = "client" /\ refusal.msg.kind = "Error"
        BY FrameFields, MessageKinds DEF FrameShape
      <3> HIDE DEF refusal
      <3>2. PipeShape' /\ pipe'.old = pipe.old /\ pipe'.frame = refusal /\ raw' = Closed
        BY <1>0, <2>5, <3>1, EndsAfterShape
      <3> QED BY <1>1, <3>1, <3>2, ClosedShape
    <2> QED
      <3>1. CASE BrokerEnds
        BY <1>2, <3>1
      <3>2. CASE ~BrokerEnds
        <4>1. /\ pipe.frame.to = "broker" /\ Serve(b, msg)
          BY <2>0, <3>2
        <4>2. CASE b.pc = "started"
          BY <1>3, <2>5, <4>1, <4>2, MessageKinds DEF Serve
        <4>3. CASE b.pc = "serving"
          BY <1>3, <2>3, <2>4, <4>1, <4>3, MessageKinds DEF Serve
        <4> QED BY <2>1, <4>2, <4>3
      <3> QED BY <3>1, <3>2
  <1> QED BY <1>2, <1>4 DEF Receive

LEMMA FinishKeepsDiskInv ==
    ASSUME DiskInv, SourceInv', Finish, UNCHANGED <<world, app, dest>>
    PROVE  DiskInv'
  <1>0. /\ WorldStep /\ RawShape /\ PipeShape /\ UNCHANGED client
        /\ raw.pc # "closed" => raw.id.volume = Source
        /\ Reopening => FreshNumbers
    BY WorldStays DEF DiskInv, SourceInv, Shapes, OnlySource, AsksSource, NumberIsFresh,
       Finish
  <1>1. ASSUME NEW m, Answer(Serving, m), m.kind # "OpenSource", RawShape',
               raw.pc # "closed", raw'.id = raw.id \/ raw'.pc = "closed",
               Described' => Described /\ raw'.number = raw.number,
               m.kind = "Opened" => Described /\ m.number = raw.number
        PROVE  DiskInv'
    <2>1. /\ PipeShape' /\ pipe'.old = pipe.old
          /\ \/ pipe'.frame.to = "nobody"
             \/ pipe'.frame.to = "client" /\ pipe'.frame.msg = m
      BY <1>0, <1>1, AnswerShape
    <2>2. raw'.pc # "closed" => raw'.id.volume = Source
      BY <1>0, <1>1
    <2>3. Request' => pipe'.frame.msg.id.volume = Source
      BY <1>1, <2>1 DEF Request
    <2>4. Reopening => (Described' => Fresh(raw'.number))
      BY <1>0, <1>1 DEF FreshNumbers
    <2>5. Reopening /\ client.pc = "opening" =>
             /\ Announced' => Fresh(pipe'.frame.msg.number)
             /\ pipe'.old # NoFrame => pipe'.old.msg.kind # "Opened"
      BY <1>0, <1>1, <2>1 DEF FreshNumbers, Announced
    <2> QED BY <1>0, <1>1, <2>1, <2>2, <2>3, <2>4, <2>5, BrokerSideKeepsDiskInv
  <1>2. CASE /\ broker.pc = "opening" /\ raw.pc = "open"
             /\ Answer(Serving, Opened(TheHandle, raw.number)) /\ UNCHANGED raw
    BY <1>0, <1>1, <1>2, MessageKinds DEF Described, RawShape
  <1>3. CASE /\ raw.pc = "answered"
             /\ Answer(Serving, ReadData(Bytes))
             /\ raw' = [raw EXCEPT !.pc = "open", !.read = NoRead, !.met = NothingMet]
    <2>1. RawShape' /\ raw'.id = raw.id /\ raw'.number = raw.number /\ Described
      BY <1>0, <1>3 DEF RawShape, Described
    <2> QED BY <1>1, <1>3, <2>1, MessageKinds
  <1>4. CASE raw.pc = "failed" /\ Answer(Serving, Err(raw.code)) /\ raw' = Kept
    <2>1. CASE raw' = Closed
      BY <1>1, <1>4, <2>1, ClosedShape, MessageKinds
    <2>2. CASE /\ raw.code \notin IdentityErrors
               /\ raw' = [raw EXCEPT !.pc = "open", !.read = NoRead, !.met = NothingMet,
                                     !.code = NoError]
      <3>1. RawShape' /\ raw'.id = raw.id /\ raw'.number = raw.number /\ Described
        BY <1>0, <1>4, <2>2 DEF RawShape, Described
      <3> QED BY <1>1, <1>4, <3>1, MessageKinds
    <2> QED BY <1>4, <2>1, <2>2 DEF Kept
  <1> QED BY <1>2, <1>3, <1>4, Zenon DEF Finish

LEMMA FaultsKeepDiskInv ==
    ASSUME DiskInv, SourceInv', Fault, UNCHANGED <<app, dest>>
    PROVE  DiskInv'
  <1>0. /\ WorldStep /\ RawShape /\ PipeShape /\ UNCHANGED client
        /\ raw.pc # "closed" => raw.id.volume = Source
        /\ Request => pipe.frame.msg.id.volume = Source
        /\ Reopening => FreshNumbers
    BY FaultsLeaveTheWorld DEF DiskInv, SourceInv, Shapes, OnlySource, AsksSource,
       NumberIsFresh, Fault, BrokerDies, Resequence, Misfit
  <1>1. ASSUME PipeShape', RawShape', pipe'.old = pipe.old,
               UNCHANGED raw \/ raw' = Closed,
               Request' => Request /\ pipe'.frame.msg = pipe.frame.msg,
               client.pc = "opening" /\ Announced' =>
                  \/ Announced /\ pipe'.frame.msg = pipe.frame.msg
                  \/ pipe.old # NoFrame /\ pipe'.frame.msg = pipe.old.msg
        PROVE  DiskInv'
    <2>1. /\ raw'.pc # "closed" => raw'.id.volume = Source
          /\ Described' => Described /\ raw'.number = raw.number
      BY <1>0, <1>1, ClosedShape DEF Described
    <2>2. Request' => pipe'.frame.msg.id.volume = Source
      BY <1>0, <1>1
    <2>3. Reopening => (Described' => Fresh(raw'.number))
      BY <1>0, <2>1 DEF FreshNumbers
    <2>4. Reopening /\ client.pc = "opening" =>
             /\ Announced' => Fresh(pipe'.frame.msg.number)
             /\ pipe'.old # NoFrame => pipe'.old.msg.kind # "Opened"
      BY <1>0, <1>1 DEF FreshNumbers, Announced
    <2> QED BY <1>0, <1>1, <2>1, <2>2, <2>3, <2>4, BrokerSideKeepsDiskInv
  <1>2. CASE BrokerDies
    <2>1. /\ PipeShape' /\ pipe'.old = pipe.old /\ raw' = Closed
          /\ pipe'.frame.to = "nobody" \/ pipe'.frame = pipe.frame
      BY <1>0, <1>2, BrokerEndsShape DEF BrokerDies
    <2> QED BY <1>1, <2>1, ClosedShape DEF Request, Announced
  <1>3. ASSUME NEW f, FrameShape(f), f # NoFrame, pipe' = [pipe EXCEPT !.frame = f],
               UNCHANGED raw
        PROVE  PipeShape' /\ RawShape' /\ pipe'.frame = f /\ pipe'.old = pipe.old
    <2>1. /\ pipe' = [open |-> pipe'.open, frame |-> pipe'.frame, old |-> pipe'.old]
          /\ pipe'.frame = f /\ pipe'.old = pipe.old
      BY <1>0, <1>3 DEF PipeShape
    <2> QED BY <1>0, <1>3, <2>1 DEF PipeShape, FrameShape, RawShape
  <1>4. CASE Resequence
    <2>1. CASE /\ pipe.frame.to = "client" /\ pipe.old # NoFrame
               /\ pipe' = [pipe EXCEPT !.frame = pipe.old]
      <3>1. FrameShape(pipe.old) /\ pipe.old.to = "client"
        BY <1>0, <2>1 DEF PipeShape
      <3>2. PipeShape' /\ RawShape' /\ pipe'.frame = pipe.old /\ pipe'.old = pipe.old
        BY <1>3, <1>4, <2>1, <3>1 DEF Resequence
      <3> QED BY <1>1, <1>4, <2>1, <3>1, <3>2 DEF Resequence, Request
    <2>2. CASE pipe' = [pipe EXCEPT !.frame.seq = @ + 1]
      <3> DEFINE f == [pipe.frame EXCEPT !.seq = @ + 1]
      <3>1. /\ pipe.frame.to \in {"broker", "client"}
            /\ pipe.frame = Frame(pipe.frame.to, pipe.frame.seq, pipe.frame.msg)
        BY <1>0, <1>4 DEF PipeShape, FrameShape, Resequence
      <3>2. ASSUME NEW x, x = f
            PROVE  /\ x.to = pipe.frame.to /\ x.msg = pipe.frame.msg
                   /\ x = Frame(x.to, x.seq, x.msg)
        BY <3>1, <3>2 DEF Frame
      <3>3. /\ f.to = pipe.frame.to /\ f.msg = pipe.frame.msg
            /\ FrameShape(f) /\ f # NoFrame
        BY <3>1, <3>2, FrameFields DEF FrameShape
      <3>4. pipe' = [pipe EXCEPT !.frame = f]
        BY <2>2
      <3> HIDE DEF f
      <3>5. PipeShape' /\ RawShape' /\ pipe'.frame = f /\ pipe'.old = pipe.old
        BY <1>3, <1>4, <3>3, <3>4 DEF Resequence
      <3> QED BY <1>1, <1>4, <3>3, <3>5 DEF Resequence, Request, Announced
    <2> QED BY <1>4, <2>1, <2>2 DEF Resequence
  <1>5. CASE Misfit
    <2>1. PICK msg \in Misfits : /\ ~(client.pc = "opening" /\ msg.kind = "Opened")
                                 /\ pipe' = [pipe EXCEPT !.frame.msg = msg]
      BY <1>5 DEF Misfit
    <2> DEFINE f == [pipe.frame EXCEPT !.msg = msg]
    <2>2. /\ pipe.frame.to = "client"
          /\ pipe.frame = Frame(pipe.frame.to, pipe.frame.seq, pipe.frame.msg)
      BY <1>0, <1>5, FrameFields DEF PipeShape, FrameShape, Misfit
    <2>3. ASSUME NEW x, x = f
          PROVE  /\ x.to = "client" /\ x.msg = msg
                 /\ x = Frame(x.to, x.seq, x.msg)
      BY <2>2, <2>3 DEF Frame
    <2>4. f.to = "client" /\ f.msg = msg /\ FrameShape(f) /\ f # NoFrame
      BY <2>3, FrameFields DEF FrameShape
    <2>5. pipe' = [pipe EXCEPT !.frame = f]
      BY <2>1
    <2> HIDE DEF f
    <2>6. PipeShape' /\ RawShape' /\ pipe'.frame = f /\ pipe'.old = pipe.old
      BY <1>3, <1>5, <2>4, <2>5 DEF Misfit
    <2> QED BY <1>1, <1>5, <2>1, <2>4, <2>6 DEF Misfit, Request, Announced
  <1> QED BY <1>2, <1>4, <1>5 DEF Fault

-----------------------------------------------------------------------------
(* Steps of the application with the session.                              *)

LEMMA LaunchShape ==
    ASSUME DiskInv, NEW id, Launch(id), id.volume = Source
    PROVE  /\ SessionShapes' /\ AsksSource'
           /\ \/ client'.pc = "over"
              \/ client'.pc = "accepting" /\ ~Described'
  <1>1. CASE /\ raw' = Closed /\ pipe' = NewPipe
             /\ client' = [ClientOff EXCEPT !.pc = "accepting", !.id = id]
    <2>1. ClientShape(client)' /\ client'.pc = "accepting" /\ client'.id = id
      BY <1>1 DEF ClientShape, ClientOff
    <2>2. /\ pipe' = [open |-> pipe'.open, frame |-> pipe'.frame, old |-> pipe'.old]
          /\ pipe'.frame = NoFrame /\ pipe'.old = NoFrame
      BY <1>1 DEF NewPipe, PipeOff
    <2>3. PipeShape' /\ pipe'.frame.to = "nobody"
      BY <2>2 DEF PipeShape, FrameShape, NoFrame
    <2> QED BY <1>1, <2>1, <2>3, ClosedShape DEF SessionShapes, AsksSource, Asking, Request
  <1>2. CASE /\ UNCHANGED <<raw, pipe>>
             /\ client' = [ClientOff EXCEPT !.pc = "over", !.error = "ElevationDenied"]
    <2>1. ClientShape(client)' /\ client'.pc = "over"
      BY <1>2 DEF ClientShape, ClientOff
    <2>2. PipeShape' /\ RawShape'
      BY <1>2 DEF DiskInv, Shapes, PipeShape, RawShape
    <2> QED BY <1>2, <2>1, <2>2
         DEF SessionShapes, DiskInv, OnlySource, AsksSource, Asking, Request
  <1> QED BY <1>1, <1>2 DEF Launch

LEMMA DropShape ==
    ASSUME DiskInv, Drop, UNCHANGED raw
    PROVE  SessionShapes' /\ AsksSource' /\ client'.pc \in {"over", "closing"}
  <1>1. CASE Leave("none")
    <2>1. /\ ClientShape(client)' /\ PipeShape' /\ client'.pc = "over"
          /\ pipe'.frame.to = "nobody"
      BY <1>1, LeaveShape DEF NoFrame
    <2> QED BY <2>1 DEF DiskInv, Shapes, SessionShapes, RawShape, OnlySource, AsksSource,
         Asking, Request
  <1>2. CASE Send([client EXCEPT !.pc = "closing"], CloseSource(TheHandle))
    <2> DEFINE c == [client EXCEPT !.pc = "closing"]
    <2>1. ClientShape(c) /\ c.pc = "closing" /\ c.id = client.id
      BY DEF DiskInv, Shapes, ClientShape
    <2>0. Send(c, CloseSource(TheHandle)) /\ PipeShape
      BY <1>2 DEF DiskInv, Shapes
    <2> HIDE DEF c
    <2>2. /\ ClientShape(client)' /\ PipeShape' /\ client'.pc = "closing"
          /\ client'.id = client.id /\ pipe'.frame.msg.kind = "CloseSource"
      BY <2>0, <2>1, SendShape, MessageKinds
    <2>3. client.pc = "open"
      BY DEF Drop
    <2> QED BY <2>2, <2>3 DEF DiskInv, Shapes, SessionShapes, RawShape, OnlySource, AsksSource,
         Asking, Request
  <1> QED BY <1>1, <1>2 DEF Drop

(* The application goes on, and no restore runs or is being opened.        *)
LEMMA OtherStepsKeepDiskInv ==
    ASSUME DiskInv, SourceInv', UNCHANGED <<world, dest>>, AppShape', SessionShapes',
           AsksSource', app'.pc \notin Recovery,
           app'.pc = "storing" => app'.session.volume.volume = Source,
           app.pc \in Recovery \union {"ended"} => app'.pc = "ended"
    PROVE  DiskInv'
  <1> USE DEF DiskInv
  <1>1. Shapes'
    BY DEF Shapes, SessionShapes, DestShape
  <1>2. OnlySource'
    BY DEF OnlySource, Recovery
  <1>3. DestinationKept'
    BY DisksStay DEF DestinationKept, Recovery
  <1>4. NumberIsFresh'
    BY DEF NumberIsFresh, Reopening, Recovery
  <1> QED BY <1>1, <1>2, <1>3, <1>4

LEMMA StartScanKeepsDiskInv ==
    ASSUME DiskInv, SourceInv', StartScan, UNCHANGED <<world, dest>>
    PROVE  DiskInv'
  <1>1. PICK seen \in Enumerations, scope \in {NoScope, app.scope} :
           IF Authorized(seen) /\ ScopeForVolume(scope)
           THEN /\ app' = [app EXCEPT !.pc = "scanning", !.folder = scope,
                                    !.scope = NoScope]
                /\ Launch(Wanted)
           ELSE /\ app' = Ends(IF Authorized(seen) THEN "FOLDER_MISMATCH"
                               ELSE "SOURCE_IDENTITY_CHANGED")
                /\ UNCHANGED <<broker, raw, pipe, client>>
    BY DEF StartScan
  <1>2. app.pc = "listed" /\ Offered
    BY DEF StartScan
  <1>3. Wanted.volume = Source
    BY <1>2 DEF Offered, Wanted
  <1>4. CASE /\ app' = [app EXCEPT !.pc = "scanning", !.folder = scope, !.scope = NoScope]
             /\ Launch(Wanted)
    <2>1. AppShape' /\ app'.pc = "scanning"
      BY <1>4 DEF DiskInv, Shapes, AppShape
    <2>2. SessionShapes' /\ AsksSource'
      BY <1>3, <1>4, LaunchShape
    <2> QED BY <1>2, <2>1, <2>2, OtherStepsKeepDiskInv DEF Recovery
  <1>5. ASSUME NEW e, app' = Ends(e), UNCHANGED <<broker, raw, pipe, client>>
        PROVE  DiskInv'
    <2>1. AppShape' /\ app'.pc = "ended"
      BY <1>5 DEF Ends, Start, AppShape
    <2>2. SessionShapes' /\ AsksSource'
      BY <1>5 DEF DiskInv, Shapes, SessionShapes, RawShape, ClientShape, PipeShape, OnlySource,
         AsksSource, Asking, Request
    <2> QED BY <1>2, <2>1, <2>2, OtherStepsKeepDiskInv DEF Recovery
  <1> QED BY <1>1, <1>4, <1>5

LEMMA ReopenSourceKeepsDiskInv ==
    ASSUME DiskInv, SourceInv', ReopenSource, UNCHANGED <<world, dest>>
    PROVE  DiskInv'
  <1>1. /\ app.pc = "stored" /\ dest.pc = "started" /\ AppShape'
        /\ app'.pc = "reopening" /\ app'.session = app.session
    BY DEF ReopenSource, DiskInv, Shapes, AppShape
  <1>2. app.session.volume.volume = Source
    BY <1>1 DEF DiskInv, OnlySource
  <1>3. /\ SessionShapes' /\ AsksSource'
        /\ \/ client'.pc = "over"
           \/ client'.pc = "accepting" /\ ~Described'
    BY <1>2, LaunchShape DEF ReopenSource
  <1> USE DEF DiskInv
  <1>4. Shapes'
    BY <1>1, <1>3 DEF Shapes, SessionShapes, DestShape
  <1>5. OnlySource'
    BY <1>1, <1>2, <1>3 DEF OnlySource
  <1>6. DestinationKept'
    BY <1>1, DisksStay DEF DestinationKept, Recovery
  <1>7. NumberIsFresh'
    BY <1>1, <1>3 DEF NumberIsFresh, Reopening, Asking, FreshNumbers
  <1> QED BY <1>4, <1>5, <1>6, <1>7

LEMMA ScanReadKeepsDiskInv ==
    ASSUME DiskInv, SourceInv', ScanRead, UNCHANGED <<world, raw, dest>>
    PROVE  DiskInv'
  <1>1. /\ app.pc = "scanning" /\ AppShape' /\ app'.pc = "scanning"
        /\ ClientShape(client) /\ PipeShape /\ RawShape' /\ AsksSource
    BY DEF ScanRead, DiskInv, Shapes, AppShape, RawShape, OnlySource
  <1>2. PICK r \in Reads : StartRead(r)
    BY DEF ScanRead
  <1>3. client.pc = "open"
    BY <1>2 DEF StartRead
  <1>4. SessionShapes' /\ AsksSource'
    <2>1. CASE /\ client' = [client EXCEPT !.read = r, !.got = <<>>, !.error = "Unavailable"]
               /\ UNCHANGED pipe
      <3>1. ClientShape(client)' /\ client'.id = client.id
        BY <1>1, <2>1 DEF ClientShape
      <3>2. PipeShape'
        BY <1>1, <2>1 DEF PipeShape
      <3> QED BY <1>1, <1>3, <2>1, <3>1, <3>2 DEF SessionShapes, AsksSource, Asking, Request
    <2>2. CASE Send([client EXCEPT !.pc = "reading", !.read = r, !.got = <<>>,
                                   !.error = "none"], ReadAt(TheHandle, Piece(r, 0)))
      <3> DEFINE c == [client EXCEPT !.pc = "reading", !.read = r, !.got = <<>>,
                                     !.error = "none"]
      <3>1. ASSUME NEW x, x = c
            PROVE  ClientShape(x) /\ x.pc = "reading" /\ x.id = client.id
        BY <1>1, <3>1 DEF ClientShape
      <3>2. ClientShape(c) /\ c.pc = "reading" /\ c.id = client.id
        BY <3>1
      <3>3. Send(c, ReadAt(TheHandle, Piece(r, 0)))
        BY <2>2
      <3> HIDE DEF c
      <3>4. /\ ClientShape(client)' /\ PipeShape' /\ client'.id = client.id
            /\ pipe'.frame.msg.kind = "ReadAt"
        BY <1>1, <3>2, <3>3, SendShape, MessageKinds
      <3> QED BY <1>1, <1>3, <3>4 DEF SessionShapes, AsksSource, Asking, Request
    <2> QED BY <1>2, <2>1, <2>2 DEF StartRead
  <1> QED BY <1>1, <1>4, OtherStepsKeepDiskInv DEF Recovery

LEMMA EndScanKeepsDiskInv ==
    ASSUME DiskInv, SourceInv', EndScan, UNCHANGED <<world, raw, dest>>
    PROVE  DiskInv'
  <1>1. app.pc = "scanning" /\ client.pc = "open" /\ Drop
    BY DEF EndScan
  <1>2. SessionShapes' /\ AsksSource'
    BY <1>1, DropShape
  <1>3. client.id.volume = Source
    BY <1>1 DEF DiskInv, OnlySource, AsksSource, Asking
  <1>4. ASSUME NEW e, app' = Ends(e)
        PROVE  DiskInv'
    <2>1. AppShape' /\ app'.pc = "ended"
      BY <1>4 DEF Ends, Start, AppShape
    <2> QED BY <1>1, <1>2, <2>1, OtherStepsKeepDiskInv DEF Recovery
  <1>5. CASE app' = [app EXCEPT !.pc = "storing", !.directory = Directory,
                                !.session = BuiltSession]
    <2>1. AppShape' /\ app'.pc = "storing" /\ app'.session = BuiltSession
      BY <1>5 DEF DiskInv, Shapes, AppShape
    <2>2. app'.session.volume.volume = Source
      BY <1>3, <2>1 DEF BuiltSession
    <2> QED BY <1>1, <1>2, <2>1, <2>2, OtherStepsKeepDiskInv DEF Recovery
  <1> QED BY <1>4, <1>5 DEF EndScan

(* Here the two numbers meet.                                              *)
LEMMA StartEngineKeepsDiskInv ==
    ASSUME DiskInv, SourceInv', StartEngine, UNCHANGED <<world, dest>>
    PROVE  DiskInv'
  <1>1. /\ app.pc = "reopening" /\ client.pc = "open" /\ UNCHANGED raw
    BY DEF StartEngine
  <1>2. CASE /\ SameSource /\ app' = [app EXCEPT !.pc = "restoring"]
             /\ UNCHANGED <<pipe, client>>
    <2>1. AppShape' /\ app'.pc = "restoring" /\ app'.session = app.session
      BY <1>2 DEF DiskInv, Shapes, AppShape
    <2>2. Fresh(client.number)
      BY <1>1 DEF DiskInv, NumberIsFresh, Reopening, Asking, FreshNumbers
    <2>3. dest.pc = "started" /\ (Held => NumberOf(Target) # app.session.number)
      BY <1>1 DEF DiskInv, DestinationKept, Recovery
    <2>4. ~(Held /\ OneDisk)
      BY <1>2, <2>2, <2>3 DEF Fresh, SameSource
    <2> USE DEF DiskInv
    <2>5. Shapes'
      BY <1>1, <1>2, <2>1 DEF Shapes, RawShape, ClientShape, PipeShape, DestShape
    <2>6. OnlySource'
      BY <1>1, <1>2, <2>1 DEF OnlySource, AsksSource, Asking, Request
    <2>7. DestinationKept'
      BY <2>1, <2>3, DisksStay DEF DestinationKept, Recovery
    <2>8. NumberIsFresh'
      BY <2>1, <2>4, DisksStay DEF NumberIsFresh, Reopening
    <2> QED BY <2>5, <2>6, <2>7, <2>8
  <1>3. CASE app' = Ends("RESTORE_SOURCE_CHANGED") /\ Drop
    <2>1. AppShape' /\ app'.pc = "ended"
      BY <1>3 DEF Ends, Start, AppShape
    <2>2. SessionShapes' /\ AsksSource'
      BY <1>1, <1>3, DropShape
    <2> QED BY <2>1, <2>2, OtherStepsKeepDiskInv DEF Recovery
  <1> QED BY <1>2, <1>3 DEF StartEngine

LEMMA DiskInvStep ==
    ASSUME DiskInv, [Next]_vars
    PROVE  DiskInv'
  <1>0. SourceInv'
    BY SourceInvStep DEF DiskInv
  <1>1. CASE User
    <2>1. CASE (ListStorageSources \/ SelectScanFolder) /\ UNCHANGED <<world, sessionVars, dest>>
      BY <1>0, <2>1, ApplicationKeepsDiskInv
    <2>2. CASE StartScan /\ UNCHANGED <<world, dest>>
      BY <1>0, <2>2, StartScanKeepsDiskInv
    <2>3. CASE DestStep /\ UNCHANGED <<world, sessionVars, app>>
      BY <1>0, <2>3, DestStepsKeepDiskInv
    <2>4. CASE ReopenSource /\ UNCHANGED <<world, dest>>
      BY <1>0, <2>4, ReopenSourceKeepsDiskInv
    <2> QED BY <1>1, <2>1, <2>2, <2>3, <2>4 DEF User
  <1>2. CASE Environment
    <2>1. CASE WorldChange /\ UNCHANGED <<sessionVars, app, dest>>
      <3>1. WorldStep
        BY <2>1, WorldChanges DEF DiskInv, SourceInv, WorldStep
      <3> QED BY <1>0, <2>1, <3>1, WorldStepsKeepDiskInv
    <2>2. CASE Tick /\ UNCHANGED <<world, broker, pipe, client, faults, app, dest>>
      BY <1>0, <2>2, RawStepsKeepDiskInv
    <2>3. CASE Fault /\ UNCHANGED <<app, dest>>
      BY <1>0, <2>3, FaultsKeepDiskInv
    <2> QED BY <1>2, <2>1, <2>2, <2>3 DEF Environment
  <1>3. CASE Work
    <2>1. CASE ScanStep /\ UNCHANGED <<world, dest>>
      <3>1. CASE (ScanRead \/ EndScan) /\ UNCHANGED <<raw, faults>>
        BY <1>0, <2>1, <3>1, ScanReadKeepsDiskInv, EndScanKeepsDiskInv
      <3>2. CASE (OpeningFailed \/ Stored) /\ UNCHANGED sessionVars
        BY <1>0, <2>1, <3>2, ApplicationKeepsDiskInv
      <3> QED BY <2>1, <3>1, <3>2 DEF ScanStep
    <2>2. CASE StartEngine /\ UNCHANGED <<world, dest>>
      BY <1>0, <2>2, StartEngineKeepsDiskInv
    <2>3. CASE ReopeningFailed /\ UNCHANGED <<world, sessionVars, dest>>
      BY <1>0, <2>3, ApplicationKeepsDiskInv
    <2> QED BY <1>3, <2>1, <2>2, <2>3 DEF Work
  <1>4. CASE Processes
    <2>1. CASE ClientStep
      BY <1>0, <1>4, <2>1, ClientStepsKeepDiskInv DEF Processes
    <2>2. CASE Receive
      BY <1>0, <1>4, <2>2, ReceiveKeepsDiskInv DEF Processes
    <2>3. CASE Finish
      BY <1>0, <1>4, <2>3, FinishKeepsDiskInv DEF Processes
    <2>4. CASE RawStep /\ UNCHANGED <<broker, pipe, client, faults>>
      BY <1>0, <1>4, <2>4, RawStepsKeepDiskInv DEF Processes
    <2> QED BY <1>4, <2>1, <2>2, <2>3, <2>4 DEF Processes, BrokerStep
  <1>5. CASE UNCHANGED vars
    <2>1. WorldStep
      BY <1>5, WorldStays DEF vars, DiskInv, SourceInv
    <2> QED BY <1>0, <1>5, <2>1, WorldStepsKeepDiskInv DEF vars
  <1> QED BY <1>1, <1>2, <1>3, <1>4, <1>5 DEF Next

(* What is recovered never goes to the disk it is recovered from, though   *)
(* the code (validate_destination_policy and run_restore_worker of the     *)
(* desktop's restore.rs) compares nothing but disk numbers taken at        *)
(* different times, whatever disks come and go in between.                 *)
THEOREM RecoveryGoesElsewhere == Spec => []SeparateDisks
  <1>1. DiskInv => SeparateDisks
    BY DEF DiskInv, NumberIsFresh, SeparateDisks, Held, OneDisk, Alive
  <1> QED BY <1>1, DiskInvInit, DiskInvStep, PTL DEF Spec

-----------------------------------------------------------------------------
(* The folder of a scan is of the inventory that was shown and of the      *)
(* volume that is asked for.                                               *)

FolderInv ==
    /\ app.pc = "scanning" /\ app.folder # NoScope =>
          app.folder.generation = app.generation /\ app.folder.volume = Wanted
    /\ app.pc = "scanning" /\ Asking => client.id = Wanted
    /\ FolderIsTheChosenOne

LEMMA ClientIdStays ==
    ASSUME ClientShape(client), PipeShape, ClientStep
    PROVE  Asking' => Asking /\ client'.id = client.id
  <1>1. ASSUME NEW e, Leave(e)
        PROVE  ~Asking'
    BY <1>1, LeaveShape DEF Asking
  <1>2. ASSUME NEW c, ClientShape(c), NEW msg, Send(c, msg), c.id = client.id
        PROVE  client'.id = client.id
    BY <1>2, SendShape
  <1>3. CASE Accept
    <2> DEFINE c == [client EXCEPT !.pc = "greeting"]
    <2>1. ClientShape(c) /\ c.id = client.id
      BY DEF ClientShape
    <2>2. client.pc = "accepting" /\ (Send(c, Hello) \/ Leave("Transport"))
      BY <1>3 DEF Accept
    <2> HIDE DEF c
    <2> QED BY <1>1, <1>2, <2>1, <2>2 DEF Asking
  <1>4. CASE Greeted
    <2> DEFINE c == [Accepted EXCEPT !.pc = "opening"]
    <2>1. ClientShape(c) /\ c.id = client.id
      <3>1. ASSUME NEW a, ClientShape(a), NEW d, d = [a EXCEPT !.pc = "opening"]
            PROVE  ClientShape(d) /\ d.id = a.id
        BY <3>1 DEF ClientShape
      <3> QED BY <3>1, AcceptedShape
    <2>2. /\ client.pc = "greeting"
          /\ \/ Send(c, OpenSource(client.id))
             \/ Leave("Authentication") \/ Leave(LostError)
      BY <1>4 DEF Greeted
    <2> HIDE DEF c
    <2> QED BY <1>1, <1>2, <2>1, <2>2 DEF Asking
  <1>5. CASE SourceOpened
    <2>1. ASSUME client' = [Accepted EXCEPT !.pc = "open", !.number = Reply.number]
          PROVE  client'.id = client.id
      BY <2>1 DEF Accepted, ClientShape
    <2> QED BY <1>1, <1>5, <2>1 DEF SourceOpened, Asking
  <1>6. CASE ReadAnswered
    <2>0. Asking
      BY <1>6 DEF ReadAnswered, Asking
    <2>1. ASSUME NEW c, ClientShape(c), c.id = client.id, NEW e, ReadFails(c, e)
          PROVE  client'.id = client.id
      BY <2>1 DEF ReadFails, ClientShape
    <2>2. CASE Received /\ Fits
      <3> DEFINE got == client.got \o Reply.bytes
                 c   == [Accepted EXCEPT !.got = got]
      <3>1. ClientShape(c) /\ c.id = client.id
        <4>1. ASSUME NEW a, ClientShape(a), NEW d, d = [a EXCEPT !.got = got]
              PROVE  ClientShape(d) /\ d.id = a.id
          BY <4>1 DEF ClientShape
        <4> QED BY <4>1, AcceptedShape
      <3>2. \/ client' = [c EXCEPT !.pc = "open"] /\ pipe' = Taken
            \/ Send(c, ReadAt(TheHandle, Piece(client.read, Len(got))))
        <4>1. ~(Received /\ Reply.kind = "Error") /\ ~(Received /\ ~Fits) /\ ~Unreceived
          BY <2>2, FrameFields DEF Fits, Received, Unreceived
        <4> QED BY <1>6, <4>1, Zenon DEF ReadAnswered
      <3> HIDE DEF c, got
      <3>3. CASE client' = [c EXCEPT !.pc = "open"]
        BY <2>0, <3>1, <3>3 DEF ClientShape
      <3> QED BY <1>2, <2>0, <3>1, <3>2, <3>3
    <2> QED BY <1>6, <2>0, <2>1, <2>2, AcceptedShape, SpoiltShape DEF ReadAnswered
  <1>7. CASE SourceClosed
    BY <1>1, <1>7 DEF SourceClosed
  <1> QED BY <1>3, <1>4, <1>5, <1>6, <1>7 DEF ClientStep

LEMMA FolderInvStep ==
    ASSUME DiskInv, FolderInv, [Next]_vars
    PROVE  FolderInv'
  <1>0. ClientShape(client) /\ PipeShape /\ AppShape /\ RawShape
    BY DEF DiskInv, Shapes
  <1>1. ASSUME UNCHANGED app, Asking' => Asking /\ client'.id = client.id
        PROVE  FolderInv'
    BY <1>1 DEF FolderInv, Wanted, FolderIsTheChosenOne
  <1>2. ASSUME app'.pc \notin {"scanning", "storing"}
        PROVE  FolderInv'
    BY <1>2 DEF FolderInv, FolderIsTheChosenOne
  <1>3. ASSUME NEW e, app' = Ends(e)
        PROVE  FolderInv'
    BY <1>2, <1>3 DEF Ends, Start
  <1>4. CASE UNCHANGED <<client, app>>
    BY <1>1, <1>4 DEF Asking
  <1>5. CASE ListStorageSources \/ SelectScanFolder
    <2>1. CASE ListStorageSources
      BY <1>0, <1>2, <2>1 DEF ListStorageSources, AppShape
    <2>2. CASE OpenFolderPicker
      BY <1>0, <1>2, <1>3, <2>2 DEF OpenFolderPicker, AppShape
    <2>3. CASE FolderPicked
      BY <1>0, <1>2, <1>3, <2>3 DEF FolderPicked, AppShape
    <2>4. CASE OpenFolder
      BY <1>0, <1>2, <1>3, <2>4 DEF OpenFolder, AppShape
    <2>5. CASE StoreScope
      BY <1>0, <1>2, <1>3, <2>5 DEF StoreScope, AppShape
    <2> QED BY <1>5, <2>1, <2>2, <2>3, <2>4, <2>5 DEF SelectScanFolder
  <1>6. CASE StartScan
    <2>1. PICK seen \in Enumerations, scope \in {NoScope, app.scope} :
             IF Authorized(seen) /\ ScopeForVolume(scope)
             THEN /\ app' = [app EXCEPT !.pc = "scanning", !.folder = scope,
                                      !.scope = NoScope]
                  /\ Launch(Wanted)
             ELSE /\ app' = Ends(IF Authorized(seen) THEN "FOLDER_MISMATCH"
                                 ELSE "SOURCE_IDENTITY_CHANGED")
                  /\ UNCHANGED <<broker, raw, pipe, client>>
      BY <1>6 DEF StartScan
    <2>2. CASE /\ ScopeForVolume(scope) /\ Launch(Wanted)
               /\ app' = [app EXCEPT !.pc = "scanning", !.folder = scope, !.scope = NoScope]
      <3>1. /\ app'.pc = "scanning" /\ app'.folder = scope
            /\ app'.generation = app.generation
        BY <1>0, <2>2 DEF AppShape
      <3>2. Wanted' = Wanted
        BY <3>1 DEF Wanted
      <3>3. Asking' => client'.id = Wanted
        BY <2>2 DEF Launch, ClientOff, Asking
      <3> QED BY <2>2, <3>1, <3>2, <3>3 DEF FolderInv, FolderIsTheChosenOne, ScopeForVolume
    <2> QED BY <1>3, <2>1, <2>2
  <1>7. CASE ReopenSource \/ StartEngine
    <2>1. app'.pc \in {"reopening", "restoring", "ended"}
      BY <1>0, <1>7 DEF ReopenSource, StartEngine, AppShape, Ends, Start
    <2> QED BY <1>2, <2>1
  <1>8. CASE OpeningFailed \/ ReopeningFailed \/ Stored
    <2>1. app'.pc \in {"ended", "stored"}
      BY <1>8 DEF OpeningFailed, ReopeningFailed, Stored, Ends, Start
    <2> QED BY <1>2, <2>1
  <1>9. CASE ScanRead
    <2>1. /\ app.pc = "scanning" /\ app'.pc = "scanning" /\ app'.folder = app.folder
          /\ app'.generation = app.generation
      BY <1>0, <1>9 DEF ScanRead, AppShape
    <2>2. Wanted' = Wanted
      BY <2>1 DEF Wanted
    <2>3. client'.id = client.id /\ client.pc = "open"
      BY <1>0, <1>9 DEF ScanRead, StartRead, Send, ClientShape
    <2> QED BY <2>1, <2>2, <2>3 DEF FolderInv, FolderIsTheChosenOne, Asking
  <1>10. CASE EndScan
    <2>1. CASE /\ app.folder # NoScope =>
                     \E d \in Directory : FolderFileReferenceMatches(app.folder, d)
               /\ app' = [app EXCEPT !.pc = "storing", !.directory = Directory,
                                     !.session = BuiltSession]
      <3>1. /\ app'.pc = "storing" /\ app'.folder = app.folder
            /\ app'.generation = app.generation /\ app'.directory = Directory
            /\ app'.session.volume = client.id
        BY <1>0, <2>1 DEF AppShape, BuiltSession
      <3>2. app.pc = "scanning" /\ Asking
        BY <1>10 DEF EndScan, Asking
      <3> QED BY <2>1, <3>1, <3>2
           DEF FolderInv, FolderIsTheChosenOne, FolderFileReferenceMatches
    <2> QED BY <1>3, <1>10, <2>1 DEF EndScan
  <1>11. CASE ClientStep /\ UNCHANGED app
    BY <1>0, <1>1, <1>11, ClientIdStays
  <1>12. CASE UNCHANGED app /\ UNCHANGED client
    BY <1>4, <1>12
  <1>13. CASE User
    BY <1>4, <1>5, <1>6, <1>7, <1>13 DEF User, sessionVars
  <1>14. CASE Environment
    BY <1>4, <1>14 DEF Environment, sessionVars, Fault, BrokerDies, Resequence, Misfit
  <1>15. CASE Work
    BY <1>7, <1>8, <1>9, <1>10, <1>15 DEF Work, ScanStep
  <1>16. CASE Processes
    BY <1>4, <1>11, <1>16 DEF Processes, BrokerStep, Receive, Finish
  <1> QED BY <1>4, <1>13, <1>14, <1>15, <1>16 DEF Next, vars, sessionVars

(* The folder of a stored folder session is the one that was picked, in    *)
(* the volume and under the inventory it was picked in (scope_for_volume   *)
(* and folder_file_reference_matches of storage.rs).                       *)
THEOREM ScannedFolder == Spec => []FolderIsTheChosenOne
  <1>1. Init => FolderInv
    BY DEF Init, AppInit, Start, FolderInv, FolderIsTheChosenOne
  <1>2. FolderInv => FolderIsTheChosenOne
    BY DEF FolderInv
  <1> QED BY <1>1, <1>2, DiskInvInit, DiskInvStep, FolderInvStep, PTL DEF Spec

-----------------------------------------------------------------------------
(* What BrokerSession delivers, for every length of the source and of a    *)
(* piece, and any number of changes and faults.  DiskInv has the shapes of *)
(* the records and what the broker's source may be doing.                  *)

(* One of the two speaks at a time: the broker works on a request that was *)
(* taken from the pipe, and the client holds a source that nothing asks    *)
(* for.                                                                    *)
Working == broker.pc \in {"opening", "reading"}
Turns ==
    /\ Working => pipe.frame = NoFrame
    /\ client.pc \in {"accepting", "open"} => ~Working /\ pipe.frame = NoFrame
    /\ client.pc = "reading" => broker.pc # "opening"
    /\ Request => client.pc = "opening"
    /\ Asking /\ ~pipe.open => broker.pc = "ended"
    /\ ~Asking => ~pipe.open /\ pipe.frame = NoFrame /\ pipe.old = NoFrame

(* The application holds no session before it scans or recovers.           *)
Idle == app.pc \in {"start", "listed", "picking", "folder", "confirming", "stored"} => ~Asking

(* What a client c has of its read: a part that is in its place, all of    *)
(* it, or nothing.                                                         *)
IsSequence(s)        == s \in Seq({s[i] : i \in DOMAIN s})
InPlace(bytes, from) == \A i \in 1 .. Len(bytes) : bytes[i].at = from + i - 1
Wanting(c)           == Piece(c.read, Len(c.got))
Unread(c)            == c.read = NoRead /\ c.got = <<>> /\ ~c.failed /\ ~c.lost
SoundRead(c) ==
    /\ c.pc \notin {"open", "reading", "closing"} => Unread(c)
    /\ c.read \in ReadRange /\ IsSequence(c.got) /\ InPlace(c.got, c.read.offset)
    /\ c.pc = "reading" => ~c.failed /\ c.error = "none" /\ Len(c.got) < c.read.length
    /\ c.pc = "open" => IF c.error = "none" THEN Len(c.got) = c.read.length
                                            ELSE c.got = <<>>

(* A frame that was taken is older than the next one that is accepted.     *)
OlderThan(frame, c) == c.expects \in Nat /\ (c.failed \/ frame = NoFrame \/ frame.seq < c.expects)

(* What is asked for, and worked on, is the piece that is wanted.          *)
TheQuestion ==
    client.pc = "reading" =>
       /\ pipe.frame.to = "broker" => pipe.frame.msg = ReadAt(TheHandle, Wanting(client))
       /\ broker.pc = "reading" => raw.read = Wanting(client)

(* What comes back is that piece, or shows that it is none.                *)
Delivers(msg, c) ==
    msg.kind = "ReadData" /\ msg.bytes # <<>> =>
       /\ IsSequence(msg.bytes) /\ Len(msg.bytes) = Wanting(c).length
       /\ InPlace(msg.bytes, Wanting(c).offset)
       /\ ~c.lost
Reports(msg, source) ==
    msg.kind = "Error" =>
       msg.code # "none" /\ (msg.code \in IdentityErrors => source = "closed")
TheAnswer ==
    client.pc = "reading" /\ pipe.frame.to = "client" /\ pipe.frame # pipe.old =>
       Delivers(pipe.frame.msg, client) /\ Reports(pipe.frame.msg, raw.pc)

LostForGood == client.lost => raw.pc = "closed" /\ client.got = <<>>

Talk == /\ Turns /\ SoundRead(client) /\ OlderThan(pipe.old, client)
        /\ TheQuestion /\ TheAnswer /\ LostForGood
ReadInv == DiskInv /\ Idle /\ Talk

-----------------------------------------------------------------------------
(* Sequences, and the pieces of a read.                                    *)

LEMMA SequenceDomain ==
    ASSUME NEW s, IsSequence(s)
    PROVE  Len(s) \in Nat /\ DOMAIN s = 1 .. Len(s)
  BY DEF IsSequence

LEMMA EmptySequence == IsSequence(<<>>) /\ Len(<<>>) = 0 /\ \A from : InPlace(<<>>, from)
  BY DEF IsSequence, InPlace

LEMMA JoinedSequence ==
    ASSUME NEW s, NEW t, IsSequence(s), IsSequence(t), NEW from \in Nat,
           InPlace(s, from), InPlace(t, from + Len(s))
    PROVE  /\ IsSequence(s \o t) /\ Len(s \o t) = Len(s) + Len(t)
           /\ InPlace(s \o t, from)
  <1> DEFINE S == {s[i] : i \in DOMAIN s} \union {t[i] : i \in DOMAIN t}
             u == s \o t
  <1>1. s \in Seq(S) /\ t \in Seq(S)
    BY DEF IsSequence
  <1> HIDE DEF S
  <1>2. /\ u \in Seq(S) /\ Len(u) = Len(s) + Len(t)
        /\ \A i \in 1 .. Len(u) : u[i] = IF i <= Len(s) THEN s[i] ELSE t[i - Len(s)]
    BY <1>1
  <1>3. Len(s) \in Nat /\ Len(t) \in Nat
    BY <1>1
  <1> HIDE DEF u
  <1>4. IsSequence(u)
    <2> DEFINE T == {u[i] : i \in DOMAIN u}
    <2>1. u \in [1 .. Len(u) -> S] /\ Len(u) \in Nat
      BY <1>2
    <2>2. u \in [1 .. Len(u) -> T]
      BY <2>1
    <2>3. u \in Seq(T)
      <3> HIDE DEF T
      <3> QED BY <2>1, <2>2
    <2> QED BY <2>3 DEF IsSequence
  <1>5. InPlace(u, from)
    <2>1. SUFFICES ASSUME NEW i \in 1 .. Len(u) PROVE u[i].at = from + i - 1
      BY DEF InPlace
    <2>2. CASE i <= Len(s)
      <3>1. u[i] = s[i] /\ i \in 1 .. Len(s)
        BY <1>2, <1>3, <2>2
      <3> QED BY <3>1 DEF InPlace
    <2>3. CASE ~(i <= Len(s))
      <3>1. u[i] = t[i - Len(s)] /\ i - Len(s) \in 1 .. Len(t)
        BY <1>2, <1>3, <2>3
      <3>2. u[i].at = from + Len(s) + (i - Len(s)) - 1
        BY <3>1 DEF InPlace
      <3> QED BY <1>2, <1>3, <3>2
    <2> QED BY <2>2, <2>3
  <1> QED BY <1>2, <1>4, <1>5 DEF u

LEMMA PieceFields ==
    ASSUME NEW r \in ReadRange, NEW n \in Nat, n < r.length
    PROVE  /\ Piece(r, n).offset = r.offset + n /\ Piece(r, n).offset \in Nat
           /\ Piece(r, n).length \in Nat /\ Piece(r, n).length > 0
           /\ n + Piece(r, n).length <= r.length
  BY SourceAssumption, SessionAssumption DEF Piece, ReadRange

LEMMA WantingFields ==
    ASSUME NEW c, SoundRead(c), c.pc = "reading"
    PROVE  /\ Len(c.got) \in Nat /\ c.read.offset \in Nat /\ c.read.length \in Nat
           /\ Wanting(c).offset = c.read.offset + Len(c.got) /\ Wanting(c).offset \in Nat
           /\ Wanting(c).length \in Nat /\ Wanting(c).length > 0
           /\ Len(c.got) + Wanting(c).length <= c.read.length
  <1>1. Len(c.got) \in Nat /\ c.read \in ReadRange /\ Len(c.got) < c.read.length
    BY SequenceDomain DEF SoundRead
  <1>2. c.read.offset \in Nat /\ c.read.length \in Nat
    BY <1>1, SourceAssumption DEF ReadRange
  <1> QED BY <1>1, <1>2, PieceFields DEF Wanting

(* The broker answers with the range that it was asked for.                *)
LEMMA BytesFields ==
    ASSUME raw.read.offset \in Nat, raw.read.length \in Nat
    PROVE  /\ IsSequence(Bytes) /\ Len(Bytes) = raw.read.length
           /\ InPlace(Bytes, raw.read.offset)
  <1> DEFINE n == raw.read.length
             o == raw.read.offset
             S == {Bytes[i] : i \in DOMAIN Bytes}
  <1>1. Bytes = [i \in 1 .. n |-> [at |-> o + i - 1, met |-> raw.met]]
    BY DEF Bytes
  <1>2. DOMAIN Bytes = 1 .. n /\ \A i \in 1 .. n : Bytes[i].at = o + i - 1
    BY <1>1
  <1>3. Bytes \in [1 .. n -> S]
    BY <1>1, <1>2
  <1>4. Bytes \in Seq(S) /\ Len(Bytes) = n
    <2>1. ASSUME NEW T, NEW f, f \in [1 .. n -> T]
          PROVE  f \in Seq(T) /\ Len(f) = n
      BY <2>1
    <2> QED BY <1>3, <2>1
  <1> QED BY <1>2, <1>4 DEF IsSequence, InPlace

(* The properties follow.                                                  *)
LEMMA ReadInvImplies ==
    ASSUME ReadInv
    PROVE  ReadsAreAnswered /\ IdentityLossIsFinal
  <1>1. SoundRead(client) /\ LostForGood
    BY DEF ReadInv, Talk
  <1>2. IsSequence(client.got) /\ InPlace(client.got, client.read.offset)
    BY <1>1 DEF SoundRead
  <1>3. DOMAIN client.got = 1 .. Len(client.got)
    BY <1>2, SequenceDomain
  <1>4. client.pc = "open" => IF client.error = "none" THEN Len(client.got) = client.read.length
                                                       ELSE client.got = <<>>
    BY <1>1 DEF SoundRead
  <1>5. ReadsAreAnswered
    BY <1>2, <1>3, <1>4 DEF ReadsAreAnswered, InPlace
  <1> QED BY <1>1, <1>5 DEF LostForGood, IdentityLossIsFinal

-----------------------------------------------------------------------------
(* Frames and records.                                                     *)

LEMMA TalkFields ==
    ASSUME Talk
    PROVE  /\ Turns /\ SoundRead(client) /\ OlderThan(pipe.old, client)
           /\ pipe.frame.to \in {"broker", "client"} => pipe.frame # NoFrame /\ ~Working /\ Asking
  <1>1. Turns /\ SoundRead(client) /\ OlderThan(pipe.old, client)
    BY DEF Talk
  <1> QED BY <1>1 DEF Turns, NoFrame

LEMMA SendFields ==
    ASSUME NEW c, NEW msg, ClientShape(c), PipeShape, Send(c, msg)
    PROVE  /\ client'.pc = c.pc /\ client'.read = c.read /\ client'.got = c.got
           /\ client'.failed = c.failed /\ client'.lost = c.lost
           /\ client'.error = c.error /\ client'.expects = c.expects
           /\ pipe'.open = pipe.open /\ pipe'.old = Taken.old
           /\ pipe'.frame.to = "broker" /\ pipe'.frame.msg = msg /\ pipe'.frame # NoFrame
  <1>1. /\ client'.pc = c.pc /\ client'.read = c.read /\ client'.got = c.got
        /\ client'.failed = c.failed /\ client'.lost = c.lost
        /\ client'.error = c.error /\ client'.expects = c.expects
    BY DEF Send, ClientShape
  <1>2. /\ pipe' = [open |-> Taken.open, frame |-> Frame("broker", c.next, msg),
                    old |-> Taken.old]
    BY TakenFields DEF Send
  <1>3. /\ pipe'.open = pipe.open /\ pipe'.old = Taken.old
        /\ pipe'.frame = Frame("broker", c.next, msg)
    BY <1>2, TakenFields
  <1> QED BY <1>1, <1>3, FrameFields

LEMMA AnswerFields ==
    ASSUME PipeShape, NEW b, NEW msg, Answer(b, msg)
    PROVE  /\ pipe'.open = pipe.open /\ pipe'.old = pipe.old
           /\ ~pipe.open => pipe'.frame = NoFrame
           /\ pipe.open => pipe'.frame.to = "client" /\ pipe'.frame.msg = msg
  <1> DEFINE f == IF pipe.open THEN Frame("client", b.next, msg) ELSE NoFrame
  <1>1. pipe' = [pipe EXCEPT !.frame = f]
    BY DEF Answer
  <1>2. /\ ~pipe.open => f = NoFrame
        /\ pipe.open => f.to = "client" /\ f.msg = msg
    BY FrameFields
  <1> HIDE DEF f
  <1>3. pipe'.open = pipe.open /\ pipe'.old = pipe.old /\ pipe'.frame = f
    BY <1>1 DEF PipeShape
  <1> QED BY <1>2, <1>3

LEMMA TakenByBroker ==
    ASSUME PipeShape, pipe.frame.to = "broker", pipe' = Taken
    PROVE  pipe'.open = pipe.open /\ pipe'.old = pipe.old /\ pipe'.frame = NoFrame
  BY TakenFields

-----------------------------------------------------------------------------
(* Steps of the client.                                                    *)

(* It asks.                                                                *)
LEMMA SendTalks ==
    ASSUME PipeShape, Talk, NEW c, NEW msg, ClientShape(c), Send(c, msg),
           UNCHANGED <<raw, broker>>, ~Working, Asking, SoundRead(c), OlderThan(Taken.old, c),
           c.pc \in {"greeting", "opening", "reading", "closing"},
           c.lost => raw.pc = "closed" /\ c.got = <<>>,
           msg.kind = "OpenSource" => c.pc = "opening",
           c.pc = "reading" => msg = ReadAt(TheHandle, Wanting(c))
    PROVE  Talk'
  <1>1. /\ client'.pc = c.pc /\ client'.read = c.read /\ client'.got = c.got
        /\ client'.failed = c.failed /\ client'.lost = c.lost
        /\ client'.error = c.error /\ client'.expects = c.expects
        /\ pipe'.open = pipe.open /\ pipe'.old = Taken.old
        /\ pipe'.frame.to = "broker" /\ pipe'.frame.msg = msg /\ pipe'.frame # NoFrame
    BY SendFields
  <1>2. Asking /\ ~pipe.open => broker.pc = "ended"
    BY DEF Talk, Turns
  <1>3. Turns'
    BY <1>1, <1>2 DEF Turns, Working, Request, Asking
  <1>4. SoundRead(client)'
    BY <1>1 DEF SoundRead, Unread
  <1>5. OlderThan(pipe.old, client)'
    BY <1>1 DEF OlderThan
  <1>6. TheQuestion'
    BY <1>1 DEF TheQuestion, Wanting, Working
  <1>7. TheAnswer' /\ LostForGood'
    BY <1>1 DEF TheAnswer, LostForGood
  <1> QED BY <1>3, <1>4, <1>5, <1>6, <1>7 DEF Talk

(* It has what it asked for, or not.                                       *)
LEMMA TakeTalks ==
    ASSUME PipeShape, Talk, NEW c, client' = c, c.pc = "open",
           UNCHANGED <<raw, broker>>, ~Working, Asking, SoundRead(c), OlderThan(Taken.old, c),
           c.lost => raw.pc = "closed" /\ c.got = <<>>, pipe' = Taken
    PROVE  Talk'
  <1>1. pipe'.open = pipe.open /\ pipe'.old = Taken.old /\ pipe'.frame = NoFrame
    BY TakenFields
  <1>2. Asking /\ ~pipe.open => broker.pc = "ended"
    BY DEF Talk, Turns
  <1>3. Turns'
    BY <1>1, <1>2 DEF Turns, Working, Request, Asking, NoFrame
  <1>4. SoundRead(client)' /\ OlderThan(pipe.old, client)'
    BY <1>1
  <1>5. TheQuestion' /\ TheAnswer' /\ LostForGood'
    BY DEF TheQuestion, TheAnswer, LostForGood
  <1> QED BY <1>3, <1>4, <1>5 DEF Talk

(* It has no session yet, or no more.                                      *)
LEMMA UnreadSounds ==
    ASSUME NEW c, Unread(c), c.pc \notin {"open", "reading", "closing"}
    PROVE  SoundRead(c)
  <1>1. NoRead \in ReadRange
    BY SourceAssumption DEF NoRead, ReadRange
  <1> QED BY <1>1, EmptySequence DEF SoundRead, Unread

LEMMA OffTalks ==
    ASSUME PipeOff = pipe', client'.pc = "over", Unread(client'), client'.expects \in Nat
    PROVE  Talk'
  <1>1. ~pipe'.open /\ pipe'.frame = NoFrame /\ pipe'.old = NoFrame
    BY DEF PipeOff
  <1>2. Turns'
    BY <1>1 DEF Turns, Working, Request, Asking, NoFrame
  <1>3. SoundRead(client)'
    BY UnreadSounds
  <1>4. OlderThan(pipe.old, client)'
    BY <1>1 DEF OlderThan
  <1>5. TheQuestion' /\ TheAnswer' /\ LostForGood'
    BY DEF TheQuestion, TheAnswer, LostForGood, Unread
  <1> QED BY <1>2, <1>3, <1>4, <1>5 DEF Talk

LEMMA LeaveTalks ==
    ASSUME NEW e, Leave(e)
    PROVE  Talk'
  <1>1. /\ client'.pc = "over" /\ Unread(client') /\ client'.expects \in Nat
    BY DEF Leave, ClientOff, Unread
  <1>2. PipeOff = pipe'
    BY DEF Leave
  <1> QED BY <1>1, <1>2, OffTalks

(* The broker is launched, or the prompt is refused.                       *)
LEMMA LaunchTalks ==
    ASSUME PipeShape, Talk, ~Asking, NEW id, Launch(id)
    PROVE  Talk'
  <1>1. CASE /\ broker' = BrokerStarted /\ raw' = Closed
             /\ pipe' = NewPipe
             /\ client' = [ClientOff EXCEPT !.pc = "accepting", !.id = id]
    <2>1. /\ client'.pc = "accepting" /\ Unread(client') /\ client'.expects \in Nat
          /\ broker'.pc = "started"
          /\ pipe'.open /\ pipe'.frame = NoFrame /\ pipe'.old = NoFrame
      BY <1>1 DEF ClientOff, Unread, BrokerStarted, BrokerOff, NewPipe, PipeOff
    <2>2. Turns'
      BY <2>1 DEF Turns, Working, Request, Asking, NoFrame
    <2>3. SoundRead(client)'
      BY <2>1, UnreadSounds
    <2>4. OlderThan(pipe.old, client)'
      BY <2>1 DEF OlderThan
    <2>5. TheQuestion' /\ TheAnswer' /\ LostForGood'
      BY <2>1 DEF TheQuestion, TheAnswer, LostForGood, Unread
    <2> QED BY <2>2, <2>3, <2>4, <2>5 DEF Talk
  <1>2. CASE /\ client' = [ClientOff EXCEPT !.pc = "over", !.error = "ElevationDenied"]
             /\ UNCHANGED <<broker, raw, pipe>>
    <2>1. client'.pc = "over" /\ Unread(client') /\ client'.expects \in Nat
      BY <1>2 DEF ClientOff, Unread
    <2>2. ~pipe'.open /\ pipe'.frame = NoFrame /\ pipe'.old = NoFrame
      BY <1>2 DEF Talk, Turns
    <2>3. Turns'
      BY <2>1, <2>2 DEF Turns, Working, Request, Asking, NoFrame
    <2>4. SoundRead(client)'
      BY <2>1, UnreadSounds
    <2>5. OlderThan(pipe.old, client)'
      BY <2>1, <2>2 DEF OlderThan
    <2>6. TheQuestion' /\ TheAnswer' /\ LostForGood'
      BY <2>1 DEF TheQuestion, TheAnswer, LostForGood, Unread
    <2> QED BY <2>3, <2>4, <2>5, <2>6 DEF Talk
  <1> QED BY <1>1, <1>2 DEF Launch

(* The client's record, edited.                                            *)
LEMMA AcceptedFields ==
    ASSUME ClientShape(client), NEW c, c = Accepted
    PROVE  /\ ClientShape(c) /\ c.pc = client.pc /\ c.read = client.read /\ c.got = client.got
           /\ c.failed = client.failed /\ c.lost = client.lost /\ c.error = client.error
           /\ c.expects = client.expects + 1
  BY DEF Accepted, ClientShape

LEMMA SpoiltFields ==
    ASSUME ClientShape(client), NEW e, NEW c, c = Spoilt(e)
    PROVE  /\ ClientShape(c) /\ c.pc = client.pc /\ c.read = client.read /\ c.got = client.got
           /\ c.failed /\ c.lost = client.lost /\ c.expects = client.expects
  BY DEF Spoilt, ClientShape

(* What was received is the next frame, and older than the one after it.   *)
LEMMA ReceivedFrame ==
    ASSUME PipeShape, Talk, Received
    PROVE  /\ pipe.frame.to = "client" /\ pipe.frame.seq = client.expects
           /\ client.failed \/ pipe.frame # pipe.old
           /\ ~Working /\ Asking
           /\ Taken.old = pipe.frame
           /\ \A c : c.expects = client.expects + 1 => OlderThan(Taken.old, c)
  <1>1. pipe.frame.to = "client" /\ pipe.frame.seq = client.expects
    BY DEF Received, InOrder
  <1>2. /\ client.expects \in Nat
        /\ client.failed \/ pipe.old = NoFrame \/ pipe.old.seq < client.expects
    BY DEF Talk, OlderThan
  <1>3. client.failed \/ pipe.frame # pipe.old
    BY <1>1, <1>2, FrameFields
  <1>4. Taken.old = pipe.frame
    BY <1>1, TakenFields
  <1>5. \A c : c.expects = client.expects + 1 => OlderThan(Taken.old, c)
    BY <1>1, <1>2, <1>4 DEF OlderThan
  <1> QED BY <1>1, <1>3, <1>4, <1>5, TalkFields

LEMMA EndedRead ==
    ASSUME PipeShape, ClientShape(client), Talk, client.pc = "reading", UNCHANGED <<raw, broker>>,
           NEW c, ClientShape(c), c.read = client.read, c.lost = client.lost,
           OlderThan(Taken.old, c), ~Working,
           NEW error, error # "none", ReadFails(c, error),
           error \in IdentityErrors => raw.pc = "closed"
    PROVE  Talk'
  <1>1. /\ client'.pc = "open" /\ client'.read = c.read /\ client'.got = <<>>
        /\ client'.error = error /\ client'.lost = (c.lost \/ error \in IdentityErrors)
        /\ client'.failed = c.failed /\ client'.expects = c.expects
        /\ pipe' = Taken
    BY DEF ReadFails, ClientShape
  <1>2. SoundRead(client')
    BY <1>1, EmptySequence DEF Talk, SoundRead
  <1>3. OlderThan(Taken.old, client')
    BY <1>1 DEF OlderThan
  <1>4. client'.lost => raw.pc = "closed" /\ client'.got = <<>>
    BY <1>1 DEF Talk, LostForGood
  <1>5. PICK d : d = client'
    OBVIOUS
  <1> QED BY <1>1, <1>2, <1>3, <1>4, <1>5, TakeTalks DEF Asking

LEMMA ReadAnsweredTalks ==
    ASSUME PipeShape, ClientShape(client), Talk, ReadAnswered
    PROVE  Talk'
  <1>0. /\ client.pc = "reading" /\ UNCHANGED <<raw, broker>>
        /\ SoundRead(client) /\ ~client.failed /\ Turns
    BY DEF ReadAnswered, Talk, SoundRead
  <1>1. Received => /\ Delivers(Reply, client) /\ Reports(Reply, raw.pc)
    BY <1>0, ReceivedFrame DEF Talk, TheAnswer, Reply
  <1>2. CASE Received /\ Fits
    <2> DEFINE got == client.got \o Reply.bytes
               c   == [Accepted EXCEPT !.got = got]
    <2>1. Reply.kind = "ReadData" /\ Len(Reply.bytes) = Wanting(client).length
      BY <1>2 DEF Fits, Wanting
    <2>2. Reply.bytes # <<>>
      BY <1>0, <2>1, WantingFields, EmptySequence
    <2>3. /\ IsSequence(Reply.bytes) /\ InPlace(Reply.bytes, Wanting(client).offset)
          /\ ~client.lost
      BY <1>1, <1>2, <2>1, <2>2 DEF Delivers
    <2>4. /\ IsSequence(got) /\ Len(got) = Len(client.got) + Len(Reply.bytes)
          /\ InPlace(got, client.read.offset)
      <3>1. IsSequence(client.got) /\ InPlace(client.got, client.read.offset)
        BY <1>0 DEF SoundRead
      <3>2. InPlace(Reply.bytes, client.read.offset + Len(client.got))
        BY <1>0, <2>3, WantingFields
      <3> QED BY <1>0, <2>3, <3>1, <3>2, WantingFields, JoinedSequence
    <2>5. /\ ClientShape(c) /\ c.pc = "reading" /\ c.read = client.read /\ c.got = got
          /\ ~c.failed /\ ~c.lost /\ c.error = "none" /\ c.expects = client.expects + 1
      <3>1. ASSUME NEW a, ClientShape(a), NEW g, NEW d, d = [a EXCEPT !.got = g]
            PROVE  /\ ClientShape(d) /\ d.pc = a.pc /\ d.read = a.read /\ d.got = g
                   /\ d.failed = a.failed /\ d.lost = a.lost /\ d.error = a.error
                   /\ d.expects = a.expects
        BY <3>1 DEF ClientShape
      <3>2. client.error = "none"
        BY <1>0 DEF SoundRead
      <3> HIDE DEF got
      <3> QED BY <1>0, <2>3, <3>1, <3>2, AcceptedFields
    <2>6. \/ Len(got) = client.read.length /\ client' = [c EXCEPT !.pc = "open"] /\ pipe' = Taken
          \/ /\ Len(got) # client.read.length
             /\ Send(c, ReadAt(TheHandle, Piece(client.read, Len(got))))
      <3>1. ~(Received /\ Reply.kind = "Error") /\ ~(Received /\ ~Fits) /\ ~Unreceived
        BY <1>2, <2>1, FrameFields DEF Received, Unreceived
      <3> QED BY <3>1, Zenon DEF ReadAnswered
    <2>7. Len(got) <= client.read.length /\ Len(got) \in Nat /\ client.read \in ReadRange
          /\ client.read.length \in Nat
      BY <1>0, <2>1, <2>4, WantingFields DEF SoundRead
    <2>8. /\ ~Working /\ Asking /\ OlderThan(Taken.old, c)
      BY <1>2, <2>5, ReceivedFrame
    <2> HIDE DEF c, got
    <2>9. CASE Len(got) = client.read.length /\ client' = [c EXCEPT !.pc = "open"] /\ pipe' = Taken
      <3>1. PICK d : d = [c EXCEPT !.pc = "open"]
        OBVIOUS
      <3>2. /\ d.pc = "open" /\ d.read = client.read /\ d.got = got /\ ~d.failed /\ ~d.lost
            /\ d.error = "none" /\ d.expects = c.expects
        BY <2>5, <3>1 DEF ClientShape
      <3>3. SoundRead(d)
        BY <2>4, <2>7, <2>9, <3>2 DEF SoundRead
      <3>4. OlderThan(Taken.old, d)
        BY <2>5, <2>8, <3>2 DEF OlderThan
      <3> QED BY <1>0, <2>8, <2>9, <3>1, <3>2, <3>3, <3>4, TakeTalks
    <2>10. CASE /\ Len(got) # client.read.length
                /\ Send(c, ReadAt(TheHandle, Piece(client.read, Len(got))))
      <3>0. Len(got) < client.read.length
        BY <2>7, <2>10
      <3>1. SoundRead(c)
        BY <2>4, <2>5, <2>7, <3>0 DEF SoundRead
      <3>2. ReadAt(TheHandle, Piece(client.read, Len(got))) = ReadAt(TheHandle, Wanting(c))
        BY <2>5 DEF Wanting
      <3> QED BY <1>0, <2>5, <2>8, <2>10, <3>1, <3>2, SendTalks, MessageKinds
    <2> QED BY <2>6, <2>9, <2>10
  <1>3. CASE Received /\ Reply.kind = "Error" /\ ReadFails(Accepted, Reply.code)
    <2>1. Reply.code # "none" /\ (Reply.code \in IdentityErrors => raw.pc = "closed")
      BY <1>1, <1>3 DEF Reports
    <2>2. PICK c : c = Accepted
      OBVIOUS
    <2>3. /\ ClientShape(c) /\ c.read = client.read /\ c.lost = client.lost
          /\ c.expects = client.expects + 1
      BY <2>2, AcceptedFields
    <2>4. OlderThan(Taken.old, c) /\ ~Working
      BY <1>3, <2>3, ReceivedFrame
    <2> QED BY <1>0, <1>3, <2>1, <2>2, <2>3, <2>4, EndedRead
  <1>4. "Unexpected" \notin IdentityErrors /\ LostError \notin IdentityErrors \union {"none"}
    BY DEF IdentityErrors, SourceErrors, LostError
  <1>5. PICK s : s = Spoilt("")
    OBVIOUS
  <1>6. /\ ClientShape(s) /\ s.read = client.read /\ s.lost = client.lost
        /\ s.failed /\ s.expects \in Nat
    BY <1>0, <1>5, SpoiltFields DEF Talk, OlderThan
  <1>7. CASE /\ Received /\ ~Fits /\ Reply.kind # "Error"
             /\ ReadFails([Spoilt("") EXCEPT !.expects = @ + 1], "Unexpected")
    <2>1. PICK c : c = [s EXCEPT !.expects = @ + 1]
      OBVIOUS
    <2>2. /\ ClientShape(c) /\ c.read = s.read /\ c.lost = s.lost /\ c.failed
          /\ c.expects = s.expects + 1
      BY <1>6, <2>1 DEF ClientShape
    <2>3. OlderThan(Taken.old, c) /\ ~Working
      <3>1. ~Working
        BY <1>7, ReceivedFrame
      <3> QED BY <1>6, <2>2, <3>1 DEF OlderThan
    <2> QED BY <1>0, <1>4, <1>5, <1>6, <1>7, <2>1, <2>2, <2>3, EndedRead
  <1>8. CASE Unreceived /\ ReadFails(Spoilt(""), LostError)
    <2>1. OlderThan(Taken.old, s)
      BY <1>6 DEF OlderThan
    <2>2. ~Working
      <3>1. CASE ~pipe.open
        BY <1>0, <3>1 DEF Turns, Asking, Working
      <3>2. CASE pipe.frame.to = "client"
        BY <3>2, TalkFields
      <3> QED BY <1>8, <3>1, <3>2 DEF Unreceived
    <2> QED BY <1>0, <1>4, <1>5, <1>6, <1>8, <2>1, <2>2, EndedRead
  <1> QED BY <1>2, <1>3, <1>7, <1>8, Zenon DEF ReadAnswered

LEMMA ClientStepTalks ==
    ASSUME PipeShape, ClientShape(client), Talk, ClientStep
    PROVE  Talk'
  <1>0. Turns /\ SoundRead(client)
    BY DEF Talk
  <1>1. CASE Accept
    <2> DEFINE c == [client EXCEPT !.pc = "greeting"]
    <2>1. /\ client.pc = "accepting" /\ UNCHANGED <<raw, broker>>
          /\ Send(c, Hello) \/ Leave("Transport")
      BY <1>1 DEF Accept
    <2>2. /\ ClientShape(c) /\ c.pc = "greeting" /\ c.read = client.read /\ c.got = client.got
          /\ c.failed = client.failed /\ c.lost = client.lost /\ c.expects = client.expects
      BY DEF ClientShape
    <2> HIDE DEF c
    <2>3. ~Working /\ pipe.frame = NoFrame /\ Unread(client) /\ Asking
      BY <1>0, <2>1 DEF Turns, SoundRead, Asking
    <2>4. Unread(c)
      BY <2>2, <2>3 DEF Unread
    <2>5. Taken.old = pipe.old
      BY <2>3, TakenFields, FrameFields
    <2>6. OlderThan(Taken.old, c)
      BY <2>2, <2>5 DEF Talk, OlderThan
    <2>7. SoundRead(c)
      BY <2>2, <2>4, UnreadSounds
    <2>8. CASE Send(c, Hello)
      BY <2>1, <2>2, <2>3, <2>4, <2>6, <2>7, <2>8, SendTalks, MessageKinds DEF Unread
    <2> QED BY <2>1, <2>8, LeaveTalks
  <1>2. CASE Greeted
    <2> DEFINE c == [Accepted EXCEPT !.pc = "opening"]
    <2>1. CASE Received /\ Send(c, OpenSource(client.id))
      <3>1. /\ ClientShape(c) /\ c.pc = "opening" /\ c.read = client.read /\ c.got = client.got
            /\ c.failed = client.failed /\ c.lost = client.lost
            /\ c.expects = client.expects + 1
        <4>1. ASSUME NEW a, ClientShape(a), NEW d, d = [a EXCEPT !.pc = "opening"]
              PROVE  /\ ClientShape(d) /\ d.pc = "opening" /\ d.read = a.read /\ d.got = a.got
                     /\ d.failed = a.failed /\ d.lost = a.lost /\ d.expects = a.expects
          BY <4>1 DEF ClientShape
        <4> QED BY <4>1, AcceptedFields
      <3>2. Send(c, OpenSource(client.id))
        BY <2>1
      <3> HIDE DEF c
      <3>3. client.pc = "greeting" /\ UNCHANGED <<raw, broker>> /\ Unread(client)
        BY <1>0, <1>2 DEF Greeted, SoundRead
      <3>4. ~Working /\ Asking /\ OlderThan(Taken.old, c)
        BY <2>1, <3>1, ReceivedFrame
      <3>5. Unread(c)
        BY <3>1, <3>3 DEF Unread
      <3>6. SoundRead(c)
        BY <3>1, <3>5, UnreadSounds
      <3> QED BY <3>1, <3>2, <3>3, <3>4, <3>5, <3>6, SendTalks DEF Unread
    <2>2. \/ Received /\ Send(c, OpenSource(client.id))
          \/ \E e : Leave(e)
      BY <1>2, Zenon DEF Greeted
    <2> QED BY <2>1, <2>2, LeaveTalks
  <1>3. CASE SourceOpened
    <2>1. CASE /\ Received
               /\ client' = [Accepted EXCEPT !.pc = "open", !.number = Reply.number]
               /\ pipe' = Taken
      <3>1. PICK c : c = [Accepted EXCEPT !.pc = "open", !.number = Reply.number]
        OBVIOUS
      <3>2. PICK a : a = Accepted
        OBVIOUS
      <3>3. /\ ClientShape(a) /\ a.read = client.read /\ a.got = client.got
            /\ a.failed = client.failed /\ a.lost = client.lost /\ a.expects = client.expects + 1
        BY <3>2, AcceptedFields
      <3>4. /\ c.pc = "open" /\ c.read = a.read /\ c.got = a.got
            /\ c.failed = a.failed /\ c.lost = a.lost /\ c.expects = a.expects
        BY <3>1, <3>2, <3>3 DEF ClientShape
      <3>5. client.pc = "opening" /\ UNCHANGED <<raw, broker>> /\ Unread(client)
        BY <1>0, <1>3 DEF SourceOpened, SoundRead
      <3>6. ~Working /\ Asking /\ OlderThan(Taken.old, c)
        BY <2>1, <3>3, <3>4, ReceivedFrame
      <3>7. Unread(c)
        BY <3>3, <3>4, <3>5 DEF Unread
      <3>8. SoundRead(c)
        <4>1. NoRead \in ReadRange /\ NoRead.length = 0
          BY SourceAssumption DEF NoRead, ReadRange
        <4> QED BY <3>4, <3>7, <4>1, EmptySequence DEF Unread, SoundRead
      <3> QED BY <2>1, <3>1, <3>4, <3>5, <3>6, <3>7, <3>8, TakeTalks DEF Unread
    <2>2. \/ /\ Received
             /\ client' = [Accepted EXCEPT !.pc = "open", !.number = Reply.number]
             /\ pipe' = Taken
          \/ \E e : Leave(e)
      BY <1>3, Zenon DEF SourceOpened
    <2> QED BY <2>1, <2>2, LeaveTalks
  <1>4. CASE SourceClosed
    BY <1>4, LeaveTalks DEF SourceClosed
  <1> QED BY <1>1, <1>2, <1>3, <1>4, ReadAnsweredTalks DEF ClientStep

-----------------------------------------------------------------------------
(* Steps of the broker.                                                    *)

(* It answers.                                                             *)
LEMMA AnswerTalks ==
    ASSUME PipeShape, Talk, NEW b, NEW msg, Answer(b, msg), UNCHANGED client,
           broker'.pc = "serving", broker.pc # "ended",
           pipe.frame.to = "broker" \/ Working,
           client.pc = "reading" => Delivers(msg, client) /\ Reports(msg, raw'.pc),
           client.lost => raw'.pc = "closed"
    PROVE  Talk'
  <1>1. /\ pipe'.open = pipe.open /\ pipe'.old = pipe.old
        /\ ~pipe.open => pipe'.frame = NoFrame
        /\ pipe.open => pipe'.frame.to = "client" /\ pipe'.frame.msg = msg
    BY AnswerFields
  <1>2. client.pc \notin {"accepting", "open"}
    BY TalkFields, FrameFields DEF Turns
  <1>3. Turns'
    BY <1>1, <1>2, FrameFields DEF Talk, Turns, Working, Request, Asking
  <1>4. SoundRead(client)' /\ OlderThan(pipe.old, client)'
    BY <1>1 DEF Talk
  <1>5. TheQuestion'
    BY <1>1, FrameFields DEF TheQuestion
  <1>6. TheAnswer'
    BY <1>1, FrameFields DEF TheAnswer
  <1>7. LostForGood'
    BY DEF Talk, LostForGood
  <1> QED BY <1>3, <1>4, <1>5, <1>6, <1>7 DEF Talk

(* It takes a request to work on.                                          *)
LEMMA WorkTalks ==
    ASSUME PipeShape, Talk, pipe.frame.to = "broker", pipe' = Taken, UNCHANGED client,
           broker'.pc \in {"opening", "reading"}, broker.pc # "ended",
           client.pc = "reading" => broker'.pc = "reading" /\ raw'.read = Wanting(client),
           ~client.lost
    PROVE  Talk'
  <1>1. pipe'.open = pipe.open /\ pipe'.old = pipe.old /\ pipe'.frame = NoFrame
    BY TakenByBroker
  <1>2. client.pc \notin {"accepting", "open"} /\ Asking
    BY TalkFields DEF Turns
  <1>3. Turns'
    BY <1>1, <1>2, FrameFields DEF Talk, Turns, Working, Request, Asking
  <1>4. SoundRead(client)' /\ OlderThan(pipe.old, client)'
    BY <1>1 DEF Talk
  <1>5. TheQuestion' /\ TheAnswer' /\ LostForGood'
    BY <1>1, FrameFields DEF TheQuestion, TheAnswer, LostForGood
  <1> QED BY <1>3, <1>4, <1>5 DEF Talk

LEMMA BrokerEndsTalks ==
    ASSUME PipeShape, Talk, BrokerEnds, UNCHANGED client
    PROVE  Talk'
  <1> DEFINE f == IF pipe.frame.to = "client" THEN pipe.frame ELSE NoFrame
  <1>1. pipe' = [pipe EXCEPT !.open = FALSE, !.frame = f]
    BY DEF BrokerEnds, EndsAfter
  <1>2. /\ f = NoFrame \/ (f = pipe.frame /\ f.to = "client")
        /\ pipe.frame = NoFrame => f = NoFrame
    OBVIOUS
  <1> HIDE DEF f
  <1>3. ~pipe'.open /\ pipe'.frame = f /\ pipe'.old = pipe.old
    BY <1>1 DEF PipeShape
  <1>4. raw'.pc = "closed" /\ broker'.pc = "ended"
    BY DEF BrokerEnds, EndsAfter, Closed, BrokerOff
  <1>5. Turns'
    BY <1>2, <1>3, <1>4, FrameFields DEF Talk, Turns, Working, Request, Asking
  <1>6. SoundRead(client)' /\ OlderThan(pipe.old, client)'
    BY <1>3 DEF Talk
  <1>7. TheQuestion'
    BY <1>2, <1>3, <1>4, FrameFields DEF TheQuestion
  <1>8. TheAnswer'
    BY <1>2, <1>3, <1>4, FrameFields DEF Talk, TheAnswer, Delivers, Reports
  <1>9. LostForGood'
    BY <1>4 DEF Talk, LostForGood
  <1> QED BY <1>5, <1>6, <1>7, <1>8, <1>9 DEF Talk

(* It refuses a session that does not begin with a greeting.               *)
LEMMA RefusalTalks ==
    ASSUME PipeShape, Talk, NEW b, pipe.frame.to = "broker", UNCHANGED client,
           EndsAfter(IF pipe.open THEN Frame("client", b.next, Err("AuthenticationFailed"))
                     ELSE NoFrame)
    PROVE  Talk'
  <1> DEFINE f == IF pipe.open THEN Frame("client", b.next, Err("AuthenticationFailed")) ELSE NoFrame
  <1>1. pipe' = [pipe EXCEPT !.open = FALSE, !.frame = f]
    BY DEF EndsAfter
  <1>2. f = NoFrame \/ (f.to = "client" /\ f.msg = Err("AuthenticationFailed"))
    BY FrameFields
  <1> HIDE DEF f
  <1>3. ~pipe'.open /\ pipe'.frame = f /\ pipe'.old = pipe.old
    BY <1>1 DEF PipeShape
  <1>4. raw'.pc = "closed" /\ broker'.pc = "ended"
    BY DEF EndsAfter, Closed, BrokerOff
  <1>5. client.pc \notin {"accepting", "open"} /\ Asking
    BY TalkFields DEF Turns
  <1>6. Turns'
    BY <1>2, <1>3, <1>4, <1>5, FrameFields DEF Turns, Working, Request, Asking
  <1>7. SoundRead(client)' /\ OlderThan(pipe.old, client)'
    BY <1>3 DEF Talk
  <1>8. TheQuestion'
    BY <1>2, <1>3, <1>4, FrameFields DEF TheQuestion
  <1>9. TheAnswer'
    <2>1. /\ Err("AuthenticationFailed").kind = "Error"
          /\ Err("AuthenticationFailed").code = "AuthenticationFailed"
      BY DEF Err
    <2> QED BY <1>2, <1>3, <1>4, <2>1, FrameFields DEF TheAnswer, Delivers, Reports
  <1>10. LostForGood'
    BY <1>4 DEF Talk, LostForGood
  <1> QED BY <1>6, <1>7, <1>8, <1>9, <1>10 DEF Talk

(* The source is opened, proved and read.                                  *)
LEMMA SourceTalks ==
    ASSUME Talk, UNCHANGED <<broker, pipe, client>>, raw.pc # "closed",
           raw'.read = raw.read
    PROVE  Talk'
  <1>1. Turns'
    BY DEF Talk, Turns, Working, Request, Asking
  <1>2. SoundRead(client)' /\ OlderThan(pipe.old, client)'
    BY DEF Talk
  <1>3. TheQuestion' /\ LostForGood'
    BY DEF Talk, TheQuestion, LostForGood
  <1>4. TheAnswer'
    BY DEF Talk, TheAnswer, Reports
  <1> QED BY <1>1, <1>2, <1>3, <1>4 DEF Talk

LEMMA RawStepTalks ==
    ASSUME RawShape, Talk, RawStep \/ Tick, UNCHANGED <<broker, pipe, client>>
    PROVE  Talk'
  <1>1. ASSUME NEW pc, raw' = At(pc)
        PROVE  raw'.read = raw.read
    BY <1>1 DEF At, RawShape
  <1>2. ASSUME NEW e, raw' = Fails(e)
        PROVE  raw'.read = raw.read
    BY <1>2 DEF Fails, RawShape
  <1>3. CASE EnumerateBefore
    <2>1. \/ raw' = At("opening") \/ raw' = Fails("SourceNotFound")
      BY <1>3 DEF EnumerateBefore
    <2> QED BY <1>1, <1>2, <1>3, <2>1, SourceTalks DEF EnumerateBefore
  <1>4. CASE OpenVolume
    <2>1. CASE raw' = [At("serial") EXCEPT !.handle = HandleOn(raw.id.volume)]
      <3>1. raw'.read = raw.read
        BY <2>1 DEF At, RawShape
      <3> QED BY <1>4, <3>1, SourceTalks DEF OpenVolume
    <2> QED BY <1>2, <1>4, <2>1, SourceTalks DEF OpenVolume, Unsupported
  <1>5. CASE CheckSerial
    <2>1. raw' = At("describing") \/ (\E e : raw' = Fails(e))
      BY <1>5 DEF CheckSerial, Unsupported
    <2> QED BY <1>1, <1>2, <1>5, <2>1, SourceTalks DEF CheckSerial
  <1>6. CASE Describe
    <2>1. CASE raw' = [At("confirming") EXCEPT !.number = NumberOf(raw.id.volume)]
      <3>1. raw'.read = raw.read
        BY <2>1 DEF At, RawShape
      <3> QED BY <1>6, <3>1, SourceTalks DEF Describe
    <2> QED BY <1>2, <1>6, <2>1, SourceTalks DEF Describe, Unsupported
  <1>7. CASE EnumerateAfter \/ ProveListed
    <2>1. raw' = At("listing") \/ raw' = At("comparing") \/ raw' = Fails("SourceChanged")
      BY <1>7 DEF EnumerateAfter, ProveListed
    <2> QED BY <1>1, <1>2, <1>7, <2>1, SourceTalks DEF EnumerateAfter, ProveListed
  <1>8. CASE ProveHandle
    <2> DEFINE pc == IF raw.read = NoRead THEN "open" ELSE "reading"
    <2>1. \/ raw' = [At(pc) EXCEPT !.counted = 0, !.elapsed = FALSE]
          \/ \E e : raw' = Fails(e)
      BY <1>8 DEF ProveHandle, Unsupported
    <2> HIDE DEF pc
    <2>2. CASE raw' = [At(pc) EXCEPT !.counted = 0, !.elapsed = FALSE]
      <3>1. raw'.read = raw.read
        BY <2>2 DEF At, RawShape
      <3> QED BY <1>8, <3>1, SourceTalks DEF ProveHandle
    <2> QED BY <1>2, <1>8, <2>1, <2>2, SourceTalks DEF ProveHandle
  <1>9. CASE ReadVolume
    <2> DEFINE met  == [serial |-> world.serial[raw.id.volume], reuse |-> world.reuse]
               late == IF raw.elapsed /\ ~SameSerial THEN raw.late + 1 ELSE raw.late
    <2>1. \/ raw' = [raw EXCEPT !.pc = "answered", !.met = met, !.late = late]
          \/ raw' = Fails("ReadFailed")
      <3>1. At("answered").late = raw.late
        BY DEF At, RawShape
      <3> QED BY <1>9, <3>1 DEF ReadVolume, At
    <2> HIDE DEF met, late
    <2>2. CASE raw' = [raw EXCEPT !.pc = "answered", !.met = met, !.late = late]
      <3>1. raw'.read = raw.read
        BY <2>2 DEF RawShape
      <3> QED BY <1>9, <3>1, SourceTalks DEF ReadVolume
    <2> QED BY <1>2, <1>9, <2>1, <2>2, SourceTalks DEF ReadVolume
  <1>10. CASE Tick
    <2>1. raw.pc # "closed" /\ raw'.read = raw.read
      BY <1>10 DEF Tick, RawShape
    <2> QED BY <2>1, SourceTalks
  <1> QED BY <1>3, <1>4, <1>5, <1>6, <1>7, <1>8, <1>9, <1>10 DEF RawStep

LEMMA ReceiveTalks ==
    ASSUME SourceInv, RawShape, PipeShape, Talk, Receive
    PROVE  Talk'
  <1>0. /\ UNCHANGED client /\ broker.pc \in {"started", "serving"}
        /\ client.lost => raw.pc = "closed"
        /\ client.lost => client.pc # "opening"
    BY DEF Receive, Talk, LostForGood, SoundRead, Unread
  <1>1. CASE BrokerEnds
    BY <1>0, <1>1, BrokerEndsTalks
  <1>2. CASE /\ ~BrokerEnds /\ pipe.frame.to = "broker"
             /\ Serve([broker EXCEPT !.expects = @ + 1], pipe.frame.msg)
    <2> DEFINE b   == [broker EXCEPT !.expects = @ + 1]
               msg == pipe.frame.msg
    <2>0. Serve(b, msg)
      BY <1>2
    <2>1. /\ b.pc = broker.pc
          /\ b = [pc |-> b.pc, next |-> b.next, expects |-> b.expects]
      BY DEF SourceInv, BrokerInv, BrokerShape
    <2> HIDE DEF b
    <2>2. PICK s : s = [b EXCEPT !.pc = "serving"]
      OBVIOUS
    <2>3. s.pc = "serving" /\ s = [pc |-> "serving", next |-> b.next, expects |-> b.expects]
      BY <2>1, <2>2
    <2>4. ASSUME NEW c, c.pc = "serving",
                 c = [pc |-> c.pc, next |-> c.next, expects |-> c.expects],
                 NEW m, Answer(c, m), UNCHANGED raw \/ raw' = Closed,
                 m.kind \notin {"ReadData", "Error"} \/
                    m \in {Err("InvalidHandle"), Err("ReadOutOfRange"), Err("InvalidRequest")}
          PROVE  Talk'
      <3>1. broker'.pc = "serving"
        BY <2>4 DEF Answer
      <3>2. Delivers(m, client) /\ Reports(m, raw'.pc)
        BY <2>4 DEF Delivers, Reports, Err, IdentityErrors, SourceErrors
      <3>3. client.lost => raw'.pc = "closed"
        BY <1>0, <2>4 DEF Closed
      <3> QED BY <1>0, <1>2, <2>4, <3>1, <3>2, <3>3, AnswerTalks
    <2>5. CASE /\ msg.kind = "OpenSource" /\ broker' = [b EXCEPT !.pc = "opening"]
               /\ pipe' = Taken
      <3>1. client.pc = "opening"
        BY <1>2, <2>5 DEF Talk, Turns, Request
      <3>2. broker'.pc = "opening"
        BY <2>1, <2>5
      <3> QED BY <1>0, <1>2, <2>5, <3>1, <3>2, WorkTalks
    <2>6. CASE /\ raw.pc # "closed" /\ broker' = [b EXCEPT !.pc = "reading"]
               /\ BeginRead(msg.range) /\ pipe' = Taken
      <3>1. broker'.pc = "reading"
        BY <2>1, <2>6
      <3>2. raw'.read = msg.range
        BY <2>6 DEF BeginRead, At, RawShape
      <3>3. client.pc = "reading" => msg.range = Wanting(client)
        BY <1>2 DEF Talk, TheQuestion, ReadAt
      <3> QED BY <1>0, <1>2, <2>6, <3>1, <3>2, <3>3, WorkTalks
    <2>7. CASE b.pc = "started"
      <3>1. CASE msg.kind # "Hello"
        BY <1>0, <1>2, <2>0, <2>7, <3>1, RefusalTalks DEF Serve
      <3>2. CASE msg.kind = "Hello"
        BY <2>0, <2>2, <2>3, <2>4, <2>7, <3>2, MessageKinds DEF Serve
      <3> QED BY <3>1, <3>2
    <2>8. CASE b.pc = "serving"
      BY <2>0, <2>1, <2>4, <2>5, <2>6, <2>8, MessageKinds DEF Serve
    <2> QED BY <1>0, <2>1, <2>7, <2>8
  <1> QED BY <1>1, <1>2 DEF Receive

LEMMA FinishTalks ==
    ASSUME SourceInv, RawShape, PipeShape, Talk, Finish
    PROVE  Talk'
  <1>0. /\ UNCHANGED client /\ Working /\ broker.pc # "ended"
        /\ client.lost => raw.pc = "closed"
        /\ client.pc = "reading" => broker.pc = "reading" /\ raw.read = Wanting(client)
    BY DEF Finish, Working, Talk, Turns, LostForGood, TheQuestion
  <1>1. Serving.pc = "serving"
        /\ Serving = [pc |-> Serving.pc, next |-> Serving.next, expects |-> Serving.expects]
    BY DEF Serving, SourceInv, BrokerInv, BrokerShape
  <1>2. ASSUME NEW m, Answer(Serving, m), ~client.lost,
               client.pc = "reading" => Delivers(m, client) /\ Reports(m, raw'.pc)
        PROVE  Talk'
    <2>1. broker'.pc = "serving"
      BY <1>1, <1>2 DEF Answer
    <2> QED BY <1>0, <1>2, <2>1, AnswerTalks
  <1>3. CASE broker.pc = "opening" /\ raw.pc = "open" /\ Answer(Serving, Opened(TheHandle, raw.number))
    BY <1>0, <1>2, <1>3
  <1>4. CASE raw.pc = "answered" /\ Answer(Serving, ReadData(Bytes))
    <2>1. ASSUME client.pc = "reading"
          PROVE  Delivers(ReadData(Bytes), client) /\ Reports(ReadData(Bytes), raw'.pc)
      <3>1. raw.read = Wanting(client) /\ raw.read.offset \in Nat /\ raw.read.length \in Nat
        BY <1>0, <2>1, WantingFields DEF Talk
      <3>2. /\ IsSequence(Bytes) /\ Len(Bytes) = raw.read.length
            /\ InPlace(Bytes, raw.read.offset)
        BY <3>1, BytesFields
      <3>3. ReadData(Bytes).bytes = Bytes /\ ReadData(Bytes).kind = "ReadData"
        BY DEF ReadData
      <3> QED BY <1>0, <1>4, <3>1, <3>2, <3>3 DEF Delivers, Reports
    <2> QED BY <1>0, <1>2, <1>4, <2>1
  <1>5. CASE raw.pc = "failed" /\ Answer(Serving, Err(raw.code)) /\ raw' = Kept
    <2>1. raw.code # "none"
      BY <1>5 DEF SourceInv, RawInv, RawType, NoError
    <2>2. raw.code \in IdentityErrors => raw'.pc = "closed"
      BY <1>5 DEF Kept, Closed
    <2>3. Err(raw.code).kind = "Error" /\ Err(raw.code).code = raw.code
      BY DEF Err
    <2>4. Delivers(Err(raw.code), client) /\ Reports(Err(raw.code), raw'.pc)
      BY <2>1, <2>2, <2>3 DEF Delivers, Reports
    <2> QED BY <1>0, <1>2, <1>5, <2>4
  <1> QED BY <1>3, <1>4, <1>5, Zenon DEF Finish

-----------------------------------------------------------------------------
(* Faults.                                                                 *)

(* Another frame is in the place of the one that was under way.            *)
LEMMA FrameTalks ==
    ASSUME Talk, UNCHANGED <<raw, broker, client>>, pipe.frame # NoFrame,
           pipe.frame.to \in {"broker", "client"},
           pipe'.open = pipe.open, pipe'.old = pipe.old, pipe'.frame # NoFrame,
           pipe'.frame.to = pipe.frame.to,
           \/ pipe'.frame = pipe.old /\ pipe.frame.to = "client"
           \/ pipe.frame # pipe.old /\ pipe'.frame.msg = pipe.frame.msg
           \/ pipe.frame.to = "client" /\ pipe'.frame.msg \in Misfits
    PROVE  Talk'
  <1>1. Turns'
    BY DEF Talk, Turns, Working, Request, Asking
  <1>2. SoundRead(client)' /\ OlderThan(pipe.old, client)'
    BY DEF Talk
  <1>3. TheQuestion' /\ LostForGood'
    BY DEF Talk, TheQuestion, LostForGood
  <1>4. ASSUME NEW m \in Misfits
        PROVE  Delivers(m, client) /\ Reports(m, raw.pc)
    <2>1. /\ m.kind = "ReadData" => m.bytes = <<>>
          /\ m.kind # "Error"
      BY DEF Misfits, HelloAck, Opened, ReadData, ClosedMsg, Garbage
    <2> QED BY <2>1 DEF Delivers, Reports
  <1>5. TheAnswer'
    <2>1. CASE pipe'.frame = pipe.old
      BY <2>1 DEF TheAnswer
    <2>2. CASE pipe.frame # pipe.old /\ pipe'.frame.msg = pipe.frame.msg
      BY <2>2 DEF Talk, TheAnswer
    <2>3. CASE pipe'.frame.msg \in Misfits
      <3>1. Delivers(pipe'.frame.msg, client) /\ Reports(pipe'.frame.msg, raw.pc)
        BY <1>4, <2>3
      <3> QED BY <3>1 DEF TheAnswer
    <2> QED BY <2>1, <2>2, <2>3
  <1> QED BY <1>1, <1>2, <1>3, <1>5 DEF Talk

LEMMA FaultTalks ==
    ASSUME PipeShape, Talk, Fault
    PROVE  Talk'
  <1>1. CASE BrokerDies
    BY <1>1, BrokerEndsTalks DEF BrokerDies
  <1>2. ASSUME NEW f, pipe' = [pipe EXCEPT !.frame = f]
        PROVE  pipe'.open = pipe.open /\ pipe'.old = pipe.old /\ pipe'.frame = f
    BY <1>2 DEF PipeShape
  <1>3. ASSUME pipe.frame # NoFrame
        PROVE  /\ pipe.frame.to \in {"broker", "client"}
               /\ pipe.frame = Frame(pipe.frame.to, pipe.frame.seq, pipe.frame.msg)
    BY <1>3 DEF PipeShape, FrameShape
  <1>4. CASE Resequence
    <2>0. UNCHANGED <<raw, broker, client>> /\ pipe.frame # NoFrame
      BY <1>4 DEF Resequence
    <2>1. CASE /\ pipe.frame.to = "client" /\ pipe.old # NoFrame
               /\ pipe' = [pipe EXCEPT !.frame = pipe.old]
      <3>1. pipe.old.to = "client"
        BY <2>1 DEF PipeShape
      <3>2. pipe'.open = pipe.open /\ pipe'.old = pipe.old /\ pipe'.frame = pipe.old
        BY <1>2, <2>1
      <3> QED BY <2>0, <2>1, <3>1, <3>2, FrameTalks
    <2>2. CASE pipe.frame # pipe.old /\ pipe' = [pipe EXCEPT !.frame.seq = @ + 1]
      <3>1. PICK f : f = [pipe.frame EXCEPT !.seq = @ + 1]
        OBVIOUS
      <3>2. f.to = pipe.frame.to /\ f.msg = pipe.frame.msg
        BY <1>3, <2>0, <3>1 DEF Frame
      <3>3. pipe' = [pipe EXCEPT !.frame = f]
        BY <2>2, <3>1
      <3>4. pipe'.open = pipe.open /\ pipe'.old = pipe.old /\ pipe'.frame = f
        BY <1>2, <3>3
      <3>5. f # NoFrame
        BY <1>3, <2>0, <3>2, FrameFields
      <3> QED BY <1>3, <2>0, <2>2, <3>2, <3>4, <3>5, FrameTalks
    <2> QED BY <1>4, <2>1, <2>2 DEF Resequence
  <1>5. CASE Misfit
    <2>1. PICK msg \in Misfits : pipe' = [pipe EXCEPT !.frame.msg = msg]
      BY <1>5 DEF Misfit
    <2>2. /\ UNCHANGED <<raw, broker, client>> /\ pipe.frame.to = "client"
          /\ pipe.frame # NoFrame
      BY <1>5, FrameFields DEF Misfit
    <2>3. PICK f : f = [pipe.frame EXCEPT !.msg = msg]
      OBVIOUS
    <2>4. f.to = pipe.frame.to /\ f.msg = msg
      BY <1>3, <2>2, <2>3 DEF Frame
    <2>5. pipe' = [pipe EXCEPT !.frame = f]
      BY <2>1, <2>3
    <2>6. pipe'.open = pipe.open /\ pipe'.old = pipe.old /\ pipe'.frame = f
      BY <1>2, <2>5
    <2>7. f # NoFrame
      BY <2>2, <2>4, FrameFields
    <2> QED BY <2>1, <2>2, <2>4, <2>6, <2>7, FrameTalks
  <1> QED BY <1>1, <1>4, <1>5 DEF Fault

-----------------------------------------------------------------------------
(* Steps of the application.                                               *)

LEMMA QuietTalks ==
    ASSUME Talk, UNCHANGED <<raw, broker, pipe, client>>
    PROVE  Talk'
  BY DEF Talk, Turns, Working, Request, Asking, TheQuestion, TheAnswer, LostForGood

LEMMA StartReadTalks ==
    ASSUME PipeShape, ClientShape(client), Talk, NEW r \in Reads, StartRead(r),
           UNCHANGED <<raw, broker>>
    PROVE  Talk'
  <1>0. /\ client.pc = "open" /\ r \in ReadRange /\ r.length > 0 /\ r.length \in Nat
        /\ ~Working /\ Asking /\ pipe.frame = NoFrame
        /\ client.lost => raw.pc = "closed"
    <2>1. r \in ReadRange /\ r.length \in Nat
      BY ScanAssumption, SourceAssumption DEF ReadRange
    <2> QED BY <2>1 DEF StartRead, Talk, Turns, Asking, LostForGood
  <1>1. CASE /\ client.failed
             /\ client' = [client EXCEPT !.read = r, !.got = <<>>, !.error = "Unavailable"]
             /\ UNCHANGED pipe
    <2>1. /\ client'.pc = "open" /\ client'.read = r /\ client'.got = <<>>
          /\ client'.error = "Unavailable" /\ client'.failed = client.failed
          /\ client'.lost = client.lost /\ client'.expects = client.expects
      BY <1>0, <1>1 DEF ClientShape
    <2>2. Turns'
      BY <1>0, <1>1, <2>1 DEF Talk, Turns, Working, Request, Asking
    <2>3. SoundRead(client')
      BY <1>0, <2>1, EmptySequence DEF SoundRead
    <2>5. OlderThan(pipe.old, client)'
      BY <1>1, <2>1 DEF Talk, OlderThan
    <2>6. TheQuestion' /\ TheAnswer' /\ LostForGood'
      BY <1>0, <2>1 DEF TheQuestion, TheAnswer, LostForGood
    <2> QED BY <2>2, <2>3, <2>5, <2>6 DEF Talk
  <1>2. CASE /\ ~client.failed
             /\ Send([client EXCEPT !.pc = "reading", !.read = r, !.got = <<>>,
                                    !.error = "none"], ReadAt(TheHandle, Piece(r, 0)))
    <2>1. PICK c : c = [client EXCEPT !.pc = "reading", !.read = r, !.got = <<>>,
                                      !.error = "none"]
      OBVIOUS
    <2>2. /\ ClientShape(c) /\ c.pc = "reading" /\ c.read = r /\ c.got = <<>>
          /\ c.error = "none" /\ ~c.failed /\ c.lost = client.lost
          /\ c.expects = client.expects
      BY <1>2, <2>1 DEF ClientShape
    <2>3. SoundRead(c)
      BY <1>0, <2>2, EmptySequence DEF SoundRead
    <2>4. Taken.old = pipe.old
      BY <1>0, TakenFields, FrameFields
    <2>5. OlderThan(Taken.old, c)
      BY <1>2, <2>2, <2>4 DEF Talk, OlderThan
    <2>6. Wanting(c) = Piece(r, 0)
      BY <2>2, EmptySequence DEF Wanting
    <2> QED BY <1>0, <1>2, <2>1, <2>2, <2>3, <2>5, <2>6, SendTalks, MessageKinds
  <1> QED BY <1>1, <1>2 DEF StartRead

LEMMA DropTalks ==
    ASSUME PipeShape, ClientShape(client), Talk, Drop, UNCHANGED <<raw, broker>>
    PROVE  Talk'
  <1>0. /\ client.pc = "open" /\ ~Working /\ Asking /\ pipe.frame = NoFrame
        /\ client.lost => raw.pc = "closed" /\ client.got = <<>>
        /\ SoundRead(client)
    BY DEF Drop, Talk, Turns, Asking, LostForGood
  <1>1. CASE Send([client EXCEPT !.pc = "closing"], CloseSource(TheHandle))
    <2>1. PICK c : c = [client EXCEPT !.pc = "closing"]
      OBVIOUS
    <2>2. /\ ClientShape(c) /\ c.pc = "closing" /\ c.read = client.read /\ c.got = client.got
          /\ c.failed = client.failed /\ c.lost = client.lost
          /\ c.expects = client.expects
      BY <2>1 DEF ClientShape
    <2>3. SoundRead(c)
      BY <1>0, <2>2 DEF SoundRead
    <2>4. Taken.old = pipe.old
      BY <1>0, TakenFields, FrameFields
    <2>5. OlderThan(Taken.old, c)
      BY <2>2, <2>4 DEF Talk, OlderThan
    <2> QED BY <1>0, <1>1, <2>1, <2>2, <2>3, <2>5, SendTalks, MessageKinds
  <1> QED BY <1>1, LeaveTalks DEF Drop

-----------------------------------------------------------------------------
(* All steps.                                                              *)

LEMMA ReadInvInit ==
    ASSUME Init
    PROVE  ReadInv
  <1>1. /\ raw = Closed /\ broker = BrokerOff /\ pipe = PipeOff /\ client = ClientOff
        /\ app = Start
    BY DEF Init, SessionInit, AppInit
  <1>2. ~pipe.open /\ pipe.frame = NoFrame /\ pipe.old = NoFrame /\ broker.pc = "absent"
    BY <1>1 DEF PipeOff, BrokerOff
  <1>3. client.pc = "off" /\ Unread(client) /\ client.expects \in Nat
    BY <1>1 DEF ClientOff, Unread
  <1>4. Turns /\ OlderThan(pipe.old, client) /\ TheQuestion /\ TheAnswer /\ LostForGood /\ Idle
    BY <1>2, <1>3, FrameFields DEF Turns, Working, Asking, Request, OlderThan, TheQuestion,
       TheAnswer, LostForGood, Unread, Idle
  <1>5. SoundRead(client)
    BY <1>3, UnreadSounds
  <1> QED BY <1>4, <1>5, DiskInvInit DEF ReadInv, Talk

LEMMA ReadInvStep ==
    ASSUME ReadInv, [Next]_vars
    PROVE  ReadInv'
  <1>0. /\ DiskInv' /\ SourceInv /\ Idle /\ Talk
        /\ RawShape /\ ClientShape(client) /\ PipeShape
    BY DiskInvStep DEF ReadInv, DiskInv, Shapes
  <1> SUFFICES Talk' /\ Idle'
    BY <1>0 DEF ReadInv
  <1>1. ASSUME UNCHANGED <<raw, broker, pipe, client, app>>
        PROVE  Talk' /\ Idle'
    BY <1>0, <1>1, QuietTalks DEF Idle, Asking
  <1> DEFINE Before == {"start", "listed", "picking", "folder", "confirming", "stored"}
  <1>2. ASSUME NEW e, app' = Ends(e)
        PROVE  Idle'
    <2>1. app'.pc = "ended"
      BY <1>2 DEF Ends, Start
    <2> QED BY <2>1 DEF Idle
  <1>3. CASE User
    <2>1. CASE /\ ListStorageSources \/ SelectScanFolder
               /\ UNCHANGED <<world, sessionVars, dest>>
      <3>1. app.pc \in Before /\ UNCHANGED <<raw, broker, pipe, client>>
        BY <2>1 DEF ListStorageSources, SelectScanFolder, OpenFolderPicker, FolderPicked,
           OpenFolder, StoreScope, sessionVars
      <3> QED BY <1>0, <3>1, QuietTalks DEF Idle, Asking
    <2>2. CASE StartScan
      <3>1. app.pc = "listed" /\ ~Asking
        BY <1>0, <2>2 DEF StartScan, Idle
      <3>2. CASE \E id : Launch(id) /\ app'.pc = "scanning"
        BY <1>0, <3>1, <3>2, LaunchTalks DEF Idle
      <3>3. CASE UNCHANGED <<broker, raw, pipe, client>> /\ \E e : app' = Ends(e)
        BY <1>0, <1>2, <3>3, QuietTalks
      <3>4. ASSUME NEW f, app' = [app EXCEPT !.pc = "scanning", !.folder = f, !.scope = NoScope]
            PROVE  app'.pc = "scanning"
        BY <3>4 DEF ReadInv, DiskInv, Shapes, AppShape
      <3> QED BY <2>2, <3>2, <3>3, <3>4 DEF StartScan
    <2>3. CASE DestStep /\ UNCHANGED <<world, sessionVars, app>>
      BY <1>1, <2>3 DEF sessionVars
    <2>4. CASE ReopenSource
      <3>1. app.pc = "stored" /\ ~Asking /\ Launch(app.session.volume)
        BY <1>0, <2>4 DEF ReopenSource, Idle
      <3>2. app'.pc = "reopening"
        BY <2>4 DEF ReopenSource, ReadInv, DiskInv, Shapes, AppShape
      <3> QED BY <1>0, <3>1, <3>2, LaunchTalks DEF Idle
    <2> QED BY <1>3, <2>1, <2>2, <2>3, <2>4 DEF User
  <1>4. CASE Environment
    <2>1. CASE WorldChange /\ UNCHANGED <<sessionVars, app, dest>>
      BY <1>1, <2>1 DEF sessionVars
    <2>2. CASE Tick /\ UNCHANGED <<world, broker, pipe, client, faults, app, dest>>
      BY <1>0, <2>2, RawStepTalks DEF Idle, Asking
    <2>3. CASE Fault /\ UNCHANGED <<app, dest>>
      <3>1. UNCHANGED client
        BY <2>3 DEF Fault, BrokerDies, Resequence, Misfit
      <3> QED BY <1>0, <2>3, <3>1, FaultTalks DEF Idle, Asking
    <2> QED BY <1>4, <2>1, <2>2, <2>3 DEF Environment
  <1>5. CASE Work
    <2>1. CASE ScanRead /\ UNCHANGED <<raw, faults>>
      <3>1. app'.pc = "scanning"
        BY <2>1 DEF ScanRead, ReadInv, DiskInv, Shapes, AppShape
      <3>2. UNCHANGED <<raw, broker>> /\ \E r \in Reads : StartRead(r)
        BY <2>1 DEF ScanRead
      <3> QED BY <1>0, <3>1, <3>2, StartReadTalks DEF Idle
    <2>2. CASE EndScan /\ UNCHANGED <<raw, faults>>
      <3>1. Drop /\ UNCHANGED <<raw, broker>>
        BY <2>2 DEF EndScan
      <3>2. CASE app' = [app EXCEPT !.pc = "storing", !.directory = Directory,
                                    !.session = BuiltSession]
        <4>1. app'.pc = "storing"
          BY <3>2 DEF ReadInv, DiskInv, Shapes, AppShape
        <4> QED BY <1>0, <3>1, <4>1, DropTalks DEF Idle
      <3>3. CASE \E e : app' = Ends(e)
        BY <1>0, <1>2, <3>1, <3>3, DropTalks
      <3> QED BY <2>2, <3>2, <3>3 DEF EndScan
    <2>3. CASE (OpeningFailed \/ Stored \/ ReopeningFailed) /\ UNCHANGED sessionVars
      <3>1. UNCHANGED <<raw, broker, pipe, client>>
        BY <2>3 DEF sessionVars
      <3>2. client.pc = "over"
        BY <2>3 DEF OpeningFailed, Stored, ReopeningFailed
      <3> QED BY <1>0, <3>1, <3>2, QuietTalks DEF Idle, Asking
    <2>4. CASE StartEngine
      <3>1. CASE app' = [app EXCEPT !.pc = "restoring"] /\ UNCHANGED <<pipe, client>>
        <4>1. app'.pc = "restoring"
          BY <3>1 DEF ReadInv, DiskInv, Shapes, AppShape
        <4> QED BY <1>0, <2>4, <3>1, <4>1, QuietTalks DEF StartEngine, Idle
      <3>2. CASE app' = Ends("RESTORE_SOURCE_CHANGED") /\ Drop
        BY <1>0, <1>2, <2>4, <3>2, DropTalks DEF StartEngine
      <3> QED BY <2>4, <3>1, <3>2 DEF StartEngine
    <2> QED BY <1>5, <2>1, <2>2, <2>3, <2>4 DEF Work, ScanStep
  <1>6. CASE Processes
    <2>1. CASE ClientStep
      <3>1. Asking' => Asking
        BY <1>0, <2>1, ClientIdStays
      <3>2. UNCHANGED app
        BY <1>6 DEF Processes
      <3> QED BY <1>0, <2>1, <3>1, <3>2, ClientStepTalks DEF Idle
    <2>2. CASE BrokerStep
      <3>1. UNCHANGED <<client, app>>
        BY <1>6, <2>2 DEF Processes, BrokerStep, Receive, Finish
      <3>2. Talk'
        BY <1>0, <2>2, ReceiveTalks, FinishTalks, RawStepTalks DEF BrokerStep
      <3> QED BY <1>0, <3>1, <3>2 DEF Idle, Asking
    <2> QED BY <1>6, <2>1, <2>2 DEF Processes
  <1>7. CASE UNCHANGED vars
    BY <1>1, <1>7 DEF vars, sessionVars
  <1> QED BY <1>3, <1>4, <1>5, <1>6, <1>7 DEF Next

(* What a read delivers is the range that was asked for, piece by piece in *)
(* order, and a read that failed delivers nothing (read_exact_at of        *)
(* crates/broker-client), whatever old, missing or ill-fitting frames the  *)
(* pipe brings, and however long the range and the pieces are.             *)
THEOREM ReadsDeliverTheRange == Spec => []ReadsAreAnswered
  <1> QED BY ReadInvInit, ReadInvStep, ReadInvImplies, PTL DEF Spec

(* Once the client has been told that the identity of its source is lost,  *)
(* no read of the session delivers data (source_identity_failure of        *)
(* crates/elevated-broker drops the source, and only an OpenSource would   *)
(* open one again).                                                        *)
THEOREM LossIsFinal == Spec => []IdentityLossIsFinal
  <1> QED BY ReadInvInit, ReadInvStep, ReadInvImplies, PTL DEF Spec
=============================================================================
