----------------------------- MODULE RawVolume -----------------------------
(***************************************************************************)
(* The elevated broker's source: RawVolume of crates/io-windows behind     *)
(* WindowsSource of crates/elevated-broker.  A volume is opened by its     *)
(* identity between two enumerations, proved once more before it is        *)
(* served, and proved again on a cadence of reads and time.  Every Windows *)
(* query is a step of its own, so that the devices may change between any  *)
(* two of them.                                                            *)
(***************************************************************************)
EXTENDS Devices

CONSTANTS
    Length,   \* of the source, in units of a read
    Interval  \* REVALIDATION_READ_INTERVAL, in reads

ASSUME SourceAssumption == Length \in Nat \ {0} /\ Interval \in Nat \ {0}

VARIABLE raw

(* BrokerErrorCode, as far as a source produces it.                        *)
NoError == "none"
SourceErrors   == {"SourceNotFound", "SourceUnavailable", "SourceChanged", "ReadFailed"}
IdentityErrors == SourceErrors \ {"ReadFailed"}

(* What was on the volume when a unit was read: the file system, and the   *)
(* record in it that may be a chosen folder's.                             *)
Contents == [serial : 0 .. MaxChanges, reuse : 0 .. MaxChanges]

NothingMet == [serial |-> 0, reuse |-> 0]
NoId   == [volume |-> Source, serial |-> 0]
ReadRange == [offset : 0 .. Length, length : 0 .. Length]
NoRead == [offset |-> 0, length |-> 0]

Raw == [pc      : {"closed", "enumerating", "opening", "serial", "describing", "confirming",
                   "listing", "comparing", "reading", "open", "answered", "failed"},
        id      : Identities,                \* expected_volume_id, _guid and _serial
        handle  : Handle,
        number  : Numbers \union {Absent},   \* the one disk of expected_extents
        read    : ReadRange,                   \* the read that is served, or NoRead
        met     : Contents,                  \* by the last read
        counted : 0 .. Interval,             \* reads_since_revalidation, saturated here
        elapsed : BOOLEAN,                   \* REVALIDATION_MIN_INTERVAL is over
        late    : Nat,                       \* reads served past it, the identity gone
        code    : SourceErrors \union {NoError}]

Closed == [pc |-> "closed", id |-> NoId, handle |-> [volume |-> Source, epoch |-> 0, serial |-> 0],
           number |-> Absent, read |-> NoRead, met |-> NothingMet, counted |-> 0,
           elapsed |-> FALSE, late |-> 0, code |-> NoError]

At(pc)    == [raw EXCEPT !.pc = pc]
Fails(e)  == [raw EXCEPT !.pc = "failed", !.code = e]

(* A query does not answer, or tells of a source that is not supported.    *)
Unsupported == Fails("SourceUnavailable")
---------------------------------------------------------------------------
(* RawVolume::open_by_identity.  The identity is enumerated, ...           *)
EnumerateBefore ==
    /\ raw.pc = "enumerating"
    /\ \E seen \in Enumerations :
           raw' = IF raw.id \in seen THEN At("opening") ELSE Fails("SourceNotFound")

(* ... its volume is opened by GUID, whatever is mounted there now, ...    *)
OpenVolume ==
    /\ raw.pc = "opening"
    /\ \/ /\ Mounted(raw.id.volume)
          /\ raw' = [At("serial") EXCEPT !.handle = HandleOn(raw.id.volume)]
       \/ raw' = Unsupported

SameSerial == world.serial[raw.id.volume] = raw.id.serial

(* ... the handle itself is asked for the serial number, ...               *)
CheckSerial ==
    /\ raw.pc = "serial"
    /\ \/ /\ Attached(raw.handle)
          /\ raw' = IF SameSerial THEN At("describing") ELSE Fails("SourceChanged")
       \/ raw' = Unsupported

(* ... and for bus, extents, length and layout: the baseline (an unproven  *)
(* bus, more than one disk or a bad geometry refuse the source); ...       *)
Describe ==
    /\ raw.pc = "describing"
    /\ \/ /\ Attached(raw.handle)
          /\ raw' = [At("confirming") EXCEPT !.number = NumberOf(raw.id.volume)]
       \/ raw' = Unsupported

(* ... the identity is enumerated again.                                   *)
EnumerateAfter ==
    /\ raw.pc = "confirming"
    /\ \E seen \in Enumerations :
           raw' = IF raw.id \in seen THEN At("listing") ELSE Fails("SourceChanged")

(* revalidate_identity, by the factory and on the cadence: the identity is *)
(* still enumerated, ...                                                   *)
ProveListed ==
    /\ raw.pc = "listing"
    /\ \E seen \in Enumerations :
           raw' = IF raw.id \in seen THEN At("comparing") ELSE Fails("SourceChanged")

(* ... and the handle still answers like the baseline.                     *)
ProveHandle ==
    /\ raw.pc = "comparing"
    /\ \/ /\ Attached(raw.handle)
          /\ raw' = IF SameSerial /\ NumberOf(raw.id.volume) = raw.number
                    THEN [At(IF raw.read = NoRead THEN "open" ELSE "reading")
                            EXCEPT !.counted = 0, !.elapsed = FALSE]
                    ELSE Fails("SourceChanged")
       \/ raw' = Unsupported

(* Bug: the source is proved again later than the interval says.           *)
RevalidationDueBug(counted, elapsed) == counted > Interval /\ elapsed

RevalidationDue(counted, elapsed) == counted >= Interval /\ elapsed

Counted == IF raw.counted < Interval THEN raw.counted + 1 ELSE Interval

(* WindowsSource::revalidate, for a read that is in range.                 *)
BeginRead(r) ==
    raw' = [At(IF RevalidationDue(Counted, raw.elapsed) THEN "listing" ELSE "reading")
              EXCEPT !.read = r, !.counted = Counted]

(* read_exact_at: the handle reads what is on the volume now.              *)
ReadVolume ==
    /\ raw.pc = "reading"
    /\ \/ /\ Attached(raw.handle)
          /\ raw' = [At("answered") EXCEPT
                        !.met  = [serial |-> world.serial[raw.id.volume], reuse |-> world.reuse],
                        !.late = IF raw.elapsed /\ ~SameSerial THEN @ + 1 ELSE @]
       \/ raw' = Fails("ReadFailed")

(* The second since the last proof is over.                                *)
Tick == raw.pc \in {"open", "reading"} /\ ~raw.elapsed /\ raw' = [raw EXCEPT !.elapsed = TRUE]

RawStep == \/ EnumerateBefore \/ OpenVolume \/ CheckSerial \/ Describe \/ EnumerateAfter
           \/ ProveListed \/ ProveHandle \/ ReadVolume
=============================================================================
