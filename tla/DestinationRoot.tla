-------------------------- MODULE DestinationRoot --------------------------
(***************************************************************************)
(* The recovery destination and the disk it lies on: DestinationRootBinding *)
(* of crates/io-windows, and the checks of apps/desktop/src-tauri/src/     *)
(* restore.rs that keep what is recovered off the disk it is recovered     *)
(* from.  The code knows a physical disk by its number, and a number is    *)
(* given to another disk when disks come and go; the directory handle that *)
(* is kept from the choice on is what ties the number to the disk.         *)
(*                                                                         *)
(* One restore of the scan session of ScanAuthority, from the choice of    *)
(* the destination to the start of the engine.  The commands themselves,   *)
(* their locks and the job are RestoreCoordinator's.                       *)
(***************************************************************************)
EXTENDS ScanAuthority

VARIABLE dest

vars == <<world, sessionVars, app, dest>>

DestInit == dest = [pc |-> "none", stage |-> "opening", handle |-> HandleOn(Target),
                    number |-> Absent, asked |-> Absent]

Refused == [dest EXCEPT !.pc = "refused"]
---------------------------------------------------------------------------
(* A folder is picked in the dialog and opened.                            *)
OpenRoot ==
    /\ app.pc = "stored" /\ dest.pc = "none" /\ Mounted(Target)
    /\ dest' = [dest EXCEPT !.pc = "root", !.handle = HandleOn(Target)]

(* open_destination_root_with, and revalidate later on: the handle tells   *)
(* that it is a directory, its file reference and its serial number, ...   *)
QueryRoot ==
    /\ dest.pc = "root"
    /\ dest' = IF Alive(dest.handle) THEN [dest EXCEPT !.pc = "volume"] ELSE Refused

(* What the volume that has its GUID tells now.                            *)
VolumeNow == [serial |-> world.serial[Target], number |-> NumberOf(Target)]

SameNumber == dest.stage = "opening" \/ VolumeNow.number = dest.number

(* ... and the volume its serial number and disks, which are compared with *)
(* the handle's and the baseline's.                                        *)
QueryVolume ==
    /\ dest.pc = "volume"
    /\ \/ /\ Mounted(Target) /\ VolumeNow.serial = dest.handle.serial /\ SameNumber
          /\ dest' = [dest EXCEPT !.pc = "policy", !.asked = VolumeNow.number]
       \/ dest' = Refused

(* validate_destination_policy, between the number the source had when it  *)
(* was scanned and the number the destination has now.                     *)
ValidateDestinationSeparation == dest.asked # app.session.number

NextStage == CASE dest.stage = "opening"   -> "admitting"
               [] dest.stage = "admitting" -> "planning"
               [] dest.stage = "planning"  -> "starting"
               [] OTHER                    -> "starting"

(* The binding is made; the destination is admitted, the plan is made, the *)
(* restore started: each asks the destination again and compares.          *)
ApplyPolicy ==
    /\ dest.pc = "policy"
    /\ dest' = IF dest.stage = "opening" \/ ValidateDestinationSeparation
               THEN [dest EXCEPT
                       !.pc = IF dest.stage = "starting" THEN "started" ELSE "held",
                       !.stage = NextStage, !.asked = Absent,
                       !.number = IF dest.stage = "opening" THEN dest.asked ELSE @]
               ELSE Refused

(* The next command on it.                                                 *)
Revalidate == dest.pc = "held" /\ dest' = [dest EXCEPT !.pc = "root"]

(* run_restore_worker opens the source again, through a broker of its own. *)
ReopenSource ==
    /\ dest.pc = "started" /\ app.pc = "stored"
    /\ app' = [app EXCEPT !.pc = "reopening"]
    /\ Launch(app.session.volume)
    /\ UNCHANGED faults

(* Bug: the number of the source's disk is not compared.                   *)
SameSourceBug == TRUE

(* What opened is what was scanned, by its length and its disk.            *)
SameSource == client.number = app.session.number

(* The engine starts, with both in hand, or the job fails.                 *)
StartEngine ==
    /\ app.pc = "reopening" /\ client.pc = "open"
    /\ \/ /\ SameSource
          /\ app' = [app EXCEPT !.pc = "restoring"]
          /\ UNCHANGED <<pipe, client>>
       \/ /\ ~SameSource
          /\ app' = Ends("RESTORE_SOURCE_CHANGED") /\ Drop
    /\ UNCHANGED <<raw, broker, faults>>

ReopeningFailed ==
    /\ app.pc = "reopening" /\ client.pc = "over" /\ app' = Ends(client.error)

DestStep == OpenRoot \/ QueryRoot \/ QueryVolume \/ ApplyPolicy \/ Revalidate
---------------------------------------------------------------------------
Init == WorldInit /\ SessionInit /\ AppInit /\ DestInit

User == \/ (ListStorageSources \/ SelectScanFolder) /\ UNCHANGED <<world, sessionVars, dest>>
        \/ StartScan /\ UNCHANGED <<world, dest>>
        \/ DestStep /\ UNCHANGED <<world, sessionVars, app>>
        \/ ReopenSource /\ UNCHANGED <<world, dest>>

Environment == \/ WorldChange /\ UNCHANGED <<sessionVars, app, dest>>
               \/ Tick /\ UNCHANGED <<world, broker, pipe, client, faults, app, dest>>
               \/ Fault /\ UNCHANGED <<app, dest>>

Work == \/ ScanStep /\ UNCHANGED <<world, dest>>
        \/ StartEngine /\ UNCHANGED <<world, dest>>
        \/ ReopeningFailed /\ UNCHANGED <<world, sessionVars, dest>>

Processes == (ClientStep \/ BrokerStep) /\ UNCHANGED <<world, app, dest>>

Next == User \/ Environment \/ Work \/ Processes

Spec == Init /\ [][Next]_vars

(* Windows answers its queries, and both processes run.                    *)
FairSpec == Spec /\ WF_vars(Work) /\ WF_vars(Processes)
---------------------------------------------------------------------------
(* Properties.                                                             *)

(* What a read delivers is the range that was asked for, piece by piece in *)
(* order, whatever old, missing or ill-fitting frames came; a read that    *)
(* failed delivers nothing.                                                *)
ReadsAreAnswered ==
    client.pc = "open" /\ client.read # NoRead =>
       IF client.error = "none"
       THEN [i \in DOMAIN client.got |-> client.got[i].at]
            = [i \in 1 .. client.read.length |-> client.read.offset + i - 1]
       ELSE client.got = <<>>

(* However the volume behind the handle is replaced: once its identity is  *)
(* gone and the second since the last proof is over, at most               *)
(* REVALIDATION_READ_INTERVAL reads are served from it (the one that was   *)
(* proved, if the volume goes just then, and the next but one less).       *)
StaleReadsAreFew == raw.late <= Interval

(* After the client has been told that the identity of its source is lost, *)
(* no read of the session delivers data any more.                          *)
IdentityLossIsFinal == client.lost => client.got = <<>>

(* What is recovered never goes to the disk it is recovered from: when the *)
(* engine runs on a directory handle that can be written through, the disk *)
(* of the destination is another one than the source's, though the code    *)
(* compares nothing but numbers taken at different times.                  *)
SeparateDisks ==
    app.pc = "restoring" /\ Alive(dest.handle) => world.disk[Source] # world.disk[Target]

(* A folder session is about the folder that was picked, in the volume and *)
(* under the inventory it was picked in, though the folder is found again  *)
(* by its path.                                                            *)
FolderIsTheChosenOne ==
    app.pc = "storing" /\ app.folder # NoScope =>
       /\ app.folder.volume = app.session.volume
       /\ app.folder.generation = app.generation
       /\ \E d \in app.directory : d.reuse = app.folder.met.reuse

(* Once the elevation prompt is answered, a scan ends: no broken pipe, no  *)
(* unanswered or misfit reply keeps it waiting.                            *)
ScansEnd == app.pc \in {"scanning", "storing"} ~> app.pc \in {"stored", "ended"}
=============================================================================
