--------------------------- MODULE ScanAuthority ---------------------------
(***************************************************************************)
(* The native side of a scan, apps/desktop/src-tauri/src/storage.rs: the   *)
(* user is shown an inventory, may choose a folder, and scans a volume of  *)
(* it through the broker.  Everything is bound to the inventory that was   *)
(* shown, and the scan session remembers what it was made from.            *)
(*                                                                         *)
(* The scanners are reduced to the reads they make (cli and fs-ntfs have   *)
(* modules of their own); which reads, and whether a failed one ends the   *)
(* scan or leaves a gap, is left open.  One command runs at a time, as the *)
(* front end sees to.                                                      *)
(***************************************************************************)
EXTENDS BrokerSession

CONSTANTS
    MaxReads,       \* bound on the reads of a scan
    Reads           \* the ranges they are about

ASSUME ScanAssumption == MaxReads \in Nat /\ Reads \subseteq ReadRange

VARIABLE app

NoScope   == [chosen |-> FALSE]
Scope     == [chosen : {TRUE}, generation : SUBSET Identities, volume : Identities,
              met : Contents]
NoSession == [stored |-> FALSE]
ScanSession == [stored : {TRUE}, volume : Identities, number : Numbers \union {Absent}]

Start == [pc |-> "start", generation |-> {}, scope |-> NoScope, folder |-> NoScope,
          reads |-> 0, directory |-> {}, session |-> NoSession, error |-> "none"]

AppInit == app = Start

Ends(error) == [Start EXCEPT !.pc = "ended", !.error = error]
Wanted == CHOOSE id \in app.generation : id.volume = Source
Offered == \E id \in app.generation : id.volume = Source

(* list_storage_sources: the generation is a digest of the inventory.      *)
ListStorageSources ==
    /\ app.pc \in {"start", "listed"}
    /\ \E seen \in Enumerations :
           app' = [app EXCEPT !.generation = seen, !.pc = "listed"]

(* authorize_inventory_generation, of every command after that.            *)
Authorized(seen) == seen = app.generation

---------------------------------------------------------------------------
(* select_scan_folder.                                                     *)

(* The inventory is still the one shown; the picker opens.                 *)
OpenFolderPicker ==
    /\ app.pc = "listed" /\ Offered
    /\ \E seen \in Enumerations :
           app' = IF Authorized(seen) THEN [app EXCEPT !.pc = "picking"]
                  ELSE Ends("SOURCE_IDENTITY_CHANGED")

StillPresent(seen) == Wanted \in seen

(* A folder is picked: validate_folder_scope enumerates, ...               *)
FolderPicked ==
    /\ app.pc = "picking"
    /\ \E seen \in Enumerations :
           app' = IF StillPresent(seen) THEN [app EXCEPT !.pc = "folder"]
                  ELSE Ends("SOURCE_IDENTITY_CHANGED")

(* What the handle of the folder tells of it.                              *)
PickedFolder == [chosen |-> TRUE, generation |-> app.generation, volume |-> Wanted,
                 met |-> [serial |-> world.serial[Source], reuse |-> world.reuse]]

(* ... opens the folder and asks the handle for the volume's serial number *)
(* and the file reference (which names the record and its use), ...        *)
OpenFolder ==
    /\ app.pc = "folder"
    /\ app' = IF Mounted(Source) /\ world.serial[Source] = Wanted.serial
              THEN [app EXCEPT !.pc = "confirming", !.folder = PickedFolder]
              ELSE Ends("FOLDER_MISMATCH")

(* ... and enumerates again; the scope is stored under the generation.     *)
StoreScope ==
    /\ app.pc = "confirming"
    /\ \E seen \in Enumerations :
           app' = IF StillPresent(seen)
                  THEN [app EXCEPT !.pc = "listed", !.scope = app.folder, !.folder = NoScope]
                  ELSE Ends("SOURCE_IDENTITY_CHANGED")
---------------------------------------------------------------------------
(* scan_storage_volume.                                                    *)

(* Bug: a folder that was chosen under an earlier inventory is taken.      *)
ScopeForVolumeBug(scope) == scope # NoScope => scope.volume.volume = Source

(* scope_for_volume: a folder counts for the inventory and the volume it   *)
(* was chosen in.                                                          *)
ScopeForVolume(scope) ==
    scope # NoScope => scope.generation = app.generation /\ scope.volume = Wanted

StartScan ==
    /\ app.pc = "listed" /\ Offered
    /\ \E seen \in Enumerations, scope \in {NoScope, app.scope} :
           IF Authorized(seen) /\ ScopeForVolume(scope)
           THEN /\ app' = [app EXCEPT !.pc = "scanning", !.folder = scope,
                                    !.scope = NoScope]
                /\ Launch(Wanted)
           ELSE /\ app' = Ends(IF Authorized(seen) THEN "FOLDER_MISMATCH"
                               ELSE "SOURCE_IDENTITY_CHANGED")
                /\ UNCHANGED <<broker, raw, pipe, client>>
    /\ UNCHANGED faults

(* map_broker_error: the source could not be opened.                       *)
OpeningFailed ==
    /\ app.pc = "scanning" /\ client.pc = "over" /\ app' = Ends(client.error)

(* What the scanner has learnt of the folder's record with the last read.  *)
Directory == IF client.got # <<>> /\ client.got[1].at = 0
             THEN {client.got[1].met} ELSE app.directory

ScanRead ==
    /\ app.pc = "scanning" /\ app.reads < MaxReads
    /\ \E r \in Reads : StartRead(r)
    /\ app' = [app EXCEPT !.reads = @ + 1, !.directory = Directory]
    /\ UNCHANGED broker

(* folder_file_reference_matches: the directory that has the folder's path *)
(* now is the one that was picked.  (Its serial number is not compared: it *)
(* is in the identity of the volume.)                                      *)
FolderFileReferenceMatches(folder, directory) == directory.reuse = folder.met.reuse

(* build_scan_session.                                                     *)
BuiltSession == [stored |-> TRUE, volume |-> client.id, number |-> client.number]

(* The scan ends and the session is stored, the reader dropped before.  A  *)
(* read the scanner cannot do without fails it.                            *)
EndScan ==
    /\ app.pc = "scanning" /\ client.pc = "open"
    /\ \/ /\ app.folder # NoScope => \E d \in Directory : FolderFileReferenceMatches(app.folder, d)
          /\ app' = [app EXCEPT !.pc = "storing", !.directory = Directory,
                                !.session = BuiltSession]
       \/ client.error # "none" /\ app' = Ends(client.error)
       \/ app.folder # NoScope /\ app' = Ends("FOLDER_MISMATCH")
    /\ Drop /\ UNCHANGED broker

(* The session can be used.                                                *)
Stored ==
    /\ app.pc = "storing" /\ client.pc = "over"
    /\ app' = [Start EXCEPT !.pc = "stored", !.session = app.session]

SelectScanFolder == OpenFolderPicker \/ FolderPicked \/ OpenFolder \/ StoreScope

ScanStep == \/ (ScanRead \/ EndScan) /\ UNCHANGED <<raw, faults>>
            \/ (OpeningFailed \/ Stored) /\ UNCHANGED sessionVars
=============================================================================
