------------------------ MODULE MCRestoreCoordinator ------------------------
(***************************************************************************)
(* Small instances of RestoreCoordinator.                                  *)
(***************************************************************************)
EXTENDS RestoreCoordinator, TLC

(* Ids are only compared.                                                  *)
Symmetry == Permutations(Callers) \cup Permutations(Plans) \cup
            Permutations(Destinations) \cup Permutations(Scans) \cup
            Permutations(Candidates)
=============================================================================
