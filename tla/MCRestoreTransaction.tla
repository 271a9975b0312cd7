------------------------ MODULE MCRestoreTransaction ------------------------
(***************************************************************************)
(* A small plan for RestoreTransaction.  The names are chosen so that the  *)
(* items meet: a directory item and the parent of a file item want the     *)
(* same name, and a foreign file may take any name, the manifest's too.    *)
(***************************************************************************)
EXTENDS RestoreTransaction

CONSTANTS a, a1, s, s1

File(d, n, b)   == [kind |-> "file", dir |-> d, base |-> n, sidecar |-> s,
                    bestEffort |-> b]
Folder(d, n)    == [kind |-> "directory", dir |-> d, base |-> n, sidecar |-> s,
                    bestEffort |-> FALSE]

MCNames == {a, a1, s, s1, Manifest}

(* Attempt 1 of a name is its variant, and stays within the names.         *)
Variant(n) == CASE n = a -> a1 [] n = s -> s1 [] OTHER -> n
MCCollisionName == [p \in MCNames \X (0 .. MaxAttempts - 1) |->
                       IF p[2] = 0 THEN p[1] ELSE Variant(p[1])]

(* A partial file below directory a, then the directory a: the parent of   *)
(* the first item takes the name of the second.                            *)
FileThenFolder == <<File(a, a, TRUE), Folder(Root, a)>>
=============================================================================
