-------------------------------- MODULE Lists --------------------------------
(***************************************************************************)
(* A list that is filtered, sorted, folded from its first element to its   *)
(* last or flattened: filter of a Rust iterator or of an array of the      *)
(* front end, sort_by_key, a loop with an accumulator, nested loops that   *)
(* push.  Unlike SelectSeq, SortSeq, FoldLeft and FlattenSeq they take the *)
(* set of what passes, an order that is a set of pairs, a step that is a   *)
(* function, which a proof can name, and their definitions can be expanded *)
(* in one.                                                                 *)
(***************************************************************************)
EXTENDS Naturals, Sequences, FiniteSets

(* The elements of s that are in S, in the order of s.                     *)
Filter(s, S) ==
    LET first[n \in 0 .. Len(s)] ==
            IF n = 0 THEN <<>>
            ELSE IF s[n] \in S THEN Append(first[n - 1], s[n])
                 ELSE first[n - 1]
    IN  first[Len(s)]

(* The positions 1 .. n in their order: k is the place of the one that has *)
(* k - 1 before it.                                                        *)
Arranged(n, before) ==
    [k \in 1 .. n |->
        CHOOSE i \in 1 .. n : Cardinality({j \in 1 .. n : <<j, i>> \in before}) = k - 1]

(* base, taken through the steps 1 .. n.                                   *)
Folded(step, base, n) ==
    LET after[k \in 0 .. n] == IF k = 0 THEN base ELSE step[k][after[k - 1]]
    IN  after[n]

(* The elements of the lists s[1], s[2], ... one after another.            *)
Flattened(s) ==
    LET joined[n \in 0 .. Len(s)] == IF n = 0 THEN <<>> ELSE joined[n - 1] \o s[n]
    IN  joined[Len(s)]
=============================================================================
