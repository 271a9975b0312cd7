------------------------- MODULE PublicationPromise -------------------------
(***************************************************************************)
(* What a restore job promises to whoever reads its directory, however it  *)
(* ends: items are published one after the other, nothing is visible that  *)
(* was not announced, an item is vouched for only while it is visible, the *)
(* job is sealed by a manifest only when everything visible is accounted   *)
(* for, and "ok" is answered only when every item was vouched for and the  *)
(* job sealed.  RestoreTransaction implements this.                        *)
(***************************************************************************)
CONSTANT Items

VARIABLES
    intended,   \* items whose intent is durable
    shown,      \* items visible under a final name
    vouched,    \* items whose publication is durably recorded
    sealed,     \* the manifest is visible
    answer,     \* what the caller was told
    intact      \* no power was lost

vars == <<intended, shown, vouched, sealed, answer, intact>>

Init ==
    /\ intended = {} /\ shown = {} /\ vouched = {}
    /\ sealed = FALSE /\ answer = "none" /\ intact = TRUE

Open == intact /\ answer = "none" /\ ~sealed

(* One item at a time: the next is announced when all before are settled.  *)
Intend(i) ==
    /\ Open /\ i \notin intended /\ intended = vouched
    /\ intended' = intended \cup {i}
    /\ UNCHANGED <<shown, vouched, sealed, answer, intact>>

Show(i) ==
    /\ Open /\ i \in intended \ vouched
    /\ shown' = shown \cup {i}
    /\ UNCHANGED <<intended, vouched, sealed, answer, intact>>

Vouch(i) ==
    /\ Open /\ i \in shown \ vouched
    /\ vouched' = vouched \cup {i}
    /\ UNCHANGED <<intended, shown, sealed, answer, intact>>

Seal ==
    /\ Open /\ shown \subseteq vouched
    /\ sealed' = TRUE
    /\ UNCHANGED <<intended, shown, vouched, answer, intact>>

Answer(a) ==
    /\ intact /\ answer = "none"
    /\ a = "ok" => sealed /\ vouched = Items
    /\ answer' = a
    /\ UNCHANGED <<intended, shown, vouched, sealed, intact>>

LosePower ==
    /\ intact /\ intact' = FALSE
    /\ shown' \in SUBSET shown
    /\ sealed' \in {sealed, FALSE}
    /\ UNCHANGED <<intended, vouched, answer>>

Next ==
    \/ \E i \in Items : Intend(i) \/ Show(i) \/ Vouch(i)
    \/ Seal
    \/ \E a \in {"ok", "error"} : Answer(a)
    \/ LosePower

Spec == Init /\ [][Next]_vars
=============================================================================
