---------------------------- MODULE EngineReports ----------------------------
(***************************************************************************)
(* What the caller of restore_job_observed learns from it, in order: the   *)
(* observer's events and the result of the call.  RestoreTransaction is    *)
(* shown to report in this way (ReportsInOrder); RestoreCoordinator runs   *)
(* its workers on it instead of on the whole engine.                       *)
(***************************************************************************)
EXTENDS Naturals

BadOutcomes == {"failed", "cancelled", "reconcile"}

EngineReport == [open      : BOOLEAN,      \* an item was started, not finished
                 done      : Nat,          \* items finished as published
                 bad       : BadOutcomes \cup {"none"},  \* the terminal item
                 announced : BOOLEAN,      \* manifest_published was called
                 answer    : {"none", "ok", "cancelled", "error"}]

NoReport == [open |-> FALSE, done |-> 0, bad |-> "none",
             announced |-> FALSE, answer |-> "none"]

When(condition, outcomes) == IF condition THEN outcomes ELSE {}

(* The next item of n is started.                                          *)
ItemStarted(e, n) ==
    When(~e.open /\ e.bad = "none" /\ e.done < n, {[e EXCEPT !.open = TRUE]})

(* The started item is finished: published; or failed or cancelled; or it  *)
(* is a directory that is visible but needs reconciliation, which counts   *)
(* as done and ends the job all the same.                                  *)
ItemFinished(e, asked) ==
    When(e.open, {[e EXCEPT !.open = FALSE, !.done = @ + 1],
                  [e EXCEPT !.open = FALSE, !.bad = "failed"],
                  [e EXCEPT !.open = FALSE, !.done = @ + 1, !.bad = "reconcile"]})
    \cup
    When(e.open /\ asked, {[e EXCEPT !.open = FALSE, !.bad = "cancelled"]})

(* The call returns: with a manifest, when every item is finished or one   *)
(* went bad; without one and with an error, at any moment.                 *)
CallReturned(e, n) ==
    {[e EXCEPT !.answer = "error"]}
    \cup
    When(~e.open /\ (e.bad # "none" \/ e.done = n),
         {[e EXCEPT !.announced = TRUE,
                    !.answer = CASE e.bad = "none"      -> "ok"
                                 [] e.bad = "cancelled" -> "cancelled"
                                 [] OTHER               -> "error"]})

(* What can be reported after e by a job of n items that was, or was not,  *)
(* asked to stop.                                                          *)
EngineStep(e, n, asked) ==
    When(e.answer = "none",
         ItemStarted(e, n) \cup ItemFinished(e, asked) \cup CallReturned(e, n))
=============================================================================
