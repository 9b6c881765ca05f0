---------------------------- MODULE DrrContract ----------------------------
(***************************************************************************)
(* What one call of DrrScheduler::schedule promises its caller, the        *)
(* aggregate timer: the abstract view of the scheduler.  DrrScheduler is   *)
(* checked to keep it, AggregateTimer relies on it.                        *)
(***************************************************************************)
EXTENDS Integers, FiniteSetsExt

\* `allocs` divides `budget` among streams with the given backlogs: nothing to
\* a stream without a backlog, at most the budget in all, and all of it unless
\* each of the `greedy` streams (those served round after round) has as much as
\* its backlog.
Divides(allocs, budget, backlog, greedy) ==
    LET sum == MapThenSumSet(LAMBDA u : allocs[u], DOMAIN allocs) IN
    /\ \A u \in DOMAIN allocs : backlog[u] = 0 => allocs[u] = 0
    /\ sum <= budget
    /\ sum < budget => \A u \in greedy : allocs[u] >= backlog[u]
=============================================================================
