-------------------------- MODULE ExecutionHistory --------------------------
(***************************************************************************)
(* What a sequence of judged executions says about a problem.  The n-th    *)
(* execution of a profile is the one whose event row has sequence n.       *)
(***************************************************************************)
EXTENDS Naturals, Sequences, FiniteSets

None == "none"

Submitters == {"sample", "full"}

\* Only an accepted run of all tests solves a problem.
Solves(e) == e.mode = "full" /\ e.status = "AC"

\* The executions of problem p with a sequence up to n, and those that failed.
ExecutionsOf(h, p, n) == {s \in 1..n : h[s].problem = p}
FailuresOf(h, p, n) == {s \in ExecutionsOf(h, p, n) : h[s].status # "AC"}
SolvedBy(h, p, n) == \E s \in ExecutionsOf(h, p, n) : Solves(h[s])

\* status is that of the latest execution of p up to n.
LastStatusOf(h, p, n, status) ==
    \/ ExecutionsOf(h, p, n) = {} /\ status = None
    \/ \E s \in ExecutionsOf(h, p, n) : /\ \A t \in ExecutionsOf(h, p, n) : t <= s
                                        /\ status = h[s].status

=============================================================================
