-------------------------- MODULE ExecutionLedger ---------------------------
(***************************************************************************)
(* What the learning log promises: executions are recorded one after the   *)
(* other, and the tally of each problem is that of a prefix of them, a     *)
(* prefix that only ever grows.  The two stores, the event rows between    *)
(* them and the process that may die are ProgressPipeline's business.      *)
(***************************************************************************)
EXTENDS ExecutionHistory

CONSTANTS Problems, Verdicts

VARIABLES
    recorded,   \* the executions, in order
    counted,    \* how many of them the tally reflects
    tally       \* per problem: attempts, failures and whether it is solved

ledger == <<recorded, counted, tally>>

Recordable == [problem: Problems, mode: Submitters, status: Verdicts]

Summary(n) ==
    [p \in Problems |-> [attempts |-> Cardinality(ExecutionsOf(recorded, p, n)),
                         failed |-> Cardinality(FailuresOf(recorded, p, n)),
                         solved |-> SolvedBy(recorded, p, n)]]

Init ==
    /\ recorded = <<>>
    /\ counted = 0
    /\ tally = [p \in Problems |-> [attempts |-> 0, failed |-> 0, solved |-> FALSE]]

Record(e) ==
    /\ recorded' = Append(recorded, e)
    /\ UNCHANGED <<counted, tally>>

CountUpTo(n) ==
    /\ counted' = n
    /\ tally' = Summary(n)
    /\ UNCHANGED recorded

Next ==
    \/ \E e \in Recordable : Record(e)
    \/ \E n \in counted + 1 .. Len(recorded) : CountUpTo(n)

Spec == Init /\ [][Next]_ledger

=============================================================================
