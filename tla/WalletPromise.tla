---------------------------- MODULE WalletPromise ----------------------------
(***************************************************************************)
(* What the wallet of a chain promises the services that use it: a request *)
(* is executed on the chain at most once, is answered at most once, and is *)
(* reported as confirmed only if it was executed.                          *)
(***************************************************************************)
EXTENDS Integers, Sequences

CONSTANT Requests

VARIABLES requested,  \* the requests made
          executions, \* [Requests -> how often each was executed]
          answers     \* [Requests -> the sequence of answers given]

promiseVars == <<requested, executions, answers>>

Answers == {"confirmed", "submissionFailed", "rejected", "cancelled", "crashed"}

Init ==
    /\ requested = {}
    /\ executions = [r \in Requests |-> 0]
    /\ answers = [r \in Requests |-> <<>>]

Request(r) ==
    /\ r \notin requested
    /\ requested' = requested \cup {r}
    /\ UNCHANGED <<executions, answers>>

\* A request may still be executed after an answer that reports a failure.
Execute(r) ==
    /\ r \in requested
    /\ executions[r] = 0
    /\ executions' = [executions EXCEPT ![r] = 1]
    /\ UNCHANGED <<requested, answers>>

\* The requests of R are answered together.
Answer(R) ==
    /\ R \subseteq requested
    /\ \A r \in R : answers[r] = <<>>
    /\ \E how \in [R -> Answers] :
          /\ \A r \in R : how[r] = "confirmed" => executions[r] = 1
          /\ answers' = [r \in Requests |-> IF r \in R THEN <<how[r]>> ELSE answers[r]]
    /\ UNCHANGED <<requested, executions>>

Next ==
    \/ \E r \in Requests : Request(r) \/ Execute(r)
    \/ \E R \in SUBSET requested : Answer(R)

Spec == Init /\ [][Next]_promiseVars
=============================================================================
