----------------------------- MODULE OrderLedger -----------------------------
(***************************************************************************)
(* What a ProcessingQueue promises to the worker that drives it: an order  *)
(* that is handed in waits its turn, is attempted at most MaxTries times   *)
(* with at most MaxConcurrent orders under way, ends with exactly one      *)
(* outcome, and is handed back exactly once.  How retries, promises and    *)
(* counters bring this about is left to ProcessingQueue.                   *)
(***************************************************************************)
EXTENDS Integers, Sequences, FiniteSets

CONSTANTS Orders,         \* the identities of the orders
          MaxTries,       \* attempts an order is given
          MaxConcurrent   \* orders under way at the same time

VARIABLES waiting,    \* accepted orders whose first attempt has not begun, oldest first
          attempts,   \* [orders under way -> attempts begun]
          outcome     \* [finished orders not handed back yet -> how they ended]

ledgerVars == <<waiting, attempts, outcome>>

Outcomes == {"completed", "skipped", "rejected"}

Held == {waiting[i] : i \in DOMAIN waiting} \cup DOMAIN attempts \cup DOMAIN outcome

Init ==
    /\ waiting = <<>>
    /\ attempts = [o \in {} |-> 0]
    /\ outcome = [o \in {} |-> "completed"]

Accept(o) ==
    /\ o \notin Held
    /\ waiting' = Append(waiting, o)
    /\ UNCHANGED <<attempts, outcome>>

\* The oldest waiting order is attempted for the first time.
Begin ==
    /\ waiting # <<>>
    /\ Cardinality(DOMAIN attempts) < MaxConcurrent
    /\ attempts' = [o \in DOMAIN attempts \cup {Head(waiting)} |->
                        IF o = Head(waiting) THEN 1 ELSE attempts[o]]
    /\ waiting' = Tail(waiting)
    /\ UNCHANGED outcome

\* Some of the orders under way are attempted again.
Retry(S) ==
    /\ \A o \in S : attempts[o] < MaxTries
    /\ attempts' = [o \in DOMAIN attempts |->
                        IF o \in S THEN attempts[o] + 1 ELSE attempts[o]]
    /\ UNCHANGED <<waiting, outcome>>

\* Only an order that has used up its attempts may be rejected.
Finish(o, how) ==
    /\ how = "rejected" => attempts[o] = MaxTries
    /\ attempts' = [p \in DOMAIN attempts \ {o} |-> attempts[p]]
    /\ outcome' = [p \in DOMAIN outcome \cup {o} |-> IF p = o THEN how ELSE outcome[p]]
    /\ UNCHANGED waiting

HandBack ==
    /\ outcome' = [o \in {} |-> "completed"]
    /\ UNCHANGED <<waiting, attempts>>

Next ==
    \/ \E o \in Orders : Accept(o)
    \/ Begin
    \/ \E S \in SUBSET DOMAIN attempts : Retry(S)
    \/ \E o \in DOMAIN attempts, how \in Outcomes : Finish(o, how)
    \/ HandBack

Spec == Init /\ [][Next]_ledgerVars
=============================================================================
