---------------------------- MODULE StreamService ----------------------------
(***************************************************************************)
(* What the master promises about streams, whatever threads and snapshots  *)
(* it uses: a stream is asked for, decided upon and withdrawn; the plan is *)
(* the set of streams that have slots; a decision changes plan and streams *)
(* together, so that every granted stream is in the plan, and no decision  *)
(* is taken while a plan is being distributed.                             *)
(***************************************************************************)
CONSTANT Streams

VARIABLES
    status,        \* of every stream: "closed", "requested" or "granted"
    plan,          \* the streams that have slots
    distributing   \* the plan is on its way to the nodes

vars == <<status, plan, distributing>>

TypeOK ==
    /\ status \in [Streams -> {"closed", "requested", "granted"}]
    /\ plan \subseteq Streams
    /\ distributing \in BOOLEAN

Init ==
    /\ status = [s \in Streams |-> "closed"]
    /\ plan = {}
    /\ distributing = FALSE

Request(s) ==
    /\ status[s] = "closed"
    /\ status' = [status EXCEPT ![s] = "requested"]
    /\ UNCHANGED <<plan, distributing>>

Withdraw(s) ==
    /\ status[s] # "closed"
    /\ status' = [status EXCEPT ![s] = "closed"]
    /\ UNCHANGED <<plan, distributing>>

\* What a decision for the plan p may do to a stream: leave it as it is, grant
\* or refuse what was requested, end what was granted.
Decided(s, new, p) ==
    \/ new = status[s] /\ (new = "granted" => s \in p)
    \/ status[s] = "requested" /\ new = "granted" /\ s \in p
    \/ status[s] = "requested" /\ new = "closed"
    \/ status[s] = "granted" /\ new = "closed" /\ s \notin p

Decide ==
    /\ ~distributing
    /\ plan' \in SUBSET Streams
    /\ status' \in [Streams -> {"closed", "requested", "granted"}]
    /\ \A s \in Streams : Decided(s, status'[s], plan')
    /\ UNCHANGED distributing

\* The plan, new or not, is sent to the nodes, and later is in force.
Distribute == ~distributing /\ distributing' = TRUE /\ UNCHANGED <<status, plan>>
Applied == distributing /\ distributing' = FALSE /\ UNCHANGED <<status, plan>>

Next ==
    \/ \E s \in Streams : Request(s) \/ Withdraw(s)
    \/ Decide
    \/ Distribute
    \/ Applied

Spec == Init /\ [][Next]_vars

=============================================================================
