----------------------------- MODULE KeyManager -----------------------------
(***************************************************************************)
(* The state machines of the key managers:                                 *)
(* crypto/key_management/{master,dynamic}_key_manager.cpp.                 *)
(*                                                                         *)
(* Keys are a chain of hashes, so that a key is known by its index in it;  *)
(* the keys of the phases follow the master key.  A key manager is a       *)
(* record [status, index, temp, next, chal, resendCtr, timeoutCtr,         *)
(* forceDesync]: masterIndex, tempMasterIndex, nextMasterIndex and, of a   *)
(* dynamic node, the challenge it has sent and its two counters.  An       *)
(* operation is a function of the record; its assertion is stated apart.   *)
(***************************************************************************)
EXTENDS Naturals

KeyStatus == {"DISCONNECTED", "MASTER_UNTRUSTED", "REKEYING_UNTRUSTED",
              "CONNECTED", "REKEYING", "ADVANCING"}

KeyManagers(indices, challenges, timeouts) ==
    [status : KeyStatus, index : indices, temp : indices, next : indices,
     chal : challenges, resendCtr : timeouts, timeoutCtr : timeouts, forceDesync : BOOLEAN]

\* As constructed, DISCONNECTED in a node and CONNECTED in the master.
NewKeyManager(status) ==
    [status |-> status, index |-> 0, temp |-> 0, next |-> 0,
     chal |-> 0, resendCtr |-> 0, timeoutCtr |-> 0, forceDesync |-> FALSE]

RekeyingInProgress(k) == k.status \in {"REKEYING", "REKEYING_UNTRUSTED"}

Untrusted(k) == k.status \in {"MASTER_UNTRUSTED", "REKEYING_UNTRUSTED"}

\* getMasterIndex(); the keys of the phases are those of this index.
MasterIndex(k) ==
    IF Untrusted(k) \/ k.status = "ADVANCING" THEN k.temp ELSE k.index

-----------------------------------------------------------------------------
(***************************************************************************)
(* Rekeying: with every schedule that is distributed, the master and the   *)
(* nodes step to the next key of the chain in its activation tile.         *)
(***************************************************************************)
MasterStartRekeying(k) == [k EXCEPT !.next = k.index + 1, !.status = "REKEYING"]

MasterApplyRekeying(k) == [k EXCEPT !.index = k.next, !.status = "CONNECTED"]

CanStartRekeying(k) == k.status \in {"CONNECTED", "MASTER_UNTRUSTED"}

StartRekeying(k) ==
    [k EXCEPT !.next = MasterIndex(k) + 1,
              !.status = IF k.status = "CONNECTED" THEN "REKEYING" ELSE "REKEYING_UNTRUSTED"]

CanApplyRekeying(k) == RekeyingInProgress(k)

ApplyRekeying(k) ==
    IF k.status = "REKEYING" THEN [k EXCEPT !.index = k.next, !.status = "CONNECTED"]
    ELSE [k EXCEPT !.temp = k.next, !.status = "MASTER_UNTRUSTED"]

-----------------------------------------------------------------------------
(***************************************************************************)
(* A node that hears a timesync again, and one that hears a timesync with  *)
(* the next index.  The packets are the master's own, so that what is left *)
(* of verifying one is to have the master's index.                         *)
(***************************************************************************)
AttemptResync(k, newIndex) ==
    IF k.status = "DISCONNECTED" /\ newIndex >= k.index
    THEN [k EXCEPT !.temp = newIndex, !.status = "MASTER_UNTRUSTED"]
    ELSE k

CommitResync(k) ==
    IF ~Untrusted(k) THEN [k EXCEPT !.status = "DISCONNECTED"]
    ELSE [k EXCEPT !.index = k.temp,
                   !.status = IF k.status = "MASTER_UNTRUSTED" THEN "CONNECTED" ELSE "REKEYING"]

RollbackResync(k) == [k EXCEPT !.status = "DISCONNECTED"]

\* attemptAdvance() of a trusted node, advanceResync() of one that is waiting
\* for its challenge; a node that is rekeying does neither.
Advance(k) ==
    CASE k.status = "CONNECTED" -> [k EXCEPT !.temp = k.index + 1, !.status = "ADVANCING"]
      [] k.status = "MASTER_UNTRUSTED" -> [k EXCEPT !.temp = k.temp + 1]
      [] OTHER -> k

CommitAdvance(k) ==
    IF k.status = "ADVANCING" THEN [k EXCEPT !.index = k.temp, !.status = "CONNECTED"] ELSE k

RollbackAdvance(k) ==
    IF k.status = "ADVANCING" THEN [k EXCEPT !.status = "CONNECTED"] ELSE k

DesyncKeys(k) == [k EXCEPT !.status = "DISCONNECTED"]

-----------------------------------------------------------------------------
(***************************************************************************)
(* The challenge by which a node that has just synchronized makes sure     *)
(* that the master knows the key: the n-th challenge of a node is n.       *)
(***************************************************************************)
SendChallenge(k) == [k EXCEPT !.chal = @ + 1, !.resendCtr = 0, !.timeoutCtr = 0]

CanVerifyResponse(k) == Untrusted(k)

\* applyInfoElements() of the schedule distribution with a response for us.
HandleResponse(k, response) ==
    IF response = k.chal THEN CommitResync(k)
    ELSE RollbackResync([k EXCEPT !.forceDesync = TRUE])

\* periodicUpdate(): the manager, whether it sends the challenge again and
\* whether the node must desynchronize.
PeriodicUpdate(k, challengeTimeout) ==
    LET resend == k.resendCtr + 1 >= (challengeTimeout \div 5) * 2
        expire == k.timeoutCtr + 1 >= challengeTimeout
        idle   == [keys |-> k, resend |-> FALSE, desync |-> FALSE]
    IN  CASE k.forceDesync ->
               [idle EXCEPT !.keys = [k EXCEPT !.resendCtr = 0, !.timeoutCtr = 0,
                                               !.forceDesync = FALSE],
                            !.desync = TRUE]
          [] ~k.forceDesync /\ ~Untrusted(k) -> idle
          [] ~k.forceDesync /\ Untrusted(k) /\ resend ->
               [idle EXCEPT !.keys = [k EXCEPT !.resendCtr = 0, !.timeoutCtr = @ + 1],
                            !.resend = TRUE]
          [] ~k.forceDesync /\ Untrusted(k) /\ ~resend /\ expire ->
               [idle EXCEPT !.keys = RollbackResync([k EXCEPT !.resendCtr = 0, !.timeoutCtr = 0]),
                            !.desync = TRUE]
          [] OTHER ->
               [idle EXCEPT !.keys = [k EXCEPT !.resendCtr = @ + 1, !.timeoutCtr = @ + 1]]

=============================================================================
