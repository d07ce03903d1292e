------------------------------ MODULE Delivery ------------------------------
(***************************************************************************)
(* What the scheduler promises about one dispatchable occurrence, without  *)
(* workers, claims, leases or clocks: docs/RELIABILITY.md calls it durable *)
(* at-least-once dispatch.  An occurrence is opened once, spends a bounded *)
(* number of attempts, and is closed once, either because the target       *)
(* accepted it or because the scheduler gave up after trying.              *)
(***************************************************************************)
EXTENDS Naturals

CONSTANTS
  Occurrences,   \* dispatchable occurrences
  MaxAttempts    \* retry budget of each occurrence

VARIABLES
  status,        \* "absent", "open", "succeeded" or "failed"
  attempts,      \* attempts durably charged to the occurrence
  accepted       \* occurrences the target has accepted at least once

deliveryVars == <<status, attempts, accepted>>

Init ==
  /\ status = [o \in Occurrences |-> "absent"]
  /\ attempts = [o \in Occurrences |-> 0]
  /\ accepted = {}

\* A due instant becomes a durable occurrence.
Open(o) ==
  /\ status[o] = "absent"
  /\ status' = [status EXCEPT ![o] = "open"]
  /\ UNCHANGED <<attempts, accepted>>

\* An attempt is charged before the request leaves.
Attempt(o) ==
  /\ status[o] = "open"
  /\ attempts[o] < MaxAttempts[o]
  /\ attempts' = [attempts EXCEPT ![o] = @ + 1]
  /\ UNCHANGED <<status, accepted>>

\* The target may accept any request ever sent, even a late one.
Accept(o) ==
  /\ attempts[o] > 0
  /\ accepted' = accepted \cup {o}
  /\ UNCHANGED <<status, attempts>>

Succeed(o) ==
  /\ status[o] = "open"
  /\ o \in accepted
  /\ status' = [status EXCEPT ![o] = "succeeded"]
  /\ UNCHANGED <<attempts, accepted>>

\* Several occurrences may be given up in one transaction.
GiveUp(S) ==
  /\ \A o \in S : status[o] = "open" /\ attempts[o] > 0
  /\ status' = [o \in Occurrences |-> IF o \in S THEN "failed" ELSE status[o]]
  /\ UNCHANGED <<attempts, accepted>>

Next ==
  \/ \E o \in Occurrences : Open(o) \/ Attempt(o) \/ Accept(o) \/ Succeed(o)
  \/ \E S \in SUBSET Occurrences : GiveUp(S)

Spec == Init /\ [][Next]_deliveryVars
=============================================================================
