---------------------------- MODULE WavelengthDaemon ----------------------------
(***************************************************************************)
(* The Wavelength daemon as the adapter sees it (external), and what the   *)
(* adapter concludes from its answers:                                     *)
(* src/src/integrations/wavelength/adapter.ts.                             *)
(*                                                                         *)
(* A Send handed to the daemon may be carried out at any later time, or    *)
(* never, whether or not its answer arrives.                               *)
(***************************************************************************)
EXTENDS Naturals

CONSTANTS
    PaymentHashes,    \* the invoices' payment hashes
    MaxSends          \* bound on the Sends of one payment

VARIABLES
    sends,        \* Sends handed to the daemon, per payment
    activity      \* the daemon's entry for each payment

daemon == <<sends, activity>>

Entries == {"none", "pending", "complete", "overspent", "failed"}

\* What inspecting a payment can show.
Results == {"PENDING", "SUCCEEDED", "MISMATCH", "AMBIGUOUS"}

DaemonInit ==
    /\ sends = [hash \in PaymentHashes |-> 0]
    /\ activity = [hash \in PaymentHashes |-> "none"]

\* The request leaves the process.
SendLeaves(hash) ==
    /\ sends[hash] < MaxSends
    /\ sends' = [sends EXCEPT ![hash] = @ + 1]
    /\ UNCHANGED activity

\* A Send reaches the wallet, however late.
Pays(hash) ==
    /\ sends[hash] > 0
    /\ activity[hash] = "none"
    /\ activity' = [activity EXCEPT ![hash] = "pending"]
    /\ UNCHANGED sends

Finishes(hash) ==
    /\ activity[hash] = "pending"
    /\ \E outcome \in {"complete", "overspent", "failed"} :
          activity' = [activity EXCEPT ![hash] = outcome]
    /\ UNCHANGED sends

\* Faulty variant: an entry that is still pending counts as paid.
mapPendingAsPaid(entry) ==
    CASE entry \in {"pending", "complete"} -> "SUCCEEDED"
      [] entry = "overspent" -> "MISMATCH"
      [] OTHER -> "AMBIGUOUS"

\* What an entry of the daemon proves of the Authorization.
mapReconciliation(entry) ==
    CASE entry = "pending" -> "PENDING"
      [] entry = "complete" -> "SUCCEEDED"
      [] entry = "overspent" -> "MISMATCH"
      [] OTHER -> "AMBIGUOUS"

=============================================================================
