---------------------------- MODULE MCWavelengthSpend ----------------------------
(* Small instances of WavelengthSpend for TLC.                             *)
EXTENDS WavelengthSpend, TLC

CONSTANTS a1, a2, k1, k2, x1, x2, i1, i2, h1, h2

\* Two preparations of the same invoice.
OneInvoice == [intent \in {i1, i2} |-> h1]
\* One preparation.
OneIntent == [intent \in {i1} |-> h1]

\* What the CLI lets the operator ask of any Authorization, simulated or not.
EveryCommand == {"EXECUTING", "SUCCEEDED", "FAILED_SAFE", "AMBIGUOUS", "RELEASED"}
\* The commands that are not about a simulated outcome.
PlainCommands == {"EXECUTING", "AMBIGUOUS", "RELEASED"}

\* The ids are interchangeable.
SpendSymmetry ==
    Permutations(Processes) \cup Permutations(AuthIds) \cup Permutations(IdempotencyKeys)

IntentSymmetry == SpendSymmetry \cup Permutations(Intents)

=============================================================================
