-------------------------- MODULE MCGiftCardAcquisition --------------------------
(* Small instances of GiftCardAcquisition for TLC.                         *)
EXTENDS GiftCardAcquisition, TLC

CONSTANTS k1, k2, x1, x2, h1

\* The commands that are not about a simulated outcome.
PlainCommands == {"EXECUTING", "AMBIGUOUS", "RELEASED"}
NoCommand == {}
Release == {"RELEASED"}

\* The ids are interchangeable.
GiftSymmetry == Permutations(Processes) \cup Permutations(Keys)

=============================================================================
