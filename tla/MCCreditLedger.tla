--------------------------- MODULE MCCreditLedger ---------------------------
(* Instances of CreditLedger for TLC. *)
EXTENDS CreditLedger, TLC

\* Requests and workers are interchangeable; the users are not, only one of
\* them has runs.
Symmetry == Permutations(Calls) \cup Permutations(Workers)
=============================================================================
