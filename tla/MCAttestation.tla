---------------------------- MODULE MCAttestation ----------------------------
(* An instance of Attestation: two keys that own and act, one reader.       *)
EXTENDS Attestation, TLC

CONSTANTS a, b

MCKeys == {a, b}

\* The event, at time 1, meets the first conditions and just misses the second.
\* The third would be met but for a number beyond its range, the fourth has a
\* number that int() cannot read.
MCConditions ==
    {<<[op |-> "kind=", number |-> 1], [op |-> "created_at>", number |-> 0]>>,
     <<[op |-> "created_at<", number |-> 1]>>,
     <<[op |-> "created_at<", number |-> 2]>>,
     <<[op |-> "created_at<", number |-> 3]>>}

Symmetry == Permutations(MCKeys)
=============================================================================
