------------------------------ MODULE MCRegistry ------------------------------
(* An instance of Registry: two template names, one author, two publishers,  *)
(* two commits whose times may go back, and one event of another tool.       *)
EXTENDS Registry, TLC

CONSTANTS t1, t2, p1, p2, k, s

MCDefault == [numeric |-> TRUE, parts |-> <<1, 0, 0>>]
Two       == [numeric |-> TRUE, parts |-> <<2>>]
Beta      == [numeric |-> FALSE, parts |-> << >>]

MCVersions == {MCDefault, Two, Beta}

MCShas == {<<1, 1, 1>>, <<1, 2, 1>>}

\* Pins shorter than a reference, equal to one, and longer than one.
MCLinkages ==
    {[name |-> t1, version |-> Two, sha |-> pin] : pin \in {<<1>>, <<1, 1>>, <<1, 2, 1>>}}

Other(name, version, ref, flaw) ==
    [author |-> k, name |-> name, version |-> version, git_ref |-> ref,
     created_at |-> 0, summary |-> s, flaw |-> flaw]

\* A version without a reference, one of another template, a version that is
\* no number, a missing tag, and an attestation that is invalid.
MCOthers ==
    {Other(t1, Two, << >>, "none"), Other(t2, Beta, <<1, 1>>, "none"),
     Other(t1, Beta, <<1, 1>>, "none"), Other(None, Two, << >>, "none"),
     Other(t1, Two, <<1, 1>>, "attestation")}

MCOtherPointers == {[author |-> k, d |-> t1, e |-> None, created_at |-> 1]}

MCNames == {t1, t2}
MCTemplates == {t1}
MCKeys == {k}
MCSummaries == {s}
MCPublishers == {p1, p2}

Symmetry == Permutations(MCPublishers)
===============================================================================
