------------------------------ MODULE Approvals ------------------------------
(***************************************************************************)
(* core/verify.py, approval counting: readers that each count the verdicts *)
(* (kind 42041) answering one approval request (kind 42040).               *)
(*                                                                         *)
(* A relay serves events in whatever order it likes, a caller may merge the*)
(* answers of several queries, so a reader meets the events of the log in  *)
(* any order and any number of times.  One step of a reader is one         *)
(* iteration of the loop of count_approvals.                               *)
(***************************************************************************)
EXTENDS Integers, Sequences, FiniteSets

CONSTANTS
    Readers,     (* callers of count_approvals                               *)
    Approvers,   (* public keys that sign events                             *)
    Requests,    (* ids of approval requests                                 *)
    Request,     (* the request being counted                                *)
    Log,         (* the events a relay may serve                             *)
    Threshold,   (* approvals the gate asks for                              *)
    Required,    (* required_approvers; all Approvers stands for None        *)
    NoEvent      (* "no entry" in the dict of latest verdicts                *)

(* verdictTags holds the first value of each verdict tag, "" when the tag   *)
(* has none; eTags the ids that the e tags name first.  Hexadecimal ids     *)
(* compare as the numbers they spell.                                       *)
Event ==
    [id : Nat, pubkey : Approvers, created_at : Nat, kind : {"verdict", "other"},
     verdictTags : Seq({"approve", "reject", "other", ""}),
     eTags : SUBSET Requests, verifies : BOOLEAN]

ASSUME ReadersAssumption == Request \in Requests /\ Required \subseteq Approvers

ASSUME LogAssumption ==
    /\ IsFiniteSet(Approvers)
    /\ Log \subseteq Event
    /\ NoEvent \notin Log
    /\ Threshold \in Nat

(* The id of an event that verifies is the hash of the rest of it.          *)
ASSUME IdsAssumption ==
    \A d, e \in Log : d.verifies /\ e.verifies /\ d.id = e.id => d = e

NoCount == [approves |-> 0, rejects |-> 0, per |-> << >>, approved |-> FALSE]

VARIABLES
    pc,      \* is the reader counting, or has it returned
    latest,  \* the dict latest of count_approvals, by approver
    counts,  \* what the last call returned
    seen     \* history: the events the last call has iterated over

vars == <<pc, latest, counts, seen>>

Verdicts == {"approve", "reject"}

TypeOK ==
    /\ pc \in [Readers -> {"returned", "counting"}]
    /\ \A r \in Readers : seen[r] \subseteq Log
    /\ latest \in [Readers -> [Approvers -> Log \cup {NoEvent}]]
    /\ \A r \in Readers :
          /\ counts[r].approves \in 0..Cardinality(Approvers)
          /\ counts[r].rejects \in 0..Cardinality(Approvers)
          /\ DOMAIN counts[r].per \subseteq Approvers
          /\ \A a \in DOMAIN counts[r].per : counts[r].per[a] \in Verdicts
          /\ counts[r].approved \in BOOLEAN

-----------------------------------------------------------------------------
(* count_approvals                                                          *)

(* _verdict_value: the one verdict tag that has a value, or none.           *)
VerdictValue(e) ==
    LET values == SelectSeq(e.verdictTags, LAMBDA v : v # "")
    IN  IF Len(values) = 1 THEN values[1] ELSE "none"

Answers(e)  == Request \in e.eTags

\* Slip: an event is believed unverified.
Anyone(e)   == TRUE

Verifies(e) == e.verifies

Candidate(e) ==
    /\ e.kind = "verdict"
    /\ VerdictValue(e) \in Verdicts
    /\ Answers(e)
    /\ Verifies(e)

\* Slips: between verdicts of one second the last one read wins; the first
\* verdict of an approver is kept.
LastRead(e, d)   == e.created_at >= d.created_at
FirstWord(e, d)  == FALSE

Supersedes(e, d) ==
    \/ e.created_at > d.created_at
    \/ e.created_at = d.created_at /\ e.id < d.id

Call(r) ==
    /\ pc[r] = "returned"
    /\ pc' = [pc EXCEPT ![r] = "counting"]
    /\ latest' = [latest EXCEPT ![r] = [a \in Approvers |-> NoEvent]]
    /\ seen' = [seen EXCEPT ![r] = {}]
    /\ UNCHANGED counts

Consider(r, e) ==
    /\ pc[r] = "counting"
    /\ latest' = [latest EXCEPT ![r][e.pubkey] =
         IF Candidate(e) /\ (@ = NoEvent \/ Supersedes(e, @)) THEN e ELSE @]
    /\ seen' = [seen EXCEPT ![r] = @ \cup {e}]
    /\ UNCHANGED <<pc, counts>>

PerApprover(l) ==
    [a \in {b \in Approvers : l[b] # NoEvent} |->
        IF VerdictValue(l[a]) = "approve" THEN "approve" ELSE "reject"]

Approving(per) == {a \in DOMAIN per : per[a] = "approve"}

\* Slip: a required approver who has not approved counts as a reject.
NotApproved(per) == Cardinality(Required) - Cardinality(Approving(per))

Rejects(per) == Cardinality(DOMAIN per) - Cardinality(Approving(per))

\* Slip: everyone's verdict counts.
AnyApproved(per) == Cardinality(Approving(per)) >= Threshold

(* is_approved: of the required approvers only.                             *)
IsApproved(per) == Cardinality(Approving(per) \cap Required) >= Threshold

Return(r) ==
    /\ pc[r] = "counting"
    /\ pc' = [pc EXCEPT ![r] = "returned"]
    /\ LET per == PerApprover(latest[r])
       IN  counts' = [counts EXCEPT ![r] =
             [approves |-> Cardinality(Approving(per)), rejects |-> Rejects(per),
              per |-> per, approved |-> IsApproved(per)]]
    /\ UNCHANGED <<latest, seen>>

Init ==
    /\ pc = [r \in Readers |-> "returned"]
    /\ latest = [r \in Readers |-> [a \in Approvers |-> NoEvent]]
    /\ counts = [r \in Readers |-> NoCount]
    /\ seen = [r \in Readers |-> {}]

Next ==
    \E r \in Readers :
        Call(r) \/ Return(r) \/ \E e \in Log : Consider(r, e)

Spec == Init /\ [][Next]_vars

-----------------------------------------------------------------------------
(* Properties.                                                              *)

(* The reference: e is the final word of a among the events of S if it is a *)
(* valid verdict of a, none is later, and none of that second has a smaller *)
(* id.                                                                      *)
VerdictsOf(a, S) == {e \in S : e.pubkey = a /\ Candidate(e)}

Yields(d, e) ==
    d.created_at < e.created_at \/ (d.created_at = e.created_at /\ e.id <= d.id)

IsFinalWord(e, a, S) ==
    e \in VerdictsOf(a, S) /\ \A d \in VerdictsOf(a, S) : Yields(d, e)

(* At any point of the loop a reader holds for each approver the final word *)
(* of what it has read, whatever order and repetitions it was read in.      *)
LatestIsFinalWord ==
    \A r \in Readers, a \in Approvers :
        IF VerdictsOf(a, seen[r]) = {}
        THEN latest[r][a] = NoEvent
        ELSE IsFinalWord(latest[r][a], a, seen[r])

(* Two readers that met the same valid verdicts agree on the counts and on  *)
(* the gate, though they met them in different orders and amid different    *)
(* noise (count_approvals: "deterministically on every reader").            *)
Met(r) == {e \in seen[r] : Candidate(e)}

ReadersAgree ==
    \A r, s \in Readers :
        Met(r) = Met(s) => PerApprover(latest[r]) = PerApprover(latest[s])

(* The gate opens only on enough required approvers who signed an approval  *)
(* and nothing later: a superseded approval, an advisory one and an event   *)
(* that does not verify never help to open it (is_approved).                *)
Stands(a, S) ==
    \E e \in S :
        /\ e.pubkey = a /\ e.verifies /\ Request \in e.eTags
        /\ VerdictValue(e) = "approve"
        /\ \A d \in VerdictsOf(a, S) : d.created_at <= e.created_at

GateNeedsStandingApprovals ==
    \A r \in Readers :
        pc[r] = "returned" /\ counts[r].approved =>
            Cardinality({a \in Required : Stands(a, seen[r])}) >= Threshold
=============================================================================
