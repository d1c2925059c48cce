--------------------------- MODULE ApprovalsProofs ---------------------------
(***************************************************************************)
(* What Approvals promises for every set of readers and approvers, every   *)
(* log and every request: the loop of count_approvals computes the final   *)
(* word of each approver, so readers agree and the gate is sound.          *)
(***************************************************************************)
EXTENDS Approvals, FiniteSetTheorems, TLAPS

(* The part of TypeOK the argument needs.                                   *)
Shape ==
    /\ pc \in [Readers -> {"returned", "counting"}]
    /\ seen \in [Readers -> SUBSET Log]
    /\ latest \in [Readers -> [Approvers -> Log \cup {NoEvent}]]
    /\ DOMAIN counts = Readers

Inv == Shape /\ LatestIsFinalWord

-----------------------------------------------------------------------------
(* The order in which verdicts yield to each other.                         *)

(* Two events that verify and are final words of the same verdicts are one. *)
LEMMA FinalWordIsUnique ==
    ASSUME NEW a \in Approvers, NEW S \in SUBSET Log, NEW T \in SUBSET Log,
           NEW d, NEW e,
           VerdictsOf(a, S) = VerdictsOf(a, T),
           IsFinalWord(d, a, S), IsFinalWord(e, a, T)
    PROVE  d = e
<1>1. /\ d \in VerdictsOf(a, S) /\ d \in VerdictsOf(a, T)
      /\ e \in VerdictsOf(a, S) /\ e \in VerdictsOf(a, T)
  BY DEF IsFinalWord
<1>2. /\ d \in Log /\ e \in Log /\ d.verifies /\ e.verifies
      /\ d.created_at \in Nat /\ e.created_at \in Nat
      /\ d.id \in Nat /\ e.id \in Nat
  BY <1>1, LogAssumption DEF VerdictsOf, Candidate, Verifies, Event
<1>3. Yields(e, d) /\ Yields(d, e)
  BY <1>1 DEF IsFinalWord
<1>4. d.id = e.id
  BY <1>2, <1>3 DEF Yields
<1> QED
  BY <1>2, <1>4, IdsAssumption

(* Reading one more event e turns the final word w of S into that of        *)
(* S \cup {e}.                                                              *)
LEMMA NextWord ==
    ASSUME NEW a \in Approvers, NEW S \in SUBSET Log, NEW e \in Log,
           NEW w \in Log \cup {NoEvent},
           IF VerdictsOf(a, S) = {} THEN w = NoEvent ELSE IsFinalWord(w, a, S),
           e.pubkey = a, Candidate(e),
           NEW n, n = IF w = NoEvent \/ Supersedes(e, w) THEN e ELSE w
    PROVE  IsFinalWord(n, a, S \cup {e})
<1>1. VerdictsOf(a, S \cup {e}) = VerdictsOf(a, S) \cup {e}
  BY DEF VerdictsOf
<1>2. \A d \in VerdictsOf(a, S) \cup {e} : d.created_at \in Nat /\ d.id \in Nat
  BY LogAssumption DEF VerdictsOf, Event
<1>3. CASE VerdictsOf(a, S) = {}
  <2>1. n = e
    BY <1>3
  <2> QED
    BY <1>1, <1>2, <1>3, <2>1 DEF IsFinalWord, Yields
<1>4. CASE VerdictsOf(a, S) # {}
  <2>1. /\ w \in VerdictsOf(a, S)
        /\ \A d \in VerdictsOf(a, S) : Yields(d, w)
    BY <1>4 DEF IsFinalWord
  <2>2. w # NoEvent
    BY <2>1, LogAssumption DEF VerdictsOf
  <2>3. CASE Supersedes(e, w)
    <3>1. n = e
      BY <2>3
    <3>2. ASSUME NEW d \in VerdictsOf(a, S) \cup {e}
          PROVE  Yields(d, e)
      BY <1>2, <2>1, <2>3 DEF Supersedes, Yields
    <3> QED
      BY <1>1, <3>1, <3>2 DEF IsFinalWord
  <2>4. CASE ~Supersedes(e, w)
    <3>1. n = w
      BY <2>2, <2>4
    <3>2. ASSUME NEW d \in VerdictsOf(a, S) \cup {e}
          PROVE  Yields(d, w)
      BY <1>2, <2>1, <2>4 DEF Supersedes, Yields
    <3> QED
      BY <1>1, <2>1, <3>1, <3>2 DEF IsFinalWord
  <2> QED
    BY <2>3, <2>4
<1> QED
  BY <1>3, <1>4

-----------------------------------------------------------------------------
(* The loop.                                                                *)

(* What holds of reader r and approver a: LatestIsFinalWord, pointwise.     *)
Word(l, a, S) ==
    IF VerdictsOf(a, S) = {} THEN l = NoEvent ELSE IsFinalWord(l, a, S)

LEMMA ConsiderKeepsInv ==
    ASSUME Inv, NEW r \in Readers, NEW e \in Log, Consider(r, e)
    PROVE  Inv'
<1> DEFINE n == IF Candidate(e) /\ (latest[r][e.pubkey] = NoEvent
                                      \/ Supersedes(e, latest[r][e.pubkey]))
                THEN e ELSE latest[r][e.pubkey]
<1> USE DEF Inv, Shape
<1>1. e.pubkey \in Approvers
  BY LogAssumption DEF Event
<1>2. /\ latest' = [latest EXCEPT ![r] = [latest[r] EXCEPT ![e.pubkey] = n]]
      /\ seen' = [seen EXCEPT ![r] = seen[r] \cup {e}]
      /\ UNCHANGED <<pc, counts>>
  BY DEF Consider
<1>3. n \in Log \cup {NoEvent}
  BY <1>1
<1> HIDE DEF n
<1>4. Shape'
  <2>1. [latest[r] EXCEPT ![e.pubkey] = n] \in [Approvers -> Log \cup {NoEvent}]
    BY <1>1, <1>3
  <2> QED
    BY <1>2, <2>1
<1>5. ASSUME NEW s \in Readers, NEW a \in Approvers
      PROVE  Word(latest'[s][a], a, seen'[s])
  <2>1. Word(latest[s][a], a, seen[s])
    BY DEF LatestIsFinalWord, Word
  <2>2. CASE s = r /\ a = e.pubkey
    <3>1. latest'[s][a] = n /\ seen'[s] = seen[r] \cup {e}
      BY <1>1, <1>2, <2>2
    <3>2. CASE Candidate(e)
      <4>1. IsFinalWord(n, a, seen[r] \cup {e})
        BY <2>1, <2>2, <3>2, NextWord DEF Word, n
      <4>2. VerdictsOf(a, seen[r] \cup {e}) # {}
        BY <2>2, <3>2 DEF VerdictsOf
      <4> QED
        BY <3>1, <4>1, <4>2 DEF Word
    <3>3. CASE ~Candidate(e)
      <4>1. VerdictsOf(a, seen[r] \cup {e}) = VerdictsOf(a, seen[r])
        BY <3>3 DEF VerdictsOf
      <4>2. n = latest[r][a]
        BY <2>2, <3>3 DEF n
      <4> QED
        BY <2>1, <2>2, <3>1, <4>1, <4>2 DEF Word, IsFinalWord
    <3> QED
      BY <3>2, <3>3
  <2>3. CASE s = r /\ a # e.pubkey
    <3>1. latest'[s][a] = latest[s][a] /\ seen'[s] = seen[s] \cup {e}
      BY <1>1, <1>2, <2>3
    <3>2. VerdictsOf(a, seen[s] \cup {e}) = VerdictsOf(a, seen[s])
      BY <2>3 DEF VerdictsOf
    <3> QED
      BY <2>1, <3>1, <3>2 DEF Word, IsFinalWord
  <2>4. CASE s # r
    <3>1. latest'[s][a] = latest[s][a] /\ seen'[s] = seen[s]
      BY <1>2, <2>4
    <3> QED
      BY <2>1, <3>1
  <2> QED
    BY <2>2, <2>3, <2>4
<1> QED
  BY <1>4, <1>5 DEF LatestIsFinalWord, Word

(* The invariant holds throughout.                                          *)
LEMMA InvHolds == Spec => []Inv
<1>1. Init => Inv
  BY DEF Init, Inv, Shape, LatestIsFinalWord, VerdictsOf
<1>2. Inv /\ [Next]_vars => Inv'
  <2> SUFFICES ASSUME Inv, [Next]_vars
               PROVE  Inv'
    OBVIOUS
  <2>1. ASSUME NEW r \in Readers, Call(r)
        PROVE  Inv'
    <3>1. ASSUME NEW s \in Readers, NEW a \in Approvers
          PROVE  Word(latest'[s][a], a, seen'[s])
      <4>1. CASE s = r
        BY <2>1, <4>1 DEF Inv, Shape, Call, Word, VerdictsOf
      <4>2. CASE s # r
        <5>1. latest'[s][a] = latest[s][a] /\ seen'[s] = seen[s]
          BY <2>1, <4>2 DEF Inv, Shape, Call
        <5> QED
          BY <5>1 DEF Inv, LatestIsFinalWord, Word
      <4> QED
        BY <4>1, <4>2
    <3>2. Shape'
      BY <2>1 DEF Inv, Shape, Call
    <3> QED
      BY <3>1, <3>2 DEF Inv, LatestIsFinalWord, Word
  <2>2. ASSUME NEW r \in Readers, Return(r)
        PROVE  Inv'
    <3>1. Shape' /\ latest' = latest /\ seen' = seen
      BY <2>2 DEF Inv, Shape, Return
    <3> QED
      BY <3>1 DEF Inv, LatestIsFinalWord
  <2>3. ASSUME NEW r \in Readers, NEW e \in Log, Consider(r, e)
        PROVE  Inv'
    BY <2>3, ConsiderKeepsInv
  <2>4. CASE UNCHANGED vars
    BY <2>4 DEF Inv, Shape, LatestIsFinalWord, vars
  <2> QED
    BY <2>1, <2>2, <2>3, <2>4 DEF Next
<1> QED
  BY <1>1, <1>2, PTL DEF Spec

(* Whatever order the log is read in, with whatever repetitions, a reader   *)
(* holds the final word of what it has read (count_approvals).              *)
THEOREM FinalWord == Spec => []LatestIsFinalWord
<1>1. Inv => LatestIsFinalWord
  BY DEF Inv
<1> QED
  BY <1>1, InvHolds, PTL

-----------------------------------------------------------------------------
(* What callers see.                                                        *)

(* Readers that met the same valid verdicts agree (count_approvals:         *)
(* "deterministically on every reader").                                    *)
THEOREM Agreement == Spec => []ReadersAgree
<1>1. ASSUME Inv, NEW r \in Readers, NEW s \in Readers, Met(r) = Met(s)
      PROVE  PerApprover(latest[r]) = PerApprover(latest[s])
  <2>1. /\ latest[r] \in [Approvers -> Log \cup {NoEvent}]
        /\ latest[s] \in [Approvers -> Log \cup {NoEvent}]
        /\ seen[r] \in SUBSET Log /\ seen[s] \in SUBSET Log
    BY <1>1 DEF Inv, Shape
  <2>2. ASSUME NEW a \in Approvers
        PROVE  latest[r][a] = latest[s][a]
    <3>1. VerdictsOf(a, seen[r]) = VerdictsOf(a, seen[s])
      BY <1>1 DEF Met, VerdictsOf
    <3>2. Word(latest[r][a], a, seen[r]) /\ Word(latest[s][a], a, seen[s])
      BY <1>1 DEF Inv, LatestIsFinalWord, Word
    <3> QED
      BY <2>1, <3>1, <3>2, FinalWordIsUnique DEF Word
  <2>3. latest[r] = latest[s]
    BY <2>1, <2>2
  <2> QED
    BY <2>3
<1>2. Inv => ReadersAgree
  BY <1>1 DEF ReadersAgree
<1> QED
  BY <1>2, InvHolds, PTL

(* What the last call of a reader returned is the tally of what it holds.   *)
Tallied ==
    \A r \in Readers :
        pc[r] = "returned" /\ counts[r].approved =>
            IsApproved(PerApprover(latest[r]))

LEMMA TalliedHolds == Spec => []Tallied
<1>1. Init => Tallied
  BY DEF Init, Tallied, NoCount
<1>2. Inv /\ Tallied /\ [Next]_vars => Tallied'
  <2> SUFFICES ASSUME Inv, Tallied, [Next]_vars, NEW r \in Readers,
                      pc'[r] = "returned", counts'[r].approved
               PROVE  IsApproved(PerApprover(latest'[r]))
    BY DEF Tallied, IsApproved, PerApprover, Approving
  <2>1. ASSUME NEW s \in Readers, Call(s)
        PROVE  s # r /\ latest'[r] = latest[r] /\ counts' = counts /\ pc'[r] = pc[r]
    BY <2>1 DEF Call, Inv, Shape
  <2>2. ASSUME NEW s \in Readers, NEW e \in Log, Consider(s, e)
        PROVE  s # r /\ latest'[r] = latest[r] /\ counts' = counts /\ pc'[r] = pc[r]
    BY <2>2 DEF Consider, Inv, Shape
  <2>3. ASSUME NEW s \in Readers, s # r, Return(s)
        PROVE  latest'[r] = latest[r] /\ counts'[r] = counts[r] /\ pc'[r] = pc[r]
    BY <2>3 DEF Return, Inv, Shape
  <2>4. ASSUME Return(r)
        PROVE  IsApproved(PerApprover(latest'[r]))
    <3>1. counts'[r].approved = IsApproved(PerApprover(latest[r])) /\ latest' = latest
      BY <2>4 DEF Return, Inv, Shape
    <3> QED
      BY <3>1
  <2>5. CASE UNCHANGED vars
    BY <2>5 DEF vars, Tallied
  <2> QED
    BY <2>1, <2>2, <2>3, <2>4, <2>5 DEF Next, Tallied
<1> QED
  BY <1>1, <1>2, InvHolds, PTL DEF Spec

(* The gate opens only on enough required approvers whose final word is an  *)
(* approval (is_approved).                                                  *)
THEOREM GateIsSound == Spec => []GateNeedsStandingApprovals
<1>1. ASSUME Inv, Tallied, NEW r \in Readers, pc[r] = "returned", counts[r].approved
      PROVE  Cardinality({a \in Required : Stands(a, seen[r])}) >= Threshold
  <2> DEFINE A == Approving(PerApprover(latest[r])) \cap Required
             B == {a \in Required : Stands(a, seen[r])}
  <2>1. Cardinality(A) >= Threshold
    BY <1>1 DEF Tallied, IsApproved
  <2>2. ASSUME NEW a \in A
        PROVE  Stands(a, seen[r])
    <3>1. a \in Approvers /\ latest[r][a] # NoEvent /\ VerdictValue(latest[r][a]) = "approve"
      BY <2>2 DEF Approving, PerApprover
    <3>2. IsFinalWord(latest[r][a], a, seen[r])
      BY <1>1, <3>1 DEF Inv, LatestIsFinalWord
    <3>3. /\ latest[r][a] \in seen[r] /\ seen[r] \subseteq Log
          /\ latest[r][a].pubkey = a /\ Candidate(latest[r][a])
          /\ \A d \in VerdictsOf(a, seen[r]) : Yields(d, latest[r][a])
      BY <1>1, <3>2 DEF IsFinalWord, VerdictsOf, Inv, Shape
    <3>4. \A d \in Log : d.created_at \in Nat
      BY LogAssumption DEF Event
    <3>5. ASSUME NEW d \in VerdictsOf(a, seen[r])
          PROVE  d.created_at <= latest[r][a].created_at
      <4>1. d \in Log
        BY <3>3 DEF VerdictsOf
      <4> QED
        BY <3>3, <3>4, <4>1 DEF Yields
    <3> QED
      BY <3>1, <3>3, <3>5 DEF Stands, Candidate, Verifies, Answers
  <2>3. A \subseteq B
    BY <2>2
  <2>4. IsFiniteSet(B)
    BY LogAssumption, ReadersAssumption, FS_Subset
  <2>5. Cardinality(A) <= Cardinality(B) /\ Cardinality(A) \in Nat /\ Cardinality(B) \in Nat
    BY <2>3, <2>4, FS_Subset, FS_CardinalityType
  <2> HIDE DEF A, B
  <2>6. Cardinality(B) >= Threshold
    BY <2>1, <2>5, LogAssumption
  <2> QED
    BY <2>6 DEF B
<1>2. Inv /\ Tallied => GateNeedsStandingApprovals
  BY <1>1 DEF GateNeedsStandingApprovals
<1> QED
  BY <1>2, InvHolds, TalliedHolds, PTL

-----------------------------------------------------------------------------
(* The shape of the counts.                                                 *)

(* What a call returns is within the number of approvers, and is_approved   *)
(* yields a Boolean.                                                        *)
LEMMA TallyType ==
    ASSUME NEW l \in [Approvers -> Log \cup {NoEvent}], NEW per, per = PerApprover(l)
    PROVE  /\ Cardinality(Approving(per)) \in 0..Cardinality(Approvers)
           /\ Rejects(per) \in 0..Cardinality(Approvers)
           /\ DOMAIN per \subseteq Approvers
           /\ \A a \in DOMAIN per : per[a] \in Verdicts
           /\ IsApproved(per) \in BOOLEAN
<1>1. DOMAIN per \in SUBSET Approvers /\ \A a \in DOMAIN per : per[a] \in Verdicts
  BY DEF PerApprover, Verdicts
<1>2. Approving(per) \in SUBSET (DOMAIN per)  BY DEF Approving
<1>3. /\ IsFiniteSet(DOMAIN per)
      /\ Cardinality(DOMAIN per) <= Cardinality(Approvers)
  BY <1>1, LogAssumption, FS_Subset
<1>4. /\ IsFiniteSet(Approving(per))
      /\ Cardinality(Approving(per)) <= Cardinality(DOMAIN per)
  BY <1>2, <1>3, FS_Subset
<1>5. /\ Cardinality(Approving(per)) \in Nat /\ Cardinality(DOMAIN per) \in Nat
      /\ Cardinality(Approvers) \in Nat
  BY <1>3, <1>4, LogAssumption, FS_CardinalityType
<1>6. IsApproved(per) \in BOOLEAN  BY DEF IsApproved
<1> QED  BY <1>1, <1>3, <1>4, <1>5, <1>6 DEF Rejects

CountOK(c) ==
    /\ c.approves \in 0..Cardinality(Approvers)
    /\ c.rejects \in 0..Cardinality(Approvers)
    /\ DOMAIN c.per \subseteq Approvers
    /\ \A a \in DOMAIN c.per : c.per[a] \in Verdicts
    /\ c.approved \in BOOLEAN

LEMMA CountsHold == Spec => [](\A r \in Readers : CountOK(counts[r]))
<1> DEFINE CountsOK == \A r \in Readers : CountOK(counts[r])
<1>1. Init => CountsOK
  <2>1. Cardinality(Approvers) \in Nat  BY LogAssumption, FS_CardinalityType
  <2>2. CountOK(NoCount)  BY <2>1 DEF CountOK, NoCount
  <2> QED  BY <2>2 DEF Init
<1>2. Inv /\ CountsOK /\ [Next]_vars => CountsOK'
  <2> SUFFICES ASSUME Inv, CountsOK, [Next]_vars PROVE CountsOK'  OBVIOUS
  <2>1. CASE counts' = counts  BY <2>1
  <2>2. ASSUME NEW r \in Readers, Return(r) PROVE CountsOK'
    <3> DEFINE per == PerApprover(latest[r])
               new == [approves |-> Cardinality(Approving(per)),
                       rejects |-> Rejects(per), per |-> per,
                       approved |-> IsApproved(per)]
    <3>1. latest[r] \in [Approvers -> Log \cup {NoEvent}]  BY DEF Inv, Shape
    <3>2. CountOK(new)  BY <3>1, TallyType DEF CountOK
    <3>3. counts' = [counts EXCEPT ![r] = new] /\ DOMAIN counts = Readers
      BY <2>2 DEF Return, Inv, Shape
    <3> HIDE DEF new
    <3>4. \A q \in Readers : counts'[q] = IF q = r THEN new ELSE counts[q]
      BY <3>3
    <3> QED  BY <3>2, <3>4
  <2> QED  BY <2>1, <2>2 DEF Next, vars, Call, Consider
<1> QED  BY <1>1, <1>2, InvHolds, PTL DEF Spec

(* The readers' state keeps its shape: a reader's verdict for an approver is*)
(* an event of the log or none, and no count exceeds the approvers.         *)
THEOREM TypeCorrect == Spec => []TypeOK
<1>1. Inv /\ (\A r \in Readers : CountOK(counts[r])) => TypeOK
  BY DEF Inv, Shape, CountOK, TypeOK
<1> QED  BY <1>1, InvHolds, CountsHold, PTL
==============================================================================
