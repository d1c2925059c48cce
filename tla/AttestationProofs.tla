-------------------------- MODULE AttestationProofs --------------------------
(***************************************************************************)
(* What the attestation checks promise for every set of keys, conditions,  *)
(* readers and events, and for revocation sets of any age.                 *)
(***************************************************************************)
EXTENDS Attestation, TLAPS

Tags == Tag(grants \cup {Garbage, NotHex}) \cup {Short}

(* An event carries signatures that existed when it was written.            *)
SignaturesSeen == \A i \in DOMAIN log : log[i].auth \in Seq(Tags)

Within(s, t) == s.owners \subseteq t.owners /\ s.agents \subseteq t.agents

(* The sets a reader used are those it has, or earlier ones of them.        *)
SetsGrow == \A r \in Readers : Within(used[r], known[r]) /\ Within(known[r], revoked)

Judged == kept = [r \in Readers |-> {i \in 1..upTo[r] : Trustworthy(log[i], used[r])}]

IInv == TypeOK /\ SignaturesSeen /\ SetsGrow /\ Judged

-----------------------------------------------------------------------------
(* The checks of a tag, against what its clauses mean.                      *)
LEMMA ClausesMean ==
    ASSUME NEW e, NEW c \in Conditions
    PROVE  Parses(c) /\ EveryClause(e, c) <=> Permits(c, e)
<1>1. \A i \in DOMAIN c : c[i] \in Clause \cup Text
  BY ConditionsAssumption
<1>2. ASSUME NEW i \in DOMAIN c
      PROVE  /\ c[i].op # "text" /\ c[i].number <= Limit(c[i].op) /\ ClauseSatisfied(e, c[i])
             <=> \/ c[i].op = "kind="       /\ c[i].number <= KindMax /\ e.kind = c[i].number
                 \/ c[i].op = "created_at<" /\ c[i].number <= CreatedAtMax
                                            /\ e.created_at < c[i].number
                 \/ c[i].op = "created_at>" /\ c[i].number <= CreatedAtMax
                                            /\ e.created_at > c[i].number
  <2>1. c[i].op \in {"kind=", "created_at<", "created_at>", "text"}
    BY <1>1 DEF Clause, Text
  <2> QED
    BY <2>1 DEF Limit, ClauseSatisfied
<1> QED
  BY <1>2 DEF Parses, InRange, EveryClause, Permits

LEMMA ValidTag ==
    ASSUME NEW e \in Event
    PROVE  Len(e.auth) = 1 /\ TagIsValid(e) =>
             /\ e.auth[1].owner \in Keys \ {e.pubkey}
             /\ e.auth[1].conditions \in Conditions
             /\ GrantOf(e.auth[1].owner, e, e.auth[1].conditions) \in grants
             /\ e.auth = <<[owner |-> e.auth[1].owner, conditions |-> e.auth[1].conditions,
                            sig |-> GrantOf(e.auth[1].owner, e, e.auth[1].conditions)]>>
             /\ Permits(e.auth[1].conditions, e)
<1> DEFINE t == e.auth[1]
<1> SUFFICES ASSUME Len(e.auth) = 1, TagIsValid(e)
             PROVE  /\ t.owner \in Keys \ {e.pubkey}
                    /\ t.conditions \in Conditions
                    /\ GrantOf(t.owner, e, t.conditions) \in grants
                    /\ e.auth = <<[owner |-> t.owner, conditions |-> t.conditions,
                                   sig |-> GrantOf(t.owner, e, t.conditions)]>>
                    /\ Permits(t.conditions, e)
  OBVIOUS
<1>1. e.auth \in Seq(AnyTag)
  BY DEF Event
<1>2. e.auth = <<t>> /\ t \in AnyTag
  BY <1>1
<1>3. /\ t # Short /\ t.owner \in Keys /\ t.owner # e.pubkey
      /\ Parses(t.conditions) /\ EveryClause(e, t.conditions)
      /\ t.sig \in grants /\ t.sig = GrantOf(t.owner, e, t.conditions)
  BY DEF TagIsValid, TagIsShaped, SignedByOwner, GrantOf
<1> HIDE DEF t
<1>4. /\ t \in Tag(Signature \cup {Garbage, NotHex})
      /\ t.conditions \in Conditions
  BY <1>2, <1>3 DEF AnyTag, Tag
<1>5. t = [owner |-> t.owner, conditions |-> t.conditions,
           sig |-> GrantOf(t.owner, e, t.conditions)]
  BY <1>3, <1>4 DEF Tag
<1>6. Permits(t.conditions, e)
  BY <1>3, <1>4, ClausesMean
<1> QED
  BY <1>2, <1>3, <1>4, <1>5, <1>6

(* A reader keeps an event exactly when it is trustworthy.                  *)
LEMMA Judgement ==
    ASSUME TypeOK, NEW e \in Event, NEW sets
    PROVE  AttestationState(e, sets) \in {"attested", "unattested"} <=> Trustworthy(e, sets)
<1>1. e.verifies \in BOOLEAN /\ e.auth \in Seq(AnyTag)
  BY DEF Event
<1>2. CASE ~e.verifies
  BY <1>1, <1>2 DEF AttestationState, Trustworthy
<1>3. CASE e.verifies /\ e.auth = << >>
  <2>1. Outcome(e) = "absent"
    BY <1>3 DEF Outcome
  <2>2. \A t : e.auth # <<t>>
    BY <1>3
  <2>3. AttestationState(e, sets) = IF e.pubkey \in sets.agents THEN "revoked" ELSE "unattested"
    BY <1>3, <2>1 DEF AttestationState, IsRevoked
  <2>4. Trustworthy(e, sets) <=> e.pubkey \notin sets.agents
    BY <1>3, <2>2 DEF Trustworthy
  <2> QED
    BY <2>3, <2>4
<1>4. CASE e.verifies /\ e.auth # << >>
  <2> DEFINE t == e.auth[1]
  <2>1. Outcome(e) = IF TagIsValid(e) THEN "valid"
                     ELSE IF TagRaises(e) THEN "raises" ELSE "invalid"
    BY <1>4 DEF Outcome
  <2>2. CASE ~TagIsValid(e)
    <3>1. AttestationState(e, sets) \in {"raises", "invalid_attestation"}
      BY <1>4, <2>1, <2>2 DEF AttestationState
    <3>2. ~Trustworthy(e, sets)
      <4> SUFFICES ASSUME NEW o \in Keys \ (sets.owners \cup {e.pubkey}), NEW c \in Conditions,
                          GrantOf(o, e, c) \in grants,
                          e.auth = <<[owner |-> o, conditions |-> c, sig |-> GrantOf(o, e, c)]>>,
                          Permits(c, e)
                   PROVE  FALSE
        BY <1>4 DEF Trustworthy
      <4>1. Len(e.auth) = 1 /\ t = [owner |-> o, conditions |-> c, sig |-> GrantOf(o, e, c)]
        OBVIOUS
      <4>2. t.owner = o /\ t.conditions = c /\ t.sig = GrantOf(o, e, c)
        BY <4>1
      <4>3. GrantOf(o, e, c) \in Signature
        BY DEF TypeOK
      <4>4. t.sig # NotHex
        BY <4>2, <4>3, SignaturesAssumption
      <4>5. t \in Tag(Signature \cup {Garbage, NotHex})
        BY <4>1, <4>3 DEF Tag
      <4>6. t # Short
        BY <4>5, ShortAssumption
      <4>7. Parses(c) /\ EveryClause(e, c)
        BY ClausesMean
      <4>8. SignedByOwner(t, e.pubkey)
        BY <4>2 DEF SignedByOwner, GrantOf
      <4> QED
        BY <2>2, <4>1, <4>2, <4>4, <4>6, <4>7, <4>8 DEF TagIsValid, TagIsShaped
    <3> QED
      BY <3>1, <3>2
  <2>3. CASE TagIsValid(e)
    <3>1. Len(e.auth) = 1 /\ Outcome(e) = "valid" /\ OwnerOf(e) = t.owner
      BY <2>1, <2>3 DEF TagIsValid, TagIsShaped, OwnerOf
    <3>2. /\ t.owner \in Keys \ {e.pubkey} /\ t.conditions \in Conditions
          /\ GrantOf(t.owner, e, t.conditions) \in grants
          /\ e.auth = <<[owner |-> t.owner, conditions |-> t.conditions,
                         sig |-> GrantOf(t.owner, e, t.conditions)]>>
          /\ Permits(t.conditions, e)
      BY <2>3, <3>1, ValidTag
    <3>3. AttestationState(e, sets) =
            IF t.owner \in sets.owners \/ e.pubkey \in sets.agents THEN "revoked" ELSE "attested"
      BY <1>4, <3>1 DEF AttestationState, IsRevoked
    <3>4. t.owner \notin sets.owners /\ e.pubkey \notin sets.agents => Trustworthy(e, sets)
      <4> SUFFICES ASSUME t.owner \notin sets.owners, e.pubkey \notin sets.agents
                   PROVE  \E o \in Keys \ (sets.owners \cup {e.pubkey}), c \in Conditions :
                            /\ GrantOf(o, e, c) \in grants
                            /\ e.auth = <<[owner |-> o, conditions |-> c,
                                           sig |-> GrantOf(o, e, c)]>>
                            /\ Permits(c, e)
        BY <1>4 DEF Trustworthy
      <4> t.owner \in Keys \ (sets.owners \cup {e.pubkey}) /\ t.conditions \in Conditions
        BY <3>2
      <4> HIDE DEF t
      <4> WITNESS t.owner \in Keys \ (sets.owners \cup {e.pubkey}), t.conditions \in Conditions
      <4> QED
        BY <3>2
    <3>5. Trustworthy(e, sets) => t.owner \notin sets.owners /\ e.pubkey \notin sets.agents
      <4> SUFFICES ASSUME Trustworthy(e, sets)
                   PROVE  t.owner \notin sets.owners /\ e.pubkey \notin sets.agents
        OBVIOUS
      <4>1. PICK o \in Keys \ (sets.owners \cup {e.pubkey}), c \in Conditions :
                e.auth = <<[owner |-> o, conditions |-> c, sig |-> GrantOf(o, e, c)]>>
        BY <1>4 DEF Trustworthy
      <4>2. t = [owner |-> o, conditions |-> c, sig |-> GrantOf(o, e, c)]
        BY <4>1
      <4> QED
        BY <4>2 DEF Trustworthy
    <3> HIDE DEF t
    <3> QED
      BY <3>3, <3>4, <3>5
  <2> QED
    BY <2>2, <2>3
<1> QED
  BY <1>1, <1>2, <1>3, <1>4

(* What is attested later says nothing about an event that is there.        *)
LEMMA GrantsDoNotReachBack ==
    ASSUME NEW e \in Event, e.auth \in Seq(Tags), NEW sets,
           grants \subseteq grants', grants' \subseteq Signature
    PROVE  Trustworthy(e, sets)' <=> Trustworthy(e, sets)
<1>1. ASSUME NEW o \in Keys, NEW c \in Conditions, GrantOf(o, e, c) \in grants',
             e.auth = <<[owner |-> o, conditions |-> c, sig |-> GrantOf(o, e, c)]>>
      PROVE  GrantOf(o, e, c) \in grants
  <2> DEFINE t == [owner |-> o, conditions |-> c, sig |-> GrantOf(o, e, c)]
  <2>1. GrantOf(o, e, c) \in Signature
    BY <1>1
  <2>2. t \in Tag(Signature \cup {Garbage, NotHex}) /\ t.sig = GrantOf(o, e, c)
    BY <2>1 DEF Tag
  <2>3. t # Short
    BY <2>2, ShortAssumption
  <2> HIDE DEF t
  <2>4. t \in Tags
    BY <1>1 DEF t
  <2>5. t.sig \in grants \cup {Garbage, NotHex}
    BY <2>3, <2>4 DEF Tags, Tag
  <2> QED
    BY <2>1, <2>2, <2>5, SignaturesAssumption
<1>2. Trustworthy(e, sets)' => Trustworthy(e, sets)
  BY <1>1 DEF Trustworthy, GrantOf, Permits
<1>3. Trustworthy(e, sets) => Trustworthy(e, sets)'
  BY DEF Trustworthy, GrantOf, Permits
<1> QED
  BY <1>2, <1>3

-----------------------------------------------------------------------------
LEMMA InitOK == Init => IInv
<1> SUFFICES ASSUME Init PROVE IInv
  OBVIOUS
<1>1. TypeOK
  BY DEF Init, TypeOK, Revocations, Nobody
<1>2. SignaturesSeen /\ SetsGrow /\ Judged
  BY DEF Init, SignaturesSeen, SetsGrow, Within, Judged
<1> QED
  BY <1>1, <1>2 DEF IInv

(* Owners attest: nothing that was judged changes.                          *)
LEMMA AttestKeeps ==
    ASSUME IInv, NEW o \in Keys, NEW a \in Keys, NEW c \in Conditions, Attest(o, a, c)
    PROVE  IInv'
<1> DEFINE g == [by |-> o, agent |-> a, conditions |-> c]
<1>1. /\ grants' = grants \cup {g}
      /\ UNCHANGED <<log, revoked, known, kept, upTo, used>>
  BY DEF Attest
<1>2. g \in Signature
  BY DEF Signature
<1> HIDE DEF g
<1>3. grants \subseteq grants' /\ grants' \subseteq Signature
  BY <1>1, <1>2 DEF IInv, TypeOK
<1>4. TypeOK'
  BY <1>1, <1>3 DEF IInv, TypeOK
<1>5. Tags \subseteq Tags'
  BY <1>3 DEF Tags, Tag
<1>6. SignaturesSeen'
  BY <1>1, <1>5 DEF IInv, SignaturesSeen
<1>7. \A i \in DOMAIN log : log[i] \in Event /\ log[i].auth \in Seq(Tags)
  BY DEF IInv, TypeOK, SignaturesSeen
<1>8. \A e \in Event, sets \in Revocations :
          e.auth \in Seq(Tags) => (Trustworthy(e, sets)' <=> Trustworthy(e, sets))
  BY <1>3, GrantsDoNotReachBack
<1>9. ASSUME NEW r \in Readers, NEW i \in 1..upTo[r]
      PROVE  Trustworthy(log[i], used[r])' <=> Trustworthy(log[i], used[r])
  <2>1. i \in DOMAIN log /\ used[r] \in Revocations
    BY DEF IInv, TypeOK
  <2>2. \A e, sets : e = log[i] /\ sets = used[r] =>
            (Trustworthy(log[i], used[r])' <=> Trustworthy(e, sets)')
    BY <1>1 DEF Trustworthy, GrantOf, Permits
  <2> QED
    BY <1>7, <1>8, <2>1, <2>2
<1>10. Judged'
  BY <1>1, <1>9 DEF IInv, Judged
<1>11. SetsGrow'
  BY <1>1 DEF IInv, SetsGrow, Within
<1> QED
  BY <1>4, <1>6, <1>10, <1>11 DEF IInv

(* The frame of the steps that leave the events and what was kept alone.    *)
LEMMA JudgedKept ==
    ASSUME IInv, UNCHANGED <<grants, log, kept, upTo, used>>
    PROVE  SignaturesSeen' /\ Judged'
<1>1. SignaturesSeen'
  BY DEF IInv, SignaturesSeen, Tags
<1>2. \A r \in Readers : \A i \in 1..upTo[r] :
          Trustworthy(log[i], used[r])' <=> Trustworthy(log[i], used[r])
  BY DEF Trustworthy, GrantOf, Permits
<1>3. Judged'
  BY <1>2 DEF IInv, Judged
<1> QED
  BY <1>1, <1>3

(* The tags an author can have are one-element or two-element lists.        *)
LEMMA SeenAuthsAreTags == SeenAuths \subseteq Seq(Tags)
<1>1. << >> \in Seq(Tags)
  OBVIOUS
<1>2. \A t \in Tags : <<t>> \in Seq(Tags) /\ <<t, t>> \in Seq(Tags)
  OBVIOUS
<1>3. Tag(grants) \subseteq Tags
  BY DEF Tags, Tag
<1> QED
  BY <1>1, <1>2, <1>3 DEF SeenAuths, Tags

(* Another event at the end: the judged ones are where they were.           *)
LEMMA WriteKeeps ==
    ASSUME IInv, NEW e \in Event, e.auth \in SeenAuths, Write(e)
    PROVE  IInv'
<1>1. /\ log' = Append(log, e)
      /\ UNCHANGED <<grants, revoked, known, kept, upTo, used>>
  BY DEF Write
<1>2. /\ log' \in Seq(Event) /\ Len(log') = Len(log) + 1
      /\ \A i \in DOMAIN log : log'[i] = log[i]
      /\ log'[Len(log) + 1] = e
      /\ DOMAIN log' = DOMAIN log \cup {Len(log) + 1}
  BY <1>1 DEF IInv, TypeOK
<1>3. \A r \in Readers : upTo[r] \in 0..Len(log)
  BY DEF IInv, TypeOK
<1>4. TypeOK'
  <2>1. \A r \in Readers : upTo[r] <= Len(log')
    BY <1>2, <1>3 DEF IInv, TypeOK
  <2> QED
    BY <1>1, <1>2, <2>1 DEF IInv, TypeOK
<1>5. e.auth \in Seq(Tags)
  BY SeenAuthsAreTags
<1>6. SignaturesSeen'
  BY <1>1, <1>2, <1>5 DEF IInv, SignaturesSeen, Tags
<1>7. \A r \in Readers, i \in 1..Len(log) :
          Trustworthy(log[i], used[r])' <=> Trustworthy(log[i], used[r])
  BY <1>1, <1>2 DEF IInv, TypeOK, Trustworthy, GrantOf, Permits
<1>8. Judged'
  BY <1>1, <1>3, <1>7 DEF IInv, TypeOK, Judged
<1>9. SetsGrow'
  BY <1>1 DEF IInv, SetsGrow, Within
<1> QED
  BY <1>4, <1>6, <1>8, <1>9 DEF IInv

LEMMA RevokeKeeps ==
    ASSUME IInv, NEW owners \in SUBSET Keys, NEW agents \in SUBSET Keys,
           Revoke(owners, agents)
    PROVE  IInv'
<1>1. /\ revoked' = [owners |-> revoked.owners \cup owners, agents |-> revoked.agents \cup agents]
      /\ UNCHANGED <<grants, log, known, kept, upTo, used>>
  BY DEF Revoke
<1>2. TypeOK'
  BY <1>1 DEF IInv, TypeOK, Revocations
<1>3. SetsGrow'
  BY <1>1 DEF IInv, SetsGrow, Within
<1>4. SignaturesSeen' /\ Judged'
  BY <1>1, JudgedKept
<1> QED
  BY <1>2, <1>3, <1>4 DEF IInv

LEMMA RefreshKeeps ==
    ASSUME IInv, NEW r \in Readers, Refresh(r)
    PROVE  IInv'
<1>1. /\ known' = [known EXCEPT ![r] = revoked]
      /\ UNCHANGED <<grants, log, revoked, kept, upTo, used>>
  BY DEF Refresh
<1>2. TypeOK'
  BY <1>1 DEF IInv, TypeOK
<1>3. SetsGrow'
  BY <1>1 DEF IInv, TypeOK, SetsGrow, Within
<1>4. SignaturesSeen' /\ Judged'
  BY <1>1, JudgedKept
<1> QED
  BY <1>2, <1>3, <1>4 DEF IInv

(* A call of filter_attested judges each event alone.                       *)
LEMMA FilterKeepsTrustworthy ==
    ASSUME TypeOK, NEW sets
    PROVE  FilterAttested(sets) = {i \in 1..Len(log) : Trustworthy(log[i], sets)}
<1>1. \A i \in 1..Len(log) : log[i] \in Event
  BY DEF TypeOK
<1>2. \A i \in 1..Len(log) :
          AttestationState(log[i], sets) \in {"attested", "unattested"}
              <=> Trustworthy(log[i], sets)
  BY <1>1, Judgement
<1> QED
  BY <1>2 DEF FilterAttested

LEMMA ReadKeeps ==
    ASSUME IInv, NEW r \in Readers, Read(r)
    PROVE  IInv'
<1> DEFINE judged == {i \in 1..Len(log) : Trustworthy(log[i], known[r])}
<1>1. /\ kept' = [kept EXCEPT ![r] = FilterAttested(known[r])]
      /\ upTo' = [upTo EXCEPT ![r] = Len(log)]
      /\ used' = [used EXCEPT ![r] = known[r]]
      /\ UNCHANGED <<grants, log, revoked, known>>
  BY DEF Read, SetsOf
<1>2. FilterAttested(known[r]) = judged
  BY FilterKeepsTrustworthy DEF IInv
<1>3. TypeOK'
  <2>1. used' \in [Readers -> Revocations] /\ upTo' \in [Readers -> Nat]
    BY <1>1 DEF IInv, TypeOK
  <2>2. \A q \in Readers : upTo'[q] <= Len(log) /\ kept'[q] \subseteq 1..upTo'[q]
    BY <1>1, <1>2 DEF IInv, TypeOK, Judged
  <2> QED
    BY <1>1, <2>1, <2>2 DEF IInv, TypeOK
<1>4. SignaturesSeen'
  BY <1>1 DEF IInv, SignaturesSeen, Tags
<1>5. SetsGrow'
  BY <1>1 DEF IInv, TypeOK, SetsGrow, Within
<1>6. Judged'
  <2>1. kept' = [q \in Readers |-> {i \in 1..upTo'[q] : Trustworthy(log[i], used'[q])}]
    BY <1>1, <1>2 DEF IInv, TypeOK, Judged
  <2>2. \A q \in Readers : \A i \in 1..upTo'[q] :
            Trustworthy(log[i], used'[q]) <=> Trustworthy(log[i], used[q])'
    BY <1>1 DEF Trustworthy, GrantOf, Permits
  <2> QED
    BY <2>1, <2>2 DEF Judged
<1> QED
  BY <1>3, <1>4, <1>5, <1>6 DEF IInv

LEMMA NextKeeps == IInv /\ [Next]_vars => IInv'
<1> SUFFICES ASSUME IInv, [Next]_vars PROVE IInv'
  OBVIOUS
<1>1. ASSUME NEW o \in Keys, NEW a \in Keys, NEW c \in Conditions, Attest(o, a, c)
      PROVE  IInv'
  BY <1>1, AttestKeeps
<1>2. ASSUME NEW a \in Keys, NEW k \in EventKinds, NEW ts \in Times, NEW auth \in SeenAuths,
             NEW v \in BOOLEAN,
             Write([pubkey |-> a, kind |-> k, created_at |-> ts, auth |-> auth, verifies |-> v])
      PROVE  IInv'
  <2>1. auth \in Seq(AnyTag)
    <3>1. Tags \subseteq AnyTag
      BY DEF Tags, Tag, AnyTag, IInv, TypeOK
    <3> QED
      BY <3>1, SeenAuthsAreTags
  <2>2. [pubkey |-> a, kind |-> k, created_at |-> ts, auth |-> auth, verifies |-> v] \in Event
    BY <2>1 DEF Event
  <2> QED
    BY <1>2, <2>2, WriteKeeps
<1>3. ASSUME NEW k \in Keys, Revoke({k}, {}) \/ Revoke({}, {k}) PROVE IInv'
  BY <1>3, RevokeKeeps
<1>4. ASSUME NEW r \in Readers, Refresh(r) PROVE IInv'
  BY <1>4, RefreshKeeps
<1>5. ASSUME NEW r \in Readers, Read(r) PROVE IInv'
  BY <1>5, ReadKeeps
<1>6. CASE UNCHANGED vars
  <2>1. TypeOK' /\ SetsGrow'
    BY <1>6 DEF IInv, TypeOK, SetsGrow, Within, vars
  <2>2. SignaturesSeen' /\ Judged'
    BY <1>6, JudgedKept DEF vars
  <2> QED
    BY <2>1, <2>2 DEF IInv
<1> QED
  BY <1>1, <1>2, <1>3, <1>4, <1>5, <1>6 DEF Next

LEMMA IInvHolds == Spec => []IInv
BY InitOK, NextKeeps, PTL DEF Spec

(* Readers, events and revocation sets stay what they are, and a reader     *)
(* keeps only events it was given (filter_attested).                        *)
THEOREM TypeCorrect == Spec => []TypeOK
<1>1. IInv => TypeOK
  BY DEF IInv
<1> QED
  BY <1>1, IInvHolds, PTL

(* No event is labelled with an owner who has not attested its author for   *)
(* conditions that it meets (validate_attestation).                         *)
THEOREM AttestedIsGranted == Spec => []AttestedMeansGranted
<1>1. IInv => AttestedMeansGranted
  <2> SUFFICES ASSUME IInv, NEW i \in DOMAIN log, OwnerOf(log[i]) # NoKey
               PROVE  /\ log[i].verifies
                      /\ OwnerOf(log[i]) \in Keys \ {log[i].pubkey}
                      /\ \E c \in Conditions :
                            /\ GrantOf(OwnerOf(log[i]), log[i], c) \in grants
                            /\ Permits(c, log[i])
    BY DEF AttestedMeansGranted
  <2>1. PICK e \in Event : e = log[i]
    BY DEF IInv, TypeOK
  <2>2. Outcome(e) = "valid"
    BY <2>1 DEF OwnerOf
  <2>3. e.verifies \in BOOLEAN
    BY DEF Event
  <2>4. e.verifies /\ e.auth # << >> /\ TagIsValid(e)
    BY <2>2, <2>3 DEF Outcome
  <2>5. OwnerOf(e) = e.auth[1].owner /\ Len(e.auth) = 1
    BY <2>2, <2>4 DEF OwnerOf, TagIsValid, TagIsShaped
  <2>6. /\ OwnerOf(e) \in Keys \ {e.pubkey}
        /\ e.auth[1].conditions \in Conditions
        /\ GrantOf(OwnerOf(e), e, e.auth[1].conditions) \in grants
        /\ Permits(e.auth[1].conditions, e)
    BY <2>4, <2>5, ValidTag
  <2> QED
    BY <2>1, <2>4, <2>6
<1> QED
  BY <1>1, IInvHolds, PTL

(* What a reader kept is what was trustworthy by the sets it had, and what  *)
(* is attested later does not reach back (filter_attested).                 *)
THEOREM KeepsTheTrustworthy == Spec => []KeptIffTrustworthy
<1>1. IInv => KeptIffTrustworthy
  BY DEF IInv, Judged, KeptIffTrustworthy
<1> QED
  BY <1>1, IInvHolds, PTL

(* The sets of a reader only grow: what it dropped it never takes back      *)
(* (attestation_state, filter_attested).                                    *)
THEOREM DroppedForGood == Spec => NothingTakenBack
<1> DEFINE Dropped == \A r \in Readers : kept'[r] \cap (1..upTo[r]) \subseteq kept[r]
<1>1. IInv /\ [Next]_vars => Dropped
  <2> SUFFICES ASSUME IInv, [Next]_vars, NEW q \in Readers
               PROVE  kept'[q] \cap (1..upTo[q]) \subseteq kept[q]
    OBVIOUS
  <2>1. CASE UNCHANGED kept
    BY <2>1
  <2>2. ASSUME NEW r \in Readers, Read(r) PROVE kept'[q] \cap (1..upTo[q]) \subseteq kept[q]
    <3>1. kept' = [kept EXCEPT ![r] = FilterAttested(known[r])]
      BY <2>2 DEF Read, SetsOf
    <3>2. CASE q # r
      BY <3>1, <3>2 DEF IInv, Judged
    <3>3. CASE q = r
      <4>1. kept'[q] = {i \in 1..Len(log) : Trustworthy(log[i], known[q])}
        BY <3>1, <3>3, FilterKeepsTrustworthy DEF IInv, Judged
      <4>2. kept[q] = {i \in 1..upTo[q] : Trustworthy(log[i], used[q])}
        BY DEF IInv, Judged
      <4>3. Within(used[q], known[q])
        BY DEF IInv, SetsGrow
      <4>4. \A e : Trustworthy(e, known[q]) => Trustworthy(e, used[q])
        BY <4>3 DEF Trustworthy, Within
      <4> QED
        BY <4>1, <4>2, <4>4
    <3> QED
      BY <3>2, <3>3
  <2>3. ASSUME Next, ~ UNCHANGED kept PROVE \E r \in Readers : Read(r)
    BY <2>3 DEF Next, Attest, Write, Revoke, Refresh
  <2> QED
    BY <2>1, <2>2, <2>3 DEF vars
<1> QED
  BY <1>1, IInvHolds, PTL DEF Spec, NothingTakenBack
===============================================================================
