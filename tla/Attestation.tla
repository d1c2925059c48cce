----------------------------- MODULE Attestation -----------------------------
(***************************************************************************)
(* core/verify.py, attestation: owners vouch for agent keys (NIP-OA), the  *)
(* agents attach what they were given to events, and readers decide what to*)
(* trust with the revocation sets they happen to have.                     *)
(*                                                                         *)
(* Signatures are ideal: the only one that verifies for an owner, an agent *)
(* and a conditions string is the one the owner has made.  An author may   *)
(* put any signature it has seen into any tag.                             *)
(***************************************************************************)
EXTENDS Integers, Sequences, FiniteSets

CONSTANTS
    Keys,          (* public keys: owners and agents alike                   *)
    NoKey,         (* None, or a text that is no 64-character hex key        *)
    Readers,       (* callers of filter_attested                             *)
    EventKinds,    (* kind numbers                                           *)
    Times,         (* created_at values                                      *)
    Conditions,    (* conditions strings                                     *)
    KindMax,       (* _KIND_MAX, 65535                                       *)
    CreatedAtMax,  (* _CREATED_AT_MAX, 4294967295                            *)
    IntMax,        (* the largest number int() reads, one of 4300 digits     *)
    Garbage,       (* a signature nobody has made                            *)
    NotHex,        (* a text that is no 128-character hex signature          *)
    Short,         (* an auth tag without its four elements                  *)
    MaxGrants,     (* bound: attestations the owners make                    *)
    MaxEvents,     (* bound: events on the relay                             *)
    MaxRevocations (* bound: keys that are revoked, as owner or as agent     *)

(* A conditions string is the sequence of its segments; text stands for a   *)
(* segment that the grammar of a clause does not match.                     *)
Clause  == [op : {"kind=", "created_at<", "created_at>"}, number : Nat]
Text    == [op : {"text"}, number : {0}]

Signature == [by : Keys, agent : Keys, conditions : Conditions]

ASSUME KeysAssumption == NoKey \notin Keys

ASSUME SignaturesAssumption ==
    Garbage \notin Signature /\ NotHex \notin Signature /\ Garbage # NotHex

ASSUME ConditionsAssumption ==
    /\ Conditions \subseteq Seq(Clause \cup Text)
    /\ EventKinds \subseteq Nat /\ Times \subseteq Int
    /\ KindMax \in Nat /\ CreatedAtMax \in Nat /\ IntMax \in Nat
    /\ KindMax <= IntMax /\ CreatedAtMax <= IntMax

Tag(sigs) == [owner : Keys \cup {NoKey}, conditions : Conditions, sig : sigs]
AnyTag    == Tag(Signature \cup {Garbage, NotHex}) \cup {Short}

ASSUME ShortAssumption == Short \notin Tag(Signature \cup {Garbage, NotHex})

Event ==
    [pubkey : Keys, kind : EventKinds, created_at : Times, auth : Seq(AnyTag),
     verifies : BOOLEAN]

VARIABLES
    grants,   \* the attestations owners have signed
    log,      \* the events a relay serves, in order
    revoked,  \* the keys revoked so far
    known,    \* the revocation sets each reader has
    kept,     \* positions of the events its last filter_attested kept
    upTo,     \* history: how many events that call was given
    used      \* history: the revocation sets it was given

vars == <<grants, log, revoked, known, kept, upTo, used>>

Revocations == [owners : SUBSET Keys, agents : SUBSET Keys]
Nobody      == [owners |-> {}, agents |-> {}]

TypeOK ==
    /\ grants \subseteq Signature
    /\ log \in Seq(Event)
    /\ revoked \in Revocations
    /\ known \in [Readers -> Revocations]
    /\ used \in [Readers -> Revocations]
    /\ upTo \in [Readers -> Nat]
    /\ \A r \in Readers : upTo[r] <= Len(log) /\ kept[r] \subseteq 1..upTo[r]

Init ==
    /\ grants = {} /\ log = << >> /\ revoked = Nobody
    /\ known = [r \in Readers |-> Nobody]
    /\ kept = [r \in Readers |-> {}]
    /\ upTo = [r \in Readers |-> 0]
    /\ used = [r \in Readers |-> Nobody]

-----------------------------------------------------------------------------
(* validate_attestation                                                     *)

Limit(op) == IF op = "kind=" THEN KindMax ELSE CreatedAtMax

InRange(c) == c.op # "text" /\ c.number <= Limit(c.op)

(* _parse_conditions returns a list of clauses.                             *)
Parses(conditions) == \A i \in DOMAIN conditions : InRange(conditions[i])

(* It raises ValueError at the first clause it does not accept, if int()    *)
(* cannot read the number of that clause.                                   *)
ParseRaises(conditions) ==
    \E i \in DOMAIN conditions :
        /\ conditions[i].op # "text" /\ conditions[i].number > IntMax
        /\ \A j \in DOMAIN conditions : j < i => InRange(conditions[j])

ClauseSatisfied(e, c) ==
    CASE c.op = "kind="       -> e.kind = c.number
      [] c.op = "created_at<" -> e.created_at < c.number
      [] OTHER                -> e.created_at > c.number

EveryClause(e, conditions) ==
    \A i \in DOMAIN conditions : ClauseSatisfied(e, conditions[i])

\* Slip: the signature is not bound to the agent that authored the event.
AnySignature(t, agent) == t.sig \in grants /\ t.sig.by = t.owner

(* schnorr_verify of the owner's signature over agent and conditions.       *)
SignedByOwner(t, agent) ==
    t.sig \in grants /\ t.sig = [by |-> t.owner, agent |-> agent, conditions |-> t.conditions]

(* Which of the checks fails first only decides the reason that is reported,*)
(* as long as the conditions are reached only by a tag of the right shape.  *)
TagIsShaped(e) ==
    LET t == e.auth[1]
    IN  /\ Len(e.auth) = 1
        /\ t # Short
        /\ t.owner \in Keys
        /\ t.sig # NotHex
        /\ t.owner # e.pubkey

TagIsValid(e) ==
    LET t == e.auth[1]
    IN  /\ TagIsShaped(e)
        /\ Parses(t.conditions)
        /\ SignedByOwner(t, e.pubkey)
        /\ EveryClause(e, t.conditions)

TagRaises(e) == TagIsShaped(e) /\ ParseRaises(e.auth[1].conditions)

Outcome(e) ==
    CASE ~e.verifies                      -> "invalid"
      [] e.verifies /\ e.auth = << >>     -> "absent"
      [] e.verifies /\ e.auth # << >>     -> IF TagIsValid(e) THEN "valid"
                                            ELSE IF TagRaises(e) THEN "raises"
                                            ELSE "invalid"

(* The owner is a fact of a valid result only.                              *)
OwnerOf(e) == IF Outcome(e) = "valid" THEN e.auth[1].owner ELSE NoKey

-----------------------------------------------------------------------------
(* attestation_state and filter_attested                                    *)

\* Slip: the agents are looked up only when no owner is revoked.
OwnersFirst(e, sets) ==
    IF Outcome(e) = "valid" /\ sets.owners # {}
    THEN OwnerOf(e) \in sets.owners ELSE e.pubkey \in sets.agents

IsRevoked(e, sets) ==
    CASE Outcome(e) = "valid"  -> OwnerOf(e) \in sets.owners \/ e.pubkey \in sets.agents
      [] Outcome(e) = "absent" -> e.pubkey \in sets.agents
      [] OTHER                 -> FALSE

AttestationState(e, sets) ==
    CASE ~e.verifies                             -> "invalid_event"
      [] e.verifies /\ Outcome(e) = "raises"     -> "raises"
      [] e.verifies /\ Outcome(e) = "invalid"    -> "invalid_attestation"
      [] OTHER -> IF IsRevoked(e, sets) THEN "revoked"
                  ELSE IF Outcome(e) = "absent" THEN "unattested" ELSE "attested"

FilterAttested(sets) ==
    {i \in 1..Len(log) : AttestationState(log[i], sets) \in {"attested", "unattested"}}

\* Slip: the reader filters with the sets of its previous call.
StaleSets(r) == used[r]

SetsOf(r) == known[r]

(* One event whose check raises, and filter_attested returns nothing at all.*)
Read(r) ==
    /\ \A i \in 1..Len(log) : Outcome(log[i]) # "raises"
    /\ kept' = [kept EXCEPT ![r] = FilterAttested(SetsOf(r))]
    /\ upTo' = [upTo EXCEPT ![r] = Len(log)]
    /\ used' = [used EXCEPT ![r] = known[r]]
    /\ UNCHANGED <<grants, log, revoked, known>>

-----------------------------------------------------------------------------
(* Owners, authors, operators.                                              *)

Attest(o, a, c) ==
    /\ Cardinality(grants) < MaxGrants
    /\ grants' = grants \cup {[by |-> o, agent |-> a, conditions |-> c]}
    /\ UNCHANGED <<log, revoked, known, kept, upTo, used>>

SeenAuths ==
    {<< >>} \cup {<<t>> : t \in Tag(grants \cup {Garbage, NotHex}) \cup {Short}}
            \cup {<<t, t>> : t \in Tag(grants)}

(* Anything may be on a relay, also events that do not verify: those that   *)
(* would be trustworthy if they did.                                        *)
Untouched(auth, agent) ==
    \A i \in DOMAIN auth : auth[i] # Short /\ SignedByOwner(auth[i], agent)

Write(e) ==
    /\ log' = Append(log, e)
    /\ UNCHANGED <<grants, revoked, known, kept, upTo, used>>

Revoke(owners, agents) ==
    /\ Cardinality(revoked.owners) + Cardinality(revoked.agents) < MaxRevocations
    /\ revoked' = [owners |-> revoked.owners \cup owners, agents |-> revoked.agents \cup agents]
    /\ UNCHANGED <<grants, log, known, kept, upTo, used>>

(* A reader learns what has been revoked whenever its caller refreshes.     *)
Refresh(r) ==
    /\ known' = [known EXCEPT ![r] = revoked]
    /\ UNCHANGED <<grants, log, revoked, kept, upTo, used>>

Next ==
    \/ \E o, a \in Keys, c \in Conditions : Attest(o, a, c)
    \/ /\ Len(log) < MaxEvents
       /\ \E a \in Keys, k \in EventKinds, ts \in Times, auth \in SeenAuths, v \in BOOLEAN :
            /\ ~v => Untouched(auth, a)
            /\ Write([pubkey |-> a, kind |-> k, created_at |-> ts, auth |-> auth, verifies |-> v])
    \/ \E k \in Keys : Revoke({k}, {}) \/ Revoke({}, {k})
    \/ \E r \in Readers : Refresh(r) \/ Read(r)

Spec == Init /\ [][Next]_vars

-----------------------------------------------------------------------------
GrantOf(o, e, c) == [by |-> o, agent |-> e.pubkey, conditions |-> c]

(* What the clauses mean, one by one: a number within its range, compared   *)
(* with what the event says of itself.                                      *)
Permits(c, e) ==
    \A i \in DOMAIN c :
        \/ c[i].op = "kind="       /\ c[i].number <= KindMax /\ e.kind = c[i].number
        \/ c[i].op = "created_at<" /\ c[i].number <= CreatedAtMax
                                   /\ e.created_at < c[i].number
        \/ c[i].op = "created_at>" /\ c[i].number <= CreatedAtMax
                                   /\ e.created_at > c[i].number

Trustworthy(e, sets) ==
    /\ e.verifies
    /\ e.pubkey \notin sets.agents
    /\ \/ e.auth = << >>
       \/ \E o \in Keys \ (sets.owners \cup {e.pubkey}), c \in Conditions :
            /\ GrantOf(o, e, c) \in grants
            /\ e.auth = <<[owner |-> o, conditions |-> c, sig |-> GrantOf(o, e, c)]>>
            /\ Permits(c, e)

(* An event is labelled with an owner only if that owner, who is not its    *)
(* author, has attested the author for conditions that the event meets: a   *)
(* signature moved to another agent's event, other conditions, a second tag *)
(* or a malformed one establish nothing (validate_attestation).             *)
AttestedMeansGranted ==
    \A i \in DOMAIN log :
        LET e == log[i]
        IN  OwnerOf(e) # NoKey =>
              /\ e.verifies
              /\ OwnerOf(e) \in Keys \ {e.pubkey}
              /\ \E c \in Conditions :
                    GrantOf(OwnerOf(e), e, c) \in grants /\ Permits(c, e)

(* What filter_attested returned is exactly what was trustworthy by the     *)
(* revocation sets it was given.  Nothing else decides: an attestation that *)
(* the owner makes later, with conditions that exclude the event, neither   *)
(* drops it nor admits another (attestation_state; the README says how this *)
(* differs from docs/kinds/nip-oa-attestation.md:122).                      *)
KeptIffTrustworthy ==
    \A r \in Readers :
        kept[r] = {i \in 1..upTo[r] : Trustworthy(log[i], used[r])}

(* What a reader has once dropped it never takes back, whatever is attested,*)
(* written or revoked in between (attestation_state).                       *)
NothingTakenBack ==
    [][\A r \in Readers : kept'[r] \cap (1..upTo[r]) \subseteq kept[r]]_vars
=============================================================================
