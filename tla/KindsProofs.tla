---------------------------- MODULE KindsProofs ----------------------------
(***************************************************************************)
(* That the readers of a wire event agree, whatever other writers have made*)
(* of it and in however many places.                                       *)
(*                                                                         *)
(* Most of it is about single events: which tags an event written from a   *)
(* model has (TagsWritten), what is read from them (FirstWritten), and so  *)
(* that a model is read back as it was written (WrittenIsRead).            *)
(***************************************************************************)
EXTENDS Kinds, FiniteSetTheorems, SequenceTheorems, WellFoundedInduction, TLAPS

(* A nonempty set of numbers has a least member.                            *)
Less == {p \in Nat \X Nat : p[1] < p[2]}

LEMMA LeastExists ==
    ASSUME NEW S \in SUBSET Nat, S # {}
    PROVE  Min(S) \in S
<1>1. IsWellFoundedOn(Less, Nat)
  BY NatLessThanWellFounded DEF OpToRel, Less
<1>2. PICK x \in S : \A y \in S : <<y, x>> \notin Less
  BY <1>1, WFMin
<1>3. ASSUME NEW y \in S
      PROVE  x <= y
  <2>1. x \in Nat /\ y \in Nat
    OBVIOUS
  <2>2. <<y, x>> \in Less <=> y < x
    BY <2>1 DEF Less
  <2> QED
    BY <1>2, <2>1, <2>2
<1> QED
  BY <1>3 DEF Min

-----------------------------------------------------------------------------
(* What the schema says of each kind.                                       *)
Types == {"name", "text", "text?", "id", "id?", "inherits?", "time", "count",
          "amount", "exit", "verdict"}

LEMMA SchemaFacts ==
    ASSUME NEW k \in KnownKinds
    PROVE  /\ DOMAIN Schema[k].tags \subseteq 1..5
           /\ \A n \in Fields(k) : Schema[k].type[n] \in Types
           /\ \A n \in Fields(k) : Schema[k].type[n] = "inherits?" => n = "e"
           /\ \A n \in ContentFields(k) : Schema[k].type[n] # "inherits?"
           /\ k = "TemplatePointer" => ContentFields(k) = {}
<1>1. k \in {"NodeLifecycle", "NodeStatePointer", "RunAccounting", "SubgraphDigest",
             "ApprovalRequest", "ApprovalVerdict", "TemplateVersion", "TemplatePointer"}
  BY DEF KnownKinds, Schema
<1>2. CASE k = "NodeLifecycle"
  BY <1>2 DEF Schema, NodeLifecycle, Fields, ContentFields, ToSet, Types
<1>3. CASE k = "NodeStatePointer"
  BY <1>3 DEF Schema, NodeStatePointer, Fields, ContentFields, ToSet, Types
<1>4. CASE k = "RunAccounting"
  BY <1>4 DEF Schema, RunAccounting, Fields, ContentFields, ToSet, Types
<1>5. CASE k = "SubgraphDigest"
  BY <1>5 DEF Schema, SubgraphDigest, Fields, ContentFields, ToSet, Types
<1>6. CASE k = "ApprovalRequest"
  BY <1>6 DEF Schema, ApprovalRequest, Fields, ContentFields, ToSet, Types
<1>7. CASE k = "ApprovalVerdict"
  BY <1>7 DEF Schema, ApprovalVerdict, Fields, ContentFields, ToSet, Types
<1>8. CASE k = "TemplateVersion"
  BY <1>8 DEF Schema, TemplateVersion, Fields, ContentFields, ToSet, Types
<1>9. CASE k = "TemplatePointer"
  BY <1>9 DEF Schema, TemplatePointer, Fields, ContentFields, ToSet, Types
<1> QED
  BY <1>1, <1>2, <1>3, <1>4, <1>5, <1>6, <1>7, <1>8, <1>9

(* The members of a sequence, and of sequences put together.                *)
LEMMA Members ==
    ASSUME NEW T, NEW a \in Seq(T)
    PROVE  /\ DOMAIN a = 1..Len(a) /\ Len(a) \in Nat
           /\ \A i \in 1..Len(a) : a[i] \in ToSet(a)
           /\ \A x \in ToSet(a) : \E i \in 1..Len(a) : a[i] = x
<1>1. DOMAIN a = 1..Len(a) /\ Len(a) \in Nat
  OBVIOUS
<1> QED
  BY <1>1 DEF ToSet

LEMMA Joined ==
    ASSUME NEW T, NEW a \in Seq(T), NEW b \in Seq(T)
    PROVE  a \o b \in Seq(T) /\ ToSet(a \o b) = ToSet(a) \cup ToSet(b)
<1> DEFINE c == a \o b
<1>1. /\ c \in Seq(T) /\ Len(a) \in Nat /\ Len(b) \in Nat
      /\ Len(c) = Len(a) + Len(b)
      /\ \A i \in 1..Len(a) : c[i] = a[i]
      /\ \A i \in 1..Len(b) : c[Len(a) + i] = b[i]
  OBVIOUS
<1> HIDE DEF c
<1>2. /\ \A i \in 1..Len(c) : c[i] \in ToSet(c)
      /\ \A x \in ToSet(c) : \E i \in 1..Len(c) : c[i] = x
      /\ \A i \in 1..Len(a) : a[i] \in ToSet(a)
      /\ \A x \in ToSet(a) : \E i \in 1..Len(a) : a[i] = x
      /\ \A i \in 1..Len(b) : b[i] \in ToSet(b)
      /\ \A x \in ToSet(b) : \E i \in 1..Len(b) : b[i] = x
  BY <1>1, Members
<1>3. ASSUME NEW x \in ToSet(c)
      PROVE  x \in ToSet(a) \cup ToSet(b)
  <2>1. PICK i \in 1..Len(c) : c[i] = x
    BY <1>2
  <2>2. CASE i \in 1..Len(a)
    BY <1>1, <1>2, <2>1, <2>2
  <2>3. CASE i \notin 1..Len(a)
    <3>1. i - Len(a) \in 1..Len(b) /\ i = Len(a) + (i - Len(a))
      BY <1>1, <2>3
    <3>2. c[i] = b[i - Len(a)]
      BY <1>1, <3>1
    <3> QED
      BY <1>2, <2>1, <3>1, <3>2
  <2> QED
    BY <2>2, <2>3
<1>4. ASSUME NEW x \in ToSet(a)
      PROVE  x \in ToSet(c)
  <2>1. PICK i \in 1..Len(a) : a[i] = x
    BY <1>2
  <2>2. i \in 1..Len(c) /\ c[i] = x
    BY <1>1, <2>1
  <2> QED
    BY <1>2, <2>2
<1>5. ASSUME NEW x \in ToSet(b)
      PROVE  x \in ToSet(c)
  <2>1. PICK i \in 1..Len(b) : b[i] = x
    BY <1>2
  <2>2. Len(a) + i \in 1..Len(c) /\ c[Len(a) + i] = x
    BY <1>1, <2>1
  <2> QED
    BY <1>2, <2>2
<1>6. ToSet(c) = ToSet(a) \cup ToSet(b)
  BY <1>3, <1>4, <1>5
<1> QED
  BY <1>1, <1>6 DEF c

(* The same for five sequences, as many as a kind may have tags.            *)
LEMMA JoinedFive ==
    ASSUME NEW T, NEW a \in Seq(T), NEW b \in Seq(T), NEW c \in Seq(T),
           NEW d \in Seq(T), NEW e \in Seq(T)
    PROVE  /\ a \o b \o c \o d \o e \in Seq(T)
           /\ ToSet(a \o b \o c \o d \o e) =
                 ToSet(a) \cup ToSet(b) \cup ToSet(c) \cup ToSet(d) \cup ToSet(e)
<1> DEFINE two == a \o b
           three == two \o c
           four == three \o d
<1>1. two \in Seq(T) /\ ToSet(two) = ToSet(a) \cup ToSet(b)
  BY Joined
<1> HIDE DEF two
<1>2. three \in Seq(T) /\ ToSet(three) = ToSet(two) \cup ToSet(c)
  BY <1>1, Joined
<1> HIDE DEF three
<1>3. four \in Seq(T) /\ ToSet(four) = ToSet(three) \cup ToSet(d)
  BY <1>2, Joined
<1> HIDE DEF four
<1>4. four \o e \in Seq(T) /\ ToSet(four \o e) = ToSet(four) \cup ToSet(e)
  BY <1>3, Joined
<1> QED
  BY <1>1, <1>2, <1>3, <1>4 DEF two, three, four

-----------------------------------------------------------------------------
(* The event written from a model.                                          *)

Written(k, m) ==
    {WireTag(Schema[k].type[n], n, m[n]) : n \in {l \in ToSet(Schema[k].tags) : m[l] # None}}

(* A written event has exactly the tags of the fields that have a value.    *)
LEMMA TagsWritten ==
    ASSUME NEW k \in KnownKinds, NEW m
    PROVE  /\ EventTags(k, m) \in Seq(Written(k, m))
           /\ ToSet(EventTags(k, m)) = Written(k, m)
<1> DEFINE t(i) == TagAt(k, m, i)
           T == Written(k, m)
           n(i) == Schema[k].tags[i]
           S == DOMAIN Schema[k].tags
<1>1. \A i \in 1..5 :
          IF i \in S /\ m[n(i)] # None
          THEN t(i) = <<WireTag(Schema[k].type[n(i)], n(i), m[n(i)])>>
          ELSE t(i) = << >>
  BY DEF TagAt
<1>2. \A i \in S : m[n(i)] # None => WireTag(Schema[k].type[n(i)], n(i), m[n(i)]) \in T
  BY DEF Written, ToSet
<1>3. \A x \in T : \E i \in S : /\ m[n(i)] # None
                                /\ x = WireTag(Schema[k].type[n(i)], n(i), m[n(i)])
  BY DEF Written, ToSet
<1>4. S \subseteq 1..5
  BY SchemaFacts
<1> HIDE DEF t, n, S, T
<1>5. \A x : ToSet(<<x>>) = {x}
  BY DEF ToSet
<1>6. ToSet(<< >>) = {}
  BY DEF ToSet
<1>7. ASSUME NEW i \in 1..5
      PROVE  t(i) \in Seq(T) /\ ToSet(t(i)) \subseteq T
  <2>1. CASE i \in S /\ m[n(i)] # None
    <3> DEFINE x == WireTag(Schema[k].type[n(i)], n(i), m[n(i)])
    <3>1. t(i) = <<x>> /\ x \in T
      BY <1>1, <1>2, <2>1
    <3> HIDE DEF x
    <3>2. <<x>> \in Seq(T) /\ ToSet(<<x>>) = {x}
      BY <1>5, <3>1
    <3> QED
      BY <3>1, <3>2
  <2>2. CASE ~ (i \in S /\ m[n(i)] # None)
    <3>1. t(i) = << >>
      BY <1>1, <2>2
    <3>2. << >> \in Seq(T)
      OBVIOUS
    <3> QED
      BY <1>6, <3>1, <3>2
  <2> QED
    BY <2>1, <2>2
<1>8. ASSUME NEW x \in T
      PROVE  \E i \in 1..5 : x \in ToSet(t(i))
  BY <1>1, <1>3, <1>4, <1>5
<1>9. T = ToSet(t(1)) \cup ToSet(t(2)) \cup ToSet(t(3)) \cup ToSet(t(4)) \cup ToSet(t(5))
  <2>1. \A i \in 1..5 : i = 1 \/ i = 2 \/ i = 3 \/ i = 4 \/ i = 5
    OBVIOUS
  <2> QED
    BY <1>7, <1>8, <2>1
<1>10. /\ t(1) \o t(2) \o t(3) \o t(4) \o t(5) \in Seq(T)
       /\ ToSet(t(1) \o t(2) \o t(3) \o t(4) \o t(5)) = T
  BY <1>7, <1>9, JoinedFive
<1> QED
  BY <1>10 DEF EventTags, t, T

(* What a reader finds under the name of a field that travels in a tag.     *)
LEMMA FirstWritten ==
    ASSUME NEW k \in KnownKinds, NEW m, NEW n \in ToSet(Schema[k].tags)
    PROVE  /\ FirstTagValue(ToEvent(k, m), n) = m[n]
           /\ n = "e" /\ Schema[k].type[n] = "inherits?" =>
                 InheritsTag(ToEvent(k, m)) = m[n]
<1> DEFINE ev == ToEvent(k, m)
           w == WireTag(Schema[k].type[n], n, m[n])
           E == EventTags(k, m)
<1>1. ev.tags = E
  BY DEF ToEvent, Wire
<1>2. E \in Seq(Written(k, m)) /\ ToSet(E) = Written(k, m)
  BY TagsWritten
<1>3. DOMAIN E \in SUBSET Nat
  BY <1>2
<1>4. \A type, name, v : /\ WireTag(type, name, v) # << >>
                         /\ WireTag(type, name, v)[1] = name
                         /\ WireTag(type, name, v)[2] = v
                         /\ Len(WireTag(type, name, v)) >= 2
                         /\ type = "inherits?" => /\ Len(WireTag(type, name, v)) >= 4
                                                  /\ WireTag(type, name, v)[4] = "inherit"
  BY DEF WireTag
<1>5. \A i \in Named(ev, n) : m[n] # None /\ E[i] = w
  <2> SUFFICES ASSUME NEW i \in Named(ev, n) PROVE m[n] # None /\ E[i] = w
    OBVIOUS
  <2>1. i \in DOMAIN E /\ E[i][1] = n
    BY <1>1 DEF Named
  <2>2. E[i] \in Written(k, m)
    BY <1>2, <2>1 DEF ToSet
  <2>3. PICK l \in ToSet(Schema[k].tags) :
            m[l] # None /\ E[i] = WireTag(Schema[k].type[l], l, m[l])
    BY <2>2 DEF Written
  <2>4. l = n
    BY <1>4, <2>1, <2>3
  <2> QED
    BY <2>3, <2>4
<1>6. ASSUME m[n] # None
      PROVE  Named(ev, n) # {}
  <2>1. w \in ToSet(E)
    BY <1>2, <1>6 DEF Written
  <2>2. PICK i \in DOMAIN E : E[i] = w
    BY <2>1 DEF ToSet
  <2>3. i \in Named(ev, n)
    BY <1>1, <1>4, <2>2 DEF Named
  <2> QED
    BY <2>3
<1>7. Named(ev, n) \in SUBSET Nat
  BY <1>1, <1>3 DEF Named
<1> HIDE DEF ev, E, w
<1>8. FirstTagValue(ev, n) = m[n]
  <2>1. CASE Named(ev, n) = {}
    BY <1>6, <2>1 DEF FirstTagValue
  <2>2. CASE Named(ev, n) # {}
    <3>1. Min(Named(ev, n)) \in Named(ev, n)
      BY <1>7, <2>2, LeastExists
    <3>2. ev.tags[Min(Named(ev, n))] = w
      BY <1>1, <1>5, <3>1
    <3> QED
      BY <1>4, <2>2, <3>2 DEF FirstTagValue, w
  <2> QED
    BY <2>1, <2>2
<1>9. ASSUME n = "e", Schema[k].type[n] = "inherits?"
      PROVE  InheritsTag(ev) = m[n]
  <2>1. Marked(ev) = Named(ev, n)
    <3>1. \A i \in Named(ev, n) : Len(ev.tags[i]) >= 4 /\ ev.tags[i][4] = "inherit"
      BY <1>1, <1>4, <1>5, <1>9 DEF w
    <3> QED
      BY <1>9, <3>1 DEF Marked
  <2>2. CASE Named(ev, n) = {}
    BY <1>6, <2>1, <2>2 DEF InheritsTag
  <2>3. CASE Named(ev, n) # {}
    <3>1. Min(Named(ev, n)) \in Named(ev, n)
      BY <1>7, <2>3, LeastExists
    <3>2. ev.tags[Min(Named(ev, n))] = w
      BY <1>1, <1>5, <3>1
    <3> QED
      BY <1>4, <2>1, <2>3, <3>2 DEF InheritsTag, w
  <2> QED
    BY <2>2, <2>3
<1> QED
  BY <1>8, <1>9 DEF ev

(* Where from_event looks for a field.                                      *)
LEMMA FieldRead ==
    ASSUME NEW ev, ev.kind \in KnownKinds, NEW n \in Fields(ev.kind)
    PROVE  /\ n \in ContentFields(ev.kind) => FromWire(ev)[n] = ContentValue(ev, n)
           /\ n \notin ContentFields(ev.kind) =>
                 FromWire(ev)[n] = IF Schema[ev.kind].type[n] = "inherits?"
                                   THEN InheritsTag(ev) ELSE FirstTagValue(ev, n)
<1> DEFINE k == ev.kind
<1>1. n \in ContentFields(k) => Schema[k].type[n] # "inherits?"
  BY SchemaFacts
<1>2. FromWire(ev)[n] = CASE n \in ContentFields(k) -> ContentValue(ev, n)
                          [] Schema[k].type[n] = "inherits?" -> InheritsTag(ev)
                          [] OTHER -> FirstTagValue(ev, n)
  BY DEF FromWire
<1> HIDE DEF k
<1> QED
  BY <1>1, <1>2 DEF k

(* Values that a model holds: accepted, and left as they are.               *)
Valid(k, m) ==
    /\ m = [n \in Fields(k) |-> m[n]]
    /\ \A n \in Fields(k) : /\ m[n] \in Accepted(Schema[k].type[n])
                            /\ Coerced(Schema[k].type[n], m[n]) = m[n]

(* A model is read back from the event that was written from it, whatever   *)
(* values it holds (to_event, from_event).                                  *)
THEOREM WrittenIsRead ==
    ASSUME NEW k \in KnownKinds, NEW m, Valid(k, m)
    PROVE  Parse(ToEvent(k, m)) = Parsed(m)
<1> DEFINE ev == ToEvent(k, m)
<1>1. ev.kind = k
  BY DEF ToEvent, Wire
<1>2. ContentOK(ev)
  BY <1>1 DEF ContentOK, ToEvent, Wire, Object, Bare
<1>3. ASSUME NEW n \in Fields(k)
      PROVE  FromWire(ev)[n] = m[n]
  <2>1. CASE n \in ContentFields(k)
    <3>1. k # "TemplatePointer"
      BY <2>1, SchemaFacts
    <3>2. ev.content.fields = [c \in ContentFields(k) |-> m[c]]
      BY <3>1 DEF ToEvent, Wire, Object
    <3>3. ContentValue(ev, n) = m[n]
      BY <2>1, <3>2 DEF ContentValue
    <3>4. FromWire(ev)[n] = ContentValue(ev, n)
      BY <1>1, <2>1, FieldRead
    <3> QED
      BY <3>3, <3>4
  <2>2. CASE n \notin ContentFields(k) /\ Schema[k].type[n] = "inherits?"
    <3>1. n \in ToSet(Schema[k].tags) /\ n = "e"
      BY <1>3, <2>2, SchemaFacts DEF ContentFields
    <3>2. InheritsTag(ev) = m[n]
      BY <2>2, <3>1, FirstWritten
    <3> QED
      BY <1>1, <2>2, <3>2, FieldRead
  <2>3. CASE n \notin ContentFields(k) /\ Schema[k].type[n] # "inherits?"
    <3>1. n \in ToSet(Schema[k].tags)
      BY <1>3, <2>3 DEF ContentFields
    <3>2. FirstTagValue(ev, n) = m[n]
      BY <3>1, FirstWritten
    <3> QED
      BY <1>1, <2>3, <3>2, FieldRead
  <2> QED
    BY <2>1, <2>2, <2>3
<1> HIDE DEF ev
<1>4. [n \in Fields(k) |-> Coerced(Schema[k].type[n], FromWire(ev)[n])] = m
  BY <1>3 DEF Valid
<1>5. \A n \in Fields(k) : FromWire(ev)[n] \in Accepted(Schema[k].type[n])
  BY <1>3 DEF Valid
<1>6. Parse(ev) = Parsed(m)
  BY <1>1, <1>2, <1>4, <1>5 DEF Parse
<1> QED
  BY <1>6 DEF ev

(* What a reader has accepted is a model, and written it is read again.     *)
LEMMA ReadIsWritten ==
    ASSUME NEW ev, Parse(ev).ok
    PROVE  /\ ev.kind \in KnownKinds
           /\ Valid(ev.kind, Parse(ev).model)
<1> DEFINE k == ev.kind
           m == [n \in Fields(k) |-> Coerced(Schema[k].type[n], FromWire(ev)[n])]
<1>1. /\ k \in KnownKinds
      /\ \A n \in Fields(k) : FromWire(ev)[n] \in Accepted(Schema[k].type[n])
      /\ Parse(ev).model = m
  BY DEF Parse, Rejected, Parsed
<1>2. \A type \in Types : \A v \in Accepted(type) :
          Coerced(type, v) \in Accepted(type) /\ Coerced(type, Coerced(type, v)) = Coerced(type, v)
  BY DEF Types, Accepted, Coerced
<1>3. \A n \in Fields(k) : Schema[k].type[n] \in Types
  BY <1>1, SchemaFacts
<1> HIDE DEF k
<1>4. Valid(k, m)
  BY <1>1, <1>2, <1>3 DEF Valid
<1> QED
  BY <1>1, <1>4 DEF k

-----------------------------------------------------------------------------
(* Short lists put together.                                                *)
LEMMA Glued ==
    ASSUME NEW T, NEW s \in Seq(T), NEW y \in T, NEW u \in Seq(T),
           Len(u) = Len(s) + 1, \A i \in 1..Len(s) : u[i] = s[i], u[Len(u)] = y
    PROVE  Append(s, y) = u
<1> DEFINE v == Append(s, y)
<1>1. /\ v \in Seq(T) /\ Len(v) = Len(s) + 1 /\ Len(s) \in Nat
      /\ \A i \in 1..Len(s) : v[i] = s[i]
      /\ v[Len(s) + 1] = y
  BY AppendProperties
<1> HIDE DEF v
<1>2. Len(u) = Len(v) /\ \A i \in 1..Len(u) : u[i] = v[i]
  BY <1>1
<1>3. u = v
  BY <1>1, <1>2, SeqEqual
<1> QED
  BY <1>3 DEF v

(* The lists of tags of the two kinds that the registry writes by hand.     *)
LEMMA ListsJoined ==
    ASSUME NEW x, NEW y, NEW z
    PROVE  /\ <<x>> \o <<y>> \o << >> \o <<z>> \o << >> = <<x, y, z>>
           /\ <<x>> \o <<y>> \o << >> \o << >> \o << >> = <<x, y>>
<1> DEFINE T == {x, y, z}
           one == <<x>>
           two == <<x, y>>
           three == <<x, y, z>>
<1>1. /\ y \in T /\ z \in T
      /\ one \in Seq(T) /\ Len(one) = 1 /\ one[1] = x
      /\ two \in Seq(T) /\ Len(two) = 2 /\ two[1] = x /\ two[2] = y
      /\ three \in Seq(T) /\ Len(three) = 3
      /\ three[1] = x /\ three[2] = y /\ three[3] = z
  OBVIOUS
<1> HIDE DEF T, one, two, three
<1>2. Append(one, y) = two
  <2>1. /\ Len(two) = Len(one) + 1
        /\ \A i \in 1..Len(one) : two[i] = one[i]
        /\ two[Len(two)] = y
    BY <1>1
  <2> QED
    BY <1>1, <2>1, Glued
<1>3. Append(two, z) = three
  <2>1. /\ Len(three) = Len(two) + 1
        /\ \A i \in 1..Len(two) : three[i] = two[i]
        /\ three[Len(three)] = z
    BY <1>1
  <2> QED
    BY <1>1, <2>1, Glued
<1>4. one \o <<y>> = two /\ two \o <<z>> = three
  BY <1>1, <1>2, <1>3, AppendIsConcat
<1>5. two \o << >> = two /\ three \o << >> = three
  BY <1>1, ConcatEmptySeq
<1>6. /\ one \o <<y>> \o << >> \o <<z>> \o << >> = three
      /\ one \o <<y>> \o << >> \o << >> \o << >> = two
  BY <1>4, <1>5, Zenon
<1> QED
  BY <1>6 DEF one, two, three

(* One tag of an event, by the name that the schema puts in its place.      *)
LEMMA TagPresent ==
    ASSUME NEW k, NEW m, NEW i \in DOMAIN Schema[k].tags, NEW n,
           n = Schema[k].tags[i], m[n] # None, Schema[k].type[n] # "inherits?"
    PROVE  TagAt(k, m, i) = << <<n, m[n]>> >>
<1>1. WireTag(Schema[k].type[n], n, m[n]) = <<n, m[n]>>
  BY DEF WireTag
<1> QED
  BY <1>1 DEF TagAt

(* A field without a value leaves no tag, nor does a place behind the last. *)
LEMMA TagAbsent ==
    ASSUME NEW k, NEW m, NEW i,
           i \in DOMAIN Schema[k].tags => m[Schema[k].tags[i]] = None
    PROVE  TagAt(k, m, i) = << >>
BY DEF TagAt

(* The publisher's hand-built events are those of the models, whatever they *)
(* are built from (build_version_event, build_pointer_event, to_event).     *)
THEOREM VersionByHand ==
    ASSUME NEW name, NEW version, NEW ref, NEW summary,
           None \notin {name, version, ref}
    PROVE  BuildVersionEvent(name, version, ref, summary) =
               ToEvent("TemplateVersion",
                       [template_name |-> name, version |-> version, git_ref |-> ref,
                        summary |-> summary, e |-> None])
<1> DEFINE k == "TemplateVersion"
           m == [template_name |-> name, version |-> version, git_ref |-> ref,
                 summary |-> summary, e |-> None]
           a == <<"template_name", name>>
           b == <<"version", version>>
           c == <<"git_ref", ref>>
<1>1. /\ TagAt(k, m, 1) = <<a>> /\ TagAt(k, m, 2) = <<b>> /\ TagAt(k, m, 3) = << >>
      /\ TagAt(k, m, 4) = <<c>> /\ TagAt(k, m, 5) = << >>
  <2>1. /\ Schema[k].tags = <<"template_name", "version", "e", "git_ref">>
        /\ Schema[k].type["template_name"] = "name" /\ Schema[k].type["version"] = "name"
        /\ Schema[k].type["git_ref"] = "text?"
        /\ DOMAIN Schema[k].tags = 1..4
    BY DEF Schema, TemplateVersion
  <2>2. /\ m["template_name"] = name /\ m["version"] = version
        /\ m["git_ref"] = ref /\ m["e"] = None
    OBVIOUS
  <2> HIDE DEF k, m
  <2>3. TagAt(k, m, 1) = << <<"template_name", m["template_name"]>> >>
    BY <2>1, <2>2, TagPresent
  <2>4. TagAt(k, m, 2) = << <<"version", m["version"]>> >>
    BY <2>1, <2>2, TagPresent
  <2>5. TagAt(k, m, 3) = << >>
    BY <2>1, <2>2, TagAbsent
  <2>6. TagAt(k, m, 4) = << <<"git_ref", m["git_ref"]>> >>
    BY <2>1, <2>2, TagPresent
  <2>7. TagAt(k, m, 5) = << >>
    BY <2>1, TagAbsent
  <2> QED
    BY <2>2, <2>3, <2>4, <2>5, <2>6, <2>7
<1>2. <<a>> \o <<b>> \o << >> \o <<c>> \o << >> = <<a, b, c>>
  BY ListsJoined
<1>3. EventTags(k, m) = <<a, b, c>>
  <2> HIDE DEF k, m, a, b, c
  <2> QED
    BY <1>1, <1>2 DEF EventTags
<1>4. ContentFields(k) = {"summary"}
  BY DEF ContentFields, Fields, Schema, TemplateVersion, ToSet
<1>5. [f \in ContentFields(k) |-> m[f]] = [summary |-> summary]
  BY <1>4
<1> QED
  BY <1>3, <1>5 DEF BuildVersionEvent, ToEvent

(* The pointer event of a version that has a name, likewise.                *)
LEMMA PointerByHand ==
    ASSUME NEW ev, NEW id, id # None,
           FirstTagValue(ev, "template_name") # None
    PROVE  BuildPointerEvent(ev, id) =
               ToEvent("TemplatePointer",
                       [d |-> FirstTagValue(ev, "template_name"), e |-> id])
<1> DEFINE k == "TemplatePointer"
           m == [d |-> FirstTagValue(ev, "template_name"), e |-> id]
           a == <<"d", FirstTagValue(ev, "template_name")>>
           b == <<"e", id>>
<1>1. /\ TagAt(k, m, 1) = <<a>> /\ TagAt(k, m, 2) = <<b>> /\ TagAt(k, m, 3) = << >>
      /\ TagAt(k, m, 4) = << >> /\ TagAt(k, m, 5) = << >>
  <2>1. /\ Schema[k].tags = <<"d", "e">>
        /\ Schema[k].type["d"] = "name" /\ Schema[k].type["e"] = "id"
        /\ DOMAIN Schema[k].tags = 1..2
    BY DEF Schema, TemplatePointer
  <2>2. m["d"] = FirstTagValue(ev, "template_name") /\ m["e"] = id
    OBVIOUS
  <2> HIDE DEF k, m
  <2>3. TagAt(k, m, 1) = << <<"d", m["d"]>> >>
    BY <2>1, <2>2, TagPresent
  <2>4. TagAt(k, m, 2) = << <<"e", m["e"]>> >>
    BY <2>1, <2>2, TagPresent
  <2>5. \A i \in {3, 4, 5} : TagAt(k, m, i) = << >>
    BY <2>1, TagAbsent
  <2> QED
    BY <2>2, <2>3, <2>4, <2>5
<1>2. <<a>> \o <<b>> \o << >> \o << >> \o << >> = <<a, b>>
  BY ListsJoined
<1>3. EventTags(k, m) = <<a, b>>
  <2> HIDE DEF k, m, a, b
  <2> QED
    BY <1>1, <1>2 DEF EventTags
<1> QED
  BY <1>3 DEF BuildPointerEvent, ToEvent

-----------------------------------------------------------------------------
(* The inductive invariant: the tags of an event are a list, and an event   *)
(* nobody has changed is read as its model.                                 *)
WireOK ==
    /\ wire = Wire(wire.kind, wire.tags, wire.content)
    /\ wire.tags \in Seq(ToSet(wire.tags))

IInv == WireOK /\ edits \in Nat /\ (edits = 0 => Parse(wire) = Parsed(source))

(* The models of the samples are models.                                    *)
LEMMA SamplesValid ==
    ASSUME NEW k \in KnownKinds, NEW m \in Models(k)
    PROVE  Valid(k, m)
<1>1. \A n \in Fields(k) : Schema[k].type[n] \in Types
  BY SchemaFacts
<1>2. ASSUME NEW type \in Types, NEW v \in Sample(type)
      PROVE  v \in Accepted(type) /\ Coerced(type, v) = v
  <2>1. CASE type = "name"
    BY <2>1 DEF Sample, Accepted, Coerced, Texts, None
  <2>2. CASE type = "text"
    BY <2>2 DEF Sample, Accepted, Coerced, Texts, None
  <2>3. CASE type = "text?"
    BY <2>3 DEF Sample, Accepted, Coerced, Texts, None
  <2>4. CASE type = "id"
    BY <2>4 DEF Sample, Accepted, Coerced, Texts, None
  <2>5. CASE type = "id?"
    BY <2>5 DEF Sample, Accepted, Coerced, Texts, None
  <2>6. CASE type = "inherits?"
    BY <2>6 DEF Sample, Accepted, Coerced, Texts, None
  <2>7. CASE type = "time"
    BY <2>7 DEF Sample, Accepted, Coerced, Texts, None
  <2>8. CASE type = "count"
    BY <2>8 DEF Sample, Accepted, Coerced, Texts, None
  <2>9. CASE type = "amount"
    BY <2>9 DEF Sample, Accepted, Coerced, Texts, None
  <2>10. CASE type = "exit"
    BY <2>10 DEF Sample, Accepted, Coerced, Texts, None
  <2>11. CASE type = "verdict"
    BY <2>11 DEF Sample, Accepted, Coerced, Texts, None
  <2> QED
    BY <2>1, <2>2, <2>3, <2>4, <2>5, <2>6, <2>7, <2>8, <2>9, <2>10, <2>11 DEF Types
<1>3. /\ m = [n \in Fields(k) |-> m[n]]
      /\ \A n \in Fields(k) : m[n] \in Sample(Schema[k].type[n])
  BY DEF Models
<1> QED
  BY <1>1, <1>2, <1>3 DEF Valid

(* An event that is written is well formed.                                 *)
LEMMA WrittenOK ==
    ASSUME NEW k \in KnownKinds, NEW m, wire = ToEvent(k, m)
    PROVE  WireOK
<1> DEFINE c == IF k = "TemplatePointer" THEN Bare("empty")
                                         ELSE Object([f \in ContentFields(k) |-> m[f]])
           E == EventTags(k, m)
<1>1. E \in Seq(ToSet(E))
  BY TagsWritten
<1>2. wire = Wire(k, E, c)
  BY DEF ToEvent
<1> HIDE DEF c, E
<1> QED
  BY <1>1, <1>2 DEF WireOK, Wire

(* The fields of the kinds that are read in a second place: a version,      *)
LEMMA VersionFields ==
    LET S == Schema["TemplateVersion"]
    IN  /\ Fields("TemplateVersion") =
              {"template_name", "version", "e", "git_ref", "summary"}
        /\ ContentFields("TemplateVersion") = {"summary"}
        /\ S.type["template_name"] = "name" /\ S.type["version"] = "name"
        /\ S.type["e"] = "inherits?" /\ S.type["git_ref"] = "text?"
        /\ S.type["summary"] = "text"
BY DEF Fields, ContentFields, ToSet, Schema, TemplateVersion

(* Its pointer,                                                             *)
LEMMA PointerFields ==
    LET S == Schema["TemplatePointer"]
    IN  /\ Fields("TemplatePointer") = {"d", "e"}
        /\ ContentFields("TemplatePointer") = {}
        /\ S.type["d"] = "name" /\ S.type["e"] = "id"
BY DEF Fields, ContentFields, ToSet, Schema, TemplatePointer

(* and the verdict of an approver.                                          *)
LEMMA VerdictFields ==
    LET S == Schema["ApprovalVerdict"]
    IN  /\ Fields("ApprovalVerdict") = {"e", "verdict", "rationale"}
        /\ ContentFields("ApprovalVerdict") = {"rationale"}
        /\ S.type["e"] = "id" /\ S.type["verdict"] = "verdict"
        /\ S.type["rationale"] = "text"
BY DEF Fields, ContentFields, ToSet, Schema, ApprovalVerdict

(* What is accepted for their fields.                                       *)
LEMMA AcceptedFacts ==
    /\ Accepted("name") = Texts \ {""}
    /\ Accepted("text") = Texts
    /\ Accepted("text?") = Texts \cup {None}
    /\ Accepted("id") = {"id", "id2"}
    /\ Accepted("inherits?") = {"id", "id2", None}
    /\ Accepted("verdict") = {"approve", "reject"}
BY DEF Accepted

(* Every event that the code writes is a list of tags and is read back.     *)
LEMMA Start ==
    ASSUME Init
    PROVE  IInv
<1>1. ASSUME NEW k \in KnownKinds, Valid(k, source), wire = ToEvent(k, source)
      PROVE  WireOK /\ Parse(wire) = Parsed(source)
  BY <1>1, WrittenIsRead, WrittenOK
<1>2. ASSUME NEW k \in KnownKinds, source \in Models(k), wire = ToEvent(k, source)
      PROVE  WireOK /\ Parse(wire) = Parsed(source)
  BY <1>1, <1>2, SamplesValid
<1> DEFINE v == [template_name |-> "text", version |-> "5", git_ref |-> "text",
                 summary |-> "text", e |-> None]
           p == [d |-> "text", e |-> "id"]
           ev == BuildVersionEvent("text", "5", "text", "text")
<1>3. "TemplateVersion" \in KnownKinds /\ "TemplatePointer" \in KnownKinds
  BY DEF KnownKinds, Schema
<1>4. ev = ToEvent("TemplateVersion", v)
  BY VersionByHand DEF None
<1>5. FirstTagValue(ev, "template_name") = "text"
  <2>1. "template_name" \in ToSet(Schema["TemplateVersion"].tags)
    BY DEF Schema, TemplateVersion, ToSet
  <2>2. FirstTagValue(ToEvent("TemplateVersion", v), "template_name") = v["template_name"]
    BY <1>3, <2>1, FirstWritten
  <2> QED
    BY <1>4, <2>2
<1>6. BuildPointerEvent(ev, "id") = ToEvent("TemplatePointer", p)
  BY <1>5, PointerByHand DEF None
<1>7. Valid("TemplateVersion", v)
  <2>1. v = [n \in {"template_name", "version", "e", "git_ref", "summary"} |-> v[n]]
    OBVIOUS
  <2>2. /\ v["template_name"] \in Accepted("name") /\ v["version"] \in Accepted("name")
        /\ v["e"] \in Accepted("inherits?") /\ v["git_ref"] \in Accepted("text?")
        /\ v["summary"] \in Accepted("text")
    BY AcceptedFacts DEF Texts, None
  <2>3. \A type \in {"name", "inherits?", "text?", "text"} : \A x : Coerced(type, x) = x
    BY DEF Coerced
  <2> HIDE DEF v
  <2> QED
    BY <2>1, <2>2, <2>3, VersionFields DEF Valid
<1>8. Valid("TemplatePointer", p)
  <2>1. p = [n \in {"d", "e"} |-> p[n]]
    OBVIOUS
  <2>2. p["d"] \in Accepted("name") /\ p["e"] \in Accepted("id")
    BY AcceptedFacts DEF Texts
  <2>3. \A type \in {"name", "id"} : \A x : Coerced(type, x) = x
    BY DEF Coerced
  <2> HIDE DEF p
  <2> QED
    BY <2>1, <2>2, <2>3, PointerFields DEF Valid
<1>9. WireOK /\ Parse(wire) = Parsed(source)
  <2>1. CASE \E k \in KnownKinds : \E m \in Models(k) : source = m /\ wire = ToEvent(k, m)
    BY <1>2, <2>1
  <2>2. CASE source = v /\ wire = ev
    BY <1>1, <1>3, <1>4, <1>7, <2>2
  <2>3. CASE source = p /\ wire = BuildPointerEvent(ev, "id")
    BY <1>1, <1>3, <1>6, <1>8, <2>3
  <2> QED
    BY <2>1, <2>2, <2>3 DEF Init
<1> QED
  BY <1>9 DEF Init, IInv

(* Taking a tag out of a list, or putting one at either end, leaves a list. *)
LEMMA ListsChanged ==
    ASSUME NEW s, s \in Seq(ToSet(s)), NEW t
    PROVE  /\ \A i \in DOMAIN s : RemoveAt(s, i) \in Seq(ToSet(RemoveAt(s, i)))
           /\ <<t>> \o s \in Seq(ToSet(<<t>> \o s))
           /\ Append(s, t) \in Seq(ToSet(Append(s, t)))
<1>1. ASSUME NEW T, NEW r \in Seq(T)
      PROVE  r \in Seq(ToSet(r))
  <2>1. Len(r) \in Nat /\ r \in [1..Len(r) -> ToSet(r)]
    BY <1>1, Members
  <2> QED
    BY <2>1
<1> DEFINE T == ToSet(s) \cup {t}
<1>2. s \in Seq(T) /\ <<t>> \in Seq(T) /\ t \in T
  <2>1. Len(s) \in Nat /\ s \in [1..Len(s) -> T]
    OBVIOUS
  <2> QED
    BY <2>1
<1> HIDE DEF T
<1>3. ASSUME NEW i \in DOMAIN s
      PROVE  RemoveAt(s, i) \in Seq(T)
  <2>1. i \in 1..Len(s) /\ Len(s) \in Nat
    BY <1>2
  <2>2. SubSeq(s, 1, i - 1) \in Seq(T) /\ SubSeq(s, i + 1, Len(s)) \in Seq(T)
    BY <1>2, <2>1
  <2>3. SubSeq(s, 1, i - 1) \o SubSeq(s, i + 1, Len(s)) \in Seq(T)
    BY <2>2, ConcatProperties
  <2> QED
    BY <2>3 DEF RemoveAt
<1>4. <<t>> \o s \in Seq(T) /\ Append(s, t) \in Seq(T)
  BY <1>2, ConcatProperties, AppendProperties
<1> QED
  BY <1>1, <1>3, <1>4

(* A change leaves a list of tags, and counts as a change.                  *)
LEMMA Step ==
    ASSUME IInv, [Next]_vars
    PROVE  IInv'
<1> USE DEF IInv
<1>1. ASSUME NEW w, Edit(w), w = Wire(w.kind, w.tags, w.content), w.tags \in Seq(ToSet(w.tags))
      PROVE  IInv'
  <2>1. WireOK'
    BY <1>1 DEF WireOK, Edit
  <2>2. edits' \in Nat /\ edits' # 0
    BY <1>1 DEF Edit
  <2> QED
    BY <2>1, <2>2
<1>2. ASSUME NEW tags, tags \in Seq(ToSet(tags)), Edit([wire EXCEPT !.tags = tags])
      PROVE  IInv'
  <2> DEFINE w == [wire EXCEPT !.tags = tags]
  <2>1. w = Wire(w.kind, w.tags, w.content) /\ w.tags = tags
    BY DEF WireOK, Wire
  <2> QED
    BY <1>1, <1>2, <2>1
<1>3. ASSUME NEW content, Edit([wire EXCEPT !.content = content])
      PROVE  IInv'
  <2> DEFINE w == [wire EXCEPT !.content = content]
  <2>1. w = Wire(w.kind, w.tags, w.content) /\ w.tags = wire.tags
    BY DEF WireOK, Wire
  <2> QED
    BY <1>1, <1>3, <2>1 DEF WireOK
<1>4. ASSUME NEW i \in 1..8, DropTag(i)
      PROVE  IInv'
  BY <1>2, <1>4, ListsChanged DEF DropTag, WireOK
<1>5. ASSUME NEW t \in OtherTags, AddTag(t)
      PROVE  IInv'
  BY <1>2, <1>5, ListsChanged DEF AddTag, WireOK
<1>6. ASSUME NEW c, NEW v, SetField(c, v)
      PROVE  IInv'
  BY <1>3, <1>6 DEF SetField
<1>7. ASSUME NEW c, DropField(c)
      PROVE  IInv'
  BY <1>3, <1>7 DEF DropField
<1>8. ASSUME NEW content, Reform(content)
      PROVE  IInv'
  BY <1>3, <1>8 DEF Reform
<1>9. ASSUME NEW k, Rekind(k)
      PROVE  IInv'
  <2> DEFINE w == [wire EXCEPT !.kind = k]
  <2>1. w = Wire(w.kind, w.tags, w.content) /\ w.tags = wire.tags
    BY DEF WireOK, Wire
  <2> QED
    BY <1>1, <1>9, <2>1 DEF WireOK, Rekind
<1>10. CASE UNCHANGED vars
  BY <1>10 DEF vars, WireOK
<1> QED
  BY <1>4, <1>5, <1>6, <1>7, <1>8, <1>9, <1>10 DEF Next

(* So the invariant holds in every behaviour.                               *)
LEMMA Invariant == Spec => []IInv
<1>1. Init => IInv
  BY Start
<1>2. IInv /\ [Next]_vars => IInv'
  BY Step
<1> QED
  BY <1>1, <1>2, PTL DEF Spec
-----------------------------------------------------------------------------
(* What the code writes is read back as the model it was written from, and  *)
(* a model that was accepted survives being published again, however many   *)
(* changes other writers make (to_event, from_event, build_version_event,   *)
(* build_pointer_event).                                                    *)
THEOREM RoundTripHolds == Spec => []RoundTrip
<1>1. IInv => RoundTrip
  <2> SUFFICES ASSUME IInv PROVE RoundTrip
    OBVIOUS
  <2>1. ASSUME Parse(wire).ok
        PROVE  Parse(ToEvent(wire.kind, Parse(wire).model)) = Parse(wire)
    <3>1. /\ wire.kind \in KnownKinds
          /\ Valid(wire.kind, Parse(wire).model)
      BY <2>1, ReadIsWritten
    <3>2. Parse(ToEvent(wire.kind, Parse(wire).model)) = Parsed(Parse(wire).model)
      BY <3>1, WrittenIsRead
    <3>3. Parse(wire) = Parsed(Parse(wire).model)
      BY <2>1 DEF Parse, Parsed, Rejected
    <3> QED
      BY <3>2, <3>3
  <2> QED
    BY <2>1 DEF IInv, RoundTrip
<1> QED
  BY <1>1, Invariant, PTL

(* What an accepted event gives for a field of its kind.                    *)
LEMMA FieldAccepted ==
    ASSUME NEW ev, Parse(ev).ok, NEW n \in Fields(ev.kind)
    PROVE  /\ ev.kind \in KnownKinds
           /\ ContentOK(ev)
           /\ FromWire(ev)[n] \in Accepted(Schema[ev.kind].type[n])
           /\ Parse(ev).model[n] = Coerced(Schema[ev.kind].type[n], FromWire(ev)[n])
<1>1. /\ ev.kind \in KnownKinds /\ ContentOK(ev)
      /\ \A f \in Fields(ev.kind) : FromWire(ev)[f] \in Accepted(Schema[ev.kind].type[f])
      /\ Parse(ev).model = [f \in Fields(ev.kind) |->
                               Coerced(Schema[ev.kind].type[f], FromWire(ev)[f])]
  BY DEF Parse, Parsed, Rejected
<1> QED
  BY <1>1

(* The registry's own reader accepts a template event that the typed model  *)
(* accepts, and reads the same facts from it (get_version_history,          *)
(* get_current_pointer).                                                    *)
THEOREM RegistryReadsTheSame == Spec => []RegistryAgrees
<1>1. ASSUME wire.kind = "TemplateVersion", Parse(wire).ok
      PROVE  /\ ReadVersion(wire).ok
             /\ \A n \in {"template_name", "version", "summary", "e"} :
                    ReadVersion(wire).model[n] = Parse(wire).model[n]
             /\ ReadVersion(wire).model.git_ref =
                    IF Parse(wire).model.git_ref = None THEN ""
                    ELSE Parse(wire).model.git_ref
  <2> DEFINE p == Parse(wire).model
             f == FromWire(wire)
  <2>1. /\ f["template_name"] \in Texts \ {""} /\ f["version"] \in Texts \ {""}
        /\ f["git_ref"] \in Texts \cup {None} /\ f["summary"] \in Texts
        /\ wire.kind \in KnownKinds /\ ContentOK(wire)
        /\ p["template_name"] = f["template_name"] /\ p["version"] = f["version"]
        /\ p["git_ref"] = f["git_ref"] /\ p["summary"] = f["summary"] /\ p["e"] = f["e"]
    <3>1. \A n \in Fields("TemplateVersion") :
              LET type == Schema["TemplateVersion"].type[n]
              IN  /\ f[n] \in Accepted(type) /\ p[n] = Coerced(type, f[n])
                  /\ wire.kind \in KnownKinds /\ ContentOK(wire)
      BY <1>1, FieldAccepted
    <3>2. \A type \in {"name", "inherits?", "text?", "text"} : \A x : Coerced(type, x) = x
      BY DEF Coerced
    <3> HIDE DEF p, f
    <3>3. /\ f["template_name"] \in Accepted("name") /\ p["template_name"] = f["template_name"]
          /\ f["version"] \in Accepted("name") /\ p["version"] = f["version"]
          /\ wire.kind \in KnownKinds /\ ContentOK(wire)
      BY <3>1, <3>2, VersionFields
    <3>4. f["git_ref"] \in Accepted("text?") /\ p["git_ref"] = f["git_ref"]
      BY <3>1, <3>2, VersionFields
    <3>5. f["summary"] \in Accepted("text") /\ p["summary"] = f["summary"]
      BY <3>1, <3>2, VersionFields
    <3>6. p["e"] = f["e"]
      BY <3>1, <3>2, VersionFields
    <3> QED
      BY <3>3, <3>4, <3>5, <3>6, AcceptedFacts
  <2>2. /\ f["template_name"] = FirstTagValue(wire, "template_name")
        /\ f["version"] = FirstTagValue(wire, "version")
        /\ f["git_ref"] = FirstTagValue(wire, "git_ref")
        /\ f["e"] = InheritsTag(wire)
        /\ f["summary"] = ContentValue(wire, "summary")
    <3>1. \A n \in Fields("TemplateVersion") :
              IF n \in ContentFields("TemplateVersion") THEN f[n] = ContentValue(wire, n)
              ELSE f[n] = IF Schema["TemplateVersion"].type[n] = "inherits?"
                          THEN InheritsTag(wire) ELSE FirstTagValue(wire, n)
      BY <1>1, <2>1, FieldRead
    <3> HIDE DEF f
    <3> QED
      BY <3>1, VersionFields
  <2> HIDE DEF p, f
  <2>3. wire.content.form = "object"
    BY <1>1, <2>1 DEF ContentOK
  <2>4. /\ "summary" \in DOMAIN wire.content.fields
        /\ f["summary"] = wire.content.fields["summary"]
    BY <2>1, <2>2 DEF ContentValue, Texts, None
  <2>5. ParentOf(wire) = f["e"]
    BY <2>2 DEF ParentOf, InheritsTag
  <2>6. ReadVersion(wire) =
           Parsed([template_name |-> f["template_name"], version |-> f["version"],
                   git_ref |-> IF Truthy(f["git_ref"]) THEN f["git_ref"] ELSE "",
                   summary |-> f["summary"], e |-> f["e"]])
    <3>1. Truthy(f["template_name"]) /\ Truthy(f["version"])
      BY <2>1 DEF Truthy, Texts, None
    <3> QED
      BY <2>2, <2>3, <2>4, <2>5, <3>1 DEF ReadVersion
  <2>7. (IF Truthy(f["git_ref"]) THEN f["git_ref"] ELSE "") =
            IF f["git_ref"] = None THEN "" ELSE f["git_ref"]
    BY DEF Truthy
  <2> DEFINE r == ReadVersion(wire)
  <2> DEFINE git == IF f["git_ref"] = None THEN "" ELSE f["git_ref"]
             q == [template_name |-> f["template_name"], version |-> f["version"],
                   git_ref |-> git, summary |-> f["summary"], e |-> f["e"]]
  <2>8. /\ r.ok /\ r.model["template_name"] = f["template_name"]
        /\ r.model["version"] = f["version"] /\ r.model["summary"] = f["summary"]
        /\ r.model["e"] = f["e"]
        /\ r.model["git_ref"] = IF f["git_ref"] = None THEN "" ELSE f["git_ref"]
    <3>1. r = Parsed(q)
      BY <2>6, <2>7
    <3>2. /\ q["template_name"] = f["template_name"] /\ q["version"] = f["version"]
          /\ q["summary"] = f["summary"] /\ q["e"] = f["e"] /\ q["git_ref"] = git
      OBVIOUS
    <3> HIDE DEF q, r
    <3>3. r.ok /\ r.model = q
      BY <3>1 DEF Parsed
    <3> QED
      BY <3>2, <3>3
  <2> HIDE DEF r, q, git
  <2>9. /\ r.ok
        /\ \A n \in {"template_name", "version", "summary", "e"} : r.model[n] = p[n]
        /\ r.model["git_ref"] = IF p["git_ref"] = None THEN "" ELSE p["git_ref"]
    BY <2>1, <2>8
  <2> QED
    BY <2>9 DEF p, r
<1>2. ASSUME wire.kind = "TemplatePointer", Parse(wire).ok
      PROVE  ReadPointer(wire) = Parsed(Parse(wire).model.e)
  <2> DEFINE p == Parse(wire).model
             f == FromWire(wire)
  <2>1. wire.kind \in KnownKinds /\ f["e"] \in {"id", "id2"} /\ p["e"] = f["e"]
    <3>1. /\ wire.kind \in KnownKinds /\ f["e"] \in Accepted("id")
          /\ p["e"] = Coerced("id", f["e"])
      BY <1>2, FieldAccepted, PointerFields
    <3>2. Coerced("id", f["e"]) = f["e"]
      BY DEF Coerced
    <3> HIDE DEF f, p
    <3> QED
      BY <3>1, <3>2, AcceptedFacts
  <2>2. f["e"] = FirstTagValue(wire, "e")
    BY <1>2, <2>1, FieldRead, PointerFields
  <2> HIDE DEF p, f
  <2>3. Truthy(f["e"])
    BY <2>1 DEF Truthy, None
  <2>4. ReadPointer(wire) = Parsed(p["e"])
    BY <2>1, <2>2, <2>3 DEF ReadPointer
  <2> QED
    BY <2>4 DEF p
<1>3. RegistryAgrees
  BY <1>1, <1>2 DEF RegistryAgrees
<1> QED
  BY <1>3, PTL

(* A verdict that the gate counts is the one that the typed model reads:    *)
(* with one valued tag only, the first tag is that one (_verdict_value,     *)
(* from_event).                                                             *)
THEOREM VerdictsAgree == Spec => []SameVerdict
<1>1. ASSUME IInv, wire.kind = "ApprovalVerdict", Parse(wire).ok,
             VerdictValue(wire) \in {"approve", "reject"}
      PROVE  VerdictValue(wire) = Parse(wire).model.verdict
  <2> DEFINE named  == Named(wire, "verdict")
             valued == {i \in named : Len(wire.tags[i]) >= 2}
             p == Parse(wire).model
  <2>1. FirstTagValue(wire, "verdict") = p["verdict"] /\ p["verdict"] \in {"approve", "reject"}
    <3>0. /\ FromWire(wire)["verdict"] \in Accepted("verdict") /\ wire.kind \in KnownKinds
          /\ p["verdict"] = Coerced("verdict", FromWire(wire)["verdict"])
      BY <1>1, FieldAccepted, VerdictFields
    <3>1. /\ FromWire(wire)["verdict"] \in {"approve", "reject"}
          /\ wire.kind \in KnownKinds /\ p["verdict"] = FromWire(wire)["verdict"]
      BY <3>0, AcceptedFacts DEF Coerced
    <3> QED
      BY <1>1, <3>1, FieldRead, VerdictFields
  <2>2. named \in SUBSET (1..Len(wire.tags)) /\ Len(wire.tags) \in Nat
    BY <1>1, Members DEF IInv, WireOK, Named
  <2>3. VerdictValue(wire) =
            IF Cardinality(valued) = 1 THEN wire.tags[Min(valued)][2] ELSE None
    BY DEF VerdictValue
  <2>4. FirstTagValue(wire, "verdict") =
            IF named # {} /\ Len(wire.tags[Min(named)]) >= 2
            THEN wire.tags[Min(named)][2] ELSE None
    BY DEF FirstTagValue
  <2>5. valued \subseteq named /\ \A i \in named : Len(wire.tags[i]) >= 2 => i \in valued
    OBVIOUS
  <2> HIDE DEF named, valued, p
  <2>6. Cardinality(valued) = 1
    BY <1>1, <2>3 DEF None
  <2>7. IsFiniteSet(valued)
    <3>1. IsFiniteSet(1..Len(wire.tags))
      BY <2>2, FS_Interval
    <3> QED
      BY <2>2, <2>5, <3>1, FS_Subset
  <2>8. PICK j : valued = {j}
    BY <2>6, <2>7, FS_Singleton
  <2>9. named # {} /\ Len(wire.tags[Min(named)]) >= 2
    BY <2>1, <2>4 DEF None
  <2>10. Min(named) \in named /\ Min(valued) \in valued
    <3>1. named \in SUBSET Nat /\ valued \in SUBSET Nat /\ valued # {}
      BY <2>2, <2>5, <2>8
    <3> QED
      BY <2>9, <3>1, LeastExists
  <2>11. Min(named) = Min(valued)
    BY <2>5, <2>8, <2>9, <2>10
  <2>12. VerdictValue(wire) = p["verdict"]
    BY <2>1, <2>3, <2>4, <2>6, <2>9, <2>11
  <2> QED
    BY <2>12 DEF p
<1>2. IInv => SameVerdict
  BY <1>1 DEF SameVerdict
<1> QED
  BY <1>2, Invariant, PTL
============================================================================
