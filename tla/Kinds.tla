------------------------------- MODULE Kinds -------------------------------
(***************************************************************************)
(* core/kinds: the typed models of the eight custom kinds, their conversion*)
(* to a wire event and back, and the two other places that write or read   *)
(* the same wire shapes by hand: TemplatePublisher and TemplateReader of   *)
(* the registry, and _verdict_value of core/verify.                        *)
(*                                                                         *)
(* A value is named by what the code tells apart: a string by the formats  *)
(* it satisfies, a number by its sign and whether it is whole.  Names that *)
(* begin with # are JSON values other than strings.                        *)
(***************************************************************************)
EXTENDS Naturals, Sequences, SequencesExt

CONSTANT MaxEdits   (* bound: changes another writer makes to an event *)

None  == "#null"
Texts == {"", "text", "5", "id", "id2", "time", "completed", "exited", "killed",
          "approve", "reject", "inherit"}
Json  == Texts \cup {None, "#int", "#frac", "#negative", "#true", "#list"}

-----------------------------------------------------------------------------
(* The models.  A field is named as on the wire.  tags lists the fields that*)
(* travel in tags, in the order event_tags writes them; the others travel in*)
(* the JSON object of the content.                                          *)

NodeLifecycle ==
    [tags |-> <<"branch", "status", "run", "p", "e">>,
     type |-> [branch |-> "name", status |-> "name", run |-> "name",
               p |-> "id?", e |-> "id?", reason |-> "text"]]

NodeStatePointer ==
    [tags |-> <<"d", "status", "run", "iter">>,
     type |-> [d |-> "name", status |-> "name", run |-> "name", iter |-> "name",
               cost_shadow_usd |-> "amount", cost_cap_usd |-> "amount",
               last_lifecycle_event |-> "id"]]

RunAccounting ==
    [tags |-> <<"branch", "run", "template">>,
     type |-> [branch |-> "name", run |-> "name", template |-> "id?",
               iter_count |-> "count", cost_shadow_usd |-> "amount",
               duration_s |-> "amount", exit_status |-> "exit"]]

SubgraphDigest ==
    [tags |-> <<"branch", "period_start", "period_end">>,
     type |-> [branch |-> "name", period_start |-> "time", period_end |-> "time",
               child_count |-> "count", active |-> "count", exited |-> "count",
               completed |-> "count", stuck_flagged |-> "count",
               subtree_cost_shadow_usd |-> "amount"]]

ApprovalRequest ==
    [tags |-> <<"branch", "run", "iter", "step", "p">>,
     type |-> [branch |-> "name", run |-> "name", iter |-> "name", step |-> "name",
               p |-> "id", step_name |-> "name", summary |-> "text"]]

ApprovalVerdict ==
    [tags |-> <<"e", "verdict">>,
     type |-> [e |-> "id", verdict |-> "verdict", rationale |-> "text"]]

TemplateVersion ==
    [tags |-> <<"template_name", "version", "e", "git_ref">>,
     type |-> [template_name |-> "name", version |-> "name", e |-> "inherits?",
               git_ref |-> "text?", summary |-> "text"]]

TemplatePointer ==
    [tags |-> <<"d", "e">>, type |-> [d |-> "name", e |-> "id"]]

(* KIND_REGISTRY                                                            *)
Schema ==
    [NodeLifecycle |-> NodeLifecycle, NodeStatePointer |-> NodeStatePointer,
     RunAccounting |-> RunAccounting, SubgraphDigest |-> SubgraphDigest,
     ApprovalRequest |-> ApprovalRequest, ApprovalVerdict |-> ApprovalVerdict,
     TemplateVersion |-> TemplateVersion, TemplatePointer |-> TemplatePointer]

KnownKinds       == DOMAIN Schema
Fields(k)        == DOMAIN Schema[k].type
ContentFields(k) == Fields(k) \ ToSet(Schema[k].tags)

(* What pydantic accepts for a field, a number also as true or as a string. *)
Accepted(type) ==
    CASE type = "name"    -> Texts \ {""}
      [] type = "text"    -> Texts
      [] type = "text?"   -> Texts \cup {None}
      [] type = "id"      -> {"id", "id2"}
      [] type \in {"id?", "inherits?"} -> {"id", "id2", None}
      [] type = "time"    -> {"time"}
      [] type = "count"   -> {"#int", "#true", "5"}
      [] type = "amount"  -> {"#int", "#frac", "#true", "5"}
      [] type = "exit"    -> {"completed", "exited", "killed"}
      [] type = "verdict" -> {"approve", "reject"}

Coerced(type, v) ==
    IF type \in {"count", "amount"} /\ v \in {"#true", "5"} THEN "#int" ELSE v

-----------------------------------------------------------------------------
(* Wire events.  A content is an object, the empty string, a text that is no*)
(* JSON, or JSON that is no object.                                         *)

Object(f) == [form |-> "object", fields |-> f]
Bare(form) == [form |-> form, fields |-> << >>]

Wire(k, tags, content) == [kind |-> k, tags |-> tags, content |-> content]

\* Slip: the marker of an inheritance tag is left out.
PlainTag(type, name, v) == <<name, v>>

WireTag(type, name, v) ==
    IF type = "inherits?" THEN <<name, v, "", "inherit">> ELSE <<name, v>>

(* The i-th tag of a kind, if the model has a value for it.                 *)
TagAt(k, m, i) ==
    LET n == Schema[k].tags[i]
    IN  IF i \in DOMAIN Schema[k].tags /\ m[n] # None
        THEN <<WireTag(Schema[k].type[n], n, m[n])>> ELSE << >>

(* No kind has more than five tags.                                         *)
EventTags(k, m) ==
    TagAt(k, m, 1) \o TagAt(k, m, 2) \o TagAt(k, m, 3) \o TagAt(k, m, 4)
      \o TagAt(k, m, 5)

ToEvent(k, m) ==
    Wire(k, EventTags(k, m),
         IF k = "TemplatePointer" THEN Bare("empty")
                                  ELSE Object([c \in ContentFields(k) |-> m[c]]))

(* Where tag_values finds a tag of that name.                               *)
Named(ev, name) ==
    {i \in DOMAIN ev.tags : ev.tags[i] # << >> /\ ev.tags[i][1] = name}

(* A first tag without a value hides the ones behind it.                    *)
FirstTagValue(ev, name) ==
    LET first == Min(Named(ev, name))
    IN  IF Named(ev, name) # {} /\ Len(ev.tags[first]) >= 2 THEN ev.tags[first][2]
                                                           ELSE None

Marked(ev) == {i \in Named(ev, "e") : Len(ev.tags[i]) >= 4 /\ ev.tags[i][4] = "inherit"}

InheritsTag(ev) == IF Marked(ev) = {} THEN None ELSE ev.tags[Min(Marked(ev))][2]

(* content.get(name), where only reason has a default of its own.           *)
ContentValue(ev, name) ==
    IF name \in DOMAIN ev.content.fields THEN ev.content.fields[name]
    ELSE IF name = "reason" THEN "" ELSE None

FromWire(ev) ==
    [n \in Fields(ev.kind) |->
        CASE n \in ContentFields(ev.kind) -> ContentValue(ev, n)
          [] Schema[ev.kind].type[n] = "inherits?" -> InheritsTag(ev)
          [] OTHER -> FirstTagValue(ev, n)]

ContentOK(ev) ==
    IF ev.kind = "TemplatePointer"
    THEN ev.content \in {Bare("empty"), Object(<< >>)}
    ELSE ev.content.form = "object"

Rejected  == [ok |-> FALSE]
Parsed(m) == [ok |-> TRUE, model |-> m]

(* parse_event and from_event                                               *)
Parse(ev) ==
    IF /\ ev.kind \in KnownKinds
       /\ ContentOK(ev)
       /\ \A n \in Fields(ev.kind) :
              FromWire(ev)[n] \in Accepted(Schema[ev.kind].type[n])
    THEN Parsed([n \in Fields(ev.kind) |->
                    Coerced(Schema[ev.kind].type[n], FromWire(ev)[n])])
    ELSE Rejected

-----------------------------------------------------------------------------
(* The registry writes and reads the two template kinds by hand.            *)

BuildVersionEvent(name, version, ref, summary) ==
    Wire("TemplateVersion",
         << <<"template_name", name>>, <<"version", version>>, <<"git_ref", ref>> >>,
         Object([summary |-> summary]))

BuildPointerEvent(versionEvent, id) ==
    Wire("TemplatePointer",
         << <<"d", FirstTagValue(versionEvent, "template_name")>>, <<"e", id>> >>,
         Bare("empty"))

\* Slip: any e tag names the parent.
AnyETag(ev) == FirstTagValue(ev, "e")

(* The same loop, written a second time.                                    *)
ParentOf(ev) == IF Marked(ev) = {} THEN None ELSE ev.tags[Min(Marked(ev))][2]

Truthy(v) == v \notin {None, ""}

(* One event of get_version_history, once its signature and its attestation *)
(* have been checked: what it is read as, or an exception, AttributeError   *)
(* when the content is JSON that is no object.                              *)
ReadVersion(ev) ==
    LET name    == FirstTagValue(ev, "template_name")
        version == FirstTagValue(ev, "version")
        ref     == FirstTagValue(ev, "git_ref")
        summary == IF "summary" \in DOMAIN ev.content.fields
                   THEN ev.content.fields["summary"] ELSE ""
    IN  IF Truthy(name) /\ Truthy(version) /\ ev.content.form # "list"
        THEN Parsed([template_name |-> name, version |-> version,
                     git_ref |-> IF Truthy(ref) THEN ref ELSE "",
                     summary |-> summary, e |-> ParentOf(ev)])
        ELSE Rejected

(* The version a pointer is followed to by get_current_pointer.             *)
ReadPointer(ev) ==
    LET id == FirstTagValue(ev, "e")
    IN  IF Truthy(id) THEN Parsed(id) ELSE Rejected

\* Slip: the last verdict tag decides.
LastVerdictValue(ev) ==
    LET valued == {i \in Named(ev, "verdict") : Len(ev.tags[i]) >= 2}
    IN  IF valued = {} THEN None ELSE ev.tags[Max(valued)][2]

(* _verdict_value of core/verify                                            *)
VerdictValue(ev) ==
    LET valued == {i \in Named(ev, "verdict") : Len(ev.tags[i]) >= 2}
    IN  IF Cardinality(valued) = 1 THEN ev.tags[Min(valued)][2] ELSE None

-----------------------------------------------------------------------------
(* An event is built from a model, or by the registry's publisher; another  *)
(* writer, who shares no code with this one, may put anything in its place. *)

VARIABLES
    source,  \* the model the event was built from
    wire,    \* the event on the relay
    edits    \* in how many places it differs from what was built

vars == <<source, wire, edits>>

(* Values a model holds: those it accepts and leaves as they are.           *)
Sample(type) ==
    CASE type = "name"    -> {"text"}
      [] type = "text"    -> {"", "text"}
      [] type = "text?"   -> {"text", None}
      [] type = "id"      -> {"id"}
      [] type \in {"id?", "inherits?"} -> {"id", None}
      [] type = "time"    -> {"time"}
      [] type = "count"   -> {"#int"}
      [] type = "amount"  -> {"#frac"}
      [] type = "exit"    -> {"completed"}
      [] type = "verdict" -> {"approve", "reject"}

Models(k) ==
    {m \in [Fields(k) -> UNION {Sample(Schema[k].type[n]) : n \in Fields(k)}] :
        \A n \in Fields(k) : m[n] \in Sample(Schema[k].type[n])}

Init ==
    /\ edits = 0
    /\ \/ \E k \in KnownKinds : \E m \in Models(k) : source = m /\ wire = ToEvent(k, m)
       \/ /\ source = [template_name |-> "text", version |-> "5", git_ref |-> "text",
                       summary |-> "text", e |-> None]
          /\ wire = BuildVersionEvent("text", "5", "text", "text")
       \/ /\ source = [d |-> "text", e |-> "id"]
          /\ wire = BuildPointerEvent(BuildVersionEvent("text", "5", "text", "text"), "id")

Edit(w) ==
    /\ edits < MaxEdits
    /\ wire' = w
    /\ edits' = edits + 1
    /\ UNCHANGED source

OtherTags ==
    LET names  == IF wire.kind \in KnownKinds THEN ToSet(Schema[wire.kind].tags) ELSE {}
        values == {"", "text", "id2", "reject"}
    IN  {<<n>> : n \in names} \cup (names \X values)
          \cup {<<"e", v, "", "inherit">> : v \in values}

DropTag(i) ==
    i \in DOMAIN wire.tags /\ Edit([wire EXCEPT !.tags = RemoveAt(@, i)])

AddTag(t) ==
    \E tags \in {<<t>> \o wire.tags, Append(wire.tags, t)} :
        Edit([wire EXCEPT !.tags = tags])

SetField(c, v) ==
    /\ wire.content.form = "object"
    /\ Edit([wire EXCEPT !.content.fields =
                [n \in DOMAIN @ \cup {c} |-> IF n = c THEN v ELSE @[n]]])

DropField(c) ==
    /\ c \in DOMAIN wire.content.fields
    /\ Edit([wire EXCEPT !.content.fields = [n \in DOMAIN @ \ {c} |-> @[n]]])

Reform(content) == Edit([wire EXCEPT !.content = content])

Rekind(k) == Edit([wire EXCEPT !.kind = k])

Next ==
    \/ \E i \in 1..8 : DropTag(i)
    \/ \E t \in OtherTags : AddTag(t)
    \/ \E c \in DOMAIN wire.content.fields \cup {"summary"}, v \in Json : SetField(c, v)
    \/ \E c \in DOMAIN wire.content.fields : DropField(c)
    \/ \E content \in {Bare("empty"), Bare("junk"), Bare("list"), Object(<< >>)} :
           Reform(content)
    \/ \E k \in KnownKinds \cup {"other"} : Rekind(k)

Spec == Init /\ [][Next]_vars

-----------------------------------------------------------------------------
(* What the code writes is read back as the model it was written from, the  *)
(* registry's hand-built events included; and whatever another writer sends,*)
(* a model that was accepted survives being published again (to_event,      *)
(* from_event, build_version_event, build_pointer_event).                   *)
RoundTrip ==
    LET parsed == Parse(wire)
    IN  /\ edits = 0 => parsed = Parsed(source)
        /\ parsed.ok => Parse(ToEvent(wire.kind, parsed.model)) = parsed

(* Where the typed model accepts a template event, the registry's own reader*)
(* accepts it and reads the same facts, the parent and the version pointed  *)
(* to among them (get_version_history, get_current_pointer).                *)
RegistryAgrees ==
    LET parsed == Parse(wire)
        read   == ReadVersion(wire)
    IN  /\ wire.kind = "TemplateVersion" /\ parsed.ok =>
              /\ read.ok
              /\ \A n \in {"template_name", "version", "summary", "e"} :
                     read.model[n] = parsed.model[n]
              /\ read.model.git_ref =
                     IF parsed.model.git_ref = None THEN "" ELSE parsed.model.git_ref
        /\ wire.kind = "TemplatePointer" /\ parsed.ok =>
              ReadPointer(wire) = Parsed(parsed.model.e)

(* A verdict that the gate counts and the typed model accepts is the same   *)
(* verdict to both, however many verdict tags the event carries (one counts *)
(* the event only if there is one, the other takes the first).              *)
SameVerdict ==
    LET parsed == Parse(wire)
    IN  wire.kind = "ApprovalVerdict" /\ parsed.ok
          /\ VerdictValue(wire) \in {"approve", "reject"} =>
            VerdictValue(wire) = parsed.model.verdict
=============================================================================
