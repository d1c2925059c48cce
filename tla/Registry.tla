------------------------------- MODULE Registry -------------------------------
(***************************************************************************)
(* registry/: lindenmayer-registry publishes a template version and then   *)
(* the pointer to it, from a working tree that people go on editing and    *)
(* committing to, through a relay that may refuse, be cut off, or collapse *)
(* pointers; readers rebuild the history, follow the pointer, and resolve  *)
(* the linkage line of an instance contract.                               *)
(*                                                                         *)
(* Readers keep no state: what one gets is a function of what the relay    *)
(* serves.  An event is its own id, so the order of ids, a hash, is taken  *)
(* to be arbitrary wherever the code breaks a tie by id.                   *)
(***************************************************************************)
EXTENDS Integers, Sequences, FiniteSets

CONSTANTS
    Names,          (* template names                                       *)
    Templates,      (* those with a directory in the tree                   *)
    Keys,           (* author keys, given by --secret or generated          *)
    Publishers,     (* invocations of the publish command                   *)
    Versions,       (* version strings, as [numeric, parts]                 *)
    DefaultVersion, (* 1.0.0                                                *)
    Summaries,      (* texts of --summary; none stands for its default      *)
    Shas,           (* commit hashes, as sequences of digits                *)
    Times,          (* commit times                                         *)
    Linkages,       (* linkage lines of contracts: name, version, sha       *)
    None,           (* no commit, no version in the README, a missing tag   *)
    NoReadme,       (* there is no README                                   *)
    Others,         (* version events the author may write with other tools *)
    OtherPointers,  (* and pointers without an e tag                        *)
    MaxOthers       (* bound: how many of them                              *)

(* git log prints 40 digits, of which the tag keeps 7.                       *)
CONSTANT RefLength

Ref(sha) == SubSeq(sha, 1, RefLength)
Refs     == {Ref(s) : s \in Shas}

ASSUME ShasAssumption ==
    /\ Shas \subseteq Seq(0..15)
    /\ \A s, t \in Shas : Ref(s) = Ref(t) => s = t

VersionEvents ==
    [author : Keys, name : Names \cup {None}, version : Versions \cup {None},
     git_ref : Refs \cup {<< >>}, created_at : Times, summary : Summaries,
     flaw : {"none", "attestation", "content"}]

PointerEvents ==
    [author : Keys, d : Names, e : VersionEvents \cup {None}, created_at : Times]

(* What a README can say: the pattern it is searched for has only digits and*)
(* dots.                                                                    *)
Numbers == {v \in Versions : v.numeric = TRUE}

ASSUME InputsAssumption ==
    /\ DefaultVersion \in Numbers /\ None \notin Versions /\ NoReadme \notin Versions
    /\ Templates \subseteq Names /\ None \notin Names
    /\ Times \subseteq Nat
    /\ Others \subseteq VersionEvents /\ None \notin VersionEvents
    /\ OtherPointers \subseteq {q \in PointerEvents : q.e = None}

VARIABLES
    readme,    \* the version the README of each template names, None, or NoReadme
    head,      \* the last commit that touches each template
    committed, \* the hashes used so far
    pc,        \* where each publisher is
    job,       \* what it has found out so far
    sent,      \* how many of its two events it has published
    log,       \* the version events at the relay
    pointers,  \* the pointer events the relay still has
    accepted   \* history: the pointer events it ever stored

tree  == <<readme, head, committed>>
relay == <<log, pointers, accepted>>
vars  == <<tree, pc, job, sent, relay>>

Commits == [sha : Shas, time : Times]
Jobs    == [name : Templates, author : Keys, summary : Summaries, version : Numbers]

Waiting == [found |-> None, event |-> None]

TypeOK ==
    /\ readme \in [Templates -> Numbers \cup {None, NoReadme}]
    /\ head \in [Templates -> Commits \cup {None}]
    /\ committed \subseteq Shas
    /\ pc \in [Publishers -> {"idle", "extract", "publish", "done", "failed"}]
    /\ job \in [Publishers -> [found : Jobs \cup {None}, event : VersionEvents \cup {None}]]
    /\ sent \in [Publishers -> 0..2]
    /\ \A p \in Publishers :
          /\ pc[p] \in {"extract", "publish", "done"} => job[p].found \in Jobs
          /\ pc[p] \in {"publish", "done"} => job[p].event \in VersionEvents
    /\ log \subseteq VersionEvents
    /\ pointers \subseteq PointerEvents /\ accepted \subseteq PointerEvents

Init ==
    /\ readme \in [Templates -> {None, NoReadme, DefaultVersion}]
    /\ head = [t \in Templates |-> None]
    /\ committed = {}
    /\ pc = [p \in Publishers |-> "idle"]
    /\ job = [p \in Publishers |-> Waiting]
    /\ sent = [p \in Publishers |-> 0]
    /\ log = {} /\ pointers = {} /\ accepted = {}

-----------------------------------------------------------------------------
(* People edit the tree.  Times need not grow: clocks, other branches.      *)

EditReadme(t, v) ==
    /\ readme' = [readme EXCEPT ![t] = v]
    /\ UNCHANGED <<head, committed, pc, job, sent, relay>>

Commit(touched, sha, time) ==
    /\ sha \notin committed
    /\ head' = [t \in Templates |->
                  IF t \in touched THEN [sha |-> sha, time |-> time] ELSE head[t]]
    /\ committed' = committed \cup {sha}
    /\ UNCHANGED <<readme, pc, job, sent, relay>>

-----------------------------------------------------------------------------
(* TemplatePublisher and _cmd_publish                                       *)

\* Slip: there is no default.
ReadmeVersion(t) == readme[t]

ExtractVersion(t) == IF readme[t] = None THEN DefaultVersion ELSE readme[t]

(* git log prints nothing for a template that has not been committed.       *)
HasCommit(t) == head[t] # None

\* Slip: the time at which the event is built, here the number of events.
WallClock(commit) == Cardinality(log)

CreatedAt(commit) == commit.time

BuildVersionEvent(found, commit) ==
    [author |-> found.author, name |-> found.name, version |-> found.version,
     git_ref |-> Ref(commit.sha), created_at |-> CreatedAt(commit),
     summary |-> found.summary, flaw |-> "none"]

BuildPointerEvent(e) ==
    [author |-> e.author, d |-> e.name, e |-> e, created_at |-> e.created_at]

\* Slip: the pointer goes first.
Reversed(i) == IF i = 0 THEN "pointer" ELSE "version"

Stage(i) == IF i = 0 THEN "version" ELSE "pointer"

Fail(p) == pc' = [pc EXCEPT ![p] = "failed"] /\ UNCHANGED sent

(* The README is read first; git is asked in a second step.                 *)
Start(p, t, k, s) ==
    /\ pc[p] = "idle"
    /\ readme[t] # NoReadme
    /\ pc' = [pc EXCEPT ![p] = "extract"]
    /\ job' = [job EXCEPT ![p] =
         [found |-> [name |-> t, author |-> k, summary |-> s, version |-> ExtractVersion(t)],
          event |-> None]]
    /\ UNCHANGED <<tree, sent, relay>>

StartRaises(p, t) ==
    /\ pc[p] = "idle"
    /\ readme[t] = NoReadme
    /\ Fail(p)
    /\ UNCHANGED <<tree, job, relay>>

Extract(p) ==
    /\ pc[p] = "extract"
    /\ LET t == job[p].found.name
       IN  IF HasCommit(t)
           THEN /\ job' = [job EXCEPT ![p].event = BuildVersionEvent(job[p].found, head[t])]
                /\ pc' = [pc EXCEPT ![p] = "publish"]
           ELSE pc' = [pc EXCEPT ![p] = "failed"] /\ UNCHANGED job
    /\ UNCHANGED <<tree, sent, relay>>

(* The relay stores the event that p is publishing.  A version is a regular *)
(* event; storing what is there already changes nothing.                    *)
Store(p) ==
    IF Stage(sent[p]) = "version"
    THEN /\ log' = log \cup {job[p].event}
         /\ UNCHANGED <<pointers, accepted>>
    ELSE /\ pointers' = pointers \cup {BuildPointerEvent(job[p].event)}
         /\ accepted' = accepted \cup {BuildPointerEvent(job[p].event)}
         /\ UNCHANGED log

Published(p) ==
    /\ sent' = [sent EXCEPT ![p] = @ + 1]
    /\ pc' = [pc EXCEPT ![p] = IF sent[p] = 1 THEN "done" ELSE @]

\* Slip: an exception of publish is reported and forgotten.
Swallow(p) == Published(p)

Raise(p) == Fail(p)

Publish(p) ==
    /\ pc[p] = "publish"
    /\ Store(p)
    /\ Published(p)
    /\ UNCHANGED <<tree, job>>

(* Refused, timed out or disconnected before it was stored, or after.       *)
PublishRaises(p) ==
    /\ pc[p] = "publish"
    /\ Raise(p)
    /\ Store(p) \/ UNCHANGED relay
    /\ UNCHANGED <<tree, job>>

Crash(p) ==
    /\ pc[p] \in {"extract", "publish"}
    /\ Fail(p)
    /\ UNCHANGED <<tree, job, relay>>

-----------------------------------------------------------------------------
(* The relay, and the other tools an author may write events with.          *)

Dominates(f, e) ==
    f # e /\ f.author = e.author /\ f.d = e.d /\ f.created_at >= e.created_at

Collapse(e) ==
    /\ \E f \in pointers : Dominates(f, e)
    /\ pointers' = pointers \ {e}
    /\ UNCHANGED <<tree, pc, job, sent, log, accepted>>

Own == {job[p].event : p \in Publishers} \ {None}

MayWrite == Cardinality(log \ Own) + Cardinality(accepted \cap OtherPointers) < MaxOthers

OtherVersion(e) ==
    /\ MayWrite
    /\ log' = log \cup {e}
    /\ UNCHANGED <<tree, pc, job, sent, pointers, accepted>>

OtherPointer(q) ==
    /\ MayWrite
    /\ pointers' = pointers \cup {q} /\ accepted' = accepted \cup {q}
    /\ UNCHANGED <<tree, pc, job, sent, log>>

Next ==
    \/ \E t \in Templates, v \in Numbers \cup {None, NoReadme} : EditReadme(t, v)
    \/ \E touched \in SUBSET Templates \ {{}}, s \in Shas, time \in Times :
          Commit(touched, s, time)
    \/ \E p \in Publishers, t \in Templates, k \in Keys, s \in Summaries : Start(p, t, k, s)
    \/ \E p \in Publishers, t \in Templates : StartRaises(p, t)
    \/ \E p \in Publishers : Extract(p) \/ Publish(p) \/ PublishRaises(p) \/ Crash(p)
    \/ \E e \in pointers : Collapse(e)
    \/ \E e \in Others : OtherVersion(e)
    \/ \E q \in OtherPointers : OtherPointer(q)

Spec == Init /\ [][Next]_vars

-----------------------------------------------------------------------------
(* TemplateReader                                                           *)

(* What the query answers.  #template_name is no single-letter filter of    *)
(* NIP-01: a relay may match it, or ignore it.                              *)
Answer(k, t, matches) ==
    {e \in log : e.author = k /\ (matches => e.name = t)}

(* Sort keys are tuples of numbers, or of the text.                         *)
Comparable(v, w) == v.numeric = w.numeric

(* get_version_history returns all of them in order of version, or raises:  *)
(* on an attestation that is invalid, on a content that is JSON but no      *)
(* object, on a missing tag, and, in the sort, when a number is compared    *)
(* with a text.                                                             *)
HistoryRaises(events) ==
    \/ \E e \in events : e.flaw # "none" \/ e.name = None \/ e.version = None
    \/ \E e, f \in events : ~Comparable(e.version, f.version)

\* Slip: the relay is trusted to have collapsed the pointers.
AsListed(found) == found

(* get_current_pointer: the newest one, of equally new ones any.            *)
Latest(found) ==
    {e \in found : \A f \in found : f.created_at <= e.created_at}

CurrentPointer(k, t) == Latest({e \in pointers : e.author = k /\ e.d = t})

(* It is an error for it to have no e tag.  One that does not verify never  *)
(* comes out of a query (RelayClient).                                      *)
PointerRaises(q) == q.e = None

-----------------------------------------------------------------------------
(* LinkageValidator: a line resolved against a history, then validated.     *)

StartsWith(long, short) ==
    Len(short) <= Len(long) /\ SubSeq(long, 1, Len(short)) = short

ValidateAgainstVersion(l, e) == StartsWith(e.git_ref, l.sha) \/ StartsWith(l.sha, e.git_ref)

Outcome(status, event) == [status |-> status, event |-> event]

\* Slip: the first match is taken.
FirstMatch(matches) == FALSE

Ambiguous(matches) == Cardinality(matches) > 1

Resolve(l, events) ==
    LET matches == {e \in events : e.name = l.name /\ e.version = l.version}
        match   == CHOOSE e \in matches : TRUE
    IN  IF HistoryRaises(events) THEN Outcome("raises", None)
        ELSE IF matches = {} THEN Outcome("none", None)
        ELSE IF Ambiguous(matches) THEN Outcome("ambiguous", None)
        ELSE IF ValidateAgainstVersion(l, match) THEN Outcome("resolved", match)
        ELSE Outcome("mismatch", None)

ResolveLinkage(l, k, relayMatches) == Resolve(l, Answer(k, l.name, relayMatches))

-----------------------------------------------------------------------------
(* No pointer of the command dangles: the version it names is at the relay, *)
(* by the same author and of the same template, wherever a publish was      *)
(* refused, cut off or killed (_cmd_publish, build_pointer_event).          *)
PointerResolves ==
    \A q \in accepted \ OtherPointers :
        q.e \in log /\ q.e.author = q.author /\ q.e.name = q.d

(* Publishing again what failed half-way, or what is there already, adds no *)
(* second version: one author, commit, version and summary make one event   *)
(* (extract_template_info, build_version_event).                            *)
OneEventPerRelease ==
    \A e, f \in Own :
        /\ e.author = f.author /\ e.name = f.name /\ e.version = f.version
        /\ e.git_ref = f.git_ref /\ e.summary = f.summary
        => e = f

(* Whether the relay collapses pointers or not, a reader follows one of the *)
(* newest it ever stored (get_current_pointer).                             *)
CurrentIsNewest ==
    \A k \in Keys, t \in Names :
        LET all == {q \in accepted : q.author = k /\ q.d = t}
        IN  \A q \in CurrentPointer(k, t) :
                q \in all /\ \A r \in all : r.created_at <= q.created_at

(* A publish command that reports success can be read back, whether the     *)
(* relay matches #template_name or not.  The history, when                  *)
(* get_version_history does not raise, holds its version; and it does not   *)
(* raise as long as only the command has written versions.  The pointer     *)
(* that get_current_pointer finds is its own or one dated no earlier, and it*)
(* names a version that is there, unless it is another tool's and has no e  *)
(* tag.                                                                     *)
PublishedIsReadable ==
    \A p \in Publishers :
        pc[p] = "done" =>
            LET e == job[p].event
            IN  /\ \A m \in BOOLEAN :
                      LET found == Answer(e.author, e.name, m)
                      IN  /\ HistoryRaises(found) \/ e \in found
                          /\ log \subseteq Own => ~HistoryRaises(found)
                /\ CurrentPointer(e.author, e.name) # {}
                /\ \A q \in CurrentPointer(e.author, e.name) :
                      /\ q.created_at >= e.created_at
                      /\ PointerRaises(q) \/ q.e \in log

(* A linkage line that resolves to a version never resolves to another: it  *)
(* can only become ambiguous, or the history unreadable (resolve_linkage,   *)
(* get_version_history).                                                    *)
LinkageIsStable ==
    [][\A l \in Linkages, k \in Keys, m \in BOOLEAN :
          ResolveLinkage(l, k, m).status \in {"resolved", "ambiguous", "raises"} =>
              \/ ResolveLinkage(l, k, m)' = ResolveLinkage(l, k, m)
              \/ ResolveLinkage(l, k, m)'.status \in {"ambiguous", "raises"}]_vars
=============================================================================
