---------------------------- MODULE RegistryProofs ----------------------------
(***************************************************************************)
(* What Registry promises for every tree, every set of publishers and      *)
(* authors, and every event other tools write.                             *)
(***************************************************************************)
EXTENDS Registry, FiniteSetTheorems, TLAPS

Event(p) == job[p].event

(* How far a publisher has come, and what that has left at the relay.       *)
Progress ==
    \A p \in Publishers :
        /\ pc[p] \in {"idle", "extract"} => sent[p] = 0 /\ Event(p) = None
        /\ pc[p] = "publish" => sent[p] \in {0, 1}
        /\ pc[p] = "done" => sent[p] = 2
        /\ Event(p) # None => Event(p).name \in Templates /\ Event(p).flaw = "none"
                              /\ Event(p).version \in Numbers
        /\ sent[p] > 0 => Event(p) # None /\ Event(p) \in log
        /\ sent[p] = 2 => BuildPointerEvent(Event(p)) \in accepted

(* A reference determines the time of its commit.                           *)
HeadsAgree ==
    \A t \in Templates : head[t] # None =>
        /\ head[t].sha \in committed
        /\ \A u \in Templates :
              head[u] # None /\ head[u].sha = head[t].sha => head[u] = head[t]

Dated(p) ==
    /\ \E s \in committed : Event(p).git_ref = Ref(s)
    /\ \A t \in Templates :
          head[t] # None /\ Ref(head[t].sha) = Event(p).git_ref =>
              Event(p).created_at = head[t].time
    /\ \A q \in Publishers :
          Event(q) # None /\ Event(q).git_ref = Event(p).git_ref =>
              Event(q).created_at = Event(p).created_at

EventsDated == \A p \in Publishers : Event(p) # None => Dated(p)

(* Of every stream of pointers the relay still has one of the newest.       *)
SameStream(a, b) == a.author = b.author /\ a.d = b.d

Newest(b, a) ==
    /\ SameStream(a, b)
    /\ \A c \in accepted : SameStream(a, c) => c.created_at <= b.created_at

NewestKept ==
    /\ pointers \subseteq accepted
    /\ \A a \in accepted : \E b \in pointers : Newest(b, a)

IInv ==
    /\ TypeOK /\ Progress /\ HeadsAgree /\ EventsDated
    /\ NewestKept /\ PointerResolves /\ IsFiniteSet(log)

-----------------------------------------------------------------------------
LEMMA InitOK == Init => IInv
<1> SUFFICES ASSUME Init PROVE IInv
  OBVIOUS
<1> USE DEF Init
<1>1. TypeOK
  <2>1. /\ readme \in [Templates -> Numbers \cup {None, NoReadme}]
        /\ head \in [Templates -> Commits \cup {None}]
    BY InputsAssumption
  <2>2. /\ job \in [Publishers -> [found : Jobs \cup {None}, event : VersionEvents \cup {None}]]
        /\ pc \in [Publishers -> {"idle", "extract", "publish", "done", "failed"}]
        /\ sent \in [Publishers -> 0..2]
    BY DEF Waiting
  <2> QED
    BY <2>1, <2>2 DEF TypeOK
<1>2. Progress
  BY DEF Progress, Event, Waiting
<1>3. HeadsAgree
  BY DEF HeadsAgree
<1>4. EventsDated
  BY DEF EventsDated, Event, Waiting
<1>5. NewestKept /\ PointerResolves /\ IsFiniteSet(log)
  BY FS_EmptySet DEF NewestKept, PointerResolves
<1> QED
  BY <1>1, <1>2, <1>3, <1>4, <1>5 DEF IInv

(* What follows from the types for the parts of the state that a publisher  *)
(* works on.                                                                *)
LEMMA Shapes ==
    ASSUME TypeOK, NEW p \in Publishers
    PROVE  /\ Event(p) \in VersionEvents \cup {None}
           /\ pc[p] \in {"publish", "done"} => Event(p) \in VersionEvents
           /\ pc[p] \in {"extract", "publish", "done"} => job[p].found \in Jobs
BY DEF TypeOK, Event

LEMMA NoneIsNoEvent == None \notin VersionEvents
BY InputsAssumption

-----------------------------------------------------------------------------
(* The tree.                                                                *)
LEMMA EditReadmeKeeps ==
    ASSUME IInv, NEW t \in Templates, NEW v \in Numbers \cup {None, NoReadme}, EditReadme(t, v)
    PROVE  IInv'
<1> USE DEF EditReadme, relay
<1>1. TypeOK'
  BY DEF IInv, TypeOK
<1>2. Progress' /\ HeadsAgree' /\ EventsDated'
  BY DEF IInv, Progress, HeadsAgree, EventsDated, Dated, Event
<1>3. NewestKept' /\ PointerResolves' /\ IsFiniteSet(log)'
  BY DEF IInv, NewestKept, Newest, PointerResolves
<1> QED
  BY <1>1, <1>2, <1>3 DEF IInv

LEMMA CommitKeeps ==
    ASSUME IInv, NEW touched \in SUBSET Templates, NEW sha \in Shas, NEW time \in Times,
           Commit(touched, sha, time)
    PROVE  IInv'
<1> DEFINE new == [sha |-> sha, time |-> time]
<1>1. /\ sha \notin committed
      /\ head' = [t \in Templates |-> IF t \in touched THEN new ELSE head[t]]
      /\ committed' = committed \cup {sha}
      /\ UNCHANGED <<readme, pc, job, sent, log, pointers, accepted>>
  BY DEF Commit, relay
<1>2. new \in Commits /\ new.sha = sha
  BY DEF Commits
<1>3. TypeOK'
  <2>1. head' \in [Templates -> Commits \cup {None}] /\ committed' \subseteq Shas
    BY <1>1, <1>2 DEF IInv, TypeOK
  <2> QED
    BY <1>1, <2>1 DEF IInv, TypeOK
<1>4. committed \subseteq Shas
  BY DEF IInv, TypeOK
<1>5. HeadsAgree'
  BY <1>1, <1>2 DEF IInv, HeadsAgree
<1>6. \A s \in committed : Ref(s) # Ref(sha)
  BY <1>1, <1>4, ShasAssumption
<1>7. EventsDated'
  <2> SUFFICES ASSUME NEW p \in Publishers, Event(p) # None PROVE Dated(p)'
    BY <1>1 DEF EventsDated, Event
  <2>1. Dated(p)
    BY DEF IInv, EventsDated
  <2>2. PICK s \in committed : Event(p).git_ref = Ref(s)
    BY <2>1 DEF Dated
  <2>3. \A t \in Templates : head'[t] # None /\ Ref(head'[t].sha) = Event(p).git_ref =>
            Event(p).created_at = head'[t].time
    <3> TAKE t \in Templates
    <3>1. CASE t \in touched
      BY <1>1, <1>6, <2>2, <3>1
    <3>2. CASE t \notin touched
      BY <1>1, <2>1, <3>2 DEF Dated
    <3> QED
      BY <3>1, <3>2
  <2> QED
    BY <1>1, <2>1, <2>2, <2>3 DEF Dated, Event
<1>8. Progress' /\ NewestKept' /\ PointerResolves' /\ IsFiniteSet(log)'
  BY <1>1 DEF IInv, Progress, Event, NewestKept, Newest, PointerResolves
<1> QED
  BY <1>3, <1>5, <1>7, <1>8 DEF IInv

-----------------------------------------------------------------------------
(* The publisher.                                                           *)
LEMMA StartKeeps ==
    ASSUME IInv, NEW p \in Publishers, NEW t \in Templates, NEW k \in Keys,
           NEW s \in Summaries, Start(p, t, k, s)
    PROVE  IInv'
<1>1. /\ pc[p] = "idle" /\ readme[t] # NoReadme
      /\ pc' = [pc EXCEPT ![p] = "extract"]
      /\ UNCHANGED <<readme, head, committed, sent, log, pointers, accepted>>
  BY DEF Start, tree, relay
<1> DEFINE found == [name |-> t, author |-> k, summary |-> s, version |-> ExtractVersion(t)]
<1>2. job' = [job EXCEPT ![p] = [found |-> found, event |-> None]]
  BY DEF Start
<1>3. found \in Jobs
  BY <1>1, InputsAssumption DEF IInv, TypeOK, ExtractVersion, Jobs
<1>4. \A q \in Publishers : Event(q)' = Event(q)
  BY <1>1, <1>2 DEF IInv, TypeOK, Progress, Event
<1>5. TypeOK'
  <2>1. job' \in [Publishers -> [found : Jobs \cup {None}, event : VersionEvents \cup {None}]]
    BY <1>2, <1>3 DEF IInv, TypeOK
  <2>2. \A q \in Publishers : pc'[q] \in {"extract", "publish", "done"} => job'[q].found \in Jobs
    BY <1>1, <1>2, <1>3 DEF IInv, TypeOK
  <2>3. \A q \in Publishers : pc'[q] \in {"publish", "done"} => job'[q].event \in VersionEvents
    BY <1>1, <1>2 DEF IInv, TypeOK
  <2>4. pc' \in [Publishers -> {"idle", "extract", "publish", "done", "failed"}]
    BY <1>1 DEF IInv, TypeOK
  <2> QED
    BY <1>1, <2>1, <2>2, <2>3, <2>4 DEF IInv, TypeOK
<1>6. Progress'
  BY <1>1, <1>4 DEF IInv, TypeOK, Progress
<1>7. HeadsAgree' /\ EventsDated'
  BY <1>1, <1>4 DEF IInv, HeadsAgree, EventsDated, Dated
<1>8. NewestKept' /\ PointerResolves' /\ IsFiniteSet(log)'
  BY <1>1 DEF IInv, NewestKept, Newest, PointerResolves
<1> QED
  BY <1>5, <1>6, <1>7, <1>8 DEF IInv

LEMMA ExtractKeeps ==
    ASSUME IInv, NEW p \in Publishers, Extract(p)
    PROVE  IInv'
<1> DEFINE t == job[p].found.name
           e == BuildVersionEvent(job[p].found, head[t])
<1>1. /\ pc[p] = "extract" /\ sent[p] = 0
      /\ UNCHANGED <<readme, head, committed, sent, log, pointers, accepted>>
  BY DEF Extract, tree, relay, IInv, Progress
<1>2. job[p].found \in Jobs /\ t \in Templates
  BY <1>1, Shapes DEF IInv, Jobs
<1>3. HeadsAgree' /\ NewestKept' /\ PointerResolves' /\ IsFiniteSet(log)'
  BY <1>1 DEF IInv, HeadsAgree, NewestKept, Newest, PointerResolves
<1>4. CASE ~HasCommit(t)
  <2>1. pc' = [pc EXCEPT ![p] = "failed"] /\ UNCHANGED job
    BY <1>4 DEF Extract
  <2>2. TypeOK'
    BY <1>1, <2>1 DEF IInv, TypeOK
  <2>3. Progress' /\ EventsDated'
    BY <1>1, <2>1 DEF IInv, TypeOK, Progress, EventsDated, Dated, Event
  <2> QED
    BY <1>3, <2>2, <2>3 DEF IInv
<1>5. CASE HasCommit(t)
  <2>1. /\ job' = [job EXCEPT ![p].event = e]
        /\ pc' = [pc EXCEPT ![p] = "publish"]
    BY <1>5 DEF Extract
  <2>2. head[t] \in Commits
    BY <1>2, <1>5 DEF IInv, TypeOK, HasCommit
  <2>3. /\ e.git_ref = Ref(head[t].sha) /\ e.created_at = head[t].time
        /\ e.name = t /\ e.flaw = "none" /\ e.version \in Numbers
    BY <1>2 DEF BuildVersionEvent, CreatedAt, Jobs
  <2>4. e \in VersionEvents
    BY <1>2, <2>2, InputsAssumption
       DEF BuildVersionEvent, CreatedAt, VersionEvents, Jobs, Commits, Refs, Numbers
  <2>5. Event(p)' = e /\ \A q \in Publishers \ {p} : Event(q)' = Event(q)
    BY <2>1 DEF IInv, TypeOK, Event
  <2> HIDE DEF e, t
  <2>6. TypeOK'
    <3>1. job' \in [Publishers -> [found : Jobs \cup {None}, event : VersionEvents \cup {None}]]
      BY <2>1, <2>4 DEF IInv, TypeOK
    <3>2. \A q \in Publishers : pc'[q] \in {"extract", "publish", "done"} => job'[q].found \in Jobs
      BY <1>1, <2>1 DEF IInv, TypeOK
    <3>3. \A q \in Publishers : pc'[q] \in {"publish", "done"} => job'[q].event \in VersionEvents
      BY <2>1, <2>4 DEF IInv, TypeOK
    <3>4. pc' \in [Publishers -> {"idle", "extract", "publish", "done", "failed"}]
      BY <2>1 DEF IInv, TypeOK
    <3> QED
      BY <1>1, <3>1, <3>2, <3>3, <3>4 DEF IInv, TypeOK
  <2>7. Progress'
    BY <1>1, <1>2, <2>1, <2>3, <2>5 DEF IInv, TypeOK, Progress
  <2>8. EventsDated'
    <3>1. head[t] # None /\ head[t].sha \in committed /\ head[t].sha \in Shas
      BY <1>2, <1>5 DEF IInv, HeadsAgree, HasCommit, TypeOK
    <3>2. \A u \in Templates :
              head[u] # None /\ Ref(head[u].sha) = e.git_ref => e.created_at = head[u].time
      BY <1>2, <2>3, <3>1, ShasAssumption DEF IInv, HeadsAgree, TypeOK
    <3>3. \A q \in Publishers \ {p} :
              Event(q) # None /\ Event(q).git_ref = e.git_ref => Event(q).created_at = e.created_at
      BY <1>2, <2>3, <3>1 DEF IInv, EventsDated, Dated
    <3>4. Dated(p)'
      BY <1>1, <2>3, <2>5, <3>1, <3>2, <3>3 DEF Dated
    <3>5. \A q \in Publishers \ {p} : Event(q) # None => Dated(q)'
      BY <1>1, <2>5, <3>3 DEF Dated, IInv, EventsDated
    <3> QED
      BY <2>5, <3>4, <3>5 DEF EventsDated
  <2> QED
    BY <1>3, <2>6, <2>7, <2>8 DEF IInv
<1> QED
  BY <1>4, <1>5

(* Another pointer, whoever writes it.                                      *)
LEMMA PointerAdded ==
    ASSUME NewestKept, accepted \subseteq PointerEvents, NEW b \in PointerEvents,
           pointers' = pointers \cup {b}, accepted' = accepted \cup {b}
    PROVE  NewestKept'
<1>1. \A c \in accepted' : c.created_at \in Nat
  BY InputsAssumption DEF PointerEvents
<1>2. ASSUME NEW a \in accepted' PROVE \E n \in pointers' : Newest(n, a)'
  <2>1. CASE \E c \in accepted : SameStream(a, c)
    <3>1. PICK c \in accepted : SameStream(a, c)
      BY <2>1
    <3>2. PICK n \in pointers : Newest(n, c)
      BY DEF NewestKept
    <3>3. SameStream(a, n) /\ n \in accepted
      BY <3>1, <3>2 DEF Newest, SameStream, NewestKept
    <3>4. \A d \in accepted : SameStream(a, d) => d.created_at <= n.created_at
      BY <3>1, <3>2 DEF Newest, SameStream
    <3>5. CASE SameStream(a, b) /\ ~(b.created_at <= n.created_at)
      <4>1. \A d \in accepted' : SameStream(a, d) => d.created_at <= b.created_at
        BY <1>1, <3>3, <3>4, <3>5
      <4> QED
        BY <3>5, <4>1 DEF Newest
    <3>6. CASE SameStream(a, b) => b.created_at <= n.created_at
      <4>1. \A d \in accepted' : SameStream(a, d) => d.created_at <= n.created_at
        BY <3>4, <3>6
      <4> QED
        BY <3>2, <3>3, <4>1 DEF Newest
    <3> QED
      BY <3>5, <3>6
  <2>2. CASE ~\E c \in accepted : SameStream(a, c)
    <3>1. a = b
      BY <2>2 DEF SameStream
    <3>2. \A d \in accepted' : SameStream(a, d) => d.created_at <= b.created_at
      BY <1>1, <2>2
    <3> QED
      BY <3>1, <3>2 DEF Newest, SameStream
  <2> QED
    BY <2>1, <2>2
<1> QED
  BY <1>2 DEF NewestKept

(* What the relay stores of a publisher that is publishing.                 *)
LEMMA StoreKeeps ==
    ASSUME IInv, NEW p \in Publishers, pc[p] = "publish", Store(p)
    PROVE  /\ log \subseteq log' /\ log' \subseteq VersionEvents /\ IsFiniteSet(log')
           /\ sent[p] = 0 => Event(p) \in log'
           /\ sent[p] = 1 => BuildPointerEvent(Event(p)) \in accepted'
           /\ accepted \subseteq accepted' /\ accepted' \subseteq PointerEvents
           /\ pointers' \subseteq PointerEvents
           /\ NewestKept' /\ PointerResolves'
<1> DEFINE e == Event(p)
           b == BuildPointerEvent(e)
<1>1. /\ e \in VersionEvents /\ e.name \in Templates
      /\ sent[p] \in {0, 1} /\ (sent[p] = 1 => e \in log)
      /\ log \subseteq VersionEvents
      /\ pointers \subseteq PointerEvents /\ accepted \subseteq PointerEvents
  BY Shapes, NoneIsNoEvent DEF IInv, Progress, TypeOK
<1>2. b \in PointerEvents /\ b.e = e /\ b.author = e.author /\ b.d = e.name
  BY <1>1, InputsAssumption DEF BuildPointerEvent, PointerEvents, VersionEvents
<1>3. CASE sent[p] = 0
  <2>1. log' = log \cup {e} /\ UNCHANGED <<pointers, accepted>>
    BY <1>3 DEF Store, Stage, Event
  <2>2. IsFiniteSet(log')
    BY <2>1, FS_AddElement DEF IInv
  <2>3. NewestKept' /\ PointerResolves'
    BY <2>1 DEF IInv, NewestKept, Newest, PointerResolves
  <2> QED
    BY <1>1, <1>3, <2>1, <2>2, <2>3
<1>4. CASE sent[p] = 1
  <2>1. /\ pointers' = pointers \cup {b} /\ accepted' = accepted \cup {b}
        /\ UNCHANGED log
    BY <1>4 DEF Store, Stage, Event
  <2> HIDE DEF e, b
  <2>2. PointerResolves'
    BY <1>1, <1>2, <1>4, <2>1 DEF IInv, PointerResolves
  <2>5. NewestKept'
    BY <1>1, <1>2, <2>1, PointerAdded DEF IInv
  <2>6. IsFiniteSet(log')
    BY <2>1 DEF IInv
  <2>7. b \in accepted' /\ accepted' \subseteq PointerEvents /\ pointers' \subseteq PointerEvents
    BY <1>1, <1>2, <2>1
  <2> QED
    BY <1>1, <1>4, <2>1, <2>2, <2>5, <2>6, <2>7 DEF e, b
<1> QED
  BY <1>1, <1>3, <1>4

(* The frame of the steps that leave the tree and the jobs alone.           *)
LEMMA JobsKept ==
    ASSUME IInv, UNCHANGED <<tree, job>>
    PROVE  HeadsAgree' /\ EventsDated'
BY DEF IInv, tree, HeadsAgree, EventsDated, Dated, Event

LEMMA PublishKeeps ==
    ASSUME IInv, NEW p \in Publishers, Publish(p)
    PROVE  IInv'
<1>1. /\ pc[p] = "publish" /\ Store(p) /\ UNCHANGED <<tree, job>>
      /\ sent' = [sent EXCEPT ![p] = @ + 1]
      /\ pc' = [pc EXCEPT ![p] = IF sent[p] = 1 THEN "done" ELSE @]
  BY DEF Publish, Published
<1>2. sent[p] \in {0, 1} /\ Event(p) \in VersionEvents
  BY <1>1, Shapes DEF IInv, Progress
<1>3. TypeOK'
  <2>1. /\ sent' \in [Publishers -> 0..2]
        /\ pc' \in [Publishers -> {"idle", "extract", "publish", "done", "failed"}]
    BY <1>1, <1>2 DEF IInv, TypeOK
  <2>2. \A q \in Publishers : pc'[q] \in {"extract", "publish", "done"} => job'[q].found \in Jobs
    BY <1>1 DEF IInv, TypeOK
  <2>3. \A q \in Publishers : pc'[q] \in {"publish", "done"} => job'[q].event \in VersionEvents
    BY <1>1 DEF IInv, TypeOK
  <2> QED
    BY <1>1, <2>1, <2>2, <2>3, StoreKeeps DEF IInv, TypeOK, tree
<1>4. Progress'
  <2>1. \A q \in Publishers : Event(q)' = Event(q)
    BY <1>1 DEF Event
  <2> SUFFICES ASSUME NEW q \in Publishers
               PROVE  /\ pc'[q] \in {"idle", "extract"} => sent'[q] = 0 /\ Event(q) = None
                      /\ pc'[q] = "publish" => sent'[q] \in {0, 1}
                      /\ pc'[q] = "done" => sent'[q] = 2
                      /\ Event(q) # None => Event(q).name \in Templates /\ Event(q).flaw = "none"
                                            /\ Event(q).version \in Numbers
                      /\ sent'[q] > 0 => Event(q) # None /\ Event(q) \in log'
                      /\ sent'[q] = 2 => BuildPointerEvent(Event(q)) \in accepted'
    BY <2>1 DEF Progress
  <2>2. CASE q # p
    BY <1>1, <2>2, StoreKeeps DEF IInv, TypeOK, Progress
  <2>3. CASE q = p
    <3>1. sent'[p] = sent[p] + 1 /\ pc'[p] = IF sent[p] = 1 THEN "done" ELSE "publish"
      BY <1>1 DEF IInv, TypeOK
    <3>2. Event(p) # None /\ Event(p) \in log'
      BY <1>1, <1>2, StoreKeeps, NoneIsNoEvent DEF IInv, Progress
    <3> QED
      BY <1>1, <1>2, <2>3, <3>1, <3>2, StoreKeeps DEF IInv, Progress
  <2> QED
    BY <2>2, <2>3
<1>5. HeadsAgree' /\ EventsDated'
  BY <1>1, JobsKept
<1> QED
  BY <1>1, <1>3, <1>4, <1>5, StoreKeeps DEF IInv

(* A publisher that fails, whether or not the relay stored its event.       *)
LEMMA FailKeeps ==
    ASSUME IInv, NEW p \in Publishers, Fail(p), UNCHANGED <<tree, job>>,
           pc[p] \in {"idle", "extract", "publish"},
           UNCHANGED relay \/ (pc[p] = "publish" /\ Store(p))
    PROVE  IInv'
<1>1. pc' = [pc EXCEPT ![p] = "failed"] /\ UNCHANGED sent
  BY DEF Fail
<1>2. /\ log \subseteq log' /\ log' \subseteq VersionEvents /\ IsFiniteSet(log')
      /\ accepted \subseteq accepted' /\ accepted' \subseteq PointerEvents
      /\ pointers' \subseteq PointerEvents
      /\ NewestKept' /\ PointerResolves'
  <2>1. CASE UNCHANGED relay
    BY <2>1 DEF relay, IInv, TypeOK, NewestKept, Newest, PointerResolves
  <2>2. CASE pc[p] = "publish" /\ Store(p)
    BY <2>2, StoreKeeps
  <2> QED
    BY <2>1, <2>2
<1>3. TypeOK'
  <2>1. pc' \in [Publishers -> {"idle", "extract", "publish", "done", "failed"}]
    BY <1>1 DEF IInv, TypeOK
  <2>2. \A q \in Publishers : pc'[q] \in {"extract", "publish", "done"} => job'[q].found \in Jobs
    BY <1>1 DEF IInv, TypeOK
  <2>3. \A q \in Publishers : pc'[q] \in {"publish", "done"} => job'[q].event \in VersionEvents
    BY <1>1 DEF IInv, TypeOK
  <2> QED
    BY <1>1, <1>2, <2>1, <2>2, <2>3 DEF IInv, TypeOK, tree
<1>4. Progress'
  BY <1>1, <1>2 DEF IInv, TypeOK, Progress, Event
<1>5. HeadsAgree' /\ EventsDated'
  BY JobsKept
<1> QED
  BY <1>2, <1>3, <1>4, <1>5 DEF IInv

-----------------------------------------------------------------------------
(* The relay and the other tools.                                           *)
LEMMA CollapseKeeps ==
    ASSUME IInv, NEW e \in pointers, Collapse(e)
    PROVE  IInv'
<1>1. PICK f \in pointers : Dominates(f, e)
  BY DEF Collapse
<1>2. /\ pointers' = pointers \ {e}
      /\ UNCHANGED <<tree, pc, job, sent, log, accepted>>
  BY DEF Collapse
<1>3. \A c \in accepted : c.created_at \in Nat
  BY InputsAssumption DEF IInv, TypeOK, PointerEvents
<1>4. ASSUME NEW a \in accepted PROVE \E n \in pointers' : Newest(n, a)
  <2>1. PICK n \in pointers : Newest(n, a)
    BY DEF IInv, NewestKept
  <2>2. CASE n # e
    BY <1>2, <2>1, <2>2
  <2>3. CASE n = e
    <3>1. f \in pointers' /\ SameStream(a, f) /\ e.created_at <= f.created_at
      BY <1>1, <1>2, <1>3, <2>1, <2>3 DEF Dominates, Newest, SameStream, IInv, NewestKept
    <3>2. \A c \in accepted : SameStream(a, c) => c.created_at <= f.created_at
      BY <1>3, <2>1, <2>3, <3>1 DEF Newest, IInv, NewestKept
    <3> QED
      BY <3>1, <3>2 DEF Newest
  <2> QED
    BY <2>2, <2>3
<1>5. NewestKept'
  BY <1>2, <1>4 DEF NewestKept, Newest, IInv
<1>6. TypeOK'
  BY <1>2 DEF IInv, TypeOK, tree
<1>7. Progress' /\ PointerResolves' /\ IsFiniteSet(log)'
  BY <1>2 DEF IInv, Progress, Event, PointerResolves
<1> QED
  BY <1>2, <1>5, <1>6, <1>7, JobsKept DEF IInv

LEMMA OtherVersionKeeps ==
    ASSUME IInv, NEW e \in Others, OtherVersion(e)
    PROVE  IInv'
<1>1. log' = log \cup {e} /\ UNCHANGED <<tree, pc, job, sent, pointers, accepted>>
  BY DEF OtherVersion
<1>2. TypeOK'
  BY <1>1, InputsAssumption DEF IInv, TypeOK, tree
<1>3. Progress' /\ PointerResolves' /\ NewestKept'
  BY <1>1 DEF IInv, Progress, Event, PointerResolves, NewestKept, Newest
<1>4. IsFiniteSet(log')
  BY <1>1, FS_AddElement DEF IInv
<1> QED
  BY <1>1, <1>2, <1>3, <1>4, JobsKept DEF IInv

LEMMA OtherPointerKeeps ==
    ASSUME IInv, NEW b \in OtherPointers, OtherPointer(b)
    PROVE  IInv'
<1>1. /\ pointers' = pointers \cup {b} /\ accepted' = accepted \cup {b}
      /\ UNCHANGED <<tree, pc, job, sent, log>>
  BY DEF OtherPointer
<1>2. b \in PointerEvents
  BY InputsAssumption
<1>3. TypeOK'
  BY <1>1, <1>2 DEF IInv, TypeOK, tree
<1>4. Progress' /\ PointerResolves' /\ IsFiniteSet(log)'
  BY <1>1 DEF IInv, Progress, Event, PointerResolves
<1>5. NewestKept'
  BY <1>1, <1>2, PointerAdded DEF IInv, TypeOK
<1> QED
  BY <1>1, <1>3, <1>4, <1>5, JobsKept DEF IInv

-----------------------------------------------------------------------------
LEMMA NextKeeps == IInv /\ [Next]_vars => IInv'
<1> SUFFICES ASSUME IInv, [Next]_vars PROVE IInv'
  OBVIOUS
<1>1. ASSUME NEW t \in Templates, NEW v \in Numbers \cup {None, NoReadme}, EditReadme(t, v)
      PROVE  IInv'
  BY <1>1, EditReadmeKeeps
<1>2. ASSUME NEW p \in Publishers, NEW t \in Templates, StartRaises(p, t) PROVE IInv'
  BY <1>2, FailKeeps DEF StartRaises
<1>3. ASSUME NEW touched \in SUBSET Templates, NEW s \in Shas, NEW time \in Times,
             Commit(touched, s, time)
      PROVE  IInv'
  BY <1>3, CommitKeeps
<1>4. ASSUME NEW p \in Publishers, NEW t \in Templates, NEW k \in Keys, NEW s \in Summaries,
             Start(p, t, k, s)
      PROVE  IInv'
  BY <1>4, StartKeeps
<1>5. ASSUME NEW p \in Publishers, Extract(p) PROVE IInv'
  BY <1>5, ExtractKeeps
<1>6. ASSUME NEW p \in Publishers, Publish(p) PROVE IInv'
  BY <1>6, PublishKeeps
<1>7. ASSUME NEW p \in Publishers, PublishRaises(p) PROVE IInv'
  BY <1>7, FailKeeps DEF PublishRaises, Raise
<1>8. ASSUME NEW p \in Publishers, Crash(p) PROVE IInv'
  BY <1>8, FailKeeps DEF Crash
<1>9. ASSUME NEW e \in pointers, Collapse(e) PROVE IInv'
  BY <1>9, CollapseKeeps
<1>10. ASSUME NEW e \in Others, OtherVersion(e) PROVE IInv'
  BY <1>10, OtherVersionKeeps
<1>12. ASSUME NEW q \in OtherPointers, OtherPointer(q) PROVE IInv'
  BY <1>12, OtherPointerKeeps
<1>11. CASE UNCHANGED vars
  <2>1. TypeOK'
    BY <1>11 DEF IInv, TypeOK, vars, tree, relay
  <2>2. Progress' /\ NewestKept' /\ PointerResolves' /\ IsFiniteSet(log)'
    BY <1>11 DEF IInv, Progress, Event, NewestKept, Newest, PointerResolves, vars, relay
  <2> QED
    BY <1>11, <2>1, <2>2, JobsKept DEF IInv, vars
<1> QED
  BY <1>1, <1>2, <1>3, <1>4, <1>5, <1>6, <1>7, <1>8, <1>9, <1>10, <1>11, <1>12 DEF Next

LEMMA IInvHolds == Spec => []IInv
BY InitOK, NextKeeps, PTL DEF Spec

(* Every publisher keeps to its steps, and the relay holds only events of   *)
(* the two kinds (TemplatePublisher, _cmd_publish).                         *)
THEOREM TypeCorrect == Spec => []TypeOK
<1>1. IInv => TypeOK
  BY DEF IInv
<1> QED
  BY <1>1, IInvHolds, PTL

(* No pointer ever dangles: _cmd_publish sends the version first, and       *)
(* nothing that goes wrong later takes it back.                             *)
THEOREM PointersResolve == Spec => []PointerResolves
<1>1. IInv => PointerResolves
  BY DEF IInv
<1> QED
  BY <1>1, IInvHolds, PTL

(* A release published again is the same event, however often it failed:    *)
(* its time is the commit's (extract_template_info, build_version_event).   *)
THEOREM OneRelease == Spec => []OneEventPerRelease
<1>1. IInv => OneEventPerRelease
  <2> SUFFICES ASSUME IInv, NEW e \in Own, NEW f \in Own,
                      e.author = f.author, e.name = f.name, e.version = f.version,
                      e.git_ref = f.git_ref, e.summary = f.summary
               PROVE  e = f
    BY DEF OneEventPerRelease
  <2>1. PICK p \in Publishers : e = Event(p) /\ e # None
    BY DEF Own, Event
  <2>2. PICK q \in Publishers : f = Event(q) /\ f # None
    BY DEF Own, Event
  <2>3. e \in VersionEvents /\ f \in VersionEvents
    BY <2>1, <2>2, Shapes DEF IInv
  <2>4. e.created_at = f.created_at /\ e.flaw = "none" /\ f.flaw = "none"
    BY <2>1, <2>2 DEF IInv, EventsDated, Dated, Progress
  <2> QED
    BY <2>3, <2>4 DEF VersionEvents
<1> QED
  BY <1>1, IInvHolds, PTL

(* A reader follows one of the newest pointers, whether or not the relay    *)
(* collapses them (get_current_pointer).                                    *)
THEOREM FollowsNewest == Spec => []CurrentIsNewest
<1>1. IInv => CurrentIsNewest
  <2> SUFFICES ASSUME IInv, NEW k \in Keys, NEW t \in Names,
                      NEW q \in CurrentPointer(k, t)
               PROVE  /\ q \in accepted /\ q.author = k /\ q.d = t
                      /\ \A r \in accepted :
                            r.author = k /\ r.d = t => r.created_at <= q.created_at
    BY DEF CurrentIsNewest
  <2>1. /\ q \in pointers /\ q.author = k /\ q.d = t
        /\ \A f \in pointers : f.author = k /\ f.d = t => f.created_at <= q.created_at
    BY DEF CurrentPointer, Latest
  <2>2. q \in accepted
    BY <2>1 DEF IInv, NewestKept
  <2>3. ASSUME NEW r \in accepted, r.author = k, r.d = t PROVE r.created_at <= q.created_at
    <3>1. PICK n \in pointers : Newest(n, r)
      BY DEF IInv, NewestKept
    <3>2. n.created_at <= q.created_at /\ r.created_at <= n.created_at
      BY <2>1, <2>3, <3>1 DEF Newest, SameStream
    <3>3. n.created_at \in Nat /\ q.created_at \in Nat /\ r.created_at \in Nat
      BY <2>2, InputsAssumption DEF IInv, TypeOK, PointerEvents
    <3> QED
      BY <3>2, <3>3
  <2> QED
    BY <2>1, <2>2, <2>3
<1> QED
  BY <1>1, IInvHolds, PTL

(* What the command alone has written is a history that can be read.        *)
LEMMA OwnHistory ==
    ASSUME IInv, log \subseteq Own, NEW found \in SUBSET log
    PROVE  ~HistoryRaises(found)
<1>1. ASSUME NEW e \in found
      PROVE  e.flaw = "none" /\ e.name # None /\ e.version # None /\ e.version.numeric = TRUE
  <2>1. PICK p \in Publishers : e = Event(p) /\ e # None
    BY DEF Own, Event
  <2>2. e.flaw = "none" /\ e.name \in Templates /\ e.version \in Numbers
    BY <2>1 DEF IInv, Progress
  <2> QED
    BY <2>2, InputsAssumption DEF Numbers
<1>2. \A e, f \in found : Comparable(e.version, f.version)
  BY <1>1 DEF Comparable
<1> QED
  BY <1>1, <1>2 DEF HistoryRaises

(* What _cmd_publish reports as published can be read back: unless the      *)
(* history cannot be read at all, for which it takes a version of another   *)
(* tool, it holds the version, and the pointer found is to it or was written*)
(* for one committed no earlier (get_version_history, get_current_pointer). *)
THEOREM SuccessIsReadable == Spec => []PublishedIsReadable
<1>1. IInv => PublishedIsReadable
  <2> SUFFICES ASSUME IInv, NEW p \in Publishers, pc[p] = "done"
               PROVE  LET e == Event(p)
                      IN  /\ \A m \in BOOLEAN :
                                LET found == Answer(e.author, e.name, m)
                                IN  /\ HistoryRaises(found) \/ e \in found
                                    /\ log \subseteq Own => ~HistoryRaises(found)
                          /\ CurrentPointer(e.author, e.name) # {}
                          /\ \A q \in CurrentPointer(e.author, e.name) :
                                /\ q.created_at >= e.created_at
                                /\ PointerRaises(q) \/ q.e \in log
    BY DEF PublishedIsReadable, Event
  <2> DEFINE e == Event(p)
             b == BuildPointerEvent(e)
  <2>1. e \in log /\ b \in accepted
    BY DEF IInv, Progress
  <2>2. b.author = e.author /\ b.d = e.name /\ b.created_at = e.created_at
    BY DEF BuildPointerEvent
  <2> HIDE DEF e, b
  <2>3. PICK n \in pointers : Newest(n, b)
    BY <2>1 DEF IInv, NewestKept
  <2>4. \A a \in pointers : a \in accepted
    BY DEF IInv, NewestKept
  <2>5. n \in CurrentPointer(e.author, e.name)
    BY <2>2, <2>3, <2>4 DEF CurrentPointer, Latest, Newest, SameStream
  <2>6. ASSUME NEW q \in CurrentPointer(e.author, e.name) PROVE q.created_at >= e.created_at
    <3>1. q \in pointers /\ n.created_at <= q.created_at
      BY <2>5 DEF CurrentPointer, Latest
    <3>2. e.created_at <= n.created_at
      BY <2>1, <2>2, <2>3 DEF Newest, SameStream
    <3>3. n.created_at \in Nat /\ q.created_at \in Nat /\ e.created_at \in Nat
      BY <2>1, <2>4, <3>1, InputsAssumption DEF IInv, TypeOK, PointerEvents, VersionEvents
    <3> QED
      BY <3>1, <3>2, <3>3
  <2>7. ASSUME NEW q \in CurrentPointer(e.author, e.name) PROVE PointerRaises(q) \/ q.e \in log
    <3>1. q \in accepted
      BY <2>4 DEF CurrentPointer, Latest
    <3>2. CASE q \in OtherPointers
      BY <3>2, InputsAssumption DEF PointerRaises
    <3>3. CASE q \notin OtherPointers
      BY <3>1, <3>3 DEF IInv, PointerResolves
    <3> QED
      BY <3>2, <3>3
  <2>8. ASSUME NEW m \in BOOLEAN
        PROVE  LET found == Answer(e.author, e.name, m)
               IN  /\ HistoryRaises(found) \/ e \in found
                   /\ log \subseteq Own => ~HistoryRaises(found)
    <3>1. e \in Answer(e.author, e.name, m) /\ Answer(e.author, e.name, m) \subseteq log
      BY <2>1 DEF Answer
    <3> QED
      BY <3>1, OwnHistory
  <2> QED
    BY <2>5, <2>6, <2>7, <2>8 DEF e
<1> QED
  BY <1>1, IInvHolds, PTL

-----------------------------------------------------------------------------
(* The outcome of a linkage line against a history and a longer one.        *)
LEMMA LongerHistory ==
    ASSUME NEW l, NEW B, IsFiniteSet(B), NEW A \in SUBSET B,
           Resolve(l, A).status \in {"resolved", "ambiguous", "raises"}
    PROVE  \/ Resolve(l, B) = Resolve(l, A)
           \/ Resolve(l, B).status \in {"ambiguous", "raises"}
<1> DEFINE matches(E) == {e \in E : e.name = l.name /\ e.version = l.version}
<1>1. matches(A) \subseteq matches(B) /\ matches(B) \subseteq B
  OBVIOUS
<1>2. IsFiniteSet(matches(B)) /\ IsFiniteSet(matches(A))
  BY <1>1, FS_Subset
<1>3. CASE HistoryRaises(B)
  BY <1>3 DEF Resolve, Outcome
<1>4. CASE ~HistoryRaises(B) /\ Cardinality(matches(B)) > 1
  <2>1. matches(B) # {}
    BY <1>4, FS_EmptySet
  <2> QED
    BY <1>4, <2>1 DEF Resolve, Outcome, Ambiguous
<1>5. CASE ~HistoryRaises(B) /\ ~(Cardinality(matches(B)) > 1)
  <2>1. ~HistoryRaises(A)
    BY <1>5 DEF HistoryRaises
  <2>2. matches(A) # {}
    BY <2>1 DEF Resolve, Outcome
  <2>3. matches(B) # {}
    BY <1>1, <2>2
  <2>4. Cardinality(matches(B)) = 1
    <3> HIDE DEF matches
    <3>1. Cardinality(matches(B)) \in Nat /\ Cardinality(matches(B)) # 0
      BY <1>2, <2>3, FS_CardinalityType, FS_EmptySet
    <3> QED
      BY <1>5, <3>1
  <2>5. PICK x : matches(B) = {x}
    <3> HIDE DEF matches
    <3> QED
      BY <1>2, <2>4, FS_Singleton
  <2>6. matches(A) = matches(B)
    <3> HIDE DEF matches
    <3> QED
      BY <1>1, <2>2, <2>5
  <2>7. Resolve(l, A) = Resolve(l, B)
    BY <1>5, <2>1, <2>6 DEF Resolve
  <2> QED
    BY <2>7
<1> QED
  BY <1>3, <1>4, <1>5

(* The relay never forgets a version event.                                 *)
LEMMA LogGrows == IInv /\ [Next]_vars => log \subseteq log'
<1> SUFFICES ASSUME IInv, [Next]_vars PROVE log \subseteq log'
  OBVIOUS
<1>1. ASSUME NEW p \in Publishers, pc[p] = "publish", Store(p) PROVE log \subseteq log'
  BY <1>1, StoreKeeps
<1>2. ASSUME NEW p \in Publishers, Extract(p) \/ Publish(p) \/ PublishRaises(p) \/ Crash(p)
      PROVE  log \subseteq log'
  BY <1>1, <1>2 DEF Extract, Publish, PublishRaises, Crash, relay
<1>3. ASSUME NEW e, Collapse(e) \/ OtherVersion(e) \/ OtherPointer(e) PROVE log \subseteq log'
  BY <1>3 DEF Collapse, OtherVersion, OtherPointer
<1>4. ASSUME NEW t, NEW v, EditReadme(t, v) PROVE log \subseteq log'
  BY <1>4 DEF EditReadme, relay
<1>5. ASSUME NEW touched, NEW s, NEW time, Commit(touched, s, time) PROVE log \subseteq log'
  BY <1>5 DEF Commit, relay
<1>6. ASSUME NEW p, NEW t, NEW k, NEW s, Start(p, t, k, s) \/ StartRaises(p, t)
      PROVE  log \subseteq log'
  BY <1>6 DEF Start, StartRaises, relay
<1>7. CASE UNCHANGED vars
  BY <1>7 DEF vars, relay
<1> QED
  BY <1>2, <1>3, <1>4, <1>5, <1>6, <1>7 DEF Next

(* A linkage line never comes to mean another version: more events make it  *)
(* ambiguous, or the history unreadable, and nothing else                   *)
(* (resolve_linkage, get_version_history).                                  *)
THEOREM LinkagesStable == Spec => LinkageIsStable
<1> DEFINE Stable ==
        \A l \in Linkages, k \in Keys, m \in BOOLEAN :
            ResolveLinkage(l, k, m).status \in {"resolved", "ambiguous", "raises"} =>
              \/ ResolveLinkage(l, k, m)' = ResolveLinkage(l, k, m)
              \/ ResolveLinkage(l, k, m)'.status \in {"ambiguous", "raises"}
<1>1. IInv /\ IInv' /\ [Next]_vars => Stable
  <2> SUFFICES ASSUME IInv, IInv', [Next]_vars,
                      NEW l \in Linkages, NEW k \in Keys, NEW m \in BOOLEAN,
                      ResolveLinkage(l, k, m).status \in {"resolved", "ambiguous", "raises"}
               PROVE  \/ ResolveLinkage(l, k, m)' = ResolveLinkage(l, k, m)
                      \/ ResolveLinkage(l, k, m)'.status \in {"ambiguous", "raises"}
    OBVIOUS
  <2> DEFINE A == Answer(k, l.name, m)
             B == Answer(k, l.name, m)'
  <2>1. log \subseteq log' /\ IsFiniteSet(log')
    BY LogGrows DEF IInv
  <2>2. A \subseteq B /\ B \subseteq log'
    BY <2>1 DEF Answer
  <2>3. IsFiniteSet(B)
    BY <2>1, <2>2, FS_Subset
  <2>4. ResolveLinkage(l, k, m) = Resolve(l, A) /\ ResolveLinkage(l, k, m)' = Resolve(l, B)
    BY DEF ResolveLinkage
  <2> HIDE DEF A, B
  <2> QED
    BY <2>2, <2>3, <2>4, LongerHistory
<1> QED
  BY <1>1, IInvHolds, NextKeeps, PTL DEF Spec, LinkageIsStable
===============================================================================
