------------------------------ MODULE RelayPort ------------------------------
(***************************************************************************)
(* What core/relay.py promises its callers, and nothing of how it keeps the*)
(* promise: no connection, no frames, no authentication, no reader.  A call*)
(* is made once, takes effect while it is pending, and returns once.       *)
(* RelayClient implements this module (PortSpec there).                    *)
(***************************************************************************)
CONSTANTS
    Publishers, Queriers, Subscribers,  (* tasks, by the call they make *)
    Events, EventOf,                    (* EventOf[p] is what p publishes *)
    Forged, Blocked, Preloaded, Foreign (* as in RelayClient *)

Tasks == Publishers \cup Queriers \cup Subscribers

Errors == {"refused", "relayError", "timeout", "connClosed", "stopped"}

VARIABLES
    log,       \* the events the relay holds
    phase,     \* where the call of each task is
    outcome,   \* how it ended
    known,     \* what a querier could expect when it called
    delivered  \* what the caller was handed

portVars == <<log, phase, outcome, known, delivered>>

PortInit ==
    /\ log = Preloaded
    /\ phase = [t \in Tasks |-> "idle"]
    /\ outcome = [t \in Tasks |-> "none"]
    /\ known = [t \in Tasks |-> {}]
    /\ delivered = [t \in Tasks |-> {}]

Snapshot(t) ==
    known' = IF t \in Queriers THEN [known EXCEPT ![t] = log \ Forged] ELSE known

Call(t) ==
    /\ phase[t] = "idle"
    /\ phase' = [phase EXCEPT ![t] = "pending"]
    /\ Snapshot(t)
    /\ UNCHANGED <<log, outcome, delivered>>

(* Without a connection the call ends where it began.                       *)
CallFails(t) ==
    /\ phase[t] = "idle"
    /\ phase' = [phase EXCEPT ![t] = "done"]
    /\ \E r \in Errors : outcome' = [outcome EXCEPT ![t] = r]
    /\ Snapshot(t)
    /\ UNCHANGED <<log, delivered>>

(* The relay accepts what a call publishes, perhaps after the call gave up. *)
Accept(p) ==
    /\ phase[p] # "idle"
    /\ EventOf[p] \notin Blocked
    /\ log' = log \cup {EventOf[p]}
    /\ UNCHANGED <<phase, outcome, known, delivered>>

OthersAccepted(e) ==
    /\ e \notin Blocked
    /\ log' = log \cup {e}
    /\ UNCHANGED <<phase, outcome, known, delivered>>

Deliver(s, e) ==
    /\ phase[s] = "pending"
    /\ e \in log \ Forged
    /\ delivered' = [delivered EXCEPT ![s] = @ \cup {e}]
    /\ UNCHANGED <<log, phase, outcome, known>>

Return(t, r) ==
    /\ phase[t] = "pending"
    /\ phase' = [phase EXCEPT ![t] = "done"]
    /\ outcome' = [outcome EXCEPT ![t] = r]
    /\ UNCHANGED <<log, known>>

Published(p) ==
    /\ EventOf[p] \in log
    /\ Return(p, "ok")
    /\ UNCHANGED delivered

(* A query that returns has everything that was there when it was called.   *)
Answered(q) ==
    /\ \E found \in SUBSET (log \ Forged) :
          /\ known[q] \subseteq found
          /\ delivered' = [delivered EXCEPT ![q] = found]
    /\ Return(q, "ok")

Fails(t) ==
    /\ \E r \in Errors : Return(t, r)
    /\ UNCHANGED delivered

PortNext ==
    \/ \E t \in Tasks : Call(t) \/ CallFails(t) \/ Fails(t)
    \/ \E p \in Publishers : Accept(p) \/ Published(p)
    \/ \E q \in Queriers : Answered(q)
    \/ \E e \in Foreign : OthersAccepted(e)
    \/ \E s \in Subscribers, e \in Events : Deliver(s, e)

PortSpec == PortInit /\ [][PortNext]_portVars
==============================================================================
