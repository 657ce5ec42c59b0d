---------------------------- MODULE RequestTable ----------------------------
(***************************************************************************)
(* What the provider promises its callers, with no sockets, queues, timers  *)
(* or reconnection: requests take ids, hold them while they wait, and give  *)
(* all of them back in the step that settles them.                          *)
(*                                                                         *)
(* One handler of the provider may settle several requests and admit others *)
(* (a handshake that completes, a teardown), so a step does both at once.   *)
(***************************************************************************)
EXTENDS Integers, FiniteSets

CONSTANTS Items, Ids, MaxInFlight, NoItem

VARIABLES
    holder,   \* the request that holds each id, NoItem if it is free
    outcome   \* the promise of each request

\* Each id is held by a request that waits, or is free.
HeldIds == {id \in Ids : holder[id] # NoItem}

Init ==
    /\ holder = [id \in Ids |-> NoItem]
    /\ outcome = [i \in Items |-> "unused"]

\* What may become of one promise in a step: a request that was never admitted
\* cannot be answered, and a settled one never changes.
Allowed(before, after) ==
    \/ after = before
    \/ before = "unused" /\ after \in {"waiting", "rejected"}
    \/ before = "waiting" /\ after \in {"resolved", "rejected"}

Next ==
    /\ outcome' \in [Items -> {"unused", "waiting", "resolved", "rejected"}]
    /\ holder' \in [Ids -> Items \cup {NoItem}]
    /\ \A i \in Items : Allowed(outcome[i], outcome'[i])
    \* an id changes hands only from a request that is settled, or from nobody,
    \* to a request that was just admitted, or to nobody
    /\ \A id \in Ids : holder'[id] # holder[id] =>
          /\ holder[id] # NoItem => outcome'[holder[id]] # "waiting"
          /\ holder'[id] # NoItem => outcome[holder'[id]] = "unused"
    \* a waiting request holds an id, a settled one holds none
    /\ \A i \in Items : outcome'[i] = "waiting" <=> \E id \in Ids : holder'[id] = i
    /\ Cardinality(HeldIds') <= MaxInFlight

Spec == Init /\ [][Next]_<<holder, outcome>>

=============================================================================
