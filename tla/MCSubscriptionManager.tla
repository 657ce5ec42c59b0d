------------------------ MODULE MCSubscriptionManager ------------------------
(* Model-checking instance of SubscriptionManager. The application may be     *)
(* free of all discipline; it may await each call it makes before the next;   *)
(* or it may also be tidy, and subscribe an object only while its public `id' *)
(* is undefined: before its first use, or once it was unsubscribed. The nodes *)
(* of an application with a discipline refuse only what they cannot do.       *)
EXTENDS SubscriptionManager, TLC

CONSTANT Disciplines
ASSUME DisciplinesAssumption == Disciplines \subseteq {"free", "awaits", "tidy"}

VARIABLE discipline

Symmetry == Permutations(Subs) \cup Permutations(Ids) \cup Permutations(Slots)
            \cup Permutations(Streaming)

Serves(c) == Sent(c, "unsubscribe") /\ calls[c].of \in live /\ source[calls[c].of] = calls[c].at

Progress ==
    \/ \E i \in Ids : Notification(i)
    \/ \E c \in Busy :
          \/ SubscribeAnswered(c) \/ SubscribeRegisters(c)
          \/ UnsubscribeAnswered(c) \/ UnsubscribeRemoves(c)
          \/ ~Serves(c) /\ UnsubscribeFails(c)

(* The calls of the application that it can wait for.                         *)
Own == {c \in Busy : calls[c].kind = "unsubscribe" => calls[c].awaited}

MCInit == Init /\ discipline \in Disciplines
MCNext ==
    /\ UNCHANGED discipline
    /\ \/ discipline = "free" /\ Next
       \/ discipline # "free" /\ Progress
       \/ /\ discipline # "free" /\ Own = {}
          /\ \/ Manages
             \/ \E s \in Subs : (discipline = "tidy" => id[s] = NoId) /\ Subscribe(s)
             \/ \E s \in Subs : Unsubscribe(s)
MCSpec == MCInit /\ [][MCNext]_<<vars, discipline>>

(* A stream that unsubscribe() stops: it is registered, its subscription has  *)
(* its id to send, and the present provider is the one that serves it.        *)
Stoppable(i) == i \in Registered /\ id[subs[i]] = i /\ source[i] = provider

(* A tidy application leaks no stream, through any sequence of subscriptions, *)
(* removals and provider changes, though it cannot wait for the removals that *)
(* a change of provider starts: whatever a node still serves can be stopped   *)
(* by unsubscribe(), or a removal that will reach it is under way, or its     *)
(* registration is.                                                           *)
NoOrphanStreams ==
    discipline = "tidy" => \A i \in live :
       \/ Stoppable(i)
       \/ \E c \in Busy : Serves(c) /\ calls[c].of = i
       \/ \E c \in Busy : Answered(c, "subscribe") /\ id[calls[c].sub] = i

(* Why: the entries of the map are streams of the present provider, or their  *)
(* removal is about to delete them; a removal under way still reaches its     *)
(* stream, no two removals are after the same one, and those nobody waits for *)
(* are after none in the map; a subscribe call is the application's only one, *)
(* its subscription is registered under no id, and has none until the answer. *)
EntriesServed ==
    \A i \in Registered :
       \/ i \in live /\ Stoppable(i)
       \/ \E c \in Own : Answered(c, "unsubscribe") /\ calls[c].of = i
RemovalsServed ==
    \A c \in Busy : Sent(c, "unsubscribe") => Serves(c) /\ id[calls[c].sub] = calls[c].of
RemovalsApart ==
    \A c, d \in Busy :
       /\ calls[c].kind = "unsubscribe" /\ calls[d].kind = "unsubscribe"
       /\ calls[c].of = calls[d].of
       => c = d
UnawaitedApart == \A c \in Busy \ Own : calls[c].of \notin Registered
SubscribesAlone ==
    \A c \in Busy : calls[c].kind = "subscribe" =>
       /\ Own = {c} /\ calls[c].at = provider
       /\ \A i \in Registered : subs[i] # calls[c].sub
       /\ calls[c].stage = "sent" => id[calls[c].sub] = NoId
       /\ calls[c].stage = "answered" =>
             /\ id[calls[c].sub] \in live /\ source[id[calls[c].sub]] = provider
             /\ \A d \in Busy \ {c} : calls[d].of # id[calls[c].sub]

(* The inductive invariant of the manager under such an application.          *)
OrderlyInv ==
    /\ Inv
    /\ discipline = "tidy" =>
          EntriesServed /\ RemovalsServed /\ RemovalsApart /\ UnawaitedApart /\ SubscribesAlone
    /\ NoOrphanStreams

-----------------------------------------------------------------------------
(* What comments, tests and documents say and the code does not do.           *)

(* "this will send `qrl_unsubscribe` to stop the subscription", for an        *)
(* application that awaits each of its calls and nodes that do what they can: *)
(* see UnsubscribeReachesNode.                                                *)
AwaitedCallsSuffice == discipline = "awaits" => UnsubscribeReachesNode
=============================================================================
