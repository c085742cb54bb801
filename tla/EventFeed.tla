------------------------------ MODULE EventFeed ------------------------------
(***************************************************************************)
(* What the bus promises a consumer, with none of its machinery: from the  *)
(* moment it joins to the moment it leaves, every event published is due   *)
(* to it once, and leaves `due' by being delivered.  Only two things can   *)
(* take an event away: the consumer having more than Capacity events due,  *)
(* or the feed being shut.                                                 *)
(***************************************************************************)
EXTENDS Integers, FiniteSets, Sequences

CONSTANTS Consumers, Capacity

VARIABLES
    published,  \* number of events published
    open,       \* whether the feed is running
    members,    \* consumers that joined and did not leave
    due,        \* per consumer, the events published and not yet handed to it
    delivered   \* per consumer, the events it was handed

vars == <<published, open, members, due, delivered>>

Init ==
    /\ published = 0
    /\ open = FALSE
    /\ members = {}
    /\ due = [c \in Consumers |-> {}]
    /\ delivered = [c \in Consumers |-> <<>>]

(* An event becomes due to all members at the moment it is published.      *)
Publish ==
    /\ published' = published + 1
    /\ due' = [c \in Consumers |-> IF c \in members THEN due[c] \cup {published + 1}
                                                    ELSE due[c]]
    /\ UNCHANGED <<open, members, delivered>>

Join(c) ==
    /\ c \notin members
    /\ due[c] = {} /\ delivered[c] = <<>>
    /\ members' = members \cup {c}
    /\ UNCHANGED <<published, open, due, delivered>>

Leave(c) ==
    /\ c \in members
    /\ members' = members \ {c}
    /\ UNCHANGED <<published, open, due, delivered>>

Deliver(c) ==
    /\ c \in members
    /\ \E n \in due[c] :
          /\ delivered' = [delivered EXCEPT ![c] = Append(@, n)]
          /\ due' = [due EXCEPT ![c] = @ \ {n}]
    /\ UNCHANGED <<published, open, members>>

(* Consumers with more due than their capacity lose one event each.        *)
Shed ==
    /\ due' \in [Consumers -> SUBSET (1..published)]
    /\ \A c \in Consumers :
          \/ due'[c] = due[c]
          \/ /\ Cardinality(due[c]) > Capacity
             /\ \E n \in due[c] : due'[c] = due[c] \ {n}
    /\ UNCHANGED <<published, open, members, delivered>>

Open  == ~open /\ open' = TRUE /\ UNCHANGED <<published, members, due, delivered>>

(* Shutting the feed, and a shut feed, may lose anything.                  *)
Shut ==
    /\ open' = FALSE
    /\ due' \in [Consumers -> SUBSET (1..published)]
    /\ \A c \in Consumers : due'[c] \subseteq due[c]
    /\ UNCHANGED <<published, members, delivered>>

Next ==
    \/ Publish
    \/ \E c \in Consumers : Join(c) \/ Leave(c) \/ Deliver(c)
    \/ Shed
    \/ Open
    \/ Shut

Spec == Init /\ [][Next]_vars

=============================================================================
