------------------------------ MODULE EventBus ------------------------------
(***************************************************************************)
(* What the mailbox of main/fsm.c promises to the agents of the machine: a *)
(* private first-in first-out inbox for each of them, fed by every event   *)
(* addressed to it.  An event leaves an inbox by being read, once, or by   *)
(* growing older than TTL; a publication may be refused.                   *)
(***************************************************************************)
EXTENDS Integers, Sequences, Ranks

CONSTANTS
    Agents,      \* agn_id_t
    DefaultTo,   \* the agent an event without recipients goes to
    Events,
    NoEvent,
    TTL          \* FSM_MAILBOX_TTL_MS, in units of the clock

VARIABLES
    inbox,       \* of each agent, oldest first
    given        \* what this step delivers: reader and event

busVars == <<inbox, given>>

Nothing == [to |-> DefaultTo, ev |-> NoEvent]

Older(age) == IF age > TTL THEN age ELSE age + 1

\* the places of an inbox whose event is not too old
Fresh(box) == {i \in DOMAIN box : box[i].age <= TTL}

BusInit ==
    /\ inbox = [a \in Agents |-> <<>>]
    /\ given = Nothing

\* one publication reaches all its recipients or none
BusPublish(to, ev) ==
    /\ given' = Nothing
    /\ inbox' = [a \in Agents |->
                    IF a \in to THEN Append(inbox[a], [ev |-> ev, age |-> 0])
                    ELSE inbox[a]]

\* a reader gets its oldest event that is not too old
BusDeliver(a) ==
    \E first \in Fresh(inbox[a]) :
        /\ \A i \in Fresh(inbox[a]) : first <= i
        /\ given' = [to |-> a, ev |-> inbox[a][first].ev]
        /\ inbox' = [b \in Agents |->
                        KeepAt(inbox[b],
                               Fresh(inbox[b]) \ IF b = a THEN {first} ELSE {})]

\* a reader that finds nothing
BusExpire(a) ==
    /\ Fresh(inbox[a]) = {}
    /\ inbox' = [b \in Agents |-> KeepAt(inbox[b], Fresh(inbox[b]))]
    /\ given' = Nothing

BusTick ==
    /\ inbox' = [a \in Agents |->
                    [i \in DOMAIN inbox[a] |->
                        [inbox[a][i] EXCEPT !.age = Older(@)]]]
    /\ given' = Nothing

BusNext ==
    \/ \E to \in (SUBSET Agents) \ {{}}, ev \in Events : BusPublish(to, ev)
    \/ \E a \in Agents : BusDeliver(a) \/ BusExpire(a)
    \/ BusTick

BusSpec == BusInit /\ [][BusNext]_busVars

=============================================================================
