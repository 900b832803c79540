------------------------------- MODULE Mailbox ------------------------------
(***************************************************************************)
(* The mailbox of main/fsm.c: one ring of slots shared by all the agents,  *)
(* each slot with the mask of the recipients that have not read it yet.    *)
(* Every operation holds s_mb_mutex for all it does to the ring, so it is  *)
(* one step; an operation that does not get the mutex in time changes      *)
(* nothing.  The time stamp of a slot is modelled by its age, which stops  *)
(* at TTL + 1.  s_mb_signal is left out: a reader polls the ring every 2   *)
(* ms whatever the semaphore says.  The event left behind in a slot read   *)
(* by all is never read again, and is modelled as no event.                *)
(***************************************************************************)
EXTENDS Integers, FiniteSets, Ranks

CONSTANTS
    Agents,      \* agn_id_t
    Readers,     \* agents whose task calls fsm_event_receive
    DefaultTo,   \* AGN_ID_FSM
    Targets,     \* sets of recipients the publishers use, {} for none given
    Events, NoEvent,
    Size,        \* FSM_MAILBOX_SIZE
    TTL          \* FSM_MAILBOX_TTL_MS, in units of the clock

ASSUME MailboxAssumption ==
    /\ Readers \subseteq Agents
    /\ DefaultTo \in Readers
    /\ Targets \subseteq SUBSET Agents
    /\ NoEvent \notin Events
    /\ Size \in Nat \ {0, 1}
    /\ TTL \in Nat

VARIABLES
    slots,       \* s_mailbox
    head, tail,  \* s_mb_head, s_mb_tail
    given        \* the event this step gave a reader, and to whom

ring == <<slots, head, tail>>
mbVars == <<ring, given>>

Index   == 0..Size - 1
Nothing == [to |-> DefaultTo, ev |-> NoEvent]
Free    == [ev |-> NoEvent, to |-> {}, age |-> 0]

\* type correctness of the ring
MailboxTypeOK ==
    /\ slots \in [Index -> [ev : Events \cup {NoEvent}, to : SUBSET Agents, age : 0..TTL + 1]]
    /\ head \in Index
    /\ tail \in Index
    /\ given \in [to : Agents, ev : Events \cup {NoEvent}]

\* how many slots the loop visits before slot i
Behind(i) == (i - head + Size) % Size

Queued(i) == Behind(i) < Behind(tail)

\* the first of some slots the loop comes to
Oldest(some) == CHOOSE i \in some : \A j \in some : Behind(i) <= Behind(j)

Mask(to) == IF to = {} THEN {DefaultTo} ELSE to

\* bug: the head moves over one slot only
SkipOne(mailbox) ==
    IF head # tail /\ mailbox[head].to = {} THEN (head + 1) % Size ELSE head

\* the loops that move the head over slots with an empty mask
SkipRead(mailbox) ==
    LET awaited == {i \in Index : Queued(i) /\ mailbox[i].to # {}}
    IN  IF awaited = {} THEN tail ELSE Oldest(awaited)

\* bug: a reader throws away only what the FSM has not read
ExpiredForFsm(slot) == DefaultTo \in slot.to /\ slot.age > TTL

Expired(slot) == slot.to # {} /\ slot.age > TTL

\* fsm_mailbox_drop_expired_locked, the slots
DropExpired ==
    [i \in Index |-> IF Queued(i) /\ Expired(slots[i]) THEN Free ELSE slots[i]]

\* bug: the first reader frees the slot
TakenByAll(slot, a) == Free

\* one reader less; the slot is free when it was the last
TakenBy(slot, a) ==
    IF slot.to = {a} THEN Free ELSE [slot EXCEPT !.to = @ \ {a}]

MailboxInit ==
    /\ slots = [i \in Index |-> Free]
    /\ head = 0 /\ tail = 0
    /\ given = Nothing

\* bug: the tail does not wrap
NextTailUnwrapped == tail + 1

NextTail == (tail + 1) % Size

Full == NextTail = head

\* fsm_event_publish and fsm_event_publish_from_isr; refused when full, which
\* changes nothing
Publish(to, ev) ==
    /\ ~Full
    /\ slots' = [slots EXCEPT ![tail] = [ev |-> ev, to |-> Mask(to), age |-> 0]]
    /\ tail' = NextTail
    /\ given' = Nothing
    /\ UNCHANGED head

\* one scan of fsm_event_receive: what is too old goes first, for all readers
Receive(a) ==
    LET kept == DropExpired
        mine == {i \in Index : Queued(i) /\ a \in kept[i].to}
        rest == [kept EXCEPT ![Oldest(mine)] = TakenBy(@, a)]
    IN  /\ IF mine = {}
           THEN /\ slots' = kept
                /\ head' = SkipRead(kept)
                /\ given' = Nothing
           ELSE /\ slots' = rest
                /\ head' = SkipRead(rest)
                /\ given' = [to |-> a, ev |-> kept[Oldest(mine)].ev]
        /\ UNCHANGED tail

\* the tick count of the kernel
Age ==
    /\ slots' = [i \in Index |->
                    IF slots[i].to = {} \/ slots[i].age > TTL THEN slots[i]
                    ELSE [slots[i] EXCEPT !.age = @ + 1]]
    /\ given' = Nothing
    /\ UNCHANGED <<head, tail>>

MailboxNext ==
    \/ \E to \in Targets, ev \in Events : Publish(to, ev)
    \/ \E a \in Readers : Receive(a)
    \/ Age

\* Time passes, and the task of the default recipient, the FSM, polls in each
\* turn of its loop; the other readers may be blocked or suspended for good.
MailboxSpec ==
    /\ MailboxInit
    /\ [][MailboxNext]_mbVars
    /\ WF_mbVars(Age)
    /\ WF_mbVars(Receive(DefaultTo))

-----------------------------------------------------------------------------

\* Only slots between head and tail hold events, and the oldest of them is
\* still awaited: a slot is freed by whoever reads it last, although readers
\* finish in any order and holes stay between slots still awaited.
RingIsTidy ==
    /\ \A i \in Index : slots[i].to # {} => Queued(i)
    /\ head # tail => slots[head].to # {}

\* the slots a loop from the head to the tail finds addressed to an agent, by
\* how many it visits before them
Found(a) == {k \in 0..Behind(tail) - 1 : a \in slots[(head + k) % Size].to}

InboxOf(a) ==
    LET found == Found(a)
    IN  [n \in 1..Cardinality(found) |->
            LET slot == slots[(head + Nth(found, n)) % Size]
            IN  [ev |-> slot.ev, age |-> slot.age]]

Bus == INSTANCE EventBus WITH inbox <- [a \in Agents |-> InboxOf(a)]

\* The shared ring gives every agent a private inbox: no event is read twice by
\* an agent, skipped, reordered or delivered too old because another agent
\* reads the same slots (fsm_event_receive, "FIX consegna multi-destinatario").
ImplementsBus == Bus!BusSpec

\* A full mailbox gets room again although its events are addressed to agents
\* that never read or have stopped reading: the FSM task alone throws away what
\* is too old, whoever it is for.
RoomComesBack == Full ~> ~Full

=============================================================================
