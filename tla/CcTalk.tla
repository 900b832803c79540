-------------------------------- MODULE CcTalk -------------------------------
(***************************************************************************)
(* The driver of the ccTalk coin acceptor (components/cctalk): the state   *)
(* the FSM task sets, the START and STOP it puts in the mailbox, the task  *)
(* that takes them, talks to the acceptor and polls it, and the task that  *)
(* starts the acceptor at boot.  The coins are in module CoinEvents.       *)
(***************************************************************************)
EXTENDS Naturals, Sequences

CONSTANTS
    CommandSlots,  \* bound: commands the mailbox has room for
    LinkAtBoot     \* whether the acceptor answers at boot: a subset of BOOLEAN

ASSUME CcTalkAssumption == CommandSlots \in Nat /\ LinkAtBoot \subseteq BOOLEAN

VARIABLES
    logical,   \* s_logical_state, the last state set with success
    commands,  \* the START and STOP waiting in the mailbox
    booting,   \* the start at boot is still to be done
    enabled,   \* s_acceptor_enabled: the acceptor was told to accept coins
    online,    \* s_acceptor_online
    link       \* environment: the acceptor answers

cctalk == <<logical, commands, booting, enabled, online, link>>

LogicalStates == {"ACTIVE", "SUSPENDED", "OOS"}
Command(s)    == IF s = "ACTIVE" THEN "START" ELSE "STOP"

CcTalkTypeOK ==
    /\ logical \in LogicalStates
    /\ commands \in Seq({"START", "STOP"}) /\ Len(commands) <= CommandSlots
    /\ booting \in BOOLEAN
    /\ enabled \in BOOLEAN /\ online \in BOOLEAN /\ link \in BOOLEAN

\* off, as the driver's variables are, until the task at boot has started it
CcTalkInit ==
    /\ logical = "ACTIVE" /\ commands = <<>> /\ booting = TRUE
    /\ link \in LinkAtBoot /\ enabled = FALSE /\ online = FALSE

\* what the callers of cctalk_driver_set_state see and change: other events
\* may leave the mailbox no slots
Setting(slots) == [logical |-> logical, commands |-> commands, slots |-> slots]

\* bug: nobody looks whether the mailbox has room
SetStateUnbounded(c, s) ==
    [c EXCEPT !.logical = s, !.commands = Append(@, Command(s))]

\* cctalk_driver_set_state: nothing changes when the mailbox is full
SetState(c, s) ==
    IF Len(c.commands) < c.slots
    THEN [c EXCEPT !.logical = s, !.commands = Append(@, Command(s))]
    ELSE c

Publish(c) == logical' = c.logical /\ commands' = c.commands

\* cctalk_driver_start_acceptor: address poll, masks, master inhibit; a step
\* without an answer leaves everything as it was
AcceptorStarted ==
    /\ enabled' = (enabled \/ link)
    /\ online' = (online \/ link)

\* main_cctalk_start_acceptor_task, beside the FSM task, once
BootStart ==
    /\ booting /\ booting' = FALSE
    /\ AcceptorStarted
    /\ UNCHANGED <<logical, commands, link>>

Take(command) == commands # <<>> /\ Head(commands) = command /\ commands' = Tail(commands)

StartTaken ==
    /\ Take("START")
    /\ AcceptorStarted
    /\ UNCHANGED <<logical, booting, link>>

\* bug: an acceptor that does not answer is taken to be stopped already
StopTakenIfOnline ==
    /\ Take("STOP")
    /\ enabled' = (enabled /\ ~link)
    /\ online' = FALSE
    /\ UNCHANGED <<logical, booting, link>>

\* cctalk_driver_stop_acceptor: off whatever the acceptor answers
StopTaken ==
    /\ Take("STOP")
    /\ enabled' = FALSE
    /\ online' = FALSE
    /\ UNCHANGED <<logical, booting, link>>

\* cctalk_poll_once in each turn while enabled, and the start again of an
\* acceptor offline: online is what the last polls, or their want, say
Polled ==
    /\ commands = <<>> /\ enabled /\ online # link
    /\ online' = link
    /\ UNCHANGED <<logical, commands, booting, enabled, link>>

CcTalkTask == StartTaken \/ StopTaken \/ Polled

\* fsm_mailbox_drop_expired_locked: a command the acceptor's task has been too
\* slow to take is dropped, the oldest first
Expired ==
    /\ commands # <<>> /\ commands' = Tail(commands)
    /\ UNCHANGED <<logical, booting, enabled, online, link>>

\* environment: the cable, or the power of the acceptor, comes and goes
LinkChanged ==
    /\ link' = ~link
    /\ UNCHANGED <<logical, commands, booting, enabled, online>>

=============================================================================
