---------------------------- MODULE FsmSupervisor ----------------------------
(***************************************************************************)
(* The loop of the FSM task (main/tasks.c, fsm_task): each turn takes one  *)
(* event, lets the time pass, goes in and out of service, sets the coin    *)
(* acceptor after the state, and verifies what it has set.  The acceptor   *)
(* is module CcTalk, the relays are in ProgramOutputs.                     *)
(* Each turn is five steps, between which the acceptor's task runs.        *)
(*                                                                         *)
(* Left out: the scanner's state, set by a call that takes effect at once  *)
(* and verified by comparing the same variable; the MDB reader, which is   *)
(* in MdbEngine, but for the request for out of service it may end in;     *)
(* pages and logs.                                                         *)
(***************************************************************************)
EXTENDS FsmTurn, CcTalk

CONSTANTS
    MaxAttempts,  \* tasks_state_retry_max_attempts
    MaxFaults     \* bound on the faults of the environment

ASSUME SupervisorAssumption == MaxAttempts \in Nat \ {0} /\ MaxFaults \in Nat

VARIABLES
    runtimeOos,   \* the flag of tasks_is_out_of_service_state
    requested,    \* s_oos_requested
    focus,        \* out_of_service_agent
    retry,        \* cctalk_retry
    scanner,      \* environment: usb_cdc_scanner_is_connected
    rs485,        \* environment: the Modbus probe succeeds
    faults,
    watch         \* history: what becomes of the last setting, see Watches

turn  == <<phase, before>>
oos   == <<runtimeOos, requested, focus>>
env   == <<scanner, rs485, faults>>
svars == <<life, cctalk, turn, oos, retry, env, watch>>

Fault == faults < MaxFaults /\ faults' = faults + 1

\* a mailbox the other tasks have filled is a fault
Room == {0, CommandSlots}
FilledBy(slots) == IF slots < CommandSlots THEN Fault ELSE UNCHANGED faults

Agents == {"RS485", "CCTALK", "MDB"}
\* a verification follows; none does, or it was over before the command was taken;
\* and the command was dropped or not heard, or has left before, or never came
Watches == {"watched", "unwatched", "lost"}

\* nothing more is known of what waits in the mailbox, or has left it
Unwatched == watch' = IF commands' = <<>> THEN "lost" ELSE "unwatched"

NoRetry == [timer |-> "off", attempts |-> 0, desired |-> "ACTIVE"]

SupervisorTypeOK ==
    /\ TurnTypeOK /\ CcTalkTypeOK
    /\ runtimeOos \in BOOLEAN
    /\ requested \in Agents \cup {"NONE"} /\ focus \in Agents \cup {"NONE"}
    /\ retry \in [timer : {"off", "armed", "due"}, attempts : 0..MaxAttempts,
                  desired : LogicalStates]
    /\ scanner \in BOOLEAN /\ rs485 \in BOOLEAN /\ faults \in 0..MaxFaults
    /\ watch \in Watches

SupervisorInit ==
    /\ TurnInit /\ CcTalkInit
    /\ runtimeOos = FALSE /\ focus = "NONE"
    /\ retry = NoRetry
    /\ scanner \in BOOLEAN /\ rs485 \in BOOLEAN /\ faults = 0
    /\ requested = IF rs485 THEN "NONE" ELSE "RS485"
    /\ watch = "unwatched"

-----------------------------------------------------------------------------
(* The event and the time *)

\* fsm_event_receive and fsm_handle_input_event
TakeEvent ==
    /\ Phase("event", "tick")
    /\ \E event \in Events : Handled(event)
    /\ UNCHANGED <<cctalk, before, oos, retry, env, watch>>

\* the start at boot is over by the time the first verification is due
Elapse(timers) ==
    /\ Phase("tick", "service")
    /\ timers = "due" => ~booting
    /\ Ticked
    /\ retry' = IF retry.timer = "armed" THEN [retry EXCEPT !.timer = timers] ELSE retry
    /\ UNCHANGED <<cctalk, before, oos, env, watch>>

\* now_tick is read and fsm_tick run; the time of a verification may have come
TakeTick == \E timers \in {"armed", "due"} : Elapse(timers)

-----------------------------------------------------------------------------
(* In and out of service *)

\* tasks_health_check: the agent found at fault.  The remote services never
\* are (DNA_HTTP_SERVICES_NON_BLOCKING).
HealthCheck(agent) ==
    IF agent \in {"NONE", "RS485"} /\ ~rs485 THEN "RS485"
    ELSE IF agent \in {"NONE", "CCTALK"} /\ ~(enabled /\ online) /\ ~scanner THEN "CCTALK"
    ELSE "NONE"

\* bug: the retry in out of service looks at every agent again
AnyAgent == "NONE"

RetriedAgent == focus

\* tasks_oos_take_requested
RequestTaken ==
    /\ state # "OUT_OF_SERVICE" /\ requested # "NONE"
    /\ Phase("service", "devices")
    /\ Broken
    /\ focus' = requested
    /\ requested' = "NONE"
    /\ runtimeOos' = TRUE
    /\ UNCHANGED <<cctalk, before, retry, env, watch>>

\* every OOS_RETRY_MS; the acceptor is started again, with no verification
RetryOutOfService ==
    /\ state = "OUT_OF_SERVICE"
    /\ Phase("service", "devices")
    /\ IF HealthCheck(RetriedAgent) = "NONE"
       THEN /\ Restored
            /\ requested' = "NONE" /\ focus' = "NONE"
            /\ runtimeOos' = FALSE
            /\ \E slots \in Room :
                  Publish(SetState(Setting(slots), "ACTIVE")) /\ FilledBy(slots)
            /\ Unwatched
       ELSE /\ runtimeOos' = TRUE
            /\ UNCHANGED <<life, requested, focus, logical, commands, faults, watch>>
    /\ UNCHANGED <<booting, enabled, online, link, before, retry, scanner, rs485>>

\* every OOS_HEALTH_CHECK_MS
CheckHealth ==
    /\ state # "OUT_OF_SERVICE" /\ requested = "NONE"
    /\ Phase("service", "devices")
    /\ runtimeOos' = FALSE
    /\ IF HealthCheck("NONE") = "NONE"
       THEN UNCHANGED <<life, focus>>
       ELSE Broken /\ focus' = HealthCheck("NONE")
    /\ UNCHANGED <<cctalk, before, requested, retry, env, watch>>

\* neither is due
ServiceNotDue ==
    /\ state = "OUT_OF_SERVICE" \/ requested = "NONE"
    /\ Phase("service", "devices")
    /\ runtimeOos' = (state = "OUT_OF_SERVICE")
    /\ UNCHANGED <<life, cctalk, before, requested, focus, retry, env, watch>>

Service == RequestTaken \/ RetryOutOfService \/ CheckHealth \/ ServiceNotDue

-----------------------------------------------------------------------------
(* The devices after the state *)

Desired == IF state \in Active THEN "SUSPENDED" ELSE "ACTIVE"

\* the state is set until the driver takes it, and will be verified
SetAcceptor(c) ==
    IF state = "OUT_OF_SERVICE"
    THEN /\ Publish(IF logical = "SUSPENDED" THEN SetState(c, "ACTIVE") ELSE c)
         /\ UNCHANGED <<retry, watch>>
    ELSE IF logical # Desired
    THEN LET set   == SetState(c, Desired)
             again == ProgramLeft /\ set.logical = "SUSPENDED"
         IN  /\ Publish(IF again THEN SetState(set, "ACTIVE") ELSE set)
             /\ retry' = [retry EXCEPT !.timer = "armed", !.desired = Desired]
             /\ IF set.logical = "ACTIVE" /\ Desired = "SUSPENDED"
                THEN Unwatched
                ELSE watch' = "watched"
    ELSE UNCHANGED <<logical, commands, retry, watch>>

SetDevices ==
    /\ Phase("devices", "verify")
    /\ \E slots \in Room : SetAcceptor(Setting(slots)) /\ FilledBy(slots)
    /\ UNCHANGED <<life, booting, enabled, online, link, before, oos, scanner, rs485>>

-----------------------------------------------------------------------------
(* Verification *)

\* tasks_cctalk_verify_state
Verified(desired) == enabled <=> desired = "ACTIVE"

AskAgain(c) == SetState(c, retry.desired)

Attempts == IF retry.attempts < MaxAttempts THEN retry.attempts + 1 ELSE MaxAttempts
GivenUp  == Attempts = MaxAttempts /\ retry.desired = "ACTIVE"

\* the driver is told of out of service in the turn that goes there
Entering(c) ==
    IF before # "OUT_OF_SERVICE" /\ state = "OUT_OF_SERVICE" THEN SetState(c, "OOS") ELSE c

\* bug: the acceptor is given up and nobody is told
GiveUpQuietly == UNCHANGED requested

GiveUp == requested' = "CCTALK"

VerifyPassed(c) ==
    /\ Verified(retry.desired) \/ runtimeOos
    /\ retry' = [retry EXCEPT !.timer = "off", !.attempts = 0]
    /\ watch' = IF watch = "watched" /\ commands # <<>> THEN "unwatched" ELSE watch
    /\ Publish(Entering(c))
    /\ UNCHANGED requested

VerifyFailed(c) ==
    /\ ~Verified(retry.desired) /\ ~runtimeOos
    /\ Publish(Entering(AskAgain(c)))
    /\ IF GivenUp
       THEN /\ GiveUp
            /\ retry' = [retry EXCEPT !.timer = "off", !.attempts = 0]
       ELSE /\ UNCHANGED requested
            /\ retry' = [retry EXCEPT !.timer = "armed", !.attempts = Attempts]
    /\ UNCHANGED watch

NothingDue(c) ==
    /\ Publish(Entering(c))
    /\ UNCHANGED <<requested, retry, watch>>

Verify ==
    /\ Phase("verify", "event")
    /\ \E slots \in Room :
          /\ IF retry.timer = "due"
             THEN VerifyPassed(Setting(slots)) \/ VerifyFailed(Setting(slots))
             ELSE NothingDue(Setting(slots))
          /\ FilledBy(slots)
    /\ before' = state
    /\ UNCHANGED <<life, booting, enabled, online, link, runtimeOos, focus, scanner, rs485>>

Turn == TakeEvent \/ TakeTick \/ Service \/ SetDevices \/ Verify

-----------------------------------------------------------------------------
(* The acceptor's tasks, and the environment *)

\* what becomes of a setting that nobody verifies
Followed(arrived) ==
    watch' = IF watch = "watched" THEN "watched" ELSE IF arrived THEN "unwatched" ELSE "lost"

AcceptorTask ==
    /\ CcTalkTask
    /\ IF commands = <<>> THEN UNCHANGED watch ELSE Followed(Head(commands) = "STOP" \/ link)
    /\ UNCHANGED <<life, turn, oos, retry, env>>

BootTask ==
    /\ BootStart
    /\ Followed(link)
    /\ UNCHANGED <<life, turn, oos, retry, env>>

\* tasks_request_out_of_service by the verification of the MDB reader
OtherRequest ==
    /\ Fault
    /\ requested' = "MDB"
    /\ UNCHANGED <<life, cctalk, turn, runtimeOos, focus, retry, scanner, rs485, watch>>

\* a command grows too old in the mailbox while the acceptor's task waits for replies
CommandExpires ==
    /\ Fault /\ Expired
    /\ Followed(FALSE)
    /\ UNCHANGED <<life, turn, oos, retry, scanner, rs485>>

\* devices fail, at a bounded cost, and come back
Environment ==
    \/ /\ LinkChanged
       /\ IF link THEN Fault ELSE UNCHANGED faults
       /\ UNCHANGED <<scanner, rs485>>
    \/ /\ scanner' = ~scanner
       /\ IF scanner THEN Fault ELSE UNCHANGED faults
       /\ UNCHANGED <<cctalk, rs485>>
    \/ /\ rs485' = ~rs485
       /\ IF rs485 THEN Fault ELSE UNCHANGED faults
       /\ UNCHANGED <<cctalk, scanner>>

EnvironmentStep ==
    /\ Environment
    /\ UNCHANGED <<life, turn, oos, retry, watch>>

SupervisorNext ==
    \/ Turn
    \/ AcceptorTask \/ BootTask
    \/ OtherRequest \/ CommandExpires \/ EnvironmentStep

SupervisorSpec == SupervisorInit /\ [][SupervisorNext]_svars

\* The two tasks run for ever, and the one of boot to its end; the periods of the
\* retries run out again and again, whatever turn finds them.
SupervisorFair ==
    /\ SupervisorSpec
    /\ WF_svars(Turn)
    /\ WF_svars(AcceptorTask)
    /\ WF_svars(BootTask)
    /\ SF_svars(Elapse("due"))
    /\ SF_svars(RetryOutOfService)

-----------------------------------------------------------------------------

\* When the machine takes payments, the acceptor is on, or what was asked of it
\* will be verified, or out of service was asked for; but for a START that nobody
\* verifies: the one of boot, of the end of out of service, one that was still in
\* the mailbox when its verification passed, or one whose verification a STOP that
\* did not fit has replaced.  Of these the code knows nothing any more; the
\* acceptor is off only while they are on their way or the setting is not on, which
\* the next turn mends, or if they were lost.
AcceptorIsLookedAfter ==
    phase = "event" /\ state \in Resting \cup {"CREDIT"} =>
        \/ enabled
        \/ retry.timer # "off" /\ retry.desired = "ACTIVE"
        \/ requested # "NONE"
        \/ watch # "watched" /\ (booting \/ commands # <<>> \/ logical # "ACTIVE")
        \/ watch = "lost"

\* The acceptor is left on through a program: a verification passed, but it was
\* that of the START before, whose setting did not fit when the last program
\* ended, or it came before STOP was taken, which has been dropped since.
LeftOn ==
    /\ logical = "SUSPENDED" /\ commands = <<>> /\ retry.timer = "off"
    /\ retry.desired = "ACTIVE" \/ watch = "lost"

\* The coins of a program that lasts are refused in the end, even if STOP did
\* not fit in the mailbox, was dropped there, or was overtaken by an earlier
\* START or by the start at boot; but for the acceptor a verification left on.
CoinsAreRefused ==
    state \in Active ~> (~enabled \/ state \notin Active \/ LeftOn)

\* Out of service ends by itself, but for the agents still at fault: the
\* acceptor, which nobody starts in out of service, counts as one unless a
\* scanner is connected.
OutOfServiceEnds ==
    state = "OUT_OF_SERVICE" ~>
        \/ state # "OUT_OF_SERVICE"
        \/ focus = "CCTALK" /\ ~scanner
        \/ focus = "RS485" /\ ~rs485

=============================================================================
