---------------------------- MODULE ProgramOutputs ----------------------------
(***************************************************************************)
(* What the FSM task does at the end of a turn in which a program started, *)
(* changed or ended (main/tasks.c): it sets and clears the relays, and has *)
(* the payment reported to the server.  The services come and go at any    *)
(* turn; what becomes of a report once published is in RemoteServices.     *)
(***************************************************************************)
EXTENDS FsmTurn, Naturals

CONSTANT MaxFaults  \* bound on the writes, readings and publications that fail

ASSUME OutputsAssumption == MaxFaults \in Nat

VARIABLES
    got,          \* the event this turn has received
    relays,       \* whose outputs are set: a program's, part of one's, none
    verifyError,  \* s_program_outputs_verify_error_active
    faults,
    byCard,       \* history: the card reader started the program
    leftOn,       \* history: a service state or the panel test cut a program short
    reports,      \* history: payments published for the cycle that runs, 2 for more
    refused       \* history: the mailbox was full for one of them

outputVars ==
    <<life, phase, before, got, relays, verifyError, faults, byCard, leftOn, reports, refused>>

OutputsTypeOK ==
    /\ TurnTypeOK
    /\ got \in Events
    /\ relays \in Programs \cup {"off", "mixed"}
    /\ verifyError \in BOOLEAN
    /\ faults \in 0..MaxFaults
    /\ byCard \in BOOLEAN /\ leftOn \in BOOLEAN
    /\ reports \in 0..2 /\ refused \in BOOLEAN

OutputsInit ==
    /\ TurnInit
    /\ got = "none"
    /\ relays = "off" /\ verifyError = FALSE
    /\ faults = 0 /\ byCard = FALSE /\ leftOn = FALSE
    /\ reports = 0 /\ refused = FALSE

Starts(event) == event \in {"selected", "approved"}

TakeEvent ==
    /\ Phase("event", "tick")
    /\ \E event \in Events : got' = event /\ Handled(event)
    /\ IF Starts(got')
       THEN byCard' = (got' = "approved") /\ reports' = 0 /\ refused' = FALSE
       ELSE /\ byCard' = (byCard /\ got' # "switched")
            /\ UNCHANGED <<reports, refused>>
    /\ UNCHANGED <<before, relays, verifyError, faults, leftOn>>

Fault == faults < MaxFaults /\ faults' = faults + 1

\* fsm_event_publish: nothing is kept of a report the mailbox has no room for
Report(sent) ==
    \/ reports' = (IF sent = 2 THEN 2 ELSE sent + 1) /\ UNCHANGED <<refused, faults>>
    \/ Fault /\ reports' = sent /\ refused' = TRUE

\* a cycle charged at the end of another is reported at once
Renewed == state = "RUNNING" /\ UNCHANGED life /\ Report(0)

TakeTick ==
    /\ Phase("tick", "service")
    /\ \/ Renewed
       \/ Ticked /\ UNCHANGED <<reports, refused, faults>>
    /\ UNCHANGED <<before, got, relays, verifyError, byCard, leftOn>>

\* the health checks, and who asks for out of service, are in FsmSupervisor
Service ==
    /\ Phase("service", "devices")
    /\ UNCHANGED life \/ Broken \/ Restored
    /\ UNCHANGED <<before, got, relays, verifyError, faults, byCard, leftOn, reports, refused>>

-----------------------------------------------------------------------------

\* bug: a program switched to keeps the outputs of the one before
OutputsDueAtStart == got = "selected" /\ before = "CREDIT" /\ state = "RUNNING"

\* bug: the program may have ended in the turn it was started
OutputsDueForTheEvent ==
    \/ got = "selected" /\ before = "CREDIT"
    \/ got = "switched" /\ before \in Active

OutputsDue ==
    /\ state = "RUNNING"
    /\ \/ got = "selected" /\ before = "CREDIT"
       \/ got = "switched" /\ before \in Active

\* tasks_apply_running_program_outputs: set and read back, thrice at most
ApplyOutputs ==
    \/ relays' = program /\ verifyError' = FALSE /\ UNCHANGED faults
    \/ Fault /\ relays' \in {relays, "mixed", program} /\ verifyError' = TRUE

\* bug: the outputs are cleared when the time is over, and not after a stop
ClearOutputsAtTimeout ==
    /\ relays' = (IF got = "none" THEN "off" ELSE relays)
    /\ UNCHANGED <<verifyError, faults>>

\* web_ui_program_clear_outputs: all are written, a failure is only logged
ClearOutputs ==
    /\ UNCHANGED verifyError
    /\ \/ relays' = "off" /\ UNCHANGED faults
       \/ Fault /\ relays' \in {relays, "mixed"}

SetOutputs ==
    /\ Phase("devices", "verify")
    /\ IF OutputsDue THEN ApplyOutputs
       ELSE IF ProgramLeft THEN ClearOutputs
       ELSE UNCHANGED <<relays, verifyError, faults>>
    /\ leftOn' = IF OutputsDue \/ ProgramLeft THEN FALSE
                 ELSE leftOn \/ (before \in Active /\ state \in {"OUT_OF_SERVICE", "LVGL_TEST"})
    /\ UNCHANGED <<life, before, got, byCard, reports, refused>>

\* bug: a wash paid by card is not reported, as its relays are not set
ReportDueWithOutputs == OutputsDue

\* unlike the outputs, the report thinks of the approval of the card reader
ReportDue == OutputsDue \/ (got = "approved" /\ before = "CREDIT" /\ state = "RUNNING")

\* publish_program_payment_event, and the end of the turn
ReportPayment ==
    /\ Phase("verify", "event")
    /\ IF ReportDue THEN Report(reports) ELSE UNCHANGED <<reports, refused, faults>>
    /\ before' = state /\ got' = "none"
    /\ UNCHANGED <<life, relays, verifyError, byCard, leftOn>>

OutputsNext == TakeEvent \/ TakeTick \/ Service \/ SetOutputs \/ ReportPayment

OutputsSpec == OutputsInit /\ [][OutputsNext]_outputVars

-----------------------------------------------------------------------------

\* Between two turns the outputs are those of the program that runs, through
\* switches, pauses and what earlier programs or services left on, unless the
\* verification error is shown or the card reader started the program.
RelaysAreOfTheProgram ==
    phase = "event" /\ state \in Active /\ ~verifyError /\ ~byCard => relays = program

\* As long as no write fails, no relay is on when the machine waits for payments,
\* however the last program ended, but for one that out of service or the panel
\* test cut short, whose relays stay on until another program is started.
OutputsOffBetweenPrograms ==
    phase = "event" /\ state \in Resting \cup {"CREDIT"} /\ faults = 0 /\ ~leftOn =>
        relays = "off"

\* A cycle that has started, by a choice, by the approval of the card reader or
\* by the renewal of another, has been reported by the end of the turn, unless
\* the mailbox had no room.
CycleIsReported ==
    phase = "event" /\ state \in Active /\ ~refused => reports > 0

=============================================================================
