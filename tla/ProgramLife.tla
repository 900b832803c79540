----------------------------- MODULE ProgramLife -----------------------------
(***************************************************************************)
(* What the rest of the machine relies on of the state machine: the state  *)
(* and the program on record, without credit, payments or time.  Fsm is    *)
(* shown to implement it, and FsmSupervisor builds the FSM task around it. *)
(***************************************************************************)
CONSTANTS Programs, NoProgram, AdsEnabled

ASSUME LifeAssumption == NoProgram \notin Programs /\ AdsEnabled \in BOOLEAN

VARIABLES
    state,    \* fsm_state_t
    program   \* running_program_name

life == <<state, program>>

Active  == {"RUNNING", "PAUSED"}
Resting == {"IDLE", "ADS"}
Rest    == IF AdsEnabled THEN "ADS" ELSE "IDLE"
States  == Active \cup Resting \cup {"CREDIT", "OUT_OF_SERVICE", "LVGL_TEST"}

LifeInit ==
    /\ state = IF AdsEnabled THEN "ADS" ELSE "CREDIT"
    /\ program = NoProgram

\* a choice, or the approval of the card reader, starts a program
Started(p) == state = "CREDIT" /\ state' = "RUNNING" /\ program' = p

\* a choice the credit does not cover leaves its program on record
Loaded(p) == state = "CREDIT" /\ state' = "CREDIT" /\ program' = p

Switched(p) == state \in Active /\ state' = "RUNNING" /\ program' = p

Paused  == state = "RUNNING" /\ state' = "PAUSED" /\ program' = program
Resumed == state = "PAUSED" /\ state' = "RUNNING" /\ program' = program

\* end of the time or of the credit, stop
Ended ==
    /\ state \in Active
    /\ state' \in {"CREDIT", "IDLE", Rest}
    /\ program' = NoProgram

SessionOpened ==
    /\ state \in Resting
    /\ state' = "CREDIT"
    /\ program' \in {program, NoProgram}

SessionClosed == state = "CREDIT" /\ state' = Rest /\ program' = NoProgram

TestEntered ==
    /\ state \notin {"OUT_OF_SERVICE", "LVGL_TEST"}
    /\ state' = "LVGL_TEST"
    /\ program' = program

TestLeft == state = "LVGL_TEST" /\ state' = "IDLE" /\ program' = program

Broken   == state # "OUT_OF_SERVICE" /\ state' = "OUT_OF_SERVICE" /\ program' = program
Restored == state = "OUT_OF_SERVICE" /\ state' = "IDLE" /\ program' = program

LifeNext ==
    \/ \E p \in Programs : Started(p) \/ Loaded(p) \/ Switched(p)
    \/ Paused \/ Resumed \/ Ended
    \/ SessionOpened \/ SessionClosed
    \/ TestEntered \/ TestLeft
    \/ Broken \/ Restored

LifeSpec == LifeInit /\ [][LifeNext]_life

-----------------------------------------------------------------------------

\* While a program runs or is paused it is one of the table, although services,
\* tests and refused choices leave stale names on record.
ProgramIsKnown ==
    /\ state \in States
    /\ state \in Active => program \in Programs

=============================================================================
