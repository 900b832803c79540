------------------------------- MODULE FsmTurn -------------------------------
(***************************************************************************)
(* The turn of the FSM task's loop (main/tasks.c, fsm_task) and the state  *)
(* machine in it: one event, then the time, then the service states, then  *)
(* the devices.  FsmSupervisor and ProgramOutputs build on it.             *)
(***************************************************************************)
EXTENDS ProgramLife

VARIABLES
    phase,   \* next step of the turn
    before   \* state_before: the state at the start of the turn

TurnTypeOK ==
    /\ state \in States /\ program \in Programs \cup {NoProgram}
    /\ phase \in {"event", "tick", "service", "devices", "verify"}
    /\ before \in States

TurnInit == LifeInit /\ phase = "event" /\ before = state

Phase(p, q) == phase = p /\ phase' = q

\* events a turn may find
Events == {"none", "selected", "approved", "switched", "other"}

\* fsm_handle_input_event: what the state becomes after an event
Handled(event) ==
    \/ event = "none" /\ UNCHANGED life
    \/ event \in {"selected", "approved"} /\ \E p \in Programs : Started(p)
    \/ event = "switched" /\ \E p \in Programs : Switched(p)
    \/ /\ event = "other"
       /\ \/ Paused \/ Resumed \/ Ended
          \/ SessionOpened \/ SessionClosed
          \/ TestEntered \/ TestLeft
          \/ \E p \in Programs : Loaded(p)

\* fsm_tick: the end of a program, of a pause or of the time to choose
Ticked ==
    \/ UNCHANGED life
    \/ Resumed
    \/ state = "RUNNING" /\ Ended
    \/ SessionClosed

\* left_program_state
ProgramLeft == before \in Active /\ state \in Resting \cup {"CREDIT"}

=============================================================================
