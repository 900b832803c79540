----------------------------- MODULE FsmSession -----------------------------
(***************************************************************************)
(* The state machine with a customer who does anything any number of times *)
(* and then may leave for good: what time alone makes of every situation a *)
(* customer can leave behind.                                              *)
(***************************************************************************)
EXTENDS FsmMC

VARIABLE left   \* the customer has left for good

SessionInit == Init /\ left = FALSE

CustomerLeaves == ~left /\ left' = TRUE /\ UNCHANGED vars

SessionNext ==
    \/ ~left /\ Input /\ UNCHANGED left
    \/ CustomerLeaves
    \/ Time /\ UNCHANGED left

\* The FSM task ticks in every turn of its loop, after at most 100 ms of wait.
SessionSpec ==
    SessionInit /\ [][SessionNext]_<<vars, left>> /\ WF_<<vars, left>>(Time /\ UNCHANGED left)

\* Left alone, the machine comes to rest: every program, pause and card session
\* ends and the credit page times out, so the next customer finds the start
\* page (main/fsm.c, fsm_tick).  Out of service and the panel test are left by
\* their own events only.
ComesToRest == left ~> [](state \in Resting \cup {"OUT_OF_SERVICE", "LVGL_TEST"})

=============================================================================
