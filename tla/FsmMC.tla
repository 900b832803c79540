------------------------------- MODULE FsmMC --------------------------------
(***************************************************************************)
(* Small program tables for the runs of the state machine.                 *)
(***************************************************************************)
EXTENDS Fsm, TLC

\* two programs that differ in price only
CreditPrice    == "wash" :> 1 @@ "wax" :> 3
CreditDuration == [p \in Programs |-> 2]
CreditPause    == [p \in Programs |-> 1]

\* one program is free and has no pause of its own
TimePrice    == "wash" :> 1 @@ "rinse" :> 0
TimeDuration == "wash" :> 3 @@ "rinse" :> 2
TimePause    == "wash" :> 2 @@ "rinse" :> 0

=============================================================================
