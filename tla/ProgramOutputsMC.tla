-------------------------- MODULE ProgramOutputsMC ---------------------------
(* Instances of ProgramOutputs for TLC, and what the documents say of it. *)
EXTENDS ProgramOutputs

\* "Durante esecuzione: attivazione relay configurati per il programma": while
\* no error is shown, a program that runs has its relays on.
RunningProgramHasItsRelays ==
    phase = "event" /\ state \in Active /\ ~verifyError => relays = program

\* "nessuna `payment` su cambio programma (`PROGRAM_SWITCH`)": a turn whose event
\* is a switch publishes no payment at its end.
NoReportOnSwitch ==
    [][phase = "verify" /\ got = "switched" => reports' = reports]_outputVars

=============================================================================
