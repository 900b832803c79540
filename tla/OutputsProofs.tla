---------------------------- MODULE OutputsProofs ---------------------------
(* The relays and the reports of the programs, for any table of programs    *)
(* and any number of failures.                                             *)
EXTENDS ProgramOutputs, TLAPS

Flags == verifyError \in BOOLEAN /\ byCard \in BOOLEAN /\ leftOn \in BOOLEAN /\ refused \in BOOLEAN

Types ==
    /\ state \in States /\ before \in States
    /\ program \in Programs \cup {NoProgram}
    /\ state \in Active => program \in Programs
    /\ phase \in {"event", "tick", "service", "devices", "verify"}
    /\ got \in Events
    /\ relays \in Programs \cup {"off", "mixed"}
    /\ faults \in 0..MaxFaults /\ reports \in 0..2

\* what the turn remembers of its event is still true of the state
EventOfTheTurn ==
    /\ phase = "event" => before = state /\ got = "none"
    /\ phase # "event" /\ state \in Active =>
           /\ Starts(got) => before = "CREDIT" /\ state = "RUNNING"
           /\ got = "switched" => before \in Active /\ state = "RUNNING"
           /\ got \in {"none", "other"} => before \in Active
    /\ got = "selected" => ~byCard
    /\ got = "approved" => byCard

\* the outputs of the program, or they are still to be set in this turn
RelaysInTheTurn ==
    state \in Active /\ ~verifyError /\ ~byCard =>
        relays = program \/ (phase \in {"tick", "service", "devices"} /\ got \in {"selected", "switched"})

\* nothing is left on by a turn that found no program, or left one in order
OffInTheTurn ==
    faults = 0 /\ ~leftOn =>
        /\ phase \in {"event", "verify"} /\ state \notin Active => relays = "off"
        /\ phase \in {"tick", "service", "devices"} /\ before \notin Active => relays = "off"

\* the cycle is reported, or it will be at the end of this turn
ReportInTheTurn ==
    state \in Active /\ ~refused => reports > 0 \/ (phase # "event" /\ Starts(got))

OutputsInv ==
    /\ Types /\ Flags /\ EventOfTheTurn
    /\ RelaysInTheTurn /\ OffInTheTurn /\ ReportInTheTurn

-----------------------------------------------------------------------------

USE LifeAssumption, OutputsAssumption
    DEF States, Active, Resting, Rest, Events, Starts, life

LEMMA OutputsInitInv == OutputsInit => OutputsInv
<1> SUFFICES ASSUME OutputsInit PROVE OutputsInv
  OBVIOUS
<1>1. /\ state \in {"ADS", "CREDIT"} /\ program = NoProgram /\ phase = "event" /\ before = state
      /\ got = "none" /\ relays = "off" /\ faults = 0 /\ reports = 0
  BY DEF OutputsInit, TurnInit, LifeInit
<1>2. Flags
  BY DEF OutputsInit, Flags
<1>3. Types
  BY <1>1 DEF Types
<1>4. EventOfTheTurn /\ RelaysInTheTurn /\ OffInTheTurn /\ ReportInTheTurn
  BY <1>1 DEF EventOfTheTurn, RelaysInTheTurn, OffInTheTurn, ReportInTheTurn
<1> QED
  BY <1>2, <1>3, <1>4 DEF OutputsInv

\* What an event makes of state and program.
LEMMA EventHandled ==
  ASSUME Types, NEW event \in Events, Handled(event)
  PROVE  /\ state' \in States /\ program' \in Programs \cup {NoProgram}
         /\ state' \in Active => program' \in Programs
         /\ Starts(event) => state = "CREDIT" /\ state' = "RUNNING"
         /\ event = "switched" => state \in Active /\ state' = "RUNNING"
         /\ ~Starts(event) /\ event # "switched" /\ state' \in Active =>
                state \in Active /\ program' = program
  BY DEF Types, Handled, Started, Switched, Loaded, Paused, Resumed, Ended,
         SessionOpened, SessionClosed, TestEntered, TestLeft

LEMMA TakeEventInv == OutputsInv /\ TakeEvent => OutputsInv'
<1> SUFFICES ASSUME OutputsInv, TakeEvent PROVE OutputsInv'
  OBVIOUS
<1>1. /\ phase = "event" /\ phase' = "tick" /\ got' \in Events /\ Handled(got')
      /\ UNCHANGED <<before, relays, verifyError, faults, leftOn>>
  BY DEF TakeEvent, Phase
<1>2. /\ before = state
      /\ state' \in States /\ program' \in Programs \cup {NoProgram}
      /\ state' \in Active => program' \in Programs
      /\ Starts(got') => state = "CREDIT" /\ state' = "RUNNING"
      /\ got' = "switched" => state \in Active /\ state' = "RUNNING"
      /\ ~Starts(got') /\ got' # "switched" /\ state' \in Active =>
             state \in Active /\ program' = program
  BY <1>1, EventHandled DEF OutputsInv, EventOfTheTurn
<1>3. CASE Starts(got')
  <2>1. byCard' = (got' = "approved") /\ reports' = 0 /\ refused' = FALSE
    BY <1>3 DEF TakeEvent
  <2>2. Flags'
    BY <1>1, <2>1 DEF OutputsInv, Flags
  <2>3. Types'
    BY <1>1, <1>2, <2>1 DEF OutputsInv, Types
  <2>4. EventOfTheTurn' /\ RelaysInTheTurn' /\ ReportInTheTurn'
    BY <1>1, <1>2, <1>3, <2>1 DEF OutputsInv, EventOfTheTurn, RelaysInTheTurn, ReportInTheTurn
  <2>5. OffInTheTurn'
    BY <1>1, <1>2, <1>3 DEF OutputsInv, OffInTheTurn
  <2> QED
    BY <2>2, <2>3, <2>4, <2>5 DEF OutputsInv
<1>4. CASE ~Starts(got')
  <2>1. byCard' = (byCard /\ got' # "switched") /\ UNCHANGED <<reports, refused>>
    BY <1>4 DEF TakeEvent
  <2>2. Flags'
    BY <1>1, <2>1 DEF OutputsInv, Flags
  <2>3. Types'
    BY <1>1, <1>2, <2>1 DEF OutputsInv, Types
  <2>4. EventOfTheTurn' /\ RelaysInTheTurn'
    BY <1>1, <1>2, <1>4, <2>1 DEF OutputsInv, EventOfTheTurn, RelaysInTheTurn
  <2>5. OffInTheTurn'
    BY <1>1, <1>2, <1>4 DEF OutputsInv, OffInTheTurn
  <2>6. ReportInTheTurn'
    BY <1>1, <1>2, <1>4, <2>1 DEF OutputsInv, ReportInTheTurn
  <2> QED
    BY <2>2, <2>3, <2>4, <2>5, <2>6 DEF OutputsInv
<1> QED
  BY <1>3, <1>4

\* Neither time nor the services make a program run that did not.
LEMMA MidTurn ==
  ASSUME Types, Ticked \/ Broken \/ Restored \/ UNCHANGED life
  PROVE  /\ state' \in States /\ program' \in Programs \cup {NoProgram}
         /\ state' \in Active => state \in Active /\ program' = program
         /\ state' \in Active /\ state = "RUNNING" => state' = "RUNNING"
  BY DEF Types, Ticked, Broken, Restored, Resumed, Ended, SessionClosed

LEMMA TakeTickInv == OutputsInv /\ TakeTick => OutputsInv'
<1> SUFFICES ASSUME OutputsInv, TakeTick PROVE OutputsInv'
  OBVIOUS
<1>1. /\ phase = "tick" /\ phase' = "service"
      /\ UNCHANGED <<before, got, relays, verifyError, byCard, leftOn>>
  BY DEF TakeTick, Phase
<1>2. /\ state' \in States /\ program' \in Programs \cup {NoProgram}
      /\ state' \in Active => state \in Active /\ program' = program
      /\ state' \in Active /\ state = "RUNNING" => state' = "RUNNING"
  BY MidTurn DEF TakeTick, Renewed, OutputsInv
<1>3. \/ UNCHANGED <<reports, refused, faults>>
      \/ reports' = 1 /\ UNCHANGED <<refused, faults>>
      \/ faults' = faults + 1 /\ faults < MaxFaults /\ reports' = 0 /\ refused' = TRUE
  BY DEF TakeTick, Renewed, Report, Fault
<1>4. Types'
  BY <1>1, <1>2, <1>3 DEF OutputsInv, Types
<1>5. Flags'
  BY <1>1, <1>3 DEF OutputsInv, Flags
<1>6. EventOfTheTurn' /\ RelaysInTheTurn'
  BY <1>1, <1>2 DEF OutputsInv, EventOfTheTurn, RelaysInTheTurn
<1>7. OffInTheTurn'
  <2>1. faults' = 0 => faults = 0
    BY <1>3 DEF OutputsInv, Types
  <2> QED
    BY <1>1, <2>1 DEF OutputsInv, OffInTheTurn
<1>8. ReportInTheTurn'
  BY <1>1, <1>2, <1>3 DEF OutputsInv, ReportInTheTurn
<1> QED
  BY <1>4, <1>5, <1>6, <1>7, <1>8 DEF OutputsInv

LEMMA ServiceInv == OutputsInv /\ Service => OutputsInv'
<1> SUFFICES ASSUME OutputsInv, Service PROVE OutputsInv'
  OBVIOUS
<1>1. /\ phase = "service" /\ phase' = "devices"
      /\ UNCHANGED <<before, got, relays, verifyError, faults, byCard, leftOn, reports, refused>>
  BY DEF Service, Phase
<1>2. /\ state' \in States /\ program' \in Programs \cup {NoProgram}
      /\ state' \in Active => state \in Active /\ program' = program
      /\ state' \in Active /\ state = "RUNNING" => state' = "RUNNING"
  BY MidTurn DEF Service, OutputsInv
<1>3. Types' /\ Flags'
  BY <1>1, <1>2 DEF OutputsInv, Types, Flags
<1>4. EventOfTheTurn' /\ RelaysInTheTurn' /\ OffInTheTurn' /\ ReportInTheTurn'
  BY <1>1, <1>2
     DEF OutputsInv, EventOfTheTurn, RelaysInTheTurn, OffInTheTurn, ReportInTheTurn
<1> QED
  BY <1>3, <1>4 DEF OutputsInv

LEMMA SetOutputsInv == OutputsInv /\ SetOutputs => OutputsInv'
<1> SUFFICES ASSUME OutputsInv, SetOutputs PROVE OutputsInv'
  OBVIOUS
<1>1. /\ phase = "devices" /\ phase' = "verify"
      /\ UNCHANGED <<state, program, before, got, byCard, reports, refused>>
      /\ leftOn' \in BOOLEAN
      /\ OutputsDue \/ ProgramLeft => leftOn' = FALSE
      /\ ~OutputsDue /\ ~ProgramLeft =>
             leftOn' = (leftOn \/ (before \in Active /\ state \in {"OUT_OF_SERVICE", "LVGL_TEST"}))
  BY DEF SetOutputs, Phase, OutputsInv, Flags
<1>2. EventOfTheTurn' /\ ReportInTheTurn'
  BY <1>1 DEF OutputsInv, EventOfTheTurn, ReportInTheTurn
<1>3. CASE OutputsDue
  <2>1. \/ relays' = program /\ verifyError' = FALSE /\ faults' = faults
        \/ /\ faults' = faults + 1 /\ faults < MaxFaults
           /\ relays' \in {relays, "mixed", program} /\ verifyError' = TRUE
    BY <1>3 DEF SetOutputs, ApplyOutputs, Fault
  <2>2. state = "RUNNING" /\ program \in Programs
    BY <1>3 DEF OutputsDue, OutputsInv, EventOfTheTurn, Types
  <2>3. Types'
    BY <1>1, <2>1, <2>2 DEF OutputsInv, Types
  <2>4. Flags'
    BY <1>1, <2>1 DEF OutputsInv, Flags
  <2>5. RelaysInTheTurn' /\ OffInTheTurn'
    BY <1>1, <2>1, <2>2 DEF RelaysInTheTurn, OffInTheTurn
  <2> QED
    BY <1>2, <2>3, <2>4, <2>5 DEF OutputsInv
<1>4. CASE ~OutputsDue /\ ProgramLeft
  <2>1. /\ verifyError' = verifyError
        /\ \/ relays' = "off" /\ faults' = faults
           \/ faults' = faults + 1 /\ faults < MaxFaults /\ relays' \in {relays, "mixed"}
    BY <1>4 DEF SetOutputs, ClearOutputs, Fault
  <2>2. state \in Resting \cup {"CREDIT"}
    BY <1>4 DEF ProgramLeft
  <2>3. Types'
    BY <1>1, <2>1 DEF OutputsInv, Types
  <2>4. Flags'
    BY <1>1, <2>1 DEF OutputsInv, Flags
  <2>5. faults' = 0 => relays' = "off"
    BY <2>1 DEF OutputsInv, Types
  <2>6. RelaysInTheTurn' /\ OffInTheTurn'
    BY <1>1, <2>2, <2>5 DEF RelaysInTheTurn, OffInTheTurn
  <2> QED
    BY <1>2, <2>3, <2>4, <2>6 DEF OutputsInv
<1>5. CASE ~OutputsDue /\ ~ProgramLeft
  <2>1. UNCHANGED <<relays, verifyError, faults>>
    BY <1>5 DEF SetOutputs
  <2>2. Types' /\ Flags'
    BY <1>1, <2>1 DEF OutputsInv, Types, Flags
  <2>3. RelaysInTheTurn'
    BY <1>1, <1>5, <2>1
       DEF OutputsInv, RelaysInTheTurn, EventOfTheTurn, OutputsDue
  <2>4. OffInTheTurn'
    BY <1>1, <1>5, <2>1 DEF OutputsInv, OffInTheTurn, ProgramLeft, Types
  <2> QED
    BY <1>2, <2>2, <2>3, <2>4 DEF OutputsInv
<1> QED
  BY <1>3, <1>4, <1>5

LEMMA ReportPaymentInv == OutputsInv /\ ReportPayment => OutputsInv'
<1> SUFFICES ASSUME OutputsInv, ReportPayment PROVE OutputsInv'
  OBVIOUS
<1>1. /\ phase = "verify" /\ phase' = "event" /\ before' = state /\ got' = "none"
      /\ UNCHANGED <<state, program, relays, verifyError, byCard, leftOn>>
  BY DEF ReportPayment, Phase
<1>2. IF ReportDue
      THEN \/ reports' = (IF reports = 2 THEN 2 ELSE reports + 1) /\ UNCHANGED <<refused, faults>>
           \/ faults' = faults + 1 /\ faults < MaxFaults /\ reports' = reports /\ refused' = TRUE
      ELSE UNCHANGED <<reports, refused, faults>>
  BY DEF ReportPayment, Report, Fault
<1>3. Types'
  BY <1>1, <1>2 DEF OutputsInv, Types
<1>4. Flags'
  BY <1>1, <1>2 DEF OutputsInv, Flags
<1>5. EventOfTheTurn' /\ RelaysInTheTurn'
  BY <1>1 DEF OutputsInv, EventOfTheTurn, RelaysInTheTurn
<1>6. OffInTheTurn'
  <2>1. faults' = 0 => faults = 0
    BY <1>2 DEF OutputsInv, Types
  <2> QED
    BY <1>1, <2>1 DEF OutputsInv, OffInTheTurn
<1>7. ReportInTheTurn'
  <2>1. state \in Active /\ Starts(got) => ReportDue
    BY <1>1 DEF OutputsInv, EventOfTheTurn, ReportDue, OutputsDue
  <2>2. ReportDue => reports' > 0 \/ refused'
    BY <1>2 DEF OutputsInv, Types
  <2>3. ~ReportDue => reports' = reports /\ refused' = refused
    BY <1>2
  <2> QED
    BY <1>1, <2>1, <2>2, <2>3 DEF OutputsInv, ReportInTheTurn
<1> QED
  BY <1>3, <1>4, <1>5, <1>6, <1>7 DEF OutputsInv

\* The inductive invariant of the end of the turn: what each step of the turn
\* still has to do for the program that runs.
THEOREM OutputsInvariance == OutputsSpec => []OutputsInv
<1>1. OutputsInv /\ [OutputsNext]_outputVars => OutputsInv'
  <2>1. OutputsInv /\ UNCHANGED outputVars => OutputsInv'
    BY DEF outputVars, OutputsInv, Types, Flags, EventOfTheTurn, RelaysInTheTurn, OffInTheTurn,
           ReportInTheTurn
  <2> QED
    BY <2>1, TakeEventInv, TakeTickInv, ServiceInv, SetOutputsInv, ReportPaymentInv DEF OutputsNext
<1> QED
  BY <1>1, OutputsInitInv, PTL DEF OutputsSpec

\* Turn, relays and reports keep their types.
THEOREM OutputsTypeCorrect == OutputsSpec => []OutputsTypeOK
<1>1. OutputsInv => OutputsTypeOK
  BY DEF OutputsInv, Types, Flags, OutputsTypeOK, TurnTypeOK
<1> QED
  BY <1>1, OutputsInvariance, PTL

\* Between two turns the relays are those of the program that runs, unless an
\* error is shown or the card reader started it (tasks_apply_running_program_outputs).
THEOREM RelaysFollowProgram == OutputsSpec => []RelaysAreOfTheProgram
<1>1. OutputsInv => RelaysAreOfTheProgram
  BY DEF OutputsInv, RelaysInTheTurn, RelaysAreOfTheProgram
<1> QED
  BY <1>1, OutputsInvariance, PTL

\* Without failures no relay is on while the machine waits for payments, but for
\* those of a program a service state cut short (web_ui_program_clear_outputs).
THEOREM RelaysGoOff == OutputsSpec => []OutputsOffBetweenPrograms
<1>1. OutputsInv => OutputsOffBetweenPrograms
  BY DEF OutputsInv, OffInTheTurn, OutputsOffBetweenPrograms
<1> QED
  BY <1>1, OutputsInvariance, PTL

\* Every cycle that runs has been reported to the server by the end of its turn,
\* unless the mailbox had no room (publish_program_payment_event).
THEOREM EveryCycleIsReported == OutputsSpec => []CycleIsReported
<1>1. OutputsInv => CycleIsReported
  BY DEF OutputsInv, ReportInTheTurn, CycleIsReported
<1> QED
  BY <1>1, OutputsInvariance, PTL

=============================================================================
