--------------------------------- MODULE Fsm --------------------------------
(***************************************************************************)
(* The state machine of the wash machine: fsm_handle_input_event,          *)
(* fsm_handle_event and fsm_tick of main/fsm.c, and the two places where   *)
(* the FSM task itself writes the context when the card has left the       *)
(* reader (main/tasks.c).  One action per event handler or tick outcome;   *)
(* any event may come in any state, as it does out of the mailbox.         *)
(*                                                                         *)
(* Left out because nothing reads them back: the *_used counters, the      *)
(* out-of-service agent and text, session_mode and                         *)
(* allow_additional_payments (VIRTUAL_LOCKED is never stored, so           *)
(* fsm_has_virtual_locked_session is FALSE at each of its calls), and      *)
(* pause_limit_reached, which is FALSE whenever a handler has returned.    *)
(* The rollback after a refused PROGRAM_SELECTED is unreachable: the state *)
(* is CREDIT there and CREDIT accepts it.                                  *)
(***************************************************************************)
EXTENDS Credit

CONSTANTS
    Programs,          \* names of the programs of the table
    Price, Duration, Pause, \* their credits, time and longest pause, 0 allowed
    Amounts,           \* cents one payment may bring
    OpenSources,       \* subset of {"TOUCH", "KEY"}: activity that opens a session
    CoinTags,          \* subset of {"COIN", "CCTALK"}: payment sources of coins
    QrCodes,           \* customer codes a QR payment may carry
    CardCode,          \* customer code every card payment carries
    NoCode, NoProgram,
    EndedAux,          \* subset of {0, 1}: aux field of CREDIT_ENDED
    Elapsed,           \* milliseconds (in model units) one tick may account for
    MaxElapsed,        \* bound: a program without duration is followed up to here
    SplashTime,        \* splash_screen_time_ms
    SplashSlack,       \* the 5000 ms above it where inactivity_ms is capped
    DefaultPause,      \* FSM_DEFAULT_PAUSE_MAX_MS
    PreFinePercent,    \* timeouts.pre_fine_ciclo_percent, 0 when off
    MaxVendUnits,      \* UINT16_MAX / FSM_CENTS_PER_CREDIT: dearest card program
    AdsEnabled

ASSUME FsmAssumption ==
    /\ Price \in [Programs -> Nat]
    /\ Duration \in [Programs -> Nat]
    /\ Pause \in [Programs -> Nat]
    /\ NoProgram \notin Programs
    /\ Amounts \subseteq Nat
    /\ OpenSources \subseteq {"TOUCH", "KEY"}
    /\ CoinTags \subseteq {"COIN", "CCTALK"}
    /\ NoCode \notin QrCodes \cup {CardCode}
    /\ EndedAux \subseteq {0, 1}
    /\ Elapsed \subseteq Nat
    /\ MaxElapsed \in Nat
    /\ SplashTime \in Nat
    /\ SplashSlack \in Nat
    /\ DefaultPause \in Nat
    /\ PreFinePercent \in Nat
    /\ MaxVendUnits \in Nat
    /\ AdsEnabled \in BOOLEAN

VARIABLES
    state,            \* fsm_state_t
    source,           \* session_source
    payment,          \* payment_credit_source
    customer,         \* customer_code
    purse,            \* the credit fields (module Credit)
    running,          \* program_running
    elapsed, target,  \* running_elapsed_ms, running_target_ms
    price, program,   \* running_price_units, running_program_name
    pauseElapsed, pauseMax,
    stopAfter,        \* stop_after_cycle_requested
    preFine,          \* pre_fine_ciclo_active
    inactivity,       \* inactivity_ms
    qrPending,        \* qr_credit_pending
    vendPending,      \* card_vend_pending
    pending,          \* the pending_* fields: program, price, pause, duration
    completeRequired, \* card_session_complete_required
    removed           \* card_session_removed_during_run

session == <<source, payment, customer>>
clock   == <<elapsed, pauseElapsed, inactivity>>
cycle   == <<running, target, price, program, pauseMax, stopAfter, preFine>>
card    == <<vendPending, pending, completeRequired, removed>>
vars    == <<state, session, purse, clock, cycle, qrPending, card>>

States   == {"IDLE", "ADS", "CREDIT", "RUNNING", "PAUSED", "OUT_OF_SERVICE", "LVGL_TEST"}
Sources  == {"NONE", "TOUCH", "KEY", "COIN", "CCTALK", "QR", "CARD"}
Virtual  == {"QR", "CARD"}
Active   == {"RUNNING", "PAUSED"}
Resting  == {"IDLE", "ADS"}
Rest     == IF AdsEnabled THEN "ADS" ELSE "IDLE"
Codes    == QrCodes \cup {CardCode, NoCode}

\* what a card vend in progress will start
Requests == [program : Programs \cup {NoProgram}, price : Nat, pause : Nat, duration : Nat]

NothingPending == [program |-> NoProgram, price |-> 0, pause |-> 0, duration |-> 0]

SessionTypeOK ==
    /\ state \in States
    /\ source \in Sources
    /\ payment \in Sources
    /\ customer \in Codes

CycleTypeOK ==
    /\ running \in BOOLEAN
    /\ elapsed \in Nat /\ target \in Nat
    /\ price \in Nat
    /\ program \in Programs \cup {NoProgram}
    /\ pauseElapsed \in Nat /\ pauseMax \in Nat
    /\ stopAfter \in BOOLEAN
    /\ preFine \in BOOLEAN
    /\ inactivity \in Nat

CardTypeOK ==
    /\ qrPending \in BOOLEAN
    /\ vendPending \in BOOLEAN
    /\ pending \in Requests
    /\ completeRequired \in BOOLEAN
    /\ removed \in BOOLEAN

\* type correctness of the context
TypeOK == SessionTypeOK /\ purse \in Purse /\ CycleTypeOK /\ CardTypeOK

\* fsm_init, then the start state the FSM task picks
Init ==
    /\ state = IF AdsEnabled THEN "ADS" ELSE "CREDIT"
    /\ source = "NONE" /\ payment = "NONE" /\ customer = NoCode
    /\ purse = EmptyPurse
    /\ running = FALSE
    /\ elapsed = 0 /\ target = 0 /\ price = 0 /\ program = NoProgram
    /\ pauseElapsed = 0 /\ pauseMax = DefaultPause
    /\ stopAfter = FALSE /\ preFine = FALSE
    /\ inactivity = 0
    /\ qrPending = FALSE
    /\ vendPending = FALSE /\ pending = NothingPending
    /\ completeRequired = FALSE /\ removed = FALSE

-----------------------------------------------------------------------------
(* Helpers shared by the handlers *)

\* bug: the program stays on record after its end
ResetCycleButName ==
    /\ running' = FALSE
    /\ elapsed' = 0 /\ pauseElapsed' = 0 /\ inactivity' = 0
    /\ target' = 0 /\ price' = 0
    /\ stopAfter' = FALSE /\ preFine' = FALSE
    /\ UNCHANGED <<pauseMax, program>>

\* fsm_reset_runtime_locked: the fields of the program
ResetCycle ==
    /\ running' = FALSE
    /\ elapsed' = 0 /\ pauseElapsed' = 0 /\ inactivity' = 0
    /\ target' = 0 /\ price' = 0 /\ program' = NoProgram
    /\ stopAfter' = FALSE /\ preFine' = FALSE
    /\ UNCHANGED pauseMax

\* bug: the payer outlives every session
ResetPayerNever == UNCHANGED <<payment, customer>>

\* fsm_reset_runtime_locked: the payer, kept in a QR or card session
ResetPayer ==
    IF source \in Virtual
    THEN UNCHANGED <<payment, customer>>
    ELSE payment' = "NONE" /\ customer' = NoCode

\* the assignments that close a session
CloseSession == source' = "NONE" /\ payment' = "NONE" /\ customer' = NoCode

\* the state after fsm_prepare_open_session and the event that follows it:
\* from rest to CREDIT; in CREDIT the event restarts the inactivity time
OpenState ==
    /\ state' = IF state \in Resting THEN "CREDIT" ELSE state
    /\ inactivity' = IF state \in Resting \cup {"CREDIT"} THEN 0 ELSE inactivity

\* fsm_reset_card_vend_pending
ForgetVend == vendPending' = FALSE /\ pending' = NothingPending

\* FSM_EVENT_PROGRAM_SELECTED in CREDIT; the caller has set price and target
StartCycle ==
    /\ state' = "RUNNING"
    /\ running' = TRUE
    /\ elapsed' = 0 /\ pauseElapsed' = 0 /\ inactivity' = 0

\* an event field of 0 leaves the previous value
OrKeep(value, old) == IF value > 0 THEN value ELSE old

-----------------------------------------------------------------------------
(* User activity and payments *)

\* TOUCH, USER_ACTIVITY, KEY: the session becomes one of this source, in any
\* state but OUT_OF_SERVICE, whatever it was before
Activity(tag) ==
    /\ state # "OUT_OF_SERVICE"
    /\ source' = tag
    /\ customer' = NoCode
    /\ OpenState
    /\ UNCHANGED <<payment, purse, elapsed, pauseElapsed, cycle, qrPending, card>>

\* QR_SCANNED: a QR credit is on its way (no task sends it to the FSM today)
QrScanned ==
    /\ state \notin Active \cup {"OUT_OF_SERVICE"}
    /\ qrPending' = TRUE
    /\ IF state \in Resting
       THEN state' = "CREDIT" /\ ResetCycle /\ ResetPayer
       ELSE /\ inactivity' = IF state = "CREDIT" THEN 0 ELSE inactivity
            /\ UNCHANGED <<state, elapsed, pauseElapsed, cycle, payment, customer>>
    /\ UNCHANGED <<source, purse, card>>

\* TOKEN and COIN: tag is the payment source the sender implies
CoinInserted(tag, amount) ==
    /\ state \notin Active \cup {"OUT_OF_SERVICE"}
    /\ source' = "COIN"
    /\ customer' = NoCode
    /\ purse' = AddCents(purse, "COIN", amount)
    /\ payment' = IF amount > 0 THEN tag ELSE payment
    /\ OpenState
    /\ UNCHANGED <<elapsed, pauseElapsed, cycle, qrPending, card>>

\* QR_CREDIT
QrCredited(code, amount) ==
    /\ state \notin Active \cup {"OUT_OF_SERVICE"}
    /\ qrPending' = FALSE
    /\ source' = "QR"
    /\ customer' = code
    /\ purse' = AddCents(purse, "QR", amount)
    /\ payment' = IF amount > 0 THEN "QR" ELSE payment
    /\ OpenState
    /\ UNCHANGED <<elapsed, pauseElapsed, cycle, card>>

\* bug: card credit is taken while a vend is in progress
CardCreditedInVend(amount) ==
    /\ state \notin Active \cup {"OUT_OF_SERVICE"}
    /\ qrPending' = FALSE
    /\ source' = "CARD"
    /\ customer' = CardCode
    /\ removed' = FALSE
    /\ purse' = AddCents(purse, "CARD", amount)
    /\ payment' = IF amount > 0 THEN "CARD" ELSE payment
    /\ OpenState
    /\ UNCHANGED <<elapsed, pauseElapsed, cycle, vendPending, pending, completeRequired>>

\* CARD_CREDIT: refused, but for qr_credit_pending, while a vend is in progress
CardCredited(amount) ==
    /\ state \notin Active \cup {"OUT_OF_SERVICE"}
    /\ qrPending' = FALSE
    /\ IF vendPending
       THEN UNCHANGED <<state, session, purse, inactivity, removed>>
       ELSE /\ source' = "CARD"
            /\ customer' = CardCode
            /\ removed' = FALSE
            /\ purse' = AddCents(purse, "CARD", amount)
            /\ payment' = IF amount > 0 THEN "CARD" ELSE payment
            /\ OpenState
    /\ UNCHANGED <<elapsed, pauseElapsed, cycle, vendPending, pending, completeRequired>>

-----------------------------------------------------------------------------
(* Choice of a program *)

\* the guards PROGRAM_SELECTED has in every session
MaySelect == state = "CREDIT" /\ ~vendPending /\ purse.credit > 0

\* PROGRAM_SELECTED in a card session: nothing is charged yet, the reader is
\* asked to; ok tells whether the MDB task took the request
SelectByCard(p, ok) ==
    /\ MaySelect
    /\ source = "CARD"
    /\ Price[p] > 0 /\ Price[p] <= purse.credit /\ Price[p] <= MaxVendUnits
    /\ vendPending' = ok
    /\ pending' = IF ok THEN [program |-> p, price |-> Price[p], pause |-> Pause[p],
                              duration |-> Duration[p]]
                  ELSE NothingPending
    /\ UNCHANGED <<state, session, purse, clock, cycle, qrPending, completeRequired,
                   removed>>

\* PROGRAM_SELECTED in any other session: the fields of the program are
\* overwritten before the credit is compared with its price
LoadProgram(p) ==
    /\ MaySelect
    /\ source # "CARD"
    /\ pauseMax' = OrKeep(Pause[p], pauseMax)
    /\ target' = OrKeep(Duration[p], target)
    /\ price' = Price[p]
    /\ program' = p
    /\ UNCHANGED <<session, stopAfter, preFine, qrPending, card>>

SelectAndStart(p) ==
    /\ LoadProgram(p)
    /\ Price[p] = 0 \/ CanCharge(purse, Price[p])
    /\ purse' = IF Price[p] = 0 THEN purse ELSE Charged(purse, Price[p])
    /\ StartCycle

SelectUnaffordable(p) ==
    /\ LoadProgram(p)
    /\ Price[p] > 0 /\ ~CanCharge(purse, Price[p])
    /\ UNCHANGED <<state, purse, clock, running>>

\* CARD_VEND_APPROVED: match tells whether the approved amount is the one
\* requested, ok whether VEND_SUCCESS was queued.  Each failure gives the vend
\* up; the last one, a charge refused, comes after the program was loaded.
VendApproved(match, ok) ==
    LET loaded  == match /\ ok /\ pending.price \in 1..MaxVendUnits
        started == loaded /\ CanCharge(purse, pending.price)
    IN  /\ vendPending /\ source = "CARD" /\ state = "CREDIT"
        /\ ForgetVend
        /\ IF loaded
           THEN /\ pauseMax' = OrKeep(pending.pause, pauseMax)
                /\ target' = OrKeep(pending.duration, target)
                /\ price' = pending.price
                /\ program' = pending.program
           ELSE UNCHANGED <<pauseMax, target, price, program>>
        /\ IF started
           THEN /\ purse' = Charged(purse, pending.price)
                /\ completeRequired' = TRUE
                /\ StartCycle
           ELSE UNCHANGED <<state, purse, completeRequired, clock, running>>
        /\ UNCHANGED <<session, stopAfter, preFine, qrPending, removed>>

\* CARD_VEND_DENIED
VendDenied ==
    /\ vendPending /\ source = "CARD" /\ state # "OUT_OF_SERVICE"
    /\ ForgetVend
    /\ UNCHANGED <<state, session, purse, clock, cycle, qrPending, completeRequired,
                   removed>>

-----------------------------------------------------------------------------
(* The running program *)

\* FSM_EVENT_PROGRAM_RESUME
Resume ==
    /\ state' = "RUNNING"
    /\ running' = TRUE
    /\ pauseElapsed' = 0 /\ inactivity' = 0

\* FSM_EVENT_PROGRAM_STOP in RUNNING and PAUSED: the MDB session is completed
\* when the session is still a card one; credit, or a card still in the
\* reader, keeps the session open
StopNow ==
    LET hasCredit == purse.credit > 0 \/ purse.coins["ecd"] + purse.vcd > 0
        stay      == hasCredit \/ (source = "CARD" /\ ~removed)
    IN  /\ ResetCycle
        /\ completeRequired' = (completeRequired /\ source # "CARD")
        /\ IF stay
           THEN /\ state' = "CREDIT"
                /\ purse' = [purse EXCEPT !.credit =
                                IF @ <= 0 THEN purse.coins["ecd"] + purse.vcd ELSE @]
                /\ ResetPayer
                /\ UNCHANGED <<source, removed>>
           ELSE /\ state' = Rest
                /\ CloseSession
                /\ removed' = FALSE
                /\ UNCHANGED purse
        /\ UNCHANGED <<qrPending, vendPending, pending>>

\* PROGRAM_STOP
ProgramStopped == state \in Active /\ StopNow

\* PROGRAM_STOP with aux = 1: stop when the cycle ends, and go on until then
StopAfterCycle ==
    /\ state \in Active
    /\ stopAfter' = TRUE
    /\ IF state = "PAUSED" THEN Resume
       ELSE UNCHANGED <<state, running, pauseElapsed, inactivity>>
    /\ UNCHANGED <<session, purse, elapsed, target, price, program, pauseMax, preFine,
                   qrPending, card>>

\* PROGRAM_PAUSE_TOGGLE
PauseToggled ==
    /\ \/ state = "RUNNING" /\ state' = "PAUSED" /\ running' = FALSE
          /\ pauseElapsed' = 0 /\ inactivity' = 0
       \/ state = "PAUSED" /\ Resume
    /\ UNCHANGED <<session, purse, elapsed, target, price, program, pauseMax, stopAfter,
                   preFine, qrPending, card>>

\* PROGRAM_SWITCH: the time left, scaled by the durations and prices
Scaled(rest, oldDuration, oldPrice, newDuration, newPrice) ==
    IF oldDuration > 0 /\ newDuration > 0
    THEN (rest * newDuration * oldPrice) \div (oldDuration * newPrice)
    ELSE newDuration

TimeLeft == IF target > elapsed THEN target - elapsed ELSE 0

ScaledRest(p) ==
    Scaled(TimeLeft, target, OrKeep(price, 1), Duration[p], OrKeep(Price[p], 1))

\* bug: the time already used is forgotten
SwitchedToRest(p) == ScaledRest(p)

SwitchedTarget(p) == elapsed + ScaledRest(p)

ProgramSwitched(p) ==
    /\ state \in Active
    /\ target' = SwitchedTarget(p)
    /\ price' = OrKeep(Price[p], price)
    /\ pauseMax' = OrKeep(Pause[p], pauseMax)
    /\ program' = p
    /\ IF state = "PAUSED" THEN Resume
       ELSE UNCHANGED <<state, running, pauseElapsed, inactivity>>
    /\ UNCHANGED <<session, purse, elapsed, stopAfter, preFine, qrPending, card>>

\* CREDIT_ENDED: aux = 1 (the user left the page, or the card the reader)
\* drops the virtual credit, aux = 0 all of it.  Only CREDIT, RUNNING and
\* PAUSED move; RUNNING completes the MDB session and PAUSED does not.
CreditEnded(aux) ==
    LET atReader == aux = 1 /\ source = "CARD"
    IN  /\ state # "OUT_OF_SERVICE"
        /\ IF vendPending THEN ForgetVend ELSE UNCHANGED <<vendPending, pending>>
        /\ purse' = IF aux = 1 THEN WithoutVirtual(purse) ELSE EmptyPurse
        /\ completeRequired' =
              (completeRequired /\ ~atReader /\ ~(state = "RUNNING" /\ source = "CARD"))
        /\ removed' = (removed /\ ~atReader /\ state \notin Active)
        /\ IF state \in Active \cup {"CREDIT"}
           THEN /\ state' = IF state = "CREDIT" THEN Rest ELSE "IDLE"
                /\ ResetCycle
                /\ CloseSession
           ELSE UNCHANGED <<state, session, clock, cycle>>
        /\ UNCHANGED qrPending

-----------------------------------------------------------------------------
(* Service states, and the card leaving the reader (written by the FSM task) *)

\* ACTION_ID_SYSTEM_ERROR; the task injects it only outside OUT_OF_SERVICE
SystemError ==
    /\ state # "OUT_OF_SERVICE"
    /\ state' = "OUT_OF_SERVICE"
    /\ running' = FALSE
    /\ UNCHANGED <<session, purse, clock, target, price, program, pauseMax, stopAfter,
                   preFine, qrPending, card>>

\* ACTION_ID_SYSTEM_RUN
SystemRun ==
    /\ state = "OUT_OF_SERVICE"
    /\ state' = "IDLE"
    /\ UNCHANGED <<session, purse, clock, cycle, qrPending, card>>

LvglTestEntered ==
    /\ state \notin {"OUT_OF_SERVICE", "LVGL_TEST"}
    /\ state' = "LVGL_TEST"
    /\ running' = FALSE
    /\ UNCHANGED <<session, purse, clock, target, price, program, pauseMax, stopAfter,
                   preFine, qrPending, card>>

LvglTestExited ==
    /\ state = "LVGL_TEST"
    /\ state' = "IDLE"
    /\ UNCHANGED <<session, purse, clock, cycle, qrPending, card>>

\* removal seen during the program
TagRemovedInProgram ==
    /\ state \in Active /\ source = "CARD" /\ ~vendPending /\ ~removed
    /\ removed' = TRUE
    /\ completeRequired' = FALSE
    /\ purse' = VirtualHidden(purse)
    /\ UNCHANGED <<state, session, clock, cycle, qrPending, vendPending, pending>>

\* removal seen in CREDIT; the CREDIT_ENDED it publishes comes through the mailbox
TagRemovedInCredit ==
    /\ state = "CREDIT" /\ source = "CARD" /\ ~vendPending
    /\ completeRequired' = FALSE
    /\ removed' = FALSE
    /\ UNCHANGED <<state, session, purse, clock, cycle, qrPending, vendPending, pending>>

-----------------------------------------------------------------------------
(* fsm_tick *)

\* bug: the inactivity stops counting short of the timeout
InactiveShort(dt) == Smaller(inactivity + dt, SplashTime - 1)

Inactive(dt) == Smaller(inactivity + dt, SplashTime + SplashSlack)

\* IDLE, ADS, LVGL_TEST, and CREDIT before its timeout
TickWaiting(dt) ==
    /\ state \in {"IDLE", "ADS", "LVGL_TEST", "CREDIT"}
    /\ state = "CREDIT" => Inactive(dt) < SplashTime
    /\ inactivity' = Inactive(dt)
    /\ UNCHANGED <<state, session, purse, elapsed, pauseElapsed, cycle, qrPending, card>>

\* FSM_EVENT_TIMEOUT: a vend in progress is not given up, nor an MDB session
TickCreditTimeout(dt) ==
    /\ state = "CREDIT" /\ Inactive(dt) >= SplashTime
    /\ state' = Rest
    /\ ResetCycle
    /\ ResetPayer
    /\ source' = "NONE"
    /\ purse' = RetainedEcd(purse)
    /\ UNCHANGED <<qrPending, card>>

PreFineReached(dt) ==
    /\ PreFinePercent \in 1..99
    /\ target > 0
    /\ elapsed + dt >= (target * PreFinePercent) \div 100

TickRunning(dt) ==
    /\ state = "RUNNING"
    /\ IF target > 0 THEN elapsed + dt < target ELSE elapsed + dt <= MaxElapsed
    /\ elapsed' = elapsed + dt
    /\ inactivity' = Inactive(dt)
    /\ preFine' = (preFine \/ PreFineReached(dt))
    /\ UNCHANGED <<state, session, purse, pauseElapsed, running, target, price, program,
                   pauseMax, stopAfter, qrPending, card>>

CycleOver(dt) == state = "RUNNING" /\ target > 0 /\ elapsed + dt >= target

Spendable == purse.coins["ecd"] + purse.vcd

\* bug: a stop asked for is not looked at
MayRenewAlways ==
    /\ price > 0
    /\ source # "CARD" /\ payment # "CARD" /\ ~removed
    /\ Spendable > 0
    /\ CanCharge(purse, price)

\* fsm_try_autorenew_running_program
MayRenew ==
    /\ price > 0
    /\ source # "CARD" /\ payment # "CARD" /\ ~removed
    /\ ~stopAfter
    /\ Spendable > 0
    /\ CanCharge(purse, price)

TickRenew(dt) ==
    /\ CycleOver(dt) /\ MayRenew
    /\ purse' = Charged(purse, price)
    /\ elapsed' = 0 /\ pauseElapsed' = 0
    /\ inactivity' = Inactive(dt)
    /\ running' = TRUE
    /\ preFine' = FALSE
    /\ UNCHANGED <<state, session, target, price, program, pauseMax, stopAfter, qrPending,
                   card>>

\* the cycle ends with no credit: a card session goes back to CREDIT, its MDB
\* session still open
TickExhausted(dt) ==
    /\ CycleOver(dt) /\ ~MayRenew /\ Spendable <= 0
    /\ purse' = [purse EXCEPT !.credit = 0]
    /\ ResetCycle
    /\ IF source = "CARD" /\ ~removed
       THEN state' = "CREDIT" /\ UNCHANGED <<session, removed>>
       ELSE state' = Rest /\ CloseSession /\ removed' = FALSE
    /\ UNCHANGED <<qrPending, vendPending, pending, completeRequired>>

\* the cycle ends with credit left but no renewal
TickStop(dt) == CycleOver(dt) /\ ~MayRenew /\ Spendable > 0 /\ StopNow

\* bug: at its limit the pause stops counting, and nothing resumes the program
TickPausedForGood(dt) ==
    /\ state = "PAUSED"
    /\ pauseElapsed' = Smaller(pauseElapsed + dt, pauseMax)
    /\ inactivity' = Inactive(dt)
    /\ UNCHANGED <<state, session, purse, elapsed, cycle, qrPending, card>>

\* a pause lasts at most pause_max_ms
TickPaused(dt) ==
    /\ state = "PAUSED"
    /\ IF pauseElapsed + dt >= pauseMax
       THEN Resume
       ELSE /\ pauseElapsed' = pauseElapsed + dt
            /\ inactivity' = Inactive(dt)
            /\ UNCHANGED <<state, running>>
    /\ UNCHANGED <<session, purse, elapsed, target, price, program, pauseMax, stopAfter,
                   preFine, qrPending, card>>

Tick(dt) ==
    \/ TickWaiting(dt)
    \/ TickCreditTimeout(dt)
    \/ TickRunning(dt)
    \/ TickRenew(dt)
    \/ TickExhausted(dt)
    \/ TickStop(dt)
    \/ TickPaused(dt)

-----------------------------------------------------------------------------

Payment ==
    \E amount \in Amounts :
        \/ \E tag \in CoinTags : CoinInserted(tag, amount)
        \/ \E code \in QrCodes : QrCredited(code, amount)
        \/ CardCredited(amount)

Choice ==
    \/ \E p \in Programs :
        \/ \E ok \in BOOLEAN : SelectByCard(p, ok)
        \/ SelectAndStart(p)
        \/ SelectUnaffordable(p)
        \/ ProgramSwitched(p)
    \/ \E match, ok \in BOOLEAN : VendApproved(match, ok)
    \/ VendDenied

Command ==
    \/ \E tag \in OpenSources : Activity(tag)
    \/ QrScanned
    \/ ProgramStopped
    \/ StopAfterCycle
    \/ PauseToggled
    \/ \E aux \in EndedAux : CreditEnded(aux)

Service ==
    \/ SystemError
    \/ SystemRun
    \/ LvglTestEntered
    \/ LvglTestExited

Removal == TagRemovedInProgram \/ TagRemovedInCredit

Input == Payment \/ Choice \/ Command \/ Service \/ Removal

Time == \E dt \in Elapsed : Tick(dt)

Next == Input \/ Time

Spec == Init /\ [][Next]_vars

-----------------------------------------------------------------------------
(* Safety *)

\* The buckets never hold more than the cap, whatever payments arrive in
\* whatever order and over how many sessions the coins were retained, and a
\* residue is always less than one credit (fsm_add_credit_from_cents_bucket).
CreditWithinCap ==
    /\ Held(purse.coins) <= MaxCredit
    /\ \A b \in Buckets : purse.cents[b] < CentsPerCredit

\* The stored totals, which the guards read, are never more than the buckets
\* hold: the credit shown is the coins plus either all the virtual credit or,
\* after a tag was removed, none of it.
TotalsFollowBuckets ==
    /\ purse.credit = purse.coins["ecd"] + purse.vcd
    /\ purse.vcd \in {0, purse.coins["card"] + purse.coins["qr"]}

\* While the answer of the card reader can still start the program, the local
\* credit covers the price asked for: VEND_APPROVED is never followed by a
\* refused local charge, although coins, timeouts, service states and other
\* sessions may come between the request and the answer.
VendIsCovered ==
    vendPending /\ source = "CARD" =>
        /\ state \notin Active
        /\ pending.price \in 1..MaxVendUnits
        /\ CanCharge(purse, pending.price)

\* The customer code sent with a payment is that of the session: a QR code or
\* the card in QR and card sessions, in whatever state they are left and found
\* again, and none in any other open session, so nobody pays under the code of
\* the customer before.
CustomerIsOfSession ==
    /\ source = "QR" => customer \in QrCodes
    /\ source = "CARD" => customer = CardCode
    /\ source \notin Virtual /\ state \in Active \cup {"CREDIT"} => customer = NoCode

\* The time used never exceeds the time bought, so the remaining time the
\* panel computes by an unsigned subtraction never wraps, across renewals,
\* pauses and switches to programs of another duration and price.
CycleNeverOverruns ==
    state \in Active /\ target > 0 => elapsed <= target

CycleStarts == state' = "RUNNING" /\ (state = "CREDIT" \/ elapsed' < elapsed)

\* Every cycle, started by the user, by the card reader or by the automatic
\* renewal, takes exactly its price out of the buckets.
CyclesArePaid ==
    [][CycleStarts => Held(purse.coins) - Held(purse'.coins) = price']_vars

\* Inserted coins are never lost: only a cycle that starts takes them, whatever
\* timeout, stop, card removal or service state happens to the session.
CoinsOnlyBuyCycles ==
    [][purse'.coins["ecd"] < purse.coins["ecd"] =>
          /\ state' = "RUNNING" /\ elapsed' = 0
          /\ Held(purse.coins) - Held(purse'.coins) = price']_vars

\* After a confirmed "stop at the end of the cycle" nothing more is charged
\* until the program has ended, through pauses, resumes and switches.
StopRequestStopsCharging ==
    [][stopAfter /\ state \in Active /\ state' \in Active =>
          Held(purse'.coins) = Held(purse.coins)]_vars

Life == INSTANCE ProgramLife

\* What the FSM task builds on: whatever the credit, the payers and the time do,
\* state and program on record move as ProgramLife says, and no other way.
ImplementsLife == Life!LifeSpec

-----------------------------------------------------------------------------
(* Liveness *)

\* A pause ends, whatever the customer does or does not do meanwhile: the
\* program resumes, is stopped, or a service state takes over.
PauseEnds == state = "PAUSED" ~> state # "PAUSED"

=============================================================================
