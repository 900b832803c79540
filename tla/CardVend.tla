------------------------------ MODULE CardVend ------------------------------
(***************************************************************************)
(* A wash paid by card: the state machine (Fsm), the bus master and the    *)
(* reader (MdbEngine), joined by the hooks of main/tasks.c.  Each step of  *)
(* the FSM task is one of Fsm together with the calls it makes into        *)
(* mdb_cashless.c.  The events of the reader come through the mailbox in   *)
(* order; the customer's may come before or after any of them.  Pauses,    *)
(* switches, service states and the panel test call nothing of the reader  *)
(* and are left to Fsm.                                                    *)
(***************************************************************************)
EXTENDS Fsm, MdbEngine

\* what a card holds is an amount the FSM takes, and a card removed is one way
\* a session ends
ASSUME VendAssumption ==
    /\ Credits \subseteq Amounts
    /\ 1 \in EndedAux

VARIABLES
    inhibit,   \* s_mdb_inhibit_pending, mdb_forced_reset_for_program
    due        \* history: cents of a wash started by card and not settled

fsmTask == <<vars, inhibit, due>>
vendVars == <<fsmTask, bus>>

VendInit ==
    /\ Init
    /\ EngineInit
    /\ inhibit = "OFF"
    /\ due = 0

\* the calls of mdb_cashless.c a step of the FSM task makes
Calls(d) == device' = d /\ UNCHANGED <<wire, retries, reader, faults>>

CallsNothing == Calls(device)

-----------------------------------------------------------------------------
(* Events of the reader, out of the mailbox; one the handler refuses is lost *)

CreditReceived(cents) ==
    /\ IF state \in Active \cup {"OUT_OF_SERVICE"} THEN UNCHANGED vars
       ELSE CardCredited(cents)
    /\ CallsNothing
    /\ UNCHANGED due

\* bug: the program is started and the reader is not told
SuccessForgotten(d, cents) == d

SuccessOf(d, cents) == PreparedSuccess(d, cents)

\* CARD_VEND_APPROVED: an amount of 0 stands for the one requested
ApprovalReceived(cents) ==
    LET requested == pending.price * CentsPerCredit
        amount    == OrKeep(cents, requested)
        match     == amount = requested /\ pending.price \in 1..MaxVendUnits
        taken     == match /\ ActiveDevice(device)
        started   == taken /\ CanCharge(purse, pending.price)
    IN  IF vendPending /\ source = "CARD" /\ state = "CREDIT"
        THEN /\ VendApproved(match, taken)
             /\ Calls(IF started THEN SuccessOf(device, amount)
                      ELSE IF taken THEN Completing(SuccessOf(device, amount))
                      ELSE Completing(device))
             /\ due' = IF started THEN amount ELSE due
        ELSE UNCHANGED <<vars, due>> /\ CallsNothing

DenialReceived ==
    /\ IF vendPending /\ source = "CARD" /\ state # "OUT_OF_SERVICE"
       THEN VendDenied /\ Calls(Completing(device))
       ELSE UNCHANGED vars /\ CallsNothing
    /\ UNCHANGED due

\* CREDIT_ENDED: a vend in progress is given up, a session of a running
\* program completed
Ended(aux) ==
    LET closes == vendPending \/ (/\ state = "RUNNING" /\ source = "CARD"
                                  /\ completeRequired /\ aux = 0)
    IN  /\ CreditEnded(aux)
        /\ Calls(IF closes THEN Completing(device) ELSE device)
        /\ UNCHANGED due

ReceiveEvent ==
    /\ queue # <<>>
    /\ queue' = Tail(queue)
    /\ LET ev == Head(queue) IN
         \/ ev.type = "CARD_CREDIT" /\ CreditReceived(ev.value)
         \/ ev.type = "VEND_APPROVED" /\ ApprovalReceived(ev.value)
         \/ ev.type = "VEND_DENIED" /\ DenialReceived
         \/ ev.type = "CREDIT_ENDED" /\ Ended(ev.value)
         \/ ev.type = "OTHER" /\ UNCHANGED <<vars, due>> /\ CallsNothing
    /\ UNCHANGED inhibit

-----------------------------------------------------------------------------
(* The customer, and time *)

\* PROGRAM_SELECTED in a card session: assumed to come when the reader has been
\* told of the wash before, for a program lasts longer than an exchange
Requested(p) ==
    /\ ~device.success
    /\ SelectByCard(p, ActiveDevice(device))
    /\ Calls(IF ActiveDevice(device) THEN PreparedVend(device, Price[p] * CentsPerCredit)
             ELSE device)

\* the user leaves the page, with credit or without
PageLeft == \E aux \in EndedAux : Ended(aux)

\* PROGRAM_STOP, pressed or at the end of the cycle
CompletingAtStop == IF source = "CARD" /\ completeRequired THEN Completing(device) ELSE device

UserStep ==
    /\ \/ /\ \/ \E p \in Programs : Requested(p)
             \/ /\ \/ \E tag \in OpenSources : Activity(tag)
                   \/ \E p \in Programs : SelectAndStart(p)
                /\ CallsNothing
             \/ ProgramStopped /\ Calls(CompletingAtStop)
          /\ UNCHANGED due
       \/ PageLeft
    /\ UNCHANGED <<queue, inhibit>>

\* an event of another task, without effect on the sale, takes the last room
MailboxFilled ==
    /\ Len(queue) = QueueSize - 1
    /\ queue' = Put(queue, "OTHER", 0)
    /\ faults < MaxFaults /\ faults' = faults + 1
    /\ UNCHANGED <<fsmTask, device, wire, retries, reader>>

TimeStep ==
    /\ \E dt \in Elapsed :
         /\ Tick(dt)
         /\ Calls(IF CycleOver(dt) /\ ~MayRenew /\ Spendable > 0 THEN CompletingAtStop ELSE device)
    /\ UNCHANGED <<queue, inhibit, due>>

-----------------------------------------------------------------------------
(* The rest of a turn of the FSM task *)

\* the card has left; in CREDIT every turn publishes CREDIT_ENDED again
RemovalSeen ==
    /\ CardGone(device)
    /\ CallsNothing
    /\ \/ TagRemovedInProgram /\ UNCHANGED queue
       \/ TagRemovedInCredit
          /\ queue' = IF Len(queue) < QueueSize THEN Put(queue, "CREDIT_ENDED", 1) ELSE queue
    /\ UNCHANGED <<inhibit, due>>

InhibitNeeded == state \in Active /\ source # "CARD"

\* tasks_mdb_inhibit_tick and the lines before its call: a program started
\* without a card resets the reader once, when no session is open
InhibitTurn ==
    /\ \/ InhibitNeeded /\ inhibit = "OFF" /\ inhibit' = "PENDING" /\ CallsNothing
       \/ /\ inhibit # "OFF" /\ inhibit' = "OFF" /\ CallsNothing
          /\ ~InhibitNeeded /\ state \in {"CREDIT", "ADS", "IDLE", "OUT_OF_SERVICE"}
       \/ /\ inhibit = "PENDING" /\ inhibit' = "DONE" /\ state \in Active
          /\ ~device.open /\ Calls(ResetDevice)
    /\ UNCHANGED <<vars, queue, due>>

\* tasks_mdb_recovery_tick
RecoveryTurn ==
    /\ device.poll = "ERROR" /\ ~device.open
    /\ Calls(ResetDevice)
    /\ UNCHANGED <<vars, queue, inhibit, due>>

\* what is due is settled, or written off when the reader ends the session
Settlement ==
    due' = IF \/ wire = "VEND_SUCCESS" /\ wire' = "NONE" /\ reader'.held < reader.held
              \/ reader'.phase = "READY"
           THEN 0 ELSE due

\* neither touches the FSM
Alone == Settlement /\ UNCHANGED <<vars, inhibit>>

EngineTurn == EngineStep /\ Alone

ReaderTurn == ReaderStep /\ Alone

TaskStep ==
    ReceiveEvent \/ UserStep \/ TimeStep \/ RemovalSeen \/ InhibitTurn \/ RecoveryTurn


VendNext == TaskStep \/ MailboxFilled \/ EngineTurn \/ ReaderTurn

\* Both tasks go on with their turns, and the reader decides on what it was
\* asked; the customer need not do anything.
VendSpec ==
    /\ VendInit
    /\ [][VendNext]_vendVars
    /\ WF_vendVars(EngineTurn)
    /\ WF_vendVars(Decision /\ Alone)
    /\ WF_vendVars(ReceiveEvent)

-----------------------------------------------------------------------------

\* an approval the full mailbox had no room for, kept until its session has
\* ended or is about to: the next session's turn passes it on
LateApproval ==
    /\ device.result.pending /\ device.result.approved
    /\ ~device.open \/ device.complete

Sale == INSTANCE CardSale WITH
    Amounts <- {p * CentsPerCredit : p \in 1..MaxVendUnits} \cup Grants,
    card <- CASE reader.phase = "READY"  -> "out"
              [] reader.phase = "PULLED" -> "pulled"
              [] reader.phase = "FAILED" -> "failed"
              [] OTHER -> "in",
    held <- reader.held,
    owed <- due

\* A wash by card starts on money the reader holds, and the reader hears of it
\* before its session is closed, whatever commands are lost or repeated and
\* whatever the FSM asks for while one is on the wire; only a card pulled or a
\* reader that fails may leave a wash unsettled (module CardSale).
ImplementsCardSale == Sale!SaleSpec

\* VEND_SUCCESS is asked for the vend the reader has approved, and holds the
\* money of ("Richiede l'invio del comando VEND_SUCCESS per il vend approvato
\* corrente", mdb.h).  A LateApproval breaks it.
SuccessIsOfApprovedVend ==
    [][~device.success /\ device'.success =>
          reader.held > 0 \/ reader.phase = "FAILED"]_vendVars

\* the reader's answer to the vend the FSM waits for is on its way
Underway ==
    /\ vendPending
    /\ \/ device.open /\ device.vend = "PENDING" /\ reader.phase \notin {"READY", "FAILED"}
       \/ /\ device.vend = "WORKING"
          /\ \/ reader.phase = "ASKED"
             \/ reader.say.code \in {"VEND_APPROVED", "VEND_DENIED", "SESSION_CANCEL"}
       \/ device.result.pending
       \/ \E i \in DOMAIN queue : queue[i].type \in {"VEND_APPROVED", "VEND_DENIED"}

\* an answer that has waited for room in the mailbox until its session was over
Outlived == device.result.pending /\ (~device.open \/ device.session = "OPEN")

\* The answer to a vend is lost between reader and FSM only when a session is
\* completed over it, the reader fails, or a later session writes over an answer
\* the mailbox had no room for.
AnswerGetsThrough ==
    [][Underway /\ vendPending' /\ ~Underway' =>
          \/ device.complete \/ Outlived \/ wire = "RESET"
          \/ reader'.phase = "FAILED" \/ reader.phase = "FAILED"
          \/ state # "CREDIT" \/ source # "CARD"]_vendVars

\* a session opened on a record the FSM task had just reset, and then no reply:
\* neither recovery touches a reader in ERROR whose session is open
Stuck == device.poll = "ERROR" /\ device.open

\* An answer on its way arrives: no lost exchange, full mailbox or reset of the
\* reader keeps it back for ever, unless the reader is stuck.
AnswerArrives == Underway ~> ~Underway \/ Stuck

\* A wash by card is settled with the reader, or the reader ends its session.
WashIsSettled == due > 0 ~> due = 0 \/ Stuck

=============================================================================
