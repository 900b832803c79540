# Verification of the wash machine firmware

The firmware (ESP32-P4, C, FreeRTOS) runs a self-service wash machine: a customer pays with
coins, an NFC card or a QR code, chooses a program on the panel, pauses it, changes it or stops
it, and may let it renew itself as long as there is credit. This directory holds the TLA+ models
of its core, the TLC runs that check them and the proofs TLAPS checks about them.

## 1. Inventory

| Part (source) | State | Operations | Talks to | What is hard |
|---|---|---|---|---|
| **FSM** (`main/fsm.c`, `fsm.h`) | `fsm_ctx_t`: state, session, three credit buckets with stored totals, the running cycle, the card vend | `fsm_handle_input_event`, `fsm_handle_event`, `fsm_tick` | called by the FSM task only; calls the card hooks; publishes events | any event in any state; totals stored beside the buckets; card answers that come late; arithmetic of switches |
| **Mailbox** (`main/fsm.c`) | ring of 32 slots, a mask of recipients each | `fsm_event_publish`, `_from_isr`, `fsm_event_receive` | every task | slots with several readers, freed out of order; expiry; full ring; readers that never read |
| **FSM task** (`main/tasks.c` 2532-3160) | the context, causes of removal and out of service, retry records, relay verification | receive one event, tick, service states, drive devices, verify, report payments | all agents | writes the context beside the FSM; sends itself events through the mailbox; verifies later than it asks |
| **Card hooks** (`main/tasks.c` 1429-1617) | session-removed flag | vend request, vend success, session complete | MDB cashless | each may fail |
| **MDB cashless** (`components/mdb/mdb_cashless.c`) | session, vend, pending events | poll responses, requests | MDB bus, FSM | out of sequence, end of session during a vend, pending events overwritten |
| **MDB bus** (`components/mdb/mdb.c`) | per-device poll state | poll loop, reset, retry | serial line | timeouts, retries; the FSM task writes the same record during an exchange |
| **ccTalk coins** (`components/cctalk/`) | logical state, enabled, online, event counter | START, STOP, poll, buffered credits | serial line, mailbox | 8-bit counter with wrap, lost polls, commands that do not fit in the mailbox |
| **Digital I/O agent** (`main/tasks.c` 490-962) | reply record shared by requester and FSM task | request, reply, abandon | mailbox | reply racing the timeout; who frees |
| **HTTP services, keep-alive** (`components/http_services/`, `main/tasks.c` 3298-3915) | one token for four tasks | login, payment, lookup, keepalive, configuration | server, mailbox | a global without a lock; late answers; retries |
| **Program relays** (`main/tasks.c` 2880-2930, `web_ui_programs.c`) | relays, verification error | apply, read back, clear | digital I/O | follow the event of a turn, not the state |
| **QR scanner, program buttons** | cooldown; none | publish scans and choices | mailbox | the snapshot they decide from is stale when the event is read |
| Panel, web interface, audio, configuration, logging, drivers | see `PROJECT.json` | | | mostly I/O |

What makes each correct. The FSM must neither make nor lose credit, must charge exactly what it
sells, must keep a vend, a customer code and a stop request with the session they belong to, and
must always come back to rest. The mailbox must give each agent its events once, in order and not
too old. A wash by card must start on money the reader holds, and the reader must hear of it
before its session is closed. The relays must be those of the program that runs. An acceptor that is off
while payments are taken must be known to be: verified, or given up aloud; a START that nobody
verifies is the exception (section 5). Out of service must end. A reply record must be freed exactly once. Each coin must
be read once. A payment must be booked once by the server. The hazards, each at its line, with the
properties about them, are in `PROJECT.json`.

## 2. Modules

| Module | Extends / uses | Content |
|---|---|---|
| `Credit` | | the purse: buckets, residues, stored totals, cap, charging order, as operators on a record |
| `ProgramLife` | | abstract: the state and the program on record, all that the rest of the machine relies on |
| `Fsm` | `Credit`, refines `ProgramLife` | the state machine: one action per event handler and per outcome of a tick |
| `FsmMC`, `FsmSession` | `Fsm` | program tables for TLC; a customer who may leave for good |
| `Ranks` | | the order of the members of a set of numbers |
| `EventBus` | `Ranks` | abstract: one first-in first-out inbox per agent, with expiry |
| `Mailbox` | `Ranks`, refines `EventBus` | the ring of slots |
| `MdbCashless` | | the record of a card reader: what each message of the reader and each call of the FSM task makes of it |
| `MdbEngine` | `MdbCashless` | the bus master, the reader as its environment, the events it publishes |
| `CardSale` | | abstract: money held, wash owed, settled or written off |
| `CardVend`, `CardVendMC` | `Fsm`, `MdbEngine`, refines `CardSale` | a wash paid by card: the FSM, the hooks, the bus and the reader together |
| `FsmTurn` | `ProgramLife` | the turn of the FSM task's loop |
| `ProgramOutputs`, `ProgramOutputsMC` | `FsmTurn` | relays and payment reports at the end of a turn; two statements of the documents |
| `CcTalk` | | logical state of the coin acceptor, START and STOP in the mailbox, the acceptor's task |
| `FsmSupervisor` | `FsmTurn`, `CcTalk` | in and out of service, the acceptor set after the state, its verification |
| `CoinEvents` | | the event counter, its baseline, the five events the acceptor keeps |
| `DigitalIoAgent` | | the reply record shared by web server and FSM task |
| `RemoteServices` | | four tasks, one token, the server |
| `FsmProofs`, `VendProofs`, `MailboxProofs`, `OutputsProofs`, `SupervisorProofs`, `DigitalIoProofs`, `CoinProofs`, `RemoteProofs` | the module each is named after | theorems |

### Fsm: from `fsm_ctx_t` to variables

`state`, `source` (session_source), `payment` (payment_credit_source), `customer` (customer_code),
`purse` (ecd_coins, vcd_card_coins, vcd_qr_coins, their residues, vcd_coins, credit_cents),
`running`, `elapsed`, `target`, `price`, `program`, `pauseElapsed`, `pauseMax`, `stopAfter`,
`preFine`, `inactivity`, `qrPending`, `vendPending`, `pending` (the pending_* fields),
`completeRequired`, `removed` (card_session_removed_during_run).

The events of the mailbox are the inputs: any of them may come in any state, because the sender
decides from an old snapshot and the event waits in a queue. The turn of the FSM task's loop (at
most one event, then a tick, then the reaction to a removed card) is not kept together here: the
model allows every order of those steps, more than the loop does. The actions
`TagRemovedInProgram` and `TagRemovedInCredit` are the two writes of the FSM task; whether the
reader reports the card as removed is free (in `CardVend` the reader decides).

Left out, because no handler reads them back or they cannot take another value: the `*_used`
counters, `session_mode` and `allow_additional_payments` (VIRTUAL_LOCKED is never stored),
`pause_limit_reached` (false whenever a handler has returned), out-of-service agent and text, the
rollback after a refused PROGRAM_SELECTED (CREDIT always accepts it). `vcd_cents_residual` is
stored like the totals and read by no guard. The branch of CARD_CREDIT for RUNNING and PAUSED
(`fsm.c` 1036-1056) is unreachable behind the guard at 918-927. `splash_screen_time_ms` is a
constant although the task re-reads it from the configuration.

Sums of the code are 32-bit and the model uses integers. Credits and cents stay far from the width
because of the cap. The product of a switch is 64-bit in the code and its quotient, at most the new
duration times the ratio of the two prices, is cut to 32 bits: the model stands for tables where
that is below 2^32 ms (49 days; a 99-credit program switched to a 1-credit program of less than 12
hours). The threshold of the pre-end signal is a 32-bit product and wraps for targets beyond 12
hours; nothing of the session depends on it.

### Mailbox

One step of the model is what a function does while it holds `s_mb_mutex`; a call that does not get
the mutex in time changes nothing. Time stamps are ages that stop at `TTL + 1`. The counting
semaphore is left out: a reader polls the ring every 2 ms whatever the semaphore says. A slot read
by all keeps its last event in the code; nobody reads it, and the model clears it. The other models
use the mailbox as `EventBus` promises it: a first-in first-out queue that may be full.

### CardVend

`device` is `s_cashless_devices[0]` (session_open, vend status, the pending vend result, the three
request flags, the poll state), `wire` the command sent and not yet answered. A turn of
`mdb_engine_run` is two steps, `Send` and `Receive`: the engine waits up to 120 ms between them and
the FSM task writes the same record meanwhile, without a lock. The reader is not in the
repository: it does what the parser and the commands of `mdb.c` expect of it, may be pulled, may
fail with JUST_RESET, END_SESSION or OUT_OF_SEQUENCE, and keeps one message at a time. Each step of
the FSM task is a step of `Fsm` conjoined with the calls it makes into `mdb_cashless.c` through the
hooks.

Two assumptions keep the model within what happens: `Send` finds the queue empty (the FSM task
receives an event at least every 100 ms and an exchange takes longer than a receive), and a program
is chosen by card only once the reader has heard of the wash before (`Requested`: a program lasts
longer than an exchange).

### FsmTurn, ProgramOutputs, FsmSupervisor

Both build on `ProgramLife` instead of the whole FSM; `Fsm` implements it (checked and proved), so
what they show of states and programs holds of every behaviour of the FSM. `phase` is the place in
the loop, `before` is `state_before`. `ProgramOutputs` adds the event received, the relays and the
reports; `FsmSupervisor` the out-of-service request, `cctalk_retry`, and the acceptor with its task
and its link. Timers are `off`, `armed` or `due`: how long they last does not matter to what is
checked. In `FsmSupervisor`, the verification of the MDB reader is the free request `OtherRequest`
(the resets it makes have the effect of those in `CardVend`); the scanner's state (a variable compared with itself)
and the START and STOP of the test page are left out.

The acceptor is off until the task `main_cctalk_start_acceptor_async` creates has started it
(`BootStart`), beside the FSM task; it takes at most some 2.4 s, so it is over by the time the first
verification is due (2 s after the first program or its end). A command takes effect when it leaves
the mailbox: what `commands` holds first is also the command the driver is carrying out. A command
may grow too old there (`CommandExpires`; the TTL is 1.1 s, and a START may wait 2.1 s for replies),
and other events may leave the mailbox no room (`Room`): both are faults, counted with those of the
devices. `watch` is a history of the last setting: `"watched"` when a verification follows it,
`"unwatched"` when none does or it was over before the command was taken, `"lost"` when it was then
dropped or not heard, had left already, or never came into the mailbox. It guards nothing.
`ProgramOutputs` has no counterpart to the return of `tasks_apply_running_program_outputs` for a program the
table does not have (`tasks.c` 1062): the running program is one of the table's (`ProgramIsKnown`).

### DigitalIoAgent

One client: `web_ui` serves all its requests from one httpd task. Readings and requests of the FSM
task itself run in the caller and share nothing. `handler` is split where the FSM task leaves the
lock before it notifies. The history variable `overtaken` marks the one case in which the code's
protocol fails (section 5); the model does not follow the record after it.

### CoinEvents

`Width` stands for the 256 values of the counter, `Depth` for the five events the acceptor keeps.
The counter of a ccTalk acceptor is 0 only at power-on and goes from its last value to 1. A poll
without an answer is no step. `buffer` is a history: it says of each event the acceptor still
holds what became of it.

### RemoteServices

`job[t]` is where a task is between two calls that block: logging in, storing the token, making the
request, waiting for the answer. `auth` is the token it holds or has sent. A token is good or bad
to the server; `Spoiled` is the server revoking what it issued. `debits`, `timeouts` and `excused`
are histories of the one payment the http task has in progress. Left out: bodies, files by FTP, a
login forwarded by the web page (`/api/login`), the flag for a server that is reached.

## 3. Runs

| Run | Module | Shows | Bounds, distinct states |
|---|---|---|---|
| `fsm_credit` | `FsmMC` | `TypeOK`, `TotalsFollowBuckets`, `VendIsCovered`, `CustomerIsOfSession`; `CyclesArePaid`, `CoinsOnlyBuyCycles`, `StopRequestStopsCharging`; refinement `ImplementsLife` | cap 3, payments of 2 credits, programs of price 1 and 3; 855,383 |
| `fsm_session` | `FsmSession` | `CycleNeverOverruns`, `CreditWithinCap` with residues; `ComesToRest`, `PauseEnds` under fairness | cap 2, 2 cents per credit, payments of 3 cents, durations 3 and 2, prices 1 and 0, pauses 2 and "keep", no ads page; any number of inputs before the customer leaves; 756,570 |
| `mailbox` | `Mailbox` | `MailboxTypeOK`, `RingIsTidy`; refinement `ImplementsBus`; `RoomComesBack` under fairness | 4 slots (3 usable), 3 agents of which one never reads, TTL 1; 25,620 |
| `card_vend` | `CardVendMC` | `EngineTypeOK`; refinement `ImplementsCardSale`; `AnswerGetsThrough`; `AnswerArrives`, `WashIsSettled` under fairness | one program, card of 1, coins of 1, approvals of 1 and 2 cents, queue of 1, one retry, one fault; 250,819 |
| `outputs` | `ProgramOutputsMC` | `OutputsTypeOK`, `RelaysAreOfTheProgram`, `OutputsOffBetweenPrograms`, `CycleIsReported` | two programs, two failures; 67,786 |
| `supervisor` | `FsmSupervisor` | `SupervisorTypeOK`, `AcceptorIsLookedAfter`; `CoinsAreRefused`, `OutOfServiceEnds` under fairness | one program, 2 commands in the mailbox, 2 attempts, one fault (a failure, a command too old, a full mailbox), acceptor and Modbus there or not at boot; 663,124 |
| `digital_io` | `DigitalIoAgent` | `IoTypeOK`, `RecordsAreUsedWhileLive`, `AnswerIsOfTheRequest`; `EveryRecordIsFreed` under fairness | three places on the heap; 1,072 |
| `coin_events` | `CoinEvents` | `CoinTypeOK`, `OnlyNewEventsAreRead`, `NoNewEventIsPassedOver` | counter of 10 values, 3 events kept, 5 between polls; 3,188 |
| `remote` | `RemoteServices` | `RemoteTypeOK`, `DebitedOnce`; `LostPaymentHasACause`; `TokenComesBack` under fairness | all four tasks, two failures; 213,977 |
| `outputs_claim_card`, `outputs_claim_switch` | `ProgramOutputsMC` | two statements of the documents, each refuted | |
| `card_vend_late` | `CardVendMC` | `SuccessIsOfApprovedVend`, a statement of `mdb.h`, refuted | as `card_vend`, three faults |

Why the bounds are enough. *fsm*: the cap of 3 is reached by two payments and passed by the second,
the price of 3 needs credit of more than one bucket, and a payment of 2 into a purse of 2 is cut by
the cap: the three ways a charge or a payment can go wrong happen. *fsm_session*:
the inputs are not counted, so every situation a customer can leave behind is reached.
`MaxElapsed` bounds only programs without a duration, which never end by themselves. Amounts are
2-cent credits instead of 100: residues need only be a proper fraction. CREDIT_ENDED carries
aux = 1, the only value a task publishes; aux = 0, which empties the purse, is a card_vend input and
is covered by the proofs. *mailbox*: three usable slots are the least with a hole between two live
slots, and a TTL of 1 lets an event be new, old and expired. *card_vend*: an approval of 1 is the
price, of 2 a mismatch; a queue of 1 can be full. One fault is what the liveness properties can be
checked with in minutes. More of them matter: with three, `card_vend_late` refutes
`ImplementsCardSale` through an approval that outlives its session, and through nothing else, which
is what `SaleIsImplemented` proves for every number of faults; `AnswersGetThrough` does so for
`AnswerGetsThrough`, which was also checked with five faults and a queue of 1 and of 2, and all
properties with two. *outputs*: two programs are the least with
something to switch to, and two failures let a write fail and its repair fail. *supervisor*: two
commands let STOP stand behind START and let the second not fit; one fault is enough to lose or to
refuse a command, and the invariants were also checked with two. *digital_io*: three records are one
in use, one abandoned in the mailbox and one freed. *coin_events*: only `Depth < MaxFresh < Width`
matters: an overflow, a wrap and both together occur. *remote*: one payment needs one failure of its
own and one of another task.

Deadlock is checked in every run but two: in `fsm_session` a machine out of service with no input
left stops for good (`fsm_tick` returns at once there and only SYSTEM_RUN leaves that state), and in
`digital_io` records lost to expiry use the heap up, and nothing follows the use of a freed record
(`overtaken`).

### Fairness

- `SessionSpec`: weak fairness of `Time` only. The FSM task waits at most `period_ticks`
  (100 ms) for an event and calls `fsm_tick` in every turn whether one came or not (`tasks.c` 2594
  and below), with the time really passed. No input is assumed to come.
- `MailboxSpec`: time passes and the FSM task polls; all other readers may be suspended for good, as
  the panel test and the disabled peripherals do.
- `VendSpec`: the bus task runs (`mdb_engine_run` is called in a loop), the reader decides on a
  request it was given, the FSM task receives its events. The customer need not do anything.
- `SupervisorFair`: both tasks run, and the one that starts the acceptor at boot ends; strong fairness of a period that runs out (`Elapse("due")`) and
  of the retry in out of service, whose timers run out again and again, in whatever turn.
- `IoSpec`: client and FSM task go on once they have begun.
- `RemoteSpec`: every request has a timeout, so a task that has begun goes on; the keepalive task is
  woken by its 10 s timer. Nobody need report a wash.

### What the refuted statements show

1. `outputs_claim_card`: the outputs of a program are set only in a turn whose event is
   PROGRAM_SELECTED or PROGRAM_SWITCH (`tasks.c` 2892). A program paid by card is started by
   CARD_VEND_APPROVED and runs without its relays until a switch (`docs/a_TABELLA_PROGRAMMI.md` 91).
2. `outputs_claim_switch`: the turn that handles PROGRAM_SWITCH publishes a payment of the full price
   (`tasks.c` 3141) although a switch charges nothing (`docs/a_SERVIZI_HTTP.md` 12).
3. `card_vend_late`: the reader approves while the mailbox is full, so the approval stays in the record;
   the reader ends the session before there is room. `mdb_cashless_finalize_session_close`
   (`mdb_cashless.c` 313-331) clears the amount and leaves `vend_result_pending` and
   `vend_result_approved`. The next session passes the approval on with amount 0, the FSM, still
   waiting, takes 0 for the amount it asked for (`fsm.c` 1259), starts the wash and asks for
   VEND_SUCCESS, although the reader holds nothing. `mdb.h` 225: "Richiede l'invio del comando
   VEND_SUCCESS per il vend approvato corrente."

## 4. Proofs

All theorems hold for every value of the constants that the named assumptions allow, hence for any
number of programs, failures, records or events, not only the instances above.

- **`FsmProofs`** (`CreditAssumption`, `FsmAssumption`). `Invariance`: `Spec => []IInv`, with `IInv`
  the conjunction of `TypeOK`, `CreditWithinCap`, `TotalsFollowBuckets`, `VendIsCovered`,
  `CustomerIsOfSession` and `CycleNeverOverruns`; from it `TypeCorrect`, `CapHolds`, `TotalsHold`,
  `VendStaysCovered`, `CustomerStaysOfSession`, `NoOverrun`. `EveryCycleIsPaid`, `StopIsHonoured` and
  (where CREDIT_ENDED always carries aux = 1) `CoinsAreSafe`: the three action properties.
  The argument: all that a step can do to the purse is one of seven moves (`PurseMoves`), and each
  keeps a `GoodPurse`: typed, within the cap, with totals that follow the buckets (`PurseStep`). The
  three need one another: a charge keeps the buckets natural only because its guard reads totals
  that follow them, and the end of a program may overwrite the stored total only because it writes
  the sum it already has (`CreditRestored`). `VendIsCovered` alone is not inductive: the approval
  compares the price with the stored credit, so it needs `TotalsFollowBuckets` to know that the
  buckets hold it, and every step that lowers the buckets must be seen to give up the vend or end
  the card session (`VendStep`); that no removal hides the credit meanwhile is the guard
  `~vendPending` of `TagRemovedInProgram`. `CustomerIsOfSession` and `CycleNeverOverruns` are
  inductive given the types; the latter because a switch adds the scaled rest to the time used.
  `FsmImplementsLife`: `Spec => ImplementsLife`, step by step: each handler of `Fsm` is a step of
  `ProgramLife` or a stutter. `RunningProgramIsKnown`: of `ProgramLife` itself.
- **`VendProofs`** (`EngineAssumption`, `VendAssumption` and those of `Fsm`). First what each call of
  `mdb_cashless.c` leaves of the record (`BegunFields`, `CancelledFields`, ...), what the end of a turn
  publishes and keeps (`EndTurnKeeps`), and all a step of the FSM task may do to record, mailbox and
  what is due (`TaskEffect`). From these `VendInvariance` (`IInv` of `Fsm` with `TypesOK`): the mailbox
  carries only amounts and marks the FSM takes, and a full retry counter is left in ERROR or by a
  reset. Hence `EngineTypesHold`, and `VendImplementsFsm`: `VendSpec => Spec`, so that every theorem
  about `Fsm` holds of the composition.
  `SaleIsImplemented`: `VendSpec /\ []~LateApproval => ImplementsCardSale`, step by step. The types are
  not enough; the invariant `SaleIsBacked` has four parts: `ReaderShape` (what the reader has to say
  fits its phase), `SessionShape` (what needs a session is asked, and answered, in an open one),
  `ApprovalShape` (an approval is in one place at a time, said, kept or in the mailbox, and the money
  is reserved all the way) and `OwedShape` (what a wash owes is still reserved, and VEND_SUCCESS is for
  it). They need one another: a wash may start only because the approval in the mailbox is backed
  (`ApprovalShape`), which a reply may not disturb because the bus master had nothing to ask
  (`SessionShape`). `LateApproval` names the states in which an approval has outlived its session, or
  is about to. The theorem is false without the hypothesis, and the run `card_vend_late` is the
  counterexample; the hypothesis is true of every behaviour in which the mailbox has room when the
  reader approves.
  `AnswersGetThrough`: `VendSpec /\ []~LateApproval => AnswerGetsThrough`. `Underway` lists the places
  an answer can be in; that a step moves it from one of them to the next (`Through`) needs the invariant
  `AnswerIsAwaited`, on top of `SaleIsBacked`: the FSM waits for every vend that is asked of the bus,
  decided or approved, or it has had the session completed (`AwaitedShape`); a reader that is ready or
  pulled has a word to say while its session is open (`WordShape`), so no answer is awaited from a
  reader that keeps silent for ever; a kept answer is of the session that is open, or was
  (`ResultShape`); session, end and vend go together (`SessionHolds`). The hypothesis is the
  invariant's: after an approval has outlived its session the FSM may settle a vend the bus still
  carries. Of the property itself TLC has found no violation without it, up to five faults.
- **`OutputsProofs`** (`LifeAssumption`, `OutputsAssumption`). The three invariants of `ProgramOutputs`
  hold between turns only; the inductive ones say what the turn still owes at each of its phases:
  `EventOfTheTurn` (what the event received has made of the state), `RelaysInTheTurn`, `OffInTheTurn`,
  `ReportInTheTurn`.
- **`DigitalIoProofs`** (`RecordsAssumption`). `IoInv` names the owner of everything at every point:
  `ClientRecord` (what the client's place in the dispatch says of its record), `HandlerRecord`,
  `NotificationOwner` (for whom a pending notification is). From it `NoUseAfterFree`, `OwnAnswer`.
- **`RemoteProofs`** (`RemoteAssumption`). `RemoteInv` has `KindsFit` (only the http task pays),
  `BookedOnTheWay` (what may have been booked at each place of a payment) and `TokenInHand` (a
  payment on its way holds a good token or is excused). From it `NeverDebitedTwice` and, as an action
  property, `NoPaymentLostForNothing`.

- **`MailboxProofs`** (`MailboxAssumption`). `MailboxTypeOK` and `RingIsTidy` are inductive together. The
  remainders of the ring are first turned into distances (`Distance`, from `OnceAround`); the oldest of
  some slots exists because a set of natural numbers has a least one (`LeastNumber`); `HeadRests` then
  says where the head comes to rest, and `Rests` that whatever a scan leaves is tidy. `BusIsImplemented`
  is the refinement: an inbox shows the slots addressed to its agent by their distance from the head
  (`Found`), the n-th event being the one at the n-th least distance (`Nth`, which counts members below
  and needs no recursion). `NthIsMember` says every rank is taken, from a bijection with an interval;
  `NthOfImage` that a growing function keeps the order, which is what moving the head does to the
  distances; `NthOfLonger` that a new greatest distance comes last. So a publication appends
  (`PublishIsOfBus`), a tick only ages (`AgeIsOfBus`), and a scan keeps of every inbox what is young,
  without the reader's oldest (`InboxKept`, `ReceiveIsOfBus`).
- **`SupervisorProofs`** (`LifeAssumption`, `CcTalkAssumption`, `SupervisorAssumption`).
  `AcceptorIsLookedAfter` is not inductive: `AcceptorIsCared` says what is known at every step of the
  turn of an acceptor set to be on whose setting is watched (it is on and nothing waits, or a
  verification or a request for out of service does), `AcceptorIsSet` that after the devices have
  followed the state it is set to be on, or will be; `FlagFollowsState` that verification is only
  skipped out of service. For the settings nobody verifies, `Follows` says that the last command in
  the mailbox is that of the state set last, hence no STOP overtakes a START, and `StartWasHeard` that
  once the mailbox is empty the acceptor is on or the START is counted as lost.
- **`CoinProofs`** (`CoinAssumption`). `CounterFollows` relates counter, last count and events since the
  last poll, also once round; `NewestAreNew` says which events the acceptor keeps are new, `NothingOld`
  what one switched on again keeps. From these `NoCoinTwice` and `NoCoinPassedOver`, for every width.

Only model-checked: all liveness (`PauseEnds`, `ComesToRest`, `RoomComesBack`, `AnswerArrives`,
`WashIsSettled`, `CoinsAreRefused`, `OutOfServiceEnds`, `EveryRecordIsFreed`, `TokenComesBack`), which
is beyond the prover. Every invariant, action property and refinement the passing runs check is
stated by a theorem; where the theorem has a hypothesis the run has not, it is named above.

## 5. What the models show of the code

Exceptions a property names, found while checking it:

- *Stuck reader.* If the FSM task resets the reader's record during a POLL whose answer carries
  BEGIN_SESSION (`tasks.c` 2470), the session is opened on the fresh record; if RESET and SETUP then
  stay unanswered the record is in ERROR with `session_open` set, and both recoveries want it
  cleared (`mdb.c` 1211, `tasks.c` 2513). `AnswerArrives` and `WashIsSettled` except it.
- *Late answer.* An answer the mailbox has no room for is kept in the record and outlives its session
  (`mdb_cashless.c` 327). An approval may start a wash in the next one (`card_vend_late`); any answer
  may be written over by the next session's, and the FSM then waits for it until CREDIT_ENDED.
  `AnswerGetsThrough` excepts it (`Outlived`).
- *Answer without a listener.* An approval that comes after out of service or after the choice timeout
  leaves `vendPending` set; a choice made right after a mismatch or a denial is dropped by the
  SESSION_COMPLETE under way (`mdb.c` 1117) and stays pending (`fsm.c` 1096) until CREDIT_ENDED. A
  removal cancels a VEND_SUCCESS that waits for its turn. `AnswerGetsThrough` and `CardSale` name
  these cases. The engine never sends VEND_FAILURE, does not parse a reply to VEND_REQUEST, and
  parses a lone ACK to EXPANSION as JUST_RESET.
- *Overtaken notification.* If the FSM task is preempted between leaving the lock and
  `xTaskNotifyGive` (`tasks.c` 845) until the next request waits, that request is woken by it, reads
  TIMEOUT and frees a record still in the mailbox. `RecordsAreUsedWhileLive` and `EveryRecordIsFreed`
  except it. A request that expires in the mailbox leaks its record. A SET whose requester gave up
  is executed all the same, never after one accepted later.
- *Counter wrap.* The counter goes from 255 to 1 while the difference is taken modulo 256: one event
  is read once more at every wrap (`cctalk_driver.c` 205; `docs/Internal/gettoniera.md` 80: "Se non cambia, non ci sono nuovi
  eventi"). Coins that fall between START and the first poll are missed, as are those beyond five
  between two polls, and those of an acceptor that did not hear STOP.
- *A START nobody verifies.* The FSM task verifies only the settings it makes to follow the state.
  The start at boot (`init.c` 161) and the START on leaving out of service (`tasks.c` 2684) are not
  verified; a START still in the mailbox, or waiting for replies, when its verification finds the
  acceptor on from before, is not verified again (`tasks.c` 3028); and a STOP that does not fit takes
  the record of the START before it (`tasks.c` 2814), so that, if the program ends at once, nobody
  verifies that START. If such a START is not heard, expires or does not fit, the machine takes
  payments with the acceptor off and nothing notices but the health check, and that only without a
  scanner. `AcceptorIsLookedAfter` names these cases (`watch`), and says that no others exist.
- *Coins on during a program.* A STOP that waits behind a START may expire (1.1 s) before the START
  has had its replies; its verification finds the acceptor still off and passes, the START then
  switches it on, and coins are accepted through the program. So they are when the START at the end
  of a program does not fit and the next program begins: the state set is still SUSPENDED, no STOP is
  asked for (`tasks.c` 2801), and if the acceptor is on (its STOP expired, or the start at boot came
  late) the verification of that START passes. `CoinsAreRefused` excepts these (`LeftOn`).
- *Out of service for good.* `OutOfServiceEnds` excepts an agent that stays at fault; for the acceptor
  that is for ever without a scanner, because nobody starts it there (`tasks.c` 3075).
- *Double booking.* `remote_post` repeats a request whose answer timed out: the server may book a wash
  twice (`DebitedOnce` counts these). A payment refused with 401 is not tried again; between its login
  and its request another task may have cleared or replaced the token. A server that revokes at every
  login could keep the tasks logging in for ever; revocations are bounded failures here.

Divergences from documents or plans, by reading, that follow from the model and are not runs:

- a removed card's credit comes back: the FSM task zeroes totals, not buckets (`tasks.c` 2751);
- the second switch of a cycle scales by the switched target: switching to and fro gains time
  (`fsm.c` 1436); a renewed cycle lasts as long as the last switch left it (`fsm.c` 451);
- a stop request survives out of service and the panel test into the next program (`fsm.c` 697);
- a touch or a coin renames a card session, whose credit is then spent without the reader (`fsm.c` 300
  against `docs/Internal/a_MDB_CASHLESS_IMPORT_PLAN.md` 62); a recharge during a program is dropped by
  the guard (`fsm.c` 918) although a branch handles it;
- `docs/a_FSM.md` 42 and 45 send RUNNING to IDLE when the credit is over; the code goes to ADS when the
  ads page is enabled and to CREDIT with a card in the reader; CREDIT_ENDED in PAUSED does not complete
  the MDB session although RUNNING does; a cycle that ends without credit leaves the session open;
- cents above the cap are lost; a card vend debits the whole price on the card while the local charge
  takes coins first;
- the first health check is due in the first turn (`tasks.c` 2578) and may come before the start at
  boot is done: without a scanner the machine then goes out of service, and the STOP that follows
  keeps it there;
- the health check takes an acceptor stopped on purpose for a faulty one: without a scanner each
  program is cut short by out of service (`tasks.c` 411), which for lack of a working acceptor may not
  end until a scanner is connected (`tasks.c` 3075; `docs/PIANO_EPAPER_USBCDC.md` 78 calls it
  "irrecuperabile"); the acceptor is set to OOS after a START, and with a full mailbox stays on there;
- `RAPPORTO_PAGAMENTO_ATTIVAZIONI.md` 79 keeps the acceptor active in RUNNING and PAUSED; the code
  suspends it (`tasks.c` 2798-2823). The scanner is not switched off in OOS (`tasks.c` 2635-2649);
- relays stay on in out of service and in the panel test until another program starts
  (`tasks.c` 2921 against `docs/a_TABELLA_PROGRAMMI.md` 93);
- a payment without a customer code is sent under the last customer a scan found (`tasks.c` 3815); the
  same code scanned twice credits the purse twice before anything is debited;
- a payment report older than the mailbox's TTL of 1.1 s, while the http task is in a request, is
  dropped; `CycleIsReported` speaks of publication only.

## 6. Not modelled

- Drivers (digital I/O, expanders, Modbus relays, serial lines, LED, PWM, sensors, EEPROM, SD card):
  register and port I/O without protocol state of their own; their failures are faults of the models.
- Panel pages, web pages, languages, fonts, audio: layout and data. Fonts, images and tables of texts are
  most of the repository's lines. What they send is an input of `Fsm`, in any state.
- QR scanner: scan, cooldown and lookup run one after the other in one task; the result is an input of
  `Fsm`. Configuration: read at start, constants here.
- The coin changer of MDB (`mdb_coin_sm`), the revaluation of a card (no task asks for it), MALFUNCTION,
  identities, frames and checksums.
- Start-up, logging, the activity register, vendored drivers and tools.
- Bodies of requests and answers of the server; files by FTP.

Of some 101,000 lines of implementation the models translate about 4,900: the FSM, the loop of its
task, the mailbox, the card reader and its bus, the coin acceptor, the token and the relays, which
are the code that keeps state across tasks. Most of the other lines are fonts, flags, language tables,
pages and drivers, of which a model would repeat the data and have nothing to say.

What is left to do: `AnswersGetThrough` might be proved without its hypothesis; the coin changer
would be a module beside `MdbEngine`; `ProgramOutputs` and `RemoteServices` could be composed
through the mailbox to follow a report to the server.
