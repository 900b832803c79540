----------------------------- MODULE MdbEngine ------------------------------
(***************************************************************************)
(* The bus master of components/mdb (mdb_engine_run and mdb_cashless_sm)   *)
(* with one card reader on the bus.  A turn of the engine is two steps:    *)
(* Send picks the command, Receive handles the reply; between them, while  *)
(* the engine waits up to 120 ms, the FSM task may write the same record   *)
(* without a lock.  RESET and the POLL after it are one exchange.  The     *)
(* reader is outside the repository: what it does here is what the parser  *)
(* and the commands of mdb.c expect of it.  It speaks in reply to POLL,    *)
(* and keeps one message at a time, the latest.                            *)
(***************************************************************************)
EXTENDS MdbCashless, Sequences

CONSTANTS
    Credits,     \* cents a card may hold when its session begins
    Grants,      \* cents the reader may approve
    Failures,    \* messages a failing reader may end a session with
    MaxFaults,   \* bound: lost exchanges, failures of the reader, full mailboxes
    MaxRetries,  \* MDB_CASHLESS_SETUP_MAX_RETRIES
    QueueSize    \* room for the events of the reader in the mailbox

ASSUME EngineAssumption ==
    /\ Credits \subseteq Nat
    /\ Grants \subseteq Nat \ {0}
    /\ Failures \subseteq {"JUST_RESET", "END_SESSION", "OUT_OF_SEQUENCE"}
    /\ MaxFaults \in Nat
    /\ MaxRetries \in Nat \ {0}
    /\ QueueSize \in Nat \ {0}

VARIABLES
    device,    \* s_cashless_devices[0]
    wire,      \* the command sent and not yet answered
    retries,   \* s_cashless_reset_retries, s_cashless_setup_retries
    queue,     \* events for the FSM in the mailbox, oldest first
    reader,    \* the reader and the card in it
    faults     \* faults so far

engine == <<device, wire, retries, queue>>
bus    == <<engine, reader, faults>>

Commands == {"RESET", "SETUP", "LIMITS", "EXPANSION", "ENABLE", "VEND_REQUEST",
             "VEND_SUCCESS", "SESSION_COMPLETE", "POLL"}

Phases == {"READY", "OPEN", "ASKED", "HELD", "PULLED", "FAILED"}

Silent == [code |-> "NONE", cents |-> 0]

Say(code, cents) == [code |-> code, cents |-> cents]

NoRetries == [reset |-> 0, setup |-> 0]

Events == [type : {"CARD_CREDIT", "VEND_APPROVED", "VEND_DENIED", "CREDIT_ENDED",
                   "OTHER"},
           value : Nat]

\* type correctness of the engine and the reader
EngineTypeOK ==
    /\ device \in Devices
    /\ wire \in Commands \cup {"NONE"}
    /\ retries \in [reset : 0..MaxRetries, setup : 0..MaxRetries]
    /\ queue \in Seq(Events) /\ Len(queue) <= QueueSize
    /\ reader \in [phase : Phases, held : Nat, say : Messages \cup {Silent}]
    /\ faults \in 0..MaxFaults

EngineInit ==
    /\ device = ResetDevice
    /\ wire = "NONE"
    /\ retries = NoRetries
    /\ queue = <<>>
    /\ reader = [phase |-> "READY", held |-> 0, say |-> Silent]
    /\ faults = 0

-----------------------------------------------------------------------------
(* Passing on what the reader said *)

Put(q, type, value) == Append(q, [type |-> type, value |-> value])

\* bug: published whether the mailbox has room or not
TellsCreditAlways(d, q) == d.sync /\ d.credit > 0

\* mdb_cashless_dispatch_pending_credit; a full mailbox keeps it pending
TellsCredit(d, q) == d.sync /\ d.credit > 0 /\ Len(q) < QueueSize

CreditTold(d, q) ==
    IF TellsCredit(d, q) \/ (d.sync /\ d.credit = 0)
    THEN [d EXCEPT !.sync = FALSE, !.synced = d.credit] ELSE d

\* bug: the answer is not kept when the mailbox has no room for it
ResultDropped(d, q) == [d EXCEPT !.result.pending = FALSE]

\* mdb_cashless_dispatch_pending_vend
ResultTold(d, q) ==
    IF d.result.pending /\ Len(q) < QueueSize
    THEN [d EXCEPT !.result.pending = FALSE] ELSE d

\* the end of every turn: credit first, then the answer to a vend
EndTurn(d) ==
    LET q == IF TellsCredit(d, queue) THEN Put(queue, "CARD_CREDIT", d.credit) ELSE queue
        c == CreditTold(d, queue)
    IN  /\ queue' = IF c.result.pending /\ Len(q) < QueueSize
                    THEN Put(q, IF c.result.approved THEN "VEND_APPROVED" ELSE "VEND_DENIED",
                             c.result.cents)
                    ELSE q
        /\ device' = ResultTold(c, q)

-----------------------------------------------------------------------------
(* mdb_cashless_sm *)

\* bug: the session is completed first
ClosingFirst(d) ==
    IF d.complete THEN "SESSION_COMPLETE"
    ELSE IF d.vend = "PENDING" /\ d.request > 0 THEN "VEND_REQUEST"
    ELSE IF d.success /\ d.approved > 0 THEN "VEND_SUCCESS"
    ELSE "POLL"

\* what is asked of the bus, one command a turn
PollingCommand(d) ==
    IF d.vend = "PENDING" /\ d.request > 0 THEN "VEND_REQUEST"
    ELSE IF d.success /\ d.approved > 0 THEN "VEND_SUCCESS"
    ELSE IF d.complete THEN "SESSION_COMPLETE"
    ELSE "POLL"

\* the command of this turn, "NONE" in the turns without one
NextCommand(d) ==
    CASE d.poll = "INIT_RESET"                          -> "RESET"
      [] d.poll = "INIT_SETUP" /\ ~d.config             -> "SETUP"
      [] d.poll = "INIT_SETUP" /\ d.config /\ ~d.setup  -> "LIMITS"
      [] d.poll = "INIT_EXPANSION" /\ ~d.expansion      -> "EXPANSION"
      [] d.poll = "INIT_ENABLE"                         -> "ENABLE"
      [] d.poll = "IDLE_POLLING"                        -> PollingCommand(d)
      [] OTHER -> "NONE"

\* assumed: the FSM, which looks into its mailbox every 2 ms, has read what the
\* last turn published before the next one, 20 ms later
Send ==
    /\ wire = "NONE"
    /\ queue = <<>>
    /\ NextCommand(device) # "NONE"
    /\ wire' = NextCommand(device)
    /\ UNCHANGED <<device, retries, queue, reader, faults>>

\* INACTIVE, an identity already known, and ERROR, which ends after
\* MDB_ERROR_RECOVERY_MS if no session is open
TurnWithoutCommand ==
    /\ wire = "NONE"
    /\ \/ device.poll = "INACTIVE"
          /\ retries' = NoRetries
          /\ EndTurn([device EXCEPT !.poll = "INIT_RESET", !.last = "NONE"])
       \/ device.poll = "INIT_EXPANSION" /\ device.expansion
          /\ EndTurn([device EXCEPT !.poll = "INIT_ENABLE"])
          /\ UNCHANGED retries
       \/ device.poll = "ERROR" /\ ~device.open
          /\ retries' = NoRetries
          /\ EndTurn([ResetDevice EXCEPT !.poll = "INIT_RESET"])
       \/ device.poll = "ERROR" /\ device.open /\ EndTurn(device) /\ UNCHANGED retries
    /\ UNCHANGED <<wire, reader, faults>>

\* no reply: RESET and SETUP are tried MaxRetries times, all others for good
Unanswered ==
    LET r == IF wire = "RESET" THEN [retries EXCEPT !.reset = @ + 1]
             ELSE IF wire \in {"SETUP", "LIMITS"} THEN [retries EXCEPT !.setup = @ + 1]
             ELSE retries
        over == \/ wire = "RESET" /\ r.reset >= MaxRetries
                \/ wire \in {"SETUP", "LIMITS"} /\ r.setup >= MaxRetries
    IN  /\ retries' = r
        /\ EndTurn(IF over THEN [device EXCEPT !.poll = "ERROR"] ELSE device)

\* the reply to POLL; heard is what the reader said, Silent for an ACK
PollAnswered(heard) ==
    LET d == IF heard = Silent THEN device ELSE Parsed(device, heard)
    IN  /\ retries' = IF heard.code = "OUT_OF_SEQUENCE" THEN NoRetries ELSE retries
        /\ EndTurn(CASE heard.code = "JUST_RESET"      -> [d EXCEPT !.poll = "INIT_SETUP"]
                     [] heard.code = "OUT_OF_SEQUENCE" -> [d EXCEPT !.poll = "INIT_RESET"]
                     [] OTHER -> d)

\* the reply to RESET and to the POLL that follows, whose loss is not noticed
ResetAnswered(heard) ==
    LET d == IF heard = Silent THEN device ELSE Parsed(device, heard)
    IN  /\ retries' = NoRetries
        /\ EndTurn([d EXCEPT !.last = "NONE", !.poll = "INIT_SETUP"])

\* the reply to any other command, whose content is not looked at but for the
\* identity; SETUP counts on two bytes at least, LIMITS on a plain ACK
Answered ==
    /\ retries' = IF wire \in {"SETUP", "LIMITS"} THEN [retries EXCEPT !.setup = 0]
                  ELSE retries
    /\ EndTurn(
         CASE wire = "SETUP"     -> [device EXCEPT !.config = TRUE]
           [] wire = "LIMITS"    -> [device EXCEPT !.setup = TRUE, !.poll = "INIT_EXPANSION"]
           [] wire = "EXPANSION" -> Parsed(device, Say("REQUEST_ID", 0))
           [] wire = "ENABLE"    -> [device EXCEPT !.poll = "IDLE_POLLING"]
           [] wire = "VEND_REQUEST" -> [device EXCEPT !.vend = "WORKING"]
           [] wire = "VEND_SUCCESS" -> [device EXCEPT !.success = FALSE, !.session = "OPEN"]
           [] wire = "SESSION_COMPLETE" ->
                 ClosedLocally([device EXCEPT !.complete = FALSE]))

-----------------------------------------------------------------------------
(* The reader, as the engine expects it *)

\* what a command makes of the reader
Obeyed ==
    CASE wire = "RESET" ->
            [phase |-> "READY", held |-> 0, say |-> Say("JUST_RESET", 0)]
      [] wire = "VEND_REQUEST" /\ reader.phase = "OPEN"
                                   /\ reader.say.code # "VEND_DENIED" ->
            [reader EXCEPT !.phase = "ASKED"]
      [] wire = "VEND_SUCCESS" /\ reader.held > 0 ->
            [reader EXCEPT !.held = 0, !.phase = IF @ = "HELD" THEN "OPEN" ELSE @]
      [] wire = "SESSION_COMPLETE" /\ reader.phase \notin {"READY", "FAILED"} ->
            [phase |-> "READY", held |-> 0, say |-> Say("END_SESSION", 0)]
      [] OTHER -> reader

\* the reader has said its word; a failed one starts again
Spoken(r) ==
    [r EXCEPT !.say = Silent, !.phase = IF @ = "FAILED" THEN "READY" ELSE @]

Exchange ==
    /\ wire # "NONE"
    /\ wire' = "NONE"
    /\ \/ wire = "POLL" /\ reader' = Spoken(reader) /\ PollAnswered(reader.say)
       \/ wire = "RESET" /\ reader' = Spoken(Obeyed) /\ ResetAnswered(Obeyed.say)
       \/ wire \notin {"POLL", "RESET"} /\ reader' = Obeyed /\ Answered
    /\ UNCHANGED faults

\* the command is lost, or its reply; after RESET, only that of the POLL
Loss ==
    /\ wire # "NONE"
    /\ faults < MaxFaults /\ faults' = faults + 1
    /\ wire' = "NONE"
    /\ \/ Unanswered /\ reader' \in {reader, Obeyed}
       \/ wire = "RESET" /\ ResetAnswered(Silent) /\ reader' = Obeyed

\* the turn of the engine ends
Receive == Exchange \/ Loss

\* a card is laid on the reader
CardLaid(cents) ==
    /\ reader.phase = "READY" /\ reader.say = Silent
    /\ reader' = [phase |-> "OPEN", held |-> 0, say |-> Say("BEGIN_SESSION", cents)]
    /\ UNCHANGED <<engine, faults>>

\* the reader answers a request, and reserves what it approves
Decision ==
    /\ reader.phase = "ASKED"
    /\ \/ \E cents \in Grants :
            reader' = [phase |-> "HELD", held |-> cents, say |-> Say("VEND_APPROVED", cents)]
       \/ reader' = [phase |-> "OPEN", held |-> 0, say |-> Say("VEND_DENIED", 0)]
    /\ UNCHANGED <<engine, faults>>

\* the card is taken away; what is reserved stays so until the session ends
CardPulled ==
    /\ reader.phase \in {"OPEN", "ASKED", "HELD"}
    /\ reader' = [reader EXCEPT !.phase = "PULLED", !.say = Say("SESSION_CANCEL", 0)]
    /\ UNCHANGED <<engine, faults>>

\* the reader resets itself, or ends the session by itself
ReaderFailed ==
    /\ reader.phase # "FAILED"
    /\ faults < MaxFaults /\ faults' = faults + 1
    /\ \E code \in Failures :
         reader' = [phase |-> "FAILED", held |-> 0, say |-> Say(code, 0)]
    /\ UNCHANGED engine

\* what happens to the reader shows in its next reply only: it is taken to
\* happen while a command is on the wire
ReaderStep ==
    \/ /\ wire # "NONE"
       /\ (\E cents \in Credits : CardLaid(cents)) \/ CardPulled \/ ReaderFailed
    \/ Decision

EngineStep == Send \/ TurnWithoutCommand \/ Receive

=============================================================================
