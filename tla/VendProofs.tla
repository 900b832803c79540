----------------------------- MODULE VendProofs -----------------------------
(***************************************************************************)
(* Proofs about a wash paid by card, for every table of programs, number   *)
(* of faults and room in the mailbox: the composition is a state machine   *)
(* as Fsm describes it, its engine and reader keep their types, and, as    *)
(* long as no approval outlives its session, it implements CardSale and    *)
(* the reader's answer gets to the FSM that waits for it.                  *)
(***************************************************************************)
EXTENDS CardVend, FsmProofs

-----------------------------------------------------------------------------
(* The invariants *)

Readers == [phase : Phases, held : Nat, say : Messages \cup {Silent}]

DeviceOK(d) == d \in Devices /\ d.credit \in Credits \cup {0}

\* SETUP and RESET are tried no more when the count is full: the bus master is
\* in ERROR then, or the FSM has reset the record
RetriesOK(d, w, n) ==
    /\ n \in [reset : 0..MaxRetries, setup : 0..MaxRetries]
    /\ n.reset = MaxRetries \/ n.setup = MaxRetries =>
          w = "NONE" /\ d.poll \in {"ERROR", "INACTIVE"}

\* the amounts and the marks in the mailbox are those the FSM takes
Known(e) ==
    /\ e \in Events
    /\ e.type = "CARD_CREDIT" => e.value \in Credits
    /\ e.type = "CREDIT_ENDED" => e.value = 1

QueueOK(q) ==
    /\ q \in Seq(Events) /\ Len(q) <= QueueSize
    /\ \A i \in 1..Len(q) : Known(q[i])

ReaderOK(r) ==
    /\ r \in Readers
    /\ r.say.code = "BEGIN_SESSION" => r.say.cents \in Credits

\* type correctness, with what it rests on
TypesOK ==
    /\ DeviceOK(device)
    /\ wire \in Commands \cup {"NONE"}
    /\ RetriesOK(device, wire, retries)
    /\ QueueOK(queue)
    /\ ReaderOK(reader)
    /\ faults \in 0..MaxFaults
    /\ due \in Nat

\* what the reader has to say fits the phase it is in
ReaderShape(r) ==
    /\ r.phase \in {"READY", "OPEN", "ASKED", "FAILED"} => r.held = 0
    /\ r.phase = "HELD" => r.held # 0
    /\ r.say.code = "VEND_APPROVED" => r.phase = "HELD" /\ r.say.cents = r.held
    /\ r.say.code = "BEGIN_SESSION" => r.phase \in {"OPEN", "ASKED"}
    /\ r.say.code = "VEND_DENIED" => r.phase = "OPEN"
    /\ r.say.code \in {"END_SESSION", "JUST_RESET"} => r.phase \in {"READY", "FAILED"}
    /\ r.say.code = "SESSION_CANCEL" => r.phase = "PULLED"
    /\ r.say.code = "OUT_OF_SEQUENCE" => r.phase = "FAILED"
    /\ r.say.code # "REQUEST_ID"
    /\ r.phase = "FAILED" => r.say.code \in Failures

\* the session the bus master keeps is the one the reader is in: what needs one
\* is asked of the bus, and answered, in an open session only
SessionShape(d, w, r) ==
    /\ d.poll = "IDLE_POLLING" =>
          w \in {"NONE", "POLL", "VEND_REQUEST", "VEND_SUCCESS", "SESSION_COMPLETE"}
    /\ d.open => d.present /\ d.last \notin {"SESSION_CANCEL", "END_SESSION"}
    /\ d.vend = "PENDING" => d.open /\ d.request # 0
    /\ r.phase \in {"ASKED", "HELD"} => d.open /\ d.poll = "IDLE_POLLING"
    /\ w = "VEND_REQUEST" => d.open /\ d.vend = "PENDING" /\ d.poll = "IDLE_POLLING"
    /\ w = "VEND_SUCCESS" => d.success /\ d.vend # "PENDING"
    /\ w = "SESSION_COMPLETE" /\ d.open => d.complete
    /\ d.success =>
          /\ d.open /\ d.approved # 0 /\ d.poll = "IDLE_POLLING"
          /\ w \in {"NONE", "VEND_REQUEST", "VEND_SUCCESS"}
          /\ r.phase \in {"OPEN", "HELD", "PULLED", "FAILED"}
          /\ r.phase = "OPEN" => d.vend # "PENDING"

\* c cents approved are still reserved, for no wash yet, unless the reader failed
Backed(c, r, u) ==
    /\ u = 0
    /\ c # 0
    /\ r.phase = "FAILED" \/ (r.phase \in {"HELD", "PULLED"} /\ r.held = c)
    /\ r.say.code # "VEND_APPROVED"

\* an approval of the open session that waits for room in the mailbox
Kept(d) == d.open /\ d.result.pending /\ d.result.approved

Approving(q) == {i \in 1..Len(q) : q[i].type = "VEND_APPROVED"}

\* an approval is in one place at a time: said by the reader, kept by the bus
\* master or in the mailbox, and it is backed all the way
ApprovalShape(d, w, q, r, u) ==
    /\ r.say.code = "VEND_APPROVED" => u = 0
    /\ Kept(d) => d.poll = "IDLE_POLLING" /\ Backed(d.result.cents, r, u)
    /\ \A i \in Approving(q) :
          /\ w = "NONE"
          /\ d.open =>
                /\ d.poll = "IDLE_POLLING" /\ ~Kept(d)
                /\ Backed(q[i].value, r, u)
                /\ \A j \in Approving(q) : i = j

\* what a wash owes is reserved in the reader, and VEND_SUCCESS is for it
OwedShape(d, r, u) ==
    /\ u # 0 => r.phase = "FAILED" \/ (r.phase \in {"HELD", "PULLED"} /\ r.held = u)
    /\ u # 0 /\ r.phase = "HELD" => d.success /\ r.say = Silent
    /\ d.success /\ r.held # 0 => u = r.held

Shape(d, w, q, r, u) ==
    /\ ReaderShape(r)
    /\ SessionShape(d, w, r)
    /\ ApprovalShape(d, w, q, r, u)
    /\ OwedShape(d, r, u)

SaleIsBacked == Shape(device, wire, queue, reader, due)

-----------------------------------------------------------------------------
(* The record of the reader: what each call leaves of its fields *)

Results == [pending : BOOLEAN, approved : BOOLEAN, cents : Nat]

\* What is parsed is written to a record marked present.
LEMMA HeardType ==
    ASSUME NEW d \in Devices, NEW code \in Responses
    PROVE  LET e == [d EXCEPT !.last = code, !.present = TRUE]
           IN  /\ e \in Devices
               /\ e.last = code /\ e.present
               /\ e.poll = d.poll /\ e.open = d.open /\ e.vend = d.vend
               /\ e.session = d.session /\ e.credit = d.credit
               /\ e.request = d.request /\ e.approved = d.approved
               /\ e.result = d.result /\ e.success = d.success
               /\ e.complete = d.complete /\ e.synced = d.synced /\ e.sync = d.sync
  BY DEF Devices, Responses

\* A record written afresh.
LEMMA ZeroedFields ==
    ASSUME NEW d, d.last \in Responses \cup {"NONE"}
    PROVE  /\ Zeroed(d) \in Devices
           /\ Zeroed(d).credit = 0 /\ ~Zeroed(d).open /\ ~Zeroed(d).success
           /\ Zeroed(d).vend = "IDLE" /\ Zeroed(d).poll = "INACTIVE"
           /\ Zeroed(d).session = "IDLE" /\ ~Zeroed(d).result.pending
  <1>1. NoResult \in Results
    BY DEF NoResult, Results
  <1> QED BY <1>1 DEF Zeroed, Devices, Polls, Responses, NoResult, Results

LEMMA ResetFields ==
    /\ ResetDevice \in Devices
    /\ ResetDevice.credit = 0 /\ ~ResetDevice.open /\ ~ResetDevice.success
    /\ ResetDevice.vend = "IDLE" /\ ResetDevice.poll = "INACTIVE"
    /\ ResetDevice.session = "IDLE" /\ ~ResetDevice.result.pending
  BY ZeroedFields DEF ResetDevice

LEMMA BegunType ==
    ASSUME NEW e \in Devices, NEW cents \in Nat
    PROVE  Begun(e, cents) \in Devices
  <1>1. NoResult \in Results
    BY DEF NoResult, Results
  <1> DEFINE ending == e.session = "ENDING"
             told   == e.open /\ ~ending /\ e.synced = cents
             vend == IF ending THEN "IDLE" ELSE e.vend
             request == IF ending THEN 0 ELSE e.request
             approved == IF ending THEN 0 ELSE e.approved
             result == IF ending THEN NoResult ELSE e.result
             sync == IF told THEN e.sync ELSE cents > 0
  <1>2. /\ vend \in {"IDLE", "PENDING", "WORKING", "APPROVED", "DENIED"}
        /\ request \in Nat /\ approved \in Nat /\ result \in Results
    BY <1>1 DEF Devices, Results
  <1>3. sync \in BOOLEAN
    <2>1. e.sync \in BOOLEAN /\ (cents > 0) \in BOOLEAN
      BY DEF Devices
    <2> HIDE DEF told
    <2> QED BY <2>1
  <1>4. Begun(e, cents) =
            [e EXCEPT !.open = TRUE, !.session = "OPEN",
                      !.complete = FALSE, !.success = FALSE, !.credit = cents,
                      !.vend = vend, !.request = request, !.approved = approved,
                      !.result = result, !.sync = sync]
    BY DEF Begun, Devices
  <1> HIDE DEF vend, request, approved, result, sync
  <1>5. [e EXCEPT !.open = TRUE, !.session = "OPEN",
                  !.complete = FALSE, !.success = FALSE, !.credit = cents,
                  !.vend = vend, !.request = request, !.approved = approved,
                  !.result = result, !.sync = sync] \in Devices
    BY <1>2, <1>3 DEF Devices, Results
  <1> QED BY <1>4, <1>5, Zenon

LEMMA BegunFields ==
    ASSUME NEW e \in Devices, NEW cents \in Nat
    PROVE  LET p == Begun(e, cents)
           IN  /\ p.open /\ p.session = "OPEN" /\ ~p.success /\ ~p.complete
               /\ p.credit = cents /\ p.poll = e.poll /\ p.present = e.present
               /\ p.last = e.last
               /\ p.vend = "IDLE" \/ (p.vend = e.vend /\ p.request = e.request)
               /\ ~p.result.pending \/ p.result = e.result
  <1>1. CASE e.session = "ENDING"
    BY <1>1 DEF Begun, Devices, NoResult
  <1>2. CASE e.session # "ENDING"
    BY <1>2 DEF Begun, Devices
  <1> QED BY <1>1, <1>2

LEMMA CancelledFields ==
    ASSUME NEW e \in Devices
    PROVE  LET p == Cancelled(e)
           IN  /\ p \in Devices
               /\ ~p.open /\ p.session = "ENDING" /\ p.complete /\ ~p.success
               /\ p.vend \in {"IDLE", "DENIED"} /\ p.credit = e.credit /\ p.poll = e.poll
               /\ \/ e.vend \in {"PENDING", "WORKING"}
                  \/ e.session \in {"VEND_REQUESTED", "VEND_APPROVED"}
                  => p.result.pending
  <1>1. NoResult \in Results
    BY DEF NoResult, Results
  <1> DEFINE asked == e.vend \in {"PENDING", "WORKING"}
                      \/ e.session \in {"VEND_REQUESTED", "VEND_APPROVED"}
  <1>2. CASE asked
    BY <1>1, <1>2 DEF Cancelled, Devices, NoResult, Results
  <1>3. CASE ~asked
    BY <1>1, <1>3 DEF Cancelled, Devices, NoResult, Results
  <1> QED BY <1>2, <1>3

LEMMA ApprovedFields ==
    ASSUME NEW e \in Devices, NEW cents \in Nat
    PROVE  LET p == Approved(e, cents)
           IN  /\ p \in Devices
               /\ p.open = e.open /\ p.success = e.success /\ p.complete = e.complete
               /\ p.session = "VEND_APPROVED" /\ p.vend = "APPROVED"
               /\ p.credit = e.credit /\ p.poll = e.poll
               /\ p.present = e.present /\ p.last = e.last /\ p.approved = cents
               /\ p.result = [pending |-> TRUE, approved |-> TRUE, cents |-> cents]
  BY DEF Approved, Devices

LEMMA DeniedFields ==
    ASSUME NEW e \in Devices
    PROVE  LET p == Denied(e)
           IN  /\ p \in Devices
               /\ p.open = e.open /\ p.success = e.success
               /\ p.session = "ENDING" /\ p.complete /\ p.result.pending
               /\ p.vend = "DENIED" /\ p.credit = e.credit /\ p.poll = e.poll
               /\ p.present = e.present /\ p.last = e.last
               /\ p.approved = e.approved /\ ~p.result.approved
  BY DEF Denied, Devices, NoResult

LEMMA FinalizedFields ==
    ASSUME NEW e \in Devices
    PROVE  LET p == Finalized(e)
           IN  /\ p \in Devices
               /\ ~p.open /\ ~p.success /\ p.vend = "IDLE" /\ p.credit = 0
               /\ p.session = "IDLE" /\ p.result.pending = e.result.pending
               /\ p.poll = e.poll
  <1> DEFINE r == [e.result EXCEPT !.cents = 0]
  <1>1. r \in Results
    BY DEF Devices, Results
  <1>2. Finalized(e) =
            [e EXCEPT !.open = FALSE, !.session = "IDLE", !.vend = "IDLE",
                      !.request = 0, !.approved = 0, !.result = r,
                      !.credit = 0, !.synced = 0, !.sync = FALSE,
                      !.success = FALSE, !.complete = FALSE, !.last = "END_SESSION"]
    BY DEF Devices, Finalized
  <1> HIDE DEF r
  <1>3. [e EXCEPT !.open = FALSE, !.session = "IDLE", !.vend = "IDLE",
                  !.request = 0, !.approved = 0, !.result = r,
                  !.credit = 0, !.synced = 0, !.sync = FALSE,
                  !.success = FALSE, !.complete = FALSE, !.last = "END_SESSION"]
            \in Devices
    BY <1>1 DEF Devices, Results, Responses
  <1>4. Finalized(e) \in Devices
    BY <1>2, <1>3, Zenon
  <1>5. r.pending = e.result.pending
    BY DEF r, Devices
  <1> QED BY <1>2, <1>4, <1>5 DEF Devices

LEMMA OutOfSequenceFields ==
    ASSUME NEW e \in Devices
    PROVE  LET p == OutOfSequence(e)
           IN  /\ p \in Devices
               /\ ~p.open /\ p.success = e.success /\ p.vend = "IDLE"
               /\ p.session = "IDLE"
               /\ p.credit = e.credit /\ p.poll = e.poll
  BY DEF OutOfSequence, Devices

LEMMA ClosedLocallyFields ==
    ASSUME NEW e \in Devices
    PROVE  LET p == ClosedLocally(e)
           IN  /\ p \in Devices
               /\ ~p.open /\ p.poll = e.poll
               /\ p.success => e.success /\ ~e.open
               /\ p.vend = "IDLE" \/ (p.vend = e.vend /\ ~e.open)
               /\ p.session # "ENDING" /\ p.result.pending = e.result.pending
               /\ p.credit \in {0, e.credit}
  <1>1. CASE e.open \/ e.session = "ENDING"
    <2>1. ClosedLocally(e) = Finalized(e)
      BY <1>1, Zenon DEF ClosedLocally
    <2> QED BY <2>1, FinalizedFields
  <1>2. CASE ~(e.open \/ e.session = "ENDING")
    <2>1. ClosedLocally(e) = e
      BY <1>2, Zenon DEF ClosedLocally
    <2> QED BY <1>2, <2>1
  <1> QED BY <1>1, <1>2

\* The calls of the FSM task.
LEMMA CompletingFields ==
    ASSUME NEW d \in Devices
    PROVE  LET p == Completing(d)
           IN  /\ p \in Devices
               /\ p.poll = d.poll /\ p.present = d.present /\ p.open = d.open
               /\ p.vend = d.vend /\ p.request = d.request /\ p.credit = d.credit
               /\ p.approved = d.approved /\ p.result = d.result
               /\ p.success = d.success /\ p.last = d.last
               /\ d.complete \/ ActiveDevice(d) => p.complete
               /\ p.session = d.session \/ (p.session = "ENDING" /\ p.complete)
  <1>1. CASE ActiveDevice(d)
    BY <1>1 DEF Completing, Devices
  <1>2. CASE ~ActiveDevice(d)
    BY <1>2 DEF Completing
  <1> QED BY <1>1, <1>2

LEMMA PreparedVendFields ==
    ASSUME NEW d \in Devices, NEW cents \in Nat
    PROVE  LET p == PreparedVend(d, cents)
           IN  /\ p \in Devices
               /\ p.poll = d.poll /\ p.present = d.present /\ p.open = d.open
               /\ p.vend = "PENDING" /\ p.request = cents /\ p.credit = d.credit
               /\ p.session = "VEND_REQUESTED"
               /\ p.approved = d.approved /\ p.result = d.result
               /\ p.success = d.success /\ p.complete = d.complete
               /\ p.last = d.last
  BY DEF PreparedVend, Devices

LEMMA PreparedSuccessFields ==
    ASSUME NEW d \in Devices, NEW cents \in Nat
    PROVE  LET p == PreparedSuccess(d, cents)
           IN  /\ p \in Devices
               /\ p.poll = d.poll /\ p.present = d.present /\ p.open = d.open
               /\ p.vend = d.vend /\ p.request = d.request /\ p.credit = d.credit
               /\ p.session = d.session /\ p.approved = cents /\ p.result = d.result
               /\ p.success /\ p.complete = d.complete /\ p.last = d.last
  BY DEF PreparedSuccess, Devices

-----------------------------------------------------------------------------
(* The end of a turn: what is published, and what is kept *)

\* A turn's end touches nothing of the record but what it has told.
Told(p, d) ==
    /\ p.poll = d.poll /\ p.present = d.present /\ p.open = d.open
    /\ p.session = d.session
    /\ p.vend = d.vend /\ p.request = d.request /\ p.credit = d.credit
    /\ p.approved = d.approved /\ p.success = d.success /\ p.complete = d.complete
    /\ p.last = d.last
    /\ p.result.approved = d.result.approved /\ p.result.cents = d.result.cents
    /\ p.result.pending => d.result.pending

LEMMA PutKeeps ==
    ASSUME NEW q, QueueOK(q), NEW type, NEW value, Len(q) < QueueSize,
           Known([type |-> type, value |-> value])
    PROVE  LET p == Put(q, type, value)
           IN  /\ QueueOK(p)
               /\ Len(p) = Len(q) + 1
               /\ \A i \in 1..Len(q) : p[i] = q[i]
               /\ p[Len(q) + 1] = [type |-> type, value |-> value]
  BY EngineAssumption DEF Put, QueueOK, Known

LEMMA TailKeeps ==
    ASSUME NEW q, QueueOK(q), q # <<>>
    PROVE  /\ QueueOK(Tail(q))
           /\ Len(Tail(q)) = Len(q) - 1
           /\ \A i \in 1..Len(q) - 1 : Tail(q)[i] = q[i + 1]
           /\ Known(Head(q)) /\ Head(q) = q[1] /\ 1 \in 1..Len(q)
  <1>1. q \in Seq(Events) /\ Len(q) \in Nat \ {0} /\ 1 \in 1..Len(q)
    BY DEF QueueOK
  <1>2. /\ Tail(q) \in Seq(Events) /\ Len(Tail(q)) = Len(q) - 1
        /\ \A i \in 1..Len(q) - 1 : Tail(q)[i] = q[i + 1]
        /\ Head(q) = q[1]
    BY <1>1
  <1>3. \A i \in 1..Len(q) - 1 : i + 1 \in 1..Len(q)
    BY <1>1
  <1>4. \A i \in 1..Len(q) : Known(q[i])
    BY DEF QueueOK
  <1>5. \A i \in 1..Len(Tail(q)) : Known(Tail(q)[i])
    BY <1>2, <1>3, <1>4
  <1>6. Len(Tail(q)) <= QueueSize
    BY <1>1, <1>2, EngineAssumption DEF QueueOK
  <1> QED BY <1>1, <1>2, <1>4, <1>5, <1>6 DEF QueueOK

LEMMA CreditToldFields ==
    ASSUME NEW d \in Devices, NEW q
    PROVE  LET c == CreditTold(d, q)
           IN  c \in Devices /\ Told(c, d) /\ c.result = d.result
  <1>1. CASE TellsCredit(d, q) \/ (d.sync /\ d.credit = 0)
    BY <1>1 DEF CreditTold, Devices, Told
  <1>2. CASE ~(TellsCredit(d, q) \/ (d.sync /\ d.credit = 0))
    BY <1>2 DEF CreditTold, Devices, Told
  <1> QED BY <1>1, <1>2

LEMMA ResultToldFields ==
    ASSUME NEW d \in Devices, NEW q
    PROVE  LET c == ResultTold(d, q)
           IN  /\ c \in Devices /\ Told(c, d)
               /\ d.result.pending /\ Len(q) < QueueSize => ~c.result.pending
  <1>1. CASE d.result.pending /\ Len(q) < QueueSize
    BY <1>1 DEF ResultTold, Devices, Told
  <1>2. CASE ~(d.result.pending /\ Len(q) < QueueSize)
    BY <1>2 DEF ResultTold, Devices, Told
  <1> QED BY <1>1, <1>2

\* An approval in the mailbox was there before, or is the one the record kept.
LEMMA EndTurnKeeps ==
    ASSUME NEW d, DeviceOK(d), QueueOK(queue), EndTurn(d)
    PROVE  /\ DeviceOK(device') /\ Told(device', d)
           /\ QueueOK(queue')
           /\ \A i \in Approving(queue') :
                 \/ i \in Approving(queue) /\ queue'[i] = queue[i]
                 \/ /\ d.result.pending /\ d.result.approved /\ ~device'.result.pending
                    /\ queue'[i].value = d.result.cents
                    /\ i = Len(queue')
  <1> DEFINE tells == TellsCredit(d, queue)
             q     == IF tells THEN Put(queue, "CARD_CREDIT", d.credit) ELSE queue
             c     == CreditTold(d, queue)
             kind  == IF c.result.approved THEN "VEND_APPROVED" ELSE "VEND_DENIED"
  <1>1. /\ c \in Devices /\ Told(c, d) /\ c.result = d.result
        /\ d.result \in Results
    BY CreditToldFields DEF DeviceOK, Devices, Results
  <1>2. /\ QueueOK(q)
        /\ \A i \in Approving(q) : i \in Approving(queue) /\ q[i] = queue[i]
    <2>1. CASE tells
      <3>1. d.credit \in Credits /\ Len(queue) < QueueSize
        BY <2>1 DEF TellsCredit, DeviceOK
      <3>2. Known([type |-> "CARD_CREDIT", value |-> d.credit])
        BY <3>1, EngineAssumption DEF Known, Events
      <3> QED
        BY <2>1, <3>1, <3>2, PutKeeps DEF Approving, QueueOK
    <2>2. CASE ~tells
      BY <2>2
    <2> QED BY <2>1, <2>2
  <1>3. /\ queue' = IF c.result.pending /\ Len(q) < QueueSize
                    THEN Put(q, kind, c.result.cents) ELSE q
        /\ device' = ResultTold(c, q)
    BY DEF EndTurn
  <1> HIDE DEF q, c
  <1>4. /\ device' \in Devices /\ Told(device', c)
        /\ c.result.pending /\ Len(q) < QueueSize => ~device'.result.pending
    BY <1>1, <1>3, ResultToldFields
  <1>5. DeviceOK(device') /\ Told(device', d)
    BY <1>1, <1>4 DEF DeviceOK, Told
  <1>6. CASE c.result.pending /\ Len(q) < QueueSize
    <2>1. queue' = Put(q, kind, c.result.cents)
      BY <1>3, <1>6
    <2>2. Known([type |-> kind, value |-> c.result.cents])
      BY <1>1 DEF Known, Events, Results
    <2>3. /\ QueueOK(queue') /\ Len(queue') = Len(q) + 1
          /\ \A i \in 1..Len(q) : queue'[i] = q[i]
          /\ queue'[Len(q) + 1] = [type |-> kind, value |-> c.result.cents]
      BY <1>2, <1>6, <2>1, <2>2, PutKeeps
    <2> HIDE DEF kind
    <2> QED
      BY <1>1, <1>2, <1>4, <1>5, <1>6, <2>3 DEF Approving, QueueOK, kind
  <1>7. CASE ~(c.result.pending /\ Len(q) < QueueSize)
    BY <1>2, <1>3, <1>5, <1>7
  <1> QED BY <1>6, <1>7

-----------------------------------------------------------------------------
(* A step of the FSM task: a step of Fsm, and few things for the others *)

VendPrices == {p * CentsPerCredit : p \in 1..MaxVendUnits}

Answers == {"VEND_APPROVED", "VEND_DENIED"}

\* the state in which the FSM takes the reader's answer
Awaiting == vendPending /\ source = "CARD" /\ state = "CREDIT"

\* a vend given up is one whose session is completed
GivenUp ==
    /\ vendPending' => vendPending
    /\ vendPending => vendPending' \/ device' = Completing(device)

\* All a step of the FSM task does to the reader's record, the mailbox, what is
\* due and the vend it waits for.
TaskEffect ==
    /\ UNCHANGED <<wire, retries, reader, faults>>
    /\ \/ /\ device' \in {device, Completing(device)}
          /\ \/ queue' = queue
             \/ /\ queue # <<>> /\ queue' = Tail(queue)
                /\ Head(queue).type \in Answers /\ Awaiting => ~vendPending'
             \/ Len(queue) < QueueSize /\ queue' = Put(queue, "CREDIT_ENDED", 1)
          /\ due' = due
          /\ GivenUp
       \/ /\ ActiveDevice(device) /\ ~device.success
          /\ \E cents \in Nat \ {0} : device' = PreparedVend(device, cents)
          /\ UNCHANGED <<queue, due>>
          /\ ~vendPending /\ vendPending'
       \/ /\ ~device.open /\ device' = ResetDevice
          /\ UNCHANGED <<queue, due, vendPending>>
       \/ /\ ActiveDevice(device) /\ ~vendPending'
          /\ queue # <<>> /\ Head(queue).type = "VEND_APPROVED" /\ queue' = Tail(queue)
          /\ \E cents \in VendPrices :
                /\ Head(queue).value \in {0, cents}
                /\ device' = PreparedSuccess(device, cents)
                /\ due' = cents

LEMMA PriceInCents ==
    ASSUME NEW p \in Nat, p > 0
    PROVE  p * CentsPerCredit \in Nat \ {0}
  BY CreditAssumption

\* VEND_APPROVED: what the FSM takes, it can charge (VendIsCovered).
LEMMA ApprovalEffect ==
    ASSUME IInv, NEW v \in Nat, ApprovalReceived(v)
    PROVE  /\ [Next]_vars
           /\ UNCHANGED <<wire, retries, reader, faults>>
           /\ \/ /\ device' \in {device, Completing(device)} /\ due' = due
                 /\ GivenUp /\ (Awaiting => ~vendPending')
              \/ /\ ActiveDevice(device) /\ ~vendPending'
                 /\ \E cents \in VendPrices :
                       v \in {0, cents} /\ device' = PreparedSuccess(device, cents)
                                       /\ due' = cents
  <1> DEFINE requested == pending.price * CentsPerCredit
             amount    == OrKeep(v, requested)
             match     == amount = requested /\ pending.price \in 1..MaxVendUnits
             taken     == match /\ ActiveDevice(device)
             started   == taken /\ CanCharge(purse, pending.price)
  <1>1. CASE ~Awaiting
    BY <1>1 DEF ApprovalReceived, CallsNothing, Calls, Awaiting, GivenUp, vars, card
  <1>2. CASE Awaiting
    <2>1. /\ VendApproved(match, taken)
          /\ Calls(IF started THEN PreparedSuccess(device, amount)
                   ELSE IF taken THEN Completing(PreparedSuccess(device, amount))
                   ELSE Completing(device))
          /\ due' = IF started THEN amount ELSE due
      BY <1>2 DEF ApprovalReceived, SuccessOf, Awaiting
    <2>2. taken => started
      BY <1>2 DEF IInv, VendIsCovered, Awaiting
    <2>3. ~vendPending'
      BY <2>1 DEF VendApproved, ForgetVend
    <2>4. Next
      <3>1. match \in BOOLEAN /\ taken \in BOOLEAN
        OBVIOUS
      <3> HIDE DEF match, taken
      <3> QED BY <2>1, <3>1 DEF Next, Input, Choice
    <2>5. CASE started
      <3>1. amount \in VendPrices /\ v \in {0, amount} /\ ActiveDevice(device)
        <4>1. pending.price \in 1..MaxVendUnits /\ amount = requested
          BY <2>5
        <4>2. amount \in VendPrices
          BY <4>1 DEF VendPrices
        <4>3. v \in {0, amount}
          BY DEF OrKeep
        <4> QED BY <2>5, <4>2, <4>3
      <3>2. device' = PreparedSuccess(device, amount) /\ due' = amount
        BY <2>1, <2>5 DEF Calls
      <3> HIDE DEF amount, started
      <3> QED BY <2>1, <2>4, <2>3, <3>1, <3>2 DEF Calls
    <2>6. CASE ~started
      <3>1. device' = Completing(device) /\ due' = due
        BY <2>1, <2>2, <2>6 DEF Calls
      <3> QED BY <2>1, <2>4, <2>3, <3>1 DEF Calls, GivenUp
    <2> QED BY <2>5, <2>6
  <1> QED BY <1>1, <1>2

\* CREDIT_ENDED gives up the vend in progress, and the session is completed.
LEMMA EndedGivesUp ==
    ASSUME NEW aux, Ended(aux)
    PROVE  /\ GivenUp /\ device' \in {device, Completing(device)}
           /\ due' = due /\ UNCHANGED <<wire, retries, reader, faults>>
  <1>1. /\ CreditEnded(aux) /\ due' = due /\ UNCHANGED <<wire, retries, reader, faults>>
        /\ device' \in {device, Completing(device)}
        /\ vendPending => device' = Completing(device)
    BY DEF Ended, Calls
  <1>2. vendPending' => vendPending
    BY <1>1 DEF CreditEnded, ForgetVend
  <1> QED BY <1>1, <1>2 DEF GivenUp

LEMMA EventEffect ==
    ASSUME TypesOK, IInv, ReceiveEvent
    PROVE  [Next]_vars /\ TaskEffect
  <1> DEFINE ev == Head(queue)
  <1>1. /\ queue # <<>> /\ queue' = Tail(queue)
        /\ Known(ev)
    BY TailKeeps DEF ReceiveEvent, TypesOK
  <1>2. CASE ev.type = "CARD_CREDIT" /\ CreditReceived(ev.value)
    <2>1. ev.value \in Amounts
      BY <1>1, <1>2, VendAssumption DEF Known
    <2>2. [Next]_vars
      BY <1>2, <2>1 DEF CreditReceived, Next, Input, Payment
    <2>3. vendPending' = vendPending
      BY <1>2 DEF CreditReceived, CardCredited, vars, card
    <2> QED
      BY <1>1, <1>2, <2>2, <2>3
         DEF CreditReceived, CallsNothing, Calls, TaskEffect, GivenUp, Answers
  <1>3. CASE ev.type = "VEND_APPROVED" /\ ApprovalReceived(ev.value)
    <2>1. ev.value \in Nat
      BY <1>1 DEF Known, Events
    <2> QED
      BY <1>1, <1>3, <2>1, ApprovalEffect DEF TaskEffect
  <1>4. CASE ev.type = "VEND_DENIED" /\ DenialReceived
    <2>1. CASE vendPending /\ source = "CARD" /\ state # "OUT_OF_SERVICE"
      <3>1. /\ VendDenied /\ ~vendPending' /\ device' = Completing(device)
            /\ due' = due /\ UNCHANGED <<wire, retries, reader, faults>>
        BY <1>4, <2>1 DEF DenialReceived, Calls, VendDenied, ForgetVend
      <3> QED
        BY <1>1, <3>1 DEF TaskEffect, GivenUp, Next, Input, Choice
    <2>2. CASE ~(vendPending /\ source = "CARD" /\ state # "OUT_OF_SERVICE")
      BY <1>1, <1>4, <2>2
         DEF DenialReceived, CallsNothing, Calls, TaskEffect, GivenUp, Awaiting, vars, card
    <2> QED BY <2>1, <2>2
  <1>5. CASE ev.type = "CREDIT_ENDED" /\ Ended(ev.value)
    <2>1. ev.value \in EndedAux
      BY <1>1, <1>5, VendAssumption DEF Known
    <2>2. CreditEnded(ev.value)
      BY <1>5 DEF Ended
    <2>3. Next
      BY <2>1, <2>2 DEF Next, Input, Command
    <2> QED
      BY <1>1, <1>5, <2>3, EndedGivesUp DEF Ended, Calls, TaskEffect, Answers
  <1>6. CASE ev.type = "OTHER" /\ UNCHANGED <<vars, due>> /\ CallsNothing
    BY <1>1, <1>6 DEF CallsNothing, Calls, TaskEffect, GivenUp, Answers, vars, card
  <1> QED
    BY <1>2, <1>3, <1>4, <1>5, <1>6 DEF ReceiveEvent

LEMMA UserEffect ==
    ASSUME UserStep
    PROVE  [Next]_vars /\ TaskEffect
  <1>1. UNCHANGED <<queue, inhibit>>
    BY DEF UserStep
  <1>2. ASSUME NEW p \in Programs, Requested(p), due' = due
        PROVE  [Next]_vars /\ TaskEffect
    <2>1. SelectByCard(p, ActiveDevice(device)) /\ ~device.success
      BY <1>2 DEF Requested
    <2>2. Next
      <3> DEFINE ok == ActiveDevice(device)
      <3>1. ok \in BOOLEAN /\ SelectByCard(p, ok)
        BY <2>1 DEF ActiveDevice
      <3> HIDE DEF ok
      <3> QED BY <3>1 DEF Next, Input, Choice
    <2>3. Price[p] * CentsPerCredit \in Nat \ {0}
      <3>1. Price[p] \in Nat /\ Price[p] > 0
        BY <2>1, FsmAssumption DEF SelectByCard
      <3> QED BY <3>1, PriceInCents
    <2>4. ~vendPending /\ (vendPending' <=> ActiveDevice(device))
      BY <2>1 DEF SelectByCard, MaySelect
    <2>5. CASE ActiveDevice(device)
      BY <1>1, <1>2, <2>1, <2>2, <2>3, <2>5, <2>4 DEF Requested, Calls, TaskEffect
    <2>6. CASE ~ActiveDevice(device)
      BY <1>1, <1>2, <2>2, <2>6, <2>4 DEF Requested, Calls, TaskEffect, GivenUp
    <2> QED BY <2>5, <2>6
  <1>3. ASSUME NEW tag \in OpenSources, Activity(tag), CallsNothing, due' = due
        PROVE  [Next]_vars /\ TaskEffect
    <2>1. vendPending' = vendPending
      BY <1>3 DEF Activity, card
    <2> QED
      BY <1>1, <1>3, <2>1 DEF Next, Input, Command, CallsNothing, Calls, TaskEffect, GivenUp
  <1>4. ASSUME NEW p \in Programs, SelectAndStart(p), CallsNothing, due' = due
        PROVE  [Next]_vars /\ TaskEffect
    <2>1. vendPending' = vendPending
      BY <1>4 DEF SelectAndStart, LoadProgram, card
    <2> QED
      BY <1>1, <1>4, <2>1 DEF Next, Input, Choice, CallsNothing, Calls, TaskEffect, GivenUp
  <1>5. CASE ProgramStopped /\ Calls(CompletingAtStop) /\ due' = due
    <2>1. vendPending' = vendPending
      BY <1>5 DEF ProgramStopped, StopNow
    <2> QED
      BY <1>1, <1>5, <2>1
         DEF Next, Input, Command, CompletingAtStop, Calls, TaskEffect, GivenUp
  <1>6. ASSUME NEW aux \in EndedAux, Ended(aux)
        PROVE  [Next]_vars /\ TaskEffect
    <2>1. Next
      BY <1>6 DEF Ended, Next, Input, Command
    <2> QED
      BY <1>1, <1>6, <2>1, EndedGivesUp DEF Ended, Calls, TaskEffect
  <1> QED
    BY <1>2, <1>3, <1>4, <1>5, <1>6 DEF UserStep, PageLeft

LEMMA TaskStepEffect ==
    ASSUME TypesOK, IInv, TaskStep
    PROVE  [Next]_vars /\ TaskEffect
  <1>1. CASE TimeStep
    <2>1. PICK dt \in Elapsed :
            /\ Tick(dt)
            /\ Calls(IF CycleOver(dt) /\ ~MayRenew /\ Spendable > 0
                     THEN CompletingAtStop ELSE device)
      BY <1>1 DEF TimeStep
    <2>2. UNCHANGED <<queue, due>>
      BY <1>1 DEF TimeStep
    <2>3. Next
      BY <2>1 DEF Next, Time
    <2>4. vendPending' = vendPending
      BY <2>1 DEF Tick, TickWaiting, TickCreditTimeout, TickRunning, TickRenew,
                  TickExhausted, TickStop, StopNow, TickPaused, card
    <2> QED
      BY <2>1, <2>2, <2>3, <2>4 DEF Calls, CompletingAtStop, TaskEffect, GivenUp
  <1>2. CASE RemovalSeen
    <2>1. vendPending' = vendPending
      BY <1>2 DEF RemovalSeen, TagRemovedInProgram, TagRemovedInCredit
    <2> QED
      BY <1>2, <2>1
         DEF RemovalSeen, CallsNothing, Calls, TaskEffect, GivenUp, Next, Input, Removal
  <1>3. CASE InhibitTurn
    BY <1>3 DEF InhibitTurn, CallsNothing, Calls, TaskEffect, GivenUp, vars, card
  <1>4. CASE RecoveryTurn
    BY <1>4 DEF RecoveryTurn, Calls, TaskEffect, vars, card
  <1> QED
    BY <1>1, <1>2, <1>3, <1>4, EventEffect, UserEffect DEF TaskStep

-----------------------------------------------------------------------------
(* Types *)

LEMMA ParsedOK ==
    ASSUME NEW d, DeviceOK(d), NEW msg \in Messages,
           msg.code = "BEGIN_SESSION" => msg.cents \in Credits
    PROVE  DeviceOK(Parsed(d, msg))
  <1> DEFINE e == [d EXCEPT !.last = msg.code, !.present = TRUE]
             p == Parsed(d, msg)
  <1> SUFFICES DeviceOK(p)
    OBVIOUS
  <1>1. e \in Devices /\ e.credit = d.credit /\ d.credit \in Credits \cup {0}
        /\ msg.code \in Responses /\ msg.cents \in Nat /\ e.last = msg.code
    BY HeardType DEF DeviceOK, Messages
  <1>2. \/ p = e
        \/ p = Zeroed(e)
        \/ msg.code = "BEGIN_SESSION" /\ p = Begun(e, msg.cents)
        \/ p = Cancelled(e)
        \/ p = Approved(e, msg.cents)
        \/ p = Denied(e)
        \/ p = Finalized(e)
        \/ p = [e EXCEPT !.expansion = TRUE]
        \/ p = OutOfSequence(e)
    BY <1>1 DEF Parsed, Responses
  <1> HIDE DEF e, p
  <1>3. CASE p = Zeroed(e)
    BY <1>1, <1>3, ZeroedFields DEF DeviceOK
  <1>4. CASE msg.code = "BEGIN_SESSION" /\ p = Begun(e, msg.cents)
    BY <1>1, <1>4, BegunType, BegunFields DEF DeviceOK
  <1>5. CASE p = Cancelled(e)
    BY <1>1, <1>5, CancelledFields DEF DeviceOK
  <1>6. CASE p = Approved(e, msg.cents)
    BY <1>1, <1>6, ApprovedFields DEF DeviceOK
  <1>7. CASE p = Denied(e)
    BY <1>1, <1>7, DeniedFields DEF DeviceOK
  <1>8. CASE p = Finalized(e)
    BY <1>1, <1>8, FinalizedFields DEF DeviceOK
  <1>9. CASE p = [e EXCEPT !.expansion = TRUE]
    BY <1>1, <1>9 DEF DeviceOK, Devices
  <1>10. CASE p = OutOfSequence(e)
    BY <1>1, <1>10, OutOfSequenceFields DEF DeviceOK
  <1> QED
    BY <1>1, <1>2, <1>3, <1>4, <1>5, <1>6, <1>7, <1>8, <1>9, <1>10 DEF DeviceOK

LEMMA SayType ==
    /\ Silent \in Messages \cup {Silent}
    /\ Silent.code = "NONE" /\ "NONE" \notin Responses
    /\ \A code \in Responses, cents \in Nat :
          /\ Say(code, cents) \in Messages
          /\ Say(code, cents).code = code /\ Say(code, cents).cents = cents
  BY DEF Silent, Say, Messages, Responses

LEMMA ReaderMoves ==
    ASSUME ReaderOK(reader)
    PROVE  /\ ReaderOK(Obeyed)
           /\ \A r : ReaderOK(r) => ReaderOK(Spoken(r))
  <1>1. ReaderOK(Obeyed)
    <2>1. /\ Say("JUST_RESET", 0) \in Messages /\ Say("END_SESSION", 0) \in Messages
          /\ Say("JUST_RESET", 0).code # "BEGIN_SESSION"
          /\ Say("END_SESSION", 0).code # "BEGIN_SESSION"
      BY DEF Say, Messages, Responses
    <2>2. /\ ReaderOK([phase |-> "READY", held |-> 0, say |-> Say("JUST_RESET", 0)])
          /\ ReaderOK([phase |-> "READY", held |-> 0, say |-> Say("END_SESSION", 0)])
      BY <2>1 DEF ReaderOK, Readers, Phases
    <2>3. ReaderOK([reader EXCEPT !.phase = "ASKED"])
      BY DEF ReaderOK, Readers, Phases
    <2>4. ReaderOK([reader EXCEPT !.held = 0,
                                  !.phase = IF @ = "HELD" THEN "OPEN" ELSE @])
      <3>1. CASE reader.phase = "HELD"
        BY <3>1 DEF ReaderOK, Readers, Phases
      <3>2. CASE reader.phase # "HELD"
        BY <3>2 DEF ReaderOK, Readers, Phases
      <3> QED BY <3>1, <3>2
    <2> QED BY <2>2, <2>3, <2>4 DEF Obeyed
  <1>2. ASSUME NEW r, ReaderOK(r)
        PROVE  ReaderOK(Spoken(r))
    <2>1. Silent.code # "BEGIN_SESSION"
      BY DEF Silent
    <2>2. CASE r.phase = "FAILED"
      BY <1>2, <2>1, <2>2 DEF Spoken, ReaderOK, Readers, Phases
    <2>3. CASE r.phase # "FAILED"
      BY <1>2, <2>1, <2>3 DEF Spoken, ReaderOK, Readers, Phases
    <2> QED BY <2>2, <2>3
  <1> QED BY <1>1, <1>2

LEMMA RetriesStart ==
    /\ NoRetries \in [reset : 0..MaxRetries, setup : 0..MaxRetries]
    /\ NoRetries.reset # MaxRetries /\ NoRetries.setup # MaxRetries
  BY EngineAssumption DEF NoRetries

\* What a turn that ends leaves, given the record it ends with.
LEMMA TurnTypes ==
    ASSUME TypesOK, NEW d, DeviceOK(d), EndTurn(d),
           wire' = "NONE", ReaderOK(reader'), faults' \in 0..MaxFaults, due' \in {0, due},
           retries' \in [reset : 0..MaxRetries, setup : 0..MaxRetries],
           retries'.reset = MaxRetries \/ retries'.setup = MaxRetries =>
               d.poll \in {"ERROR", "INACTIVE"}
    PROVE  TypesOK'
  <1>1. DeviceOK(device') /\ device'.poll = d.poll /\ QueueOK(queue')
    BY EndTurnKeeps DEF TypesOK, Told
  <1> QED
    BY <1>1 DEF TypesOK, RetriesOK

LEMMA SettlementType ==
    ASSUME Settlement
    PROVE  due' \in {0, due}
  BY DEF Settlement

\* A record but for the place of its reader in the start-up.
SamePayment(p, d) ==
    /\ d.present => p.present
    /\ p.open = d.open /\ p.session = d.session /\ p.vend = d.vend
    /\ p.request = d.request /\ p.credit = d.credit
    /\ p.approved = d.approved /\ p.result = d.result
    /\ p.success = d.success /\ p.complete = d.complete
    /\ p.last \in {d.last, "NONE", "REQUEST_ID"}

\* The bus master goes on to another state; the response code may be cleared.
LEMMA PollMoves ==
    ASSUME NEW d \in Devices, NEW x \in Polls
    PROVE  /\ LET p == [d EXCEPT !.poll = x]
              IN  p \in Devices /\ p.poll = x /\ SamePayment(p, d)
           /\ LET p == [d EXCEPT !.poll = x, !.last = "NONE"]
              IN  p \in Devices /\ p.poll = x /\ p.last = "NONE" /\ SamePayment(p, d)
           /\ LET p == [d EXCEPT !.last = "NONE", !.poll = x]
              IN  p \in Devices /\ p.poll = x /\ p.last = "NONE" /\ SamePayment(p, d)
  <1>1. LET p == [d EXCEPT !.poll = x]
        IN  p \in Devices /\ p.poll = x /\ SamePayment(p, d)
    BY DEF Devices, SamePayment
  <1>2. LET p == [d EXCEPT !.poll = x, !.last = "NONE"]
        IN  p \in Devices /\ p.poll = x /\ p.last = "NONE" /\ SamePayment(p, d)
    BY DEF Devices, SamePayment
  <1>3. LET p == [d EXCEPT !.last = "NONE", !.poll = x]
        IN  p \in Devices /\ p.poll = x /\ p.last = "NONE" /\ SamePayment(p, d)
    BY DEF Devices, SamePayment
  <1> QED BY <1>1, <1>2, <1>3

\* The records the replies to the commands leave.
LEMMA SetupFields ==
    ASSUME NEW d \in Devices
    PROVE  \A p \in {[d EXCEPT !.config = TRUE],
                      [d EXCEPT !.setup = TRUE, !.poll = "INIT_EXPANSION"],
                      [d EXCEPT !.poll = "IDLE_POLLING"]} :
              p \in Devices /\ SamePayment(p, d)
  <1>1. LET p == [d EXCEPT !.config = TRUE]
        IN  p \in Devices /\ SamePayment(p, d)
    BY DEF Devices, SamePayment
  <1>2. LET p == [d EXCEPT !.setup = TRUE, !.poll = "INIT_EXPANSION"]
        IN  p \in Devices /\ SamePayment(p, d)
    BY DEF Devices, SamePayment, Polls
  <1>3. LET p == [d EXCEPT !.poll = "IDLE_POLLING"]
        IN  p \in Devices /\ SamePayment(p, d)
    BY DEF Devices, SamePayment, Polls
  <1> QED BY <1>1, <1>2, <1>3

LEMMA WorkingFields ==
    ASSUME NEW d \in Devices
    PROVE  LET p == [d EXCEPT !.vend = "WORKING"]
           IN  /\ p \in Devices
               /\ p.poll = d.poll /\ p.present = d.present /\ p.open = d.open
               /\ p.session = d.session /\ p.vend = "WORKING" /\ p.credit = d.credit
               /\ p.approved = d.approved /\ p.result = d.result
               /\ p.success = d.success /\ p.complete = d.complete
               /\ p.last = d.last
  BY DEF Devices

LEMMA SettledFields ==
    ASSUME NEW d \in Devices
    PROVE  LET p == [d EXCEPT !.success = FALSE, !.session = "OPEN"]
           IN  /\ p \in Devices
               /\ p.poll = d.poll /\ p.present = d.present /\ p.open = d.open
               /\ p.vend = d.vend /\ p.request = d.request /\ p.credit = d.credit
               /\ p.approved = d.approved /\ p.result = d.result
               /\ p.session = "OPEN" /\ ~p.success /\ p.complete = d.complete
               /\ p.last = d.last
  BY DEF Devices

LEMMA CompletedFields ==
    ASSUME NEW d \in Devices
    PROVE  LET p == [d EXCEPT !.complete = FALSE]
           IN  /\ p \in Devices
               /\ p.poll = d.poll /\ p.open = d.open /\ p.vend = d.vend
               /\ p.credit = d.credit /\ p.success = d.success /\ p.result = d.result
  BY DEF Devices

LEMMA IdentityFields ==
    ASSUME NEW d \in Devices
    PROVE  LET p == Parsed(d, Say("REQUEST_ID", 0))
           IN  /\ p \in Devices
               /\ p.poll = d.poll /\ SamePayment(p, d)
  <1>1. Say("REQUEST_ID", 0).code = "REQUEST_ID"
    BY DEF Say
  <1>2. Parsed(d, Say("REQUEST_ID", 0)) =
            [d EXCEPT !.last = "REQUEST_ID", !.present = TRUE, !.expansion = TRUE]
    BY <1>1 DEF Parsed, Devices
  <1> QED BY <1>2 DEF Devices, Responses, SamePayment

\* Types over a step of the FSM task.
LEMMA TaskTypes ==
    ASSUME TypesOK, TaskEffect
    PROVE  TypesOK'
  <1>1. /\ DeviceOK(device) /\ QueueOK(queue) /\ due \in Nat
        /\ RetriesOK(device, wire, retries)
    BY DEF TypesOK
  <1>2. DeviceOK(device') /\ device'.poll \in {device.poll, "INACTIVE"}
    <2>1. \A c \in VendPrices : c \in Nat
      BY CreditAssumption, FsmAssumption DEF VendPrices
    <2>2. device \in Devices /\ device.credit \in Credits \cup {0}
      BY <1>1 DEF DeviceOK
    <2>3. CASE device' \in {device, Completing(device)}
      BY <2>2, <2>3, CompletingFields DEF DeviceOK
    <2>4. CASE \E cents \in Nat \ {0} : device' = PreparedVend(device, cents)
      BY <2>2, <2>4, PreparedVendFields DEF DeviceOK
    <2>5. CASE device' = ResetDevice
      BY <2>5, ResetFields DEF DeviceOK
    <2>6. CASE \E cents \in VendPrices : device' = PreparedSuccess(device, cents)
      BY <2>1, <2>2, <2>6, PreparedSuccessFields DEF DeviceOK
    <2> QED BY <2>3, <2>4, <2>5, <2>6 DEF TaskEffect
  <1>3. QueueOK(queue')
    <2>1. Known([type |-> "CREDIT_ENDED", value |-> 1])
      BY DEF Known, Events
    <2>2. CASE queue' = queue
      BY <1>1, <2>2
    <2>3. CASE queue # <<>> /\ queue' = Tail(queue)
      BY <1>1, <2>3, TailKeeps
    <2>4. CASE Len(queue) < QueueSize /\ queue' = Put(queue, "CREDIT_ENDED", 1)
      BY <1>1, <2>1, <2>4, PutKeeps
    <2> QED BY <2>2, <2>3, <2>4 DEF TaskEffect
  <1>4. due' \in Nat
    BY <1>1, CreditAssumption, FsmAssumption DEF TaskEffect, VendPrices
  <1>5. UNCHANGED <<wire, retries, reader, faults>>
    BY DEF TaskEffect
  <1> QED BY <1>1, <1>2, <1>3, <1>4, <1>5 DEF TypesOK, RetriesOK

\* A card is laid or pulled, the reader decides or fails.
LEMMA ReaderTypes ==
    ASSUME TypesOK, ReaderStep, Settlement
    PROVE  TypesOK'
  <1>1. UNCHANGED engine /\ ReaderOK(reader') /\ faults' \in 0..MaxFaults
    <2> USE DEF ReaderOK, Readers, Phases
    <2>1. ASSUME NEW cents \in Credits, CardLaid(cents)
          PROVE  UNCHANGED engine /\ ReaderOK(reader') /\ faults' \in 0..MaxFaults
      BY <2>1, EngineAssumption DEF CardLaid, TypesOK, Say, Messages, Responses
    <2>2. CASE CardPulled
      BY <2>2 DEF CardPulled, TypesOK, Say, Messages, Responses
    <2>3. CASE ReaderFailed
      <3>1. PICK code \in Failures :
              reader' = [phase |-> "FAILED", held |-> 0, say |-> Say(code, 0)]
        BY <2>3 DEF ReaderFailed
      <3>2. Say(code, 0) \in Messages /\ Say(code, 0).code # "BEGIN_SESSION"
        BY EngineAssumption DEF Say, Messages, Responses
      <3>3. faults' \in 0..MaxFaults /\ UNCHANGED engine
        BY <2>3, EngineAssumption DEF ReaderFailed, TypesOK
      <3> QED BY <3>1, <3>2, <3>3
    <2>4. CASE Decision
      <3>1. UNCHANGED engine /\ faults' \in 0..MaxFaults
        BY <2>4 DEF Decision, TypesOK
      <3>2. ASSUME NEW cents \in Grants,
                   reader' = [phase |-> "HELD", held |-> cents,
                              say |-> Say("VEND_APPROVED", cents)]
            PROVE  ReaderOK(reader')
        BY <3>2, EngineAssumption DEF Say, Messages, Responses
      <3>3. CASE reader' = [phase |-> "OPEN", held |-> 0, say |-> Say("VEND_DENIED", 0)]
        <4>1. Say("VEND_DENIED", 0) \in Messages
              /\ Say("VEND_DENIED", 0).code # "BEGIN_SESSION"
          BY DEF Say, Messages, Responses
        <4> QED BY <3>1, <3>3, <4>1
      <3> QED BY <2>4, <3>1, <3>2, <3>3 DEF Decision
    <2> QED BY <2>1, <2>2, <2>3, <2>4 DEF ReaderStep
  <1>2. due' \in Nat
    BY SettlementType DEF TypesOK
  <1> QED BY <1>1, <1>2 DEF TypesOK, engine, RetriesOK

\* The reader answers a command of the bus master.
LEMMA AnsweredTypes ==
    ASSUME TypesOK, wire \notin {"NONE", "POLL", "RESET"}, Answered,
           wire' = "NONE", ReaderOK(reader'), UNCHANGED faults, due' \in {0, due}
    PROVE  TypesOK'
  <1> DEFINE d == CASE wire = "SETUP"     -> [device EXCEPT !.config = TRUE]
                    [] wire = "LIMITS"    -> [device EXCEPT !.setup = TRUE,
                                                            !.poll = "INIT_EXPANSION"]
                    [] wire = "EXPANSION" -> Parsed(device, Say("REQUEST_ID", 0))
                    [] wire = "ENABLE"    -> [device EXCEPT !.poll = "IDLE_POLLING"]
                    [] wire = "VEND_REQUEST" -> [device EXCEPT !.vend = "WORKING"]
                    [] wire = "VEND_SUCCESS" -> [device EXCEPT !.success = FALSE,
                                                               !.session = "OPEN"]
                    [] wire = "SESSION_COMPLETE" ->
                          ClosedLocally([device EXCEPT !.complete = FALSE])
  <1>1. /\ device \in Devices /\ device.credit \in Credits \cup {0}
        /\ wire \in Commands /\ faults \in 0..MaxFaults
        /\ retries \in [reset : 0..MaxRetries, setup : 0..MaxRetries]
        /\ retries.reset # MaxRetries /\ retries.setup # MaxRetries
    BY DEF TypesOK, DeviceOK, RetriesOK
  <1>2. EndTurn(d)
    BY DEF Answered
  <1>3. DeviceOK(d)
    <2>1. CASE wire \in {"SETUP", "LIMITS", "ENABLE"}
      BY <1>1, <2>1, SetupFields DEF DeviceOK, SamePayment
    <2>2. CASE wire = "EXPANSION"
      BY <1>1, <2>2, IdentityFields DEF DeviceOK, SamePayment
    <2>3. CASE wire = "VEND_REQUEST"
      BY <1>1, <2>3, WorkingFields DEF DeviceOK
    <2>4. CASE wire = "VEND_SUCCESS"
      BY <1>1, <2>4, SettledFields DEF DeviceOK
    <2>5. CASE wire = "SESSION_COMPLETE"
      <3>1. [device EXCEPT !.complete = FALSE] \in Devices
            /\ [device EXCEPT !.complete = FALSE].credit = device.credit
        BY <1>1, CompletedFields
      <3> QED BY <1>1, <2>5, <3>1, ClosedLocallyFields DEF DeviceOK
    <2> QED BY <1>1, <2>1, <2>2, <2>3, <2>4, <2>5 DEF Commands
  <1>4. /\ retries' \in [reset : 0..MaxRetries, setup : 0..MaxRetries]
        /\ retries'.reset # MaxRetries /\ retries'.setup # MaxRetries
    BY <1>1, EngineAssumption DEF Answered
  <1> HIDE DEF d
  <1> QED BY <1>1, <1>2, <1>3, <1>4, TurnTypes

\* The reply to a POLL, or to the one that follows a RESET.
LEMMA PolledTypes ==
    ASSUME TypesOK, NEW heard \in Messages \cup {Silent},
           heard.code = "BEGIN_SESSION" => heard.cents \in Credits,
           wire # "NONE", PollAnswered(heard) \/ ResetAnswered(heard),
           wire' = "NONE", ReaderOK(reader'), faults' \in 0..MaxFaults, due' \in {0, due}
    PROVE  TypesOK'
  <1> DEFINE d == IF heard = Silent THEN device ELSE Parsed(device, heard)
             e == CASE heard.code = "JUST_RESET"      -> [d EXCEPT !.poll = "INIT_SETUP"]
                    [] heard.code = "OUT_OF_SEQUENCE" -> [d EXCEPT !.poll = "INIT_RESET"]
                    [] OTHER -> d
             f == [d EXCEPT !.last = "NONE", !.poll = "INIT_SETUP"]
  <1>1. /\ DeviceOK(device)
        /\ retries \in [reset : 0..MaxRetries, setup : 0..MaxRetries]
        /\ retries.reset # MaxRetries /\ retries.setup # MaxRetries
    BY DEF TypesOK, DeviceOK, RetriesOK
  <1>2. DeviceOK(d)
    BY <1>1, ParsedOK
  <1>3. /\ retries' \in {retries, NoRetries}
        /\ EndTurn(e) \/ EndTurn(f)
    BY DEF PollAnswered, ResetAnswered
  <1> HIDE DEF d
  <1>4. DeviceOK(e) /\ DeviceOK(f)
    <2>1. d \in Devices /\ d.credit \in Credits \cup {0}
      BY <1>2 DEF DeviceOK
    <2>2. "INIT_SETUP" \in Polls /\ "INIT_RESET" \in Polls
      BY DEF Polls
    <2>3. LET p == [d EXCEPT !.poll = "INIT_SETUP"]
              q == [d EXCEPT !.poll = "INIT_RESET"]
          IN  /\ p \in Devices /\ SamePayment(p, d)
              /\ q \in Devices /\ SamePayment(q, d)
              /\ f \in Devices /\ SamePayment(f, d)
      BY <2>1, <2>2, PollMoves, Zenon
    <2> QED BY <2>1, <2>3 DEF DeviceOK, SamePayment
  <1>5. /\ retries' \in [reset : 0..MaxRetries, setup : 0..MaxRetries]
        /\ retries'.reset # MaxRetries /\ retries'.setup # MaxRetries
    BY <1>1, <1>3, RetriesStart
  <1> HIDE DEF e, f
  <1> QED BY <1>3, <1>4, <1>5, TurnTypes

\* A command has had no answer.
LEMMA UnansweredTypes ==
    ASSUME TypesOK, wire # "NONE", Unanswered,
           wire' = "NONE", ReaderOK(reader'), faults' \in 0..MaxFaults, due' \in {0, due}
    PROVE  TypesOK'
  <1> DEFINE r == IF wire = "RESET" THEN [retries EXCEPT !.reset = @ + 1]
                  ELSE IF wire \in {"SETUP", "LIMITS"} THEN [retries EXCEPT !.setup = @ + 1]
                  ELSE retries
             over == \/ wire = "RESET" /\ r.reset >= MaxRetries
                     \/ wire \in {"SETUP", "LIMITS"} /\ r.setup >= MaxRetries
             d == IF over THEN [device EXCEPT !.poll = "ERROR"] ELSE device
  <1>1. /\ DeviceOK(device)
        /\ retries \in [reset : 0..MaxRetries, setup : 0..MaxRetries]
        /\ retries.reset # MaxRetries /\ retries.setup # MaxRetries
    BY DEF TypesOK, DeviceOK, RetriesOK
  <1>2. retries' = r /\ EndTurn(d)
    BY DEF Unanswered
  <1>3. /\ r \in [reset : 0..MaxRetries, setup : 0..MaxRetries]
        /\ r.reset = MaxRetries \/ r.setup = MaxRetries => over
    BY <1>1, EngineAssumption
  <1>4. DeviceOK(d) /\ (over => d.poll = "ERROR")
    <2>1. device \in Devices /\ device.credit \in Credits \cup {0} /\ "ERROR" \in Polls
      BY <1>1 DEF DeviceOK, Polls
    <2>2. LET p == [device EXCEPT !.poll = "ERROR"]
          IN  p \in Devices /\ p.poll = "ERROR" /\ SamePayment(p, device)
      BY <2>1, PollMoves, Zenon
    <2> HIDE DEF over
    <2> QED BY <2>1, <2>2 DEF DeviceOK, SamePayment
  <1> HIDE DEF r, over, d
  <1> QED BY <1>2, <1>3, <1>4, TurnTypes

LEMMA EngineTypes ==
    ASSUME TypesOK, EngineStep, Settlement
    PROVE  TypesOK'
  <1>1. due' \in {0, due} /\ due' \in Nat
    BY SettlementType DEF TypesOK
  <1>2. /\ DeviceOK(device) /\ ReaderOK(reader) /\ faults \in 0..MaxFaults
        /\ ReaderOK(Obeyed) /\ ReaderOK(Spoken(reader)) /\ ReaderOK(Spoken(Obeyed))
    BY ReaderMoves DEF TypesOK
  <1>3. CASE Send
    <2>1. wire' \in Commands /\ UNCHANGED <<device, retries, queue, reader, faults>>
      BY <1>3 DEF Send, NextCommand, PollingCommand, Commands
    <2>2. device.poll \notin {"ERROR", "INACTIVE"}
      BY <1>3 DEF Send, NextCommand
    <2> QED BY <1>1, <2>1, <2>2 DEF TypesOK, RetriesOK
  <1>4. CASE TurnWithoutCommand
    <2>1. wire' = "NONE" /\ UNCHANGED <<reader, faults>>
      BY <1>4, Zenon DEF TurnWithoutCommand, TypesOK
    <2>2. /\ device \in Devices /\ device.credit \in Credits \cup {0}
          /\ retries \in [reset : 0..MaxRetries, setup : 0..MaxRetries]
      BY <1>2 DEF DeviceOK, TypesOK, RetriesOK
    <2>3. DeviceOK([device EXCEPT !.poll = "INIT_RESET", !.last = "NONE"])
      <3>1. "INIT_RESET" \in Polls
        BY DEF Polls
      <3>2. LET p == [device EXCEPT !.poll = "INIT_RESET", !.last = "NONE"]
            IN  p \in Devices /\ SamePayment(p, device)
        BY <2>2, <3>1, PollMoves, Zenon
      <3> QED BY <2>2, <3>2 DEF DeviceOK, SamePayment
    <2>4. DeviceOK([device EXCEPT !.poll = "INIT_ENABLE"])
      <3>1. "INIT_ENABLE" \in Polls
        BY DEF Polls
      <3>2. LET p == [device EXCEPT !.poll = "INIT_ENABLE"]
            IN  p \in Devices /\ SamePayment(p, device)
        BY <2>2, <3>1, PollMoves, Zenon
      <3> QED BY <2>2, <3>2 DEF DeviceOK, SamePayment
    <2>5. DeviceOK([ResetDevice EXCEPT !.poll = "INIT_RESET"])
      <3>1. "INIT_RESET" \in Polls
        BY DEF Polls
      <3> QED BY <3>1, ResetFields, PollMoves DEF DeviceOK, SamePayment
    <2>6. ASSUME NEW d, DeviceOK(d), EndTurn(d), retries' = NoRetries
          PROVE  TypesOK'
      BY <1>1, <1>2, <2>1, <2>6, RetriesStart, TurnTypes
    <2>7. ASSUME NEW d, DeviceOK(d), EndTurn(d), UNCHANGED retries,
                 device.poll = "INIT_EXPANSION" \/ d.poll = "ERROR"
          PROVE  TypesOK'
      BY <1>1, <1>2, <2>1, <2>2, <2>7, TurnTypes DEF TypesOK, RetriesOK
    <2> QED
      BY <1>2, <1>4, <2>3, <2>4, <2>5, <2>6, <2>7 DEF TurnWithoutCommand
  <1>5. CASE Exchange
    <2>1. wire # "NONE" /\ wire' = "NONE" /\ UNCHANGED faults
      BY <1>5 DEF Exchange
    <2>2. CASE wire = "POLL" /\ reader' = Spoken(reader) /\ PollAnswered(reader.say)
      <3>1. /\ reader.say \in Messages \cup {Silent}
            /\ reader.say.code = "BEGIN_SESSION" => reader.say.cents \in Credits
        BY <1>2 DEF ReaderOK, Readers
      <3> QED BY <1>1, <1>2, <2>1, <2>2, <3>1, PolledTypes
    <2>3. CASE wire = "RESET" /\ reader' = Spoken(Obeyed) /\ ResetAnswered(Obeyed.say)
      <3>1. /\ Obeyed.say \in Messages \cup {Silent}
            /\ Obeyed.say.code = "BEGIN_SESSION" => Obeyed.say.cents \in Credits
        BY <1>2 DEF ReaderOK, Readers
      <3> QED BY <1>1, <1>2, <2>1, <2>3, <3>1, PolledTypes
    <2>4. CASE wire \notin {"POLL", "RESET"} /\ reader' = Obeyed /\ Answered
      BY <1>1, <1>2, <2>1, <2>4, AnsweredTypes
    <2> QED BY <1>5, <2>2, <2>3, <2>4 DEF Exchange
  <1>6. CASE Loss
    <2>1. wire # "NONE" /\ wire' = "NONE" /\ faults' \in 0..MaxFaults
      BY <1>2, <1>6, EngineAssumption DEF Loss
    <2>2. CASE Unanswered /\ reader' \in {reader, Obeyed}
      BY <1>1, <1>2, <2>1, <2>2, UnansweredTypes
    <2>3. CASE wire = "RESET" /\ ResetAnswered(Silent) /\ reader' = Obeyed
      BY <1>1, <1>2, <2>1, <2>3, SayType, PolledTypes
    <2> QED BY <1>6, <2>2, <2>3 DEF Loss
  <1> QED BY <1>3, <1>4, <1>5, <1>6 DEF EngineStep, Receive

\* A step of the composition is a step of the FSM or leaves it alone, and keeps
\* the types.
LEMMA VendTypes ==
    ASSUME TypesOK, IInv, [VendNext]_vendVars
    PROVE  [Next]_vars /\ TypesOK'
  <1>1. CASE TaskStep
    BY <1>1, TaskStepEffect, TaskTypes
  <1>2. CASE MailboxFilled
    <2>1. /\ UNCHANGED <<fsmTask, device, wire, retries, reader>>
          /\ queue' = Put(queue, "OTHER", 0) /\ Len(queue) < QueueSize
          /\ faults' \in 0..MaxFaults
      BY <1>2, EngineAssumption DEF MailboxFilled, TypesOK, QueueOK
    <2>2. Known([type |-> "OTHER", value |-> 0])
      BY DEF Known, Events
    <2>3. QueueOK(queue')
      BY <2>1, <2>2, PutKeeps DEF TypesOK
    <2> QED
      BY <2>1, <2>3 DEF TypesOK, fsmTask, RetriesOK
  <1>3. CASE EngineTurn
    BY <1>3, EngineTypes DEF EngineTurn, Alone
  <1>4. CASE ReaderTurn
    BY <1>4, ReaderTypes DEF ReaderTurn, Alone
  <1>5. CASE UNCHANGED vendVars
    BY <1>5 DEF vendVars, fsmTask, bus, engine, TypesOK, RetriesOK
  <1> QED
    BY <1>1, <1>2, <1>3, <1>4, <1>5 DEF VendNext

\* The machine starts with a fresh record, an idle bus and an empty mailbox.
LEMMA VendInitTypes == VendInit => IInv /\ TypesOK
  <1> SUFFICES ASSUME VendInit PROVE TypesOK
    BY IInvInit DEF VendInit
  <1>1. DeviceOK(device) /\ device.poll = "INACTIVE"
    BY ResetFields DEF VendInit, EngineInit, DeviceOK
  <1>2. RetriesOK(device, wire, retries)
    BY RetriesStart DEF VendInit, EngineInit, RetriesOK
  <1>3. QueueOK(queue)
    BY EngineAssumption DEF VendInit, EngineInit, QueueOK
  <1>4. ReaderOK(reader)
    BY DEF VendInit, EngineInit, ReaderOK, Readers, Phases, Silent
  <1> QED
    BY <1>1, <1>2, <1>3, <1>4, EngineAssumption DEF VendInit, EngineInit, TypesOK

\* The inductive invariant of the composition: that of Fsm, and record, bus,
\* mailbox and reader typed, with the retry counters below their limit.
THEOREM VendInvariance == VendSpec => [](IInv /\ TypesOK)
  <1>1. IInv /\ TypesOK /\ [VendNext]_vendVars => (IInv /\ TypesOK)'
    BY VendTypes, IInvStep
  <1> QED BY <1>1, VendInitTypes, PTL DEF VendSpec

\* The composition is a state machine as Fsm describes it.
THEOREM VendImplementsFsm == VendSpec => Spec
  <1>1. VendInit => Init
    BY DEF VendInit
  <1>2. IInv /\ TypesOK /\ [VendNext]_vendVars => [Next]_vars
    BY VendTypes
  <1> QED BY <1>1, <1>2, VendInvariance, PTL DEF VendSpec, Spec

\* Record, command, retries, mailbox and reader keep their types, whatever is
\* lost, reset or pulled.
THEOREM EngineTypesHold == VendSpec => []EngineTypeOK
  <1>1. TypesOK => EngineTypeOK
    BY DEF TypesOK, EngineTypeOK, DeviceOK, RetriesOK, QueueOK, ReaderOK, Readers
  <1> QED BY <1>1, VendInvariance, PTL

-----------------------------------------------------------------------------
(* The sale: what a step may do to the reader's reserve and to what is due *)

SaleMoves ==
    LET phase == reader.phase
        held  == reader.held
        inside == {"OPEN", "ASKED", "HELD"}
    IN  \/ /\ reader'.held = held /\ due' = due
           /\ reader'.phase = phase \/ (phase \in inside /\ reader'.phase \in inside)
        \/ phase = "READY" /\ reader'.phase = "OPEN" /\ reader'.held = held /\ due' = due
        \/ /\ phase = "ASKED" /\ reader'.phase = "HELD"
           /\ held = 0 /\ reader'.held \in Grants /\ due' = due
        \/ /\ due = 0 /\ due' \in VendPrices
           /\ phase # "FAILED" => held = due'
           /\ reader' = reader
        \/ /\ due # 0 /\ held = due /\ reader'.held = 0 /\ due' = 0
           /\ reader'.phase = phase \/ (phase = "HELD" /\ reader'.phase = "OPEN")
        \/ /\ phase \in inside /\ reader'.phase = "READY" /\ reader'.held = 0
           /\ due = 0 /\ due' = 0
        \/ phase \in inside /\ reader'.phase = "PULLED" /\ reader'.held = held /\ due' = due
        \/ phase # "FAILED" /\ reader'.phase = "FAILED" /\ reader'.held = 0 /\ due' = due
        \/ /\ phase \in {"PULLED", "FAILED"} /\ reader'.phase = "READY"
           /\ reader'.held = 0 /\ due' = 0

\* The moves of a sale are steps of CardSale.
LEMMA SaleMovesImplement ==
    ASSUME TypesOK, SaleMoves
    PROVE  [Sale!SaleNext]_(Sale!saleVars)
  <1>1. reader.phase \in Phases /\ reader.held \in Nat /\ due \in Nat
    BY DEF TypesOK, ReaderOK, Readers
  <1>2. Grants \subseteq Nat \ {0}
    BY EngineAssumption
  <1>3. VendPrices \subseteq Nat \ {0}
    BY PriceInCents, FsmAssumption DEF VendPrices
  <1> USE DEF Sale!saleVars, Phases
  <1> QED
    BY <1>1, <1>2, <1>3
       DEF SaleMoves, Sale!SaleNext, Sale!Enter, Sale!Reserve, Sale!Start, Sale!Settle,
           Sale!Close, Sale!Pull, Sale!Fail, Sale!Leave, VendPrices

-----------------------------------------------------------------------------
(* The shape of a sale over the end of a turn *)

\* What the end of a turn tells is backed as before.
LEMMA EndTurnShape ==
    ASSUME NEW d, DeviceOK(d), QueueOK(queue), EndTurn(d), NEW r, NEW u,
           Shape(d, "NONE", queue, r, u)
    PROVE  Shape(device', "NONE", queue', r, u)
  <1>1. /\ Told(device', d)
        /\ \A i \in Approving(queue') :
              \/ i \in Approving(queue) /\ queue'[i] = queue[i]
              \/ /\ d.result.pending /\ d.result.approved /\ ~device'.result.pending
                 /\ queue'[i].value = d.result.cents
                 /\ i = Len(queue')
    BY EndTurnKeeps
  <1>2. SessionShape(device', "NONE", r)
    BY <1>1 DEF Shape, SessionShape, Told
  <1>3. OwedShape(device', r, u)
    BY <1>1 DEF Shape, OwedShape, Told
  <1>4. ApprovalShape(device', "NONE", queue', r, u)
    <2>1. /\ r.say.code = "VEND_APPROVED" => u = 0
          /\ Kept(d) => d.poll = "IDLE_POLLING" /\ Backed(d.result.cents, r, u)
          /\ Kept(device') => Kept(d)
          /\ device'.open = d.open /\ device'.poll = d.poll
          /\ device'.result.cents = d.result.cents
      BY <1>1 DEF Shape, ApprovalShape, Told, Kept
    <2>2. \A i \in Approving(queue) : d.open =>
            /\ d.poll = "IDLE_POLLING" /\ ~Kept(d)
            /\ Backed(queue[i].value, r, u)
            /\ \A j \in Approving(queue) : i = j
      BY DEF Shape, ApprovalShape
    <2>3. ASSUME NEW i \in Approving(queue'), device'.open
          PROVE  /\ device'.poll = "IDLE_POLLING" /\ ~Kept(device')
                 /\ Backed(queue'[i].value, r, u)
                 /\ \A j \in Approving(queue') : i = j
      <3>1. CASE i \in Approving(queue) /\ queue'[i] = queue[i]
        BY <1>1, <2>1, <2>2, <2>3, <3>1 DEF Kept
      <3>2. CASE /\ d.result.pending /\ d.result.approved /\ ~device'.result.pending
                 /\ queue'[i].value = d.result.cents
                 /\ i = Len(queue')
        BY <1>1, <2>1, <2>2, <2>3, <3>2 DEF Kept
      <3> QED BY <1>1, <3>1, <3>2
    <2> QED BY <2>1, <2>3 DEF ApprovalShape
  <1> QED BY <1>2, <1>3, <1>4 DEF Shape

\* A session that is closed, with the reader out of a request.
LEMMA ClosedShape ==
    ASSUME NEW d, ~d.open, ~d.success, d.vend # "PENDING", NEW q, NEW r, ReaderShape(r),
           r.phase \notin {"ASKED", "HELD"}, NEW u,
           u # 0 => r.phase = "FAILED" \/ (r.phase = "PULLED" /\ r.held = u)
    PROVE  Shape(d, "NONE", q, r, u)
  BY DEF Shape, SessionShape, ApprovalShape, OwedShape, ReaderShape, Kept

\* While the reader is being started up, or in error, no sale is under way.
LEMMA StartUpShape ==
    ASSUME SaleIsBacked, device.poll # "IDLE_POLLING", NEW d, SamePayment(d, device),
           NEW r, NEW u,
           \/ r = reader /\ u = due
           \/ ReaderShape(r) /\ r.phase = "READY" /\ u = 0
    PROVE  Shape(d, "NONE", queue, r, u)
  <1>1. /\ ReaderShape(reader) /\ SessionShape(device, wire, reader)
        /\ ApprovalShape(device, wire, queue, reader, due) /\ OwedShape(device, reader, due)
    BY DEF SaleIsBacked, Shape
  <1>2. /\ reader.phase \notin {"ASKED", "HELD"} /\ ~device.success
        /\ ~Kept(device)
        /\ device.open => Approving(queue) = {}
    BY <1>1 DEF SessionShape, ApprovalShape
  <1>3. SessionShape(d, "NONE", r)
    BY <1>1, <1>2 DEF SessionShape, SamePayment
  <1>4. ApprovalShape(d, "NONE", queue, r, u)
    BY <1>1, <1>2 DEF ApprovalShape, SamePayment, Kept, ReaderShape
  <1>5. OwedShape(d, r, u)
    BY <1>1, <1>2 DEF OwedShape, SamePayment
  <1> QED BY <1>1, <1>3, <1>4, <1>5 DEF Shape

-----------------------------------------------------------------------------
(* The shape of a sale over each step *)

\* Only an approval in the mailbox lets the FSM task start a wash, and it is
\* backed.
LEMMA TaskShape ==
    ASSUME TypesOK, SaleIsBacked, TaskEffect
    PROVE  SaleIsBacked' /\ SaleMoves
  <1>1. /\ ReaderShape(reader) /\ SessionShape(device, wire, reader)
        /\ ApprovalShape(device, wire, queue, reader, due) /\ OwedShape(device, reader, due)
    BY DEF SaleIsBacked, Shape
  <1>2. /\ device \in Devices /\ QueueOK(queue) /\ due \in Nat
        /\ reader \in Readers
        /\ UNCHANGED <<wire, reader>>
    BY DEF TypesOK, DeviceOK, ReaderOK, TaskEffect
  <1>3. CASE /\ device' \in {device, Completing(device)}
             /\ \/ queue' = queue
                \/ queue # <<>> /\ queue' = Tail(queue)
                \/ Len(queue) < QueueSize /\ queue' = Put(queue, "CREDIT_ENDED", 1)
             /\ due' = due
    <2>1. /\ device'.poll = device.poll /\ device'.present = device.present
          /\ device'.open = device.open /\ device'.vend = device.vend
          /\ device'.request = device.request /\ device'.approved = device.approved
          /\ device'.result = device.result /\ device'.success = device.success
          /\ device'.last = device.last
          /\ device.complete => device'.complete
      BY <1>2, <1>3, CompletingFields
    <2>2. SessionShape(device', wire, reader) /\ OwedShape(device', reader, due)
      BY <1>1, <2>1 DEF SessionShape, OwedShape
    <2>3. \/ \A i \in Approving(queue') :
                i \in Approving(queue) /\ queue'[i] = queue[i]
          \/ \A i \in Approving(queue') :
                i \in Nat /\ i + 1 \in Approving(queue) /\ queue'[i] = queue[i + 1]
      <3>1. CASE queue' = queue
        BY <3>1 DEF Approving
      <3>2. CASE queue # <<>> /\ queue' = Tail(queue)
        <4>1. /\ Len(queue) \in Nat /\ Len(queue') = Len(queue) - 1
              /\ \A i \in 1..Len(queue) - 1 : queue'[i] = queue[i + 1]
          BY <1>2, <3>2, TailKeeps DEF QueueOK
        <4> QED BY <4>1 DEF Approving
      <3>3. CASE Len(queue) < QueueSize /\ queue' = Put(queue, "CREDIT_ENDED", 1)
        <4>1. Known([type |-> "CREDIT_ENDED", value |-> 1])
          BY DEF Known, Events
        <4>2. /\ Len(queue) \in Nat /\ Len(queue') = Len(queue) + 1
              /\ \A i \in 1..Len(queue) : queue'[i] = queue[i]
              /\ queue'[Len(queue) + 1] = [type |-> "CREDIT_ENDED", value |-> 1]
          BY <1>2, <3>3, <4>1, PutKeeps DEF QueueOK
        <4>3. queue'[Len(queue) + 1].type # "VEND_APPROVED"
          BY <4>2
        <4> QED BY <4>2, <4>3 DEF Approving
      <3> QED BY <1>3, <3>1, <3>2, <3>3
    <2>4. ApprovalShape(device', wire, queue', reader, due)
      <3>1. Kept(device') <=> Kept(device)
        BY <2>1 DEF Kept
      <3>2. CASE \A i \in Approving(queue') :
                    i \in Approving(queue) /\ queue'[i] = queue[i]
        BY <1>1, <2>1, <3>1, <3>2 DEF ApprovalShape
      <3>3. CASE \A i \in Approving(queue') :
                    i \in Nat /\ i + 1 \in Approving(queue) /\ queue'[i] = queue[i + 1]
        <4>1. ASSUME NEW i \in Approving(queue')
              PROVE  /\ wire = "NONE"
                     /\ device'.open =>
                            /\ device'.poll = "IDLE_POLLING" /\ ~Kept(device')
                            /\ Backed(queue'[i].value, reader, due)
          BY <1>1, <2>1, <3>1, <3>3 DEF ApprovalShape
        <4>2. ASSUME NEW i \in Approving(queue'), NEW j \in Approving(queue'), device'.open
              PROVE  i = j
          <5>1. i \in Nat /\ j \in Nat /\ i + 1 = j + 1
            BY <1>1, <2>1, <3>3, <4>2 DEF ApprovalShape
          <5> QED BY <5>1
        <4> QED BY <1>1, <2>1, <3>1, <4>1, <4>2 DEF ApprovalShape
      <3> QED BY <2>3, <3>2, <3>3
    <2> QED BY <1>1, <1>2, <1>3, <2>2, <2>4 DEF SaleIsBacked, Shape, SaleMoves
  <1>4. CASE /\ ActiveDevice(device) /\ ~device.success
             /\ \E cents \in Nat \ {0} : device' = PreparedVend(device, cents)
             /\ UNCHANGED <<queue, due>>
    <2>1. /\ device'.poll = device.poll /\ device'.present = device.present
          /\ device'.open = device.open /\ device'.vend = "PENDING"
          /\ device'.request # 0 /\ device'.approved = device.approved
          /\ device'.result = device.result /\ device'.success = device.success
          /\ device'.last = device.last /\ device'.complete = device.complete
      BY <1>2, <1>4, PreparedVendFields
    <2>2. device.open
      BY <1>4 DEF ActiveDevice
    <2>3. SessionShape(device', wire, reader) /\ OwedShape(device', reader, due)
      BY <1>1, <1>4, <2>1, <2>2 DEF SessionShape, OwedShape
    <2>4. ApprovalShape(device', wire, queue, reader, due)
      BY <1>1, <2>1 DEF ApprovalShape, Kept
    <2> QED BY <1>1, <1>2, <1>4, <2>3, <2>4 DEF SaleIsBacked, Shape, SaleMoves
  <1>5. CASE ~device.open /\ device' = ResetDevice /\ UNCHANGED <<queue, due>>
    <2>1. /\ ~device'.open /\ ~device'.success /\ device'.vend = "IDLE"
          /\ device'.poll = "INACTIVE"
      BY <1>5, ResetFields
    <2>2. SessionShape(device', wire, reader) /\ OwedShape(device', reader, due)
      BY <1>1, <1>5, <2>1 DEF SessionShape, OwedShape
    <2>3. ApprovalShape(device', wire, queue, reader, due)
      BY <1>1, <2>1 DEF ApprovalShape, Kept
    <2> QED BY <1>1, <1>2, <1>5, <2>2, <2>3 DEF SaleIsBacked, Shape, SaleMoves
  <1>6. CASE /\ ActiveDevice(device)
             /\ queue # <<>> /\ Head(queue).type = "VEND_APPROVED" /\ queue' = Tail(queue)
             /\ \E cents \in VendPrices :
                   /\ Head(queue).value \in {0, cents}
                   /\ device' = PreparedSuccess(device, cents)
                   /\ due' = cents
    <2>1. PICK cents \in VendPrices :
            /\ Head(queue).value \in {0, cents}
            /\ device' = PreparedSuccess(device, cents)
            /\ due' = cents
      BY <1>6
    <2>2. cents \in Nat /\ cents # 0
      BY <2>1, PriceInCents, FsmAssumption DEF VendPrices
    <2>3. /\ device'.poll = device.poll /\ device'.present = device.present
          /\ device'.open = device.open /\ device'.vend = device.vend
          /\ device'.request = device.request /\ device'.approved = cents
          /\ device'.result = device.result /\ device'.success
          /\ device'.last = device.last /\ device'.complete = device.complete
      BY <1>2, <2>1, <2>2, PreparedSuccessFields
    <2>4. /\ Head(queue) = queue[1] /\ 1 \in 1..Len(queue)
          /\ Len(queue') = Len(queue) - 1 /\ Len(queue) \in Nat
          /\ \A i \in 1..Len(queue) - 1 : queue'[i] = queue[i + 1]
      BY <1>2, <1>6, TailKeeps DEF QueueOK
    <2>5. 1 \in Approving(queue) /\ device.open
      BY <1>6, <2>4 DEF Approving, ActiveDevice
    <2>6. /\ wire = "NONE" /\ device.poll = "IDLE_POLLING" /\ ~Kept(device)
          /\ Backed(queue[1].value, reader, due)
          /\ \A j \in Approving(queue) : 1 = j
      BY <1>1, <2>5 DEF ApprovalShape
    <2>7. /\ queue[1].value = cents
          /\ due = 0 /\ reader.say.code # "VEND_APPROVED"
          /\ reader.phase = "FAILED" \/ (reader.phase \in {"HELD", "PULLED"} /\ reader.held = cents)
      BY <2>1, <2>4, <2>6 DEF Backed
    <2>8. Approving(queue') = {}
      <3>1. \A i \in Approving(queue') : i \in Nat /\ i > 0 /\ i + 1 \in Approving(queue)
        BY <2>4 DEF Approving
      <3> QED BY <2>6, <3>1
    <2>9. reader.phase = "HELD" => reader.say = Silent
      BY <1>1, <1>2, <2>7 DEF ReaderShape, Readers, Messages, Responses, Silent
    <2>10. SessionShape(device', wire, reader)
      BY <1>1, <2>2, <2>3, <2>5, <2>6, <2>7 DEF SessionShape
    <2>11. OwedShape(device', reader, due')
      BY <1>1, <2>1, <2>3, <2>7, <2>9 DEF OwedShape, ReaderShape
    <2>12. ApprovalShape(device', wire, queue', reader, due')
      BY <1>1, <2>3, <2>6, <2>7, <2>8 DEF ApprovalShape, Kept
    <2>13. SaleMoves
      BY <1>2, <2>1, <2>7 DEF SaleMoves
    <2> QED BY <1>1, <1>2, <2>10, <2>11, <2>12, <2>13 DEF SaleIsBacked, Shape
  <1> QED BY <1>3, <1>4, <1>5, <1>6 DEF TaskEffect

\* An event without effect in the mailbox.
LEMMA FilledShape ==
    ASSUME TypesOK, SaleIsBacked, MailboxFilled
    PROVE  SaleIsBacked' /\ SaleMoves
  <1>1. /\ UNCHANGED <<fsmTask, device, wire, reader>>
        /\ queue' = Put(queue, "OTHER", 0) /\ Len(queue) < QueueSize
        /\ QueueOK(queue) /\ Len(queue) \in Nat
    BY EngineAssumption DEF MailboxFilled, TypesOK, QueueOK
  <1>2. Known([type |-> "OTHER", value |-> 0])
    BY DEF Known, Events
  <1>3. /\ Len(queue') = Len(queue) + 1
        /\ \A i \in 1..Len(queue) : queue'[i] = queue[i]
        /\ queue'[Len(queue) + 1] = [type |-> "OTHER", value |-> 0]
    BY <1>1, <1>2, PutKeeps
  <1>4. queue'[Len(queue) + 1].type # "VEND_APPROVED"
    BY <1>3
  <1>5. \A i \in Approving(queue') : i \in Approving(queue) /\ queue'[i] = queue[i]
    BY <1>1, <1>3, <1>4 DEF Approving
  <1>6. ApprovalShape(device, wire, queue', reader, due)
    BY <1>5 DEF SaleIsBacked, Shape, ApprovalShape
  <1> QED
    BY <1>1, <1>6 DEF SaleIsBacked, Shape, SaleMoves, fsmTask

\* A card is laid or pulled, the reader decides or fails.
LEMMA ReaderStepShape ==
    ASSUME TypesOK, SaleIsBacked, ReaderStep, Settlement
    PROVE  SaleIsBacked' /\ SaleMoves
  <1>1. /\ ReaderShape(reader) /\ SessionShape(device, wire, reader)
        /\ ApprovalShape(device, wire, queue, reader, due) /\ OwedShape(device, reader, due)
    BY DEF SaleIsBacked, Shape
  <1>2. UNCHANGED <<device, wire, queue>>
    BY DEF ReaderStep, CardLaid, CardPulled, ReaderFailed, Decision, engine
  <1>3. reader \in Readers /\ due \in Nat
    BY DEF TypesOK, ReaderOK
  <1>4. reader'.phase # "READY" => due' = due
    BY <1>2 DEF Settlement
  <1> DEFINE Goal == /\ ReaderShape(reader') /\ SessionShape(device, wire, reader')
                     /\ ApprovalShape(device, wire, queue, reader', due)
                     /\ OwedShape(device, reader', due)
                     /\ SaleMoves
                     /\ due' = due
  <1> SUFFICES Goal
    BY <1>2 DEF SaleIsBacked, Shape
  <1>5. ASSUME NEW cents \in Credits, CardLaid(cents)
        PROVE  Goal
    <2>1. /\ reader.phase = "READY"
          /\ reader'.phase = "OPEN" /\ reader'.held = 0
          /\ reader'.say.code = "BEGIN_SESSION"
      BY <1>5 DEF CardLaid, Say
    <2>2. due' = due
      BY <1>4, <2>1
    <2> QED
      BY <1>1, <2>1, <2>2
         DEF ReaderShape, SessionShape, ApprovalShape, OwedShape, Backed, SaleMoves
  <1>6. CASE CardPulled
    <2>1. /\ reader.phase \in {"OPEN", "ASKED", "HELD"}
          /\ reader'.phase = "PULLED" /\ reader'.held = reader.held
          /\ reader'.say.code = "SESSION_CANCEL"
      BY <1>3, <1>6 DEF CardPulled, Say, Readers
    <2>2. due' = due
      BY <1>4, <2>1
    <2>3. ReaderShape(reader')
      BY <1>1, <2>1 DEF ReaderShape
    <2>4. SessionShape(device, wire, reader')
      BY <1>1, <2>1 DEF SessionShape
    <2>5. ApprovalShape(device, wire, queue, reader', due)
      BY <1>1, <2>1 DEF ApprovalShape, Backed
    <2>6. OwedShape(device, reader', due)
      BY <1>1, <2>1 DEF OwedShape
    <2> QED
      BY <2>1, <2>2, <2>3, <2>4, <2>5, <2>6 DEF SaleMoves
  <1>7. CASE ReaderFailed
    <2>1. /\ reader.phase # "FAILED"
          /\ reader'.phase = "FAILED" /\ reader'.held = 0
          /\ reader'.say.code \in Failures
      BY <1>7 DEF ReaderFailed, Say
    <2>2. due' = due
      BY <1>4, <2>1
    <2>3. ReaderShape(reader')
      BY <1>1, <2>1, EngineAssumption DEF ReaderShape
    <2>4. SessionShape(device, wire, reader')
      BY <1>1, <2>1 DEF SessionShape
    <2>5. ApprovalShape(device, wire, queue, reader', due)
      BY <1>1, <2>1, EngineAssumption DEF ApprovalShape, Backed
    <2>6. OwedShape(device, reader', due)
      BY <1>1, <2>1 DEF OwedShape
    <2> QED
      BY <2>1, <2>2, <2>3, <2>4, <2>5, <2>6 DEF SaleMoves
  <1>8. CASE Decision
    <2>1. reader.phase = "ASKED"
      BY <1>8 DEF Decision
    <2>2. /\ reader.held = 0 /\ due = 0 /\ ~device.success /\ ~Kept(device)
          /\ device.open /\ device.poll = "IDLE_POLLING"
          /\ device.open => Approving(queue) = {}
      BY <1>1, <2>1 DEF ReaderShape, SessionShape, ApprovalShape, OwedShape, Backed
    <2>3. ASSUME NEW cents \in Grants,
                 reader' = [phase |-> "HELD", held |-> cents,
                            say |-> Say("VEND_APPROVED", cents)]
          PROVE  Goal
      <3>1. /\ reader'.phase = "HELD" /\ reader'.held = cents /\ cents # 0
            /\ reader'.say.code = "VEND_APPROVED" /\ reader'.say.cents = cents
        BY <2>3, EngineAssumption DEF Say
      <3>2. due' = due
        BY <1>4, <3>1
      <3>3. ReaderShape(reader')
        BY <3>1 DEF ReaderShape
      <3>4. SessionShape(device, wire, reader')
        BY <1>1, <2>2, <3>1 DEF SessionShape
      <3>5. ApprovalShape(device, wire, queue, reader', due)
        BY <1>1, <2>2, <3>1 DEF ApprovalShape
      <3>6. OwedShape(device, reader', due)
        BY <1>1, <2>2, <3>1 DEF OwedShape
      <3> QED
        BY <2>1, <2>2, <3>1, <3>2, <3>3, <3>4, <3>5, <3>6 DEF SaleMoves
    <2>4. CASE reader' = [phase |-> "OPEN", held |-> 0, say |-> Say("VEND_DENIED", 0)]
      <3>1. /\ reader'.phase = "OPEN" /\ reader'.held = 0
            /\ reader'.say.code = "VEND_DENIED"
        BY <2>4 DEF Say
      <3>2. due' = due
        BY <1>4, <3>1
      <3>3. ReaderShape(reader')
        BY <3>1 DEF ReaderShape
      <3>4. SessionShape(device, wire, reader')
        BY <1>1, <2>2, <3>1 DEF SessionShape
      <3>5. ApprovalShape(device, wire, queue, reader', due)
        BY <1>1, <2>2, <3>1 DEF ApprovalShape
      <3>6. OwedShape(device, reader', due)
        BY <1>1, <2>2, <3>1 DEF OwedShape
      <3> QED
        BY <2>1, <2>2, <3>1, <3>2, <3>3, <3>4, <3>5, <3>6 DEF SaleMoves
    <2> HIDE DEF Goal
    <2> QED BY <1>8, <2>3, <2>4 DEF Decision
  <1> HIDE DEF Goal
  <1> QED BY <1>5, <1>6, <1>7, <1>8 DEF ReaderStep

\* A command is sent.
LEMMA SendShape ==
    ASSUME TypesOK, SaleIsBacked, Send, Settlement
    PROVE  SaleIsBacked' /\ SaleMoves
  <1>1. /\ ReaderShape(reader) /\ SessionShape(device, wire, reader)
        /\ ApprovalShape(device, wire, queue, reader, due) /\ OwedShape(device, reader, due)
    BY DEF SaleIsBacked, Shape
  <1>2. /\ queue = <<>> /\ wire = "NONE" /\ wire' = NextCommand(device) /\ wire' # "NONE"
        /\ UNCHANGED <<device, queue, reader>>
    BY DEF Send
  <1>3. device.request \in Nat /\ device.approved \in Nat /\ device.poll \in Polls
    BY DEF TypesOK, DeviceOK, Devices
  <1>4. due' = due
    BY <1>1, <1>2 DEF Settlement, OwedShape
  <1>5. SessionShape(device, wire', reader)
    <2>1. CASE device.poll = "IDLE_POLLING"
      <3>1. wire' = PollingCommand(device)
        BY <1>2, <2>1 DEF NextCommand
      <3> QED BY <1>1, <1>3, <2>1, <3>1 DEF SessionShape, PollingCommand
    <2>2. CASE device.poll # "IDLE_POLLING"
      <3>1. wire' \in {"RESET", "SETUP", "LIMITS", "EXPANSION", "ENABLE"}
        BY <1>2, <2>2 DEF NextCommand
      <3> QED BY <1>1, <1>2, <2>2, <3>1 DEF SessionShape
    <2> QED BY <2>1, <2>2
  <1>6. ApprovalShape(device, wire', queue, reader, due)
    BY <1>1, <1>2 DEF ApprovalShape, Approving
  <1> QED BY <1>1, <1>2, <1>4, <1>5, <1>6 DEF SaleIsBacked, Shape, SaleMoves

\* What a turn leaves, given the shape before what it has to tell is told.
LEMMA TurnShape ==
    ASSUME TypesOK, NEW d, DeviceOK(d), EndTurn(d), wire' = "NONE",
           Shape(d, "NONE", queue, reader', due')
    PROVE  SaleIsBacked'
  BY EndTurnShape DEF TypesOK, SaleIsBacked

\* A turn without a command.
LEMMA IdleTurnShape ==
    ASSUME TypesOK, SaleIsBacked, TurnWithoutCommand, Settlement
    PROVE  SaleIsBacked' /\ SaleMoves
  <1>1. ReaderShape(reader) /\ SessionShape(device, wire, reader) /\ OwedShape(device, reader, due)
    BY DEF SaleIsBacked, Shape
  <1>2. wire = "NONE" /\ wire' = "NONE" /\ reader' = reader
    BY DEF TurnWithoutCommand
  <1>3. due' = due /\ SaleMoves
    BY <1>1, <1>2 DEF Settlement, OwedShape, SaleMoves
  <1>4. device \in Devices /\ device.credit \in Credits \cup {0}
    BY DEF TypesOK, DeviceOK
  <1>5. ASSUME NEW d \in Devices, SamePayment(d, device), device.poll # "IDLE_POLLING",
               EndTurn(d)
        PROVE  SaleIsBacked'
    <2>1. Shape(d, "NONE", queue, reader, due)
      BY <1>5, StartUpShape
    <2>2. DeviceOK(d)
      BY <1>4, <1>5 DEF DeviceOK, SamePayment
    <2> QED BY <1>2, <1>3, <1>5, <2>1, <2>2, TurnShape
  <1>6. /\ "INIT_RESET" \in Polls /\ "INIT_ENABLE" \in Polls
        /\ SamePayment(device, device)
    BY DEF Polls, SamePayment
  <1>7. CASE device.poll = "INACTIVE"
             /\ EndTurn([device EXCEPT !.poll = "INIT_RESET", !.last = "NONE"])
    <2> DEFINE d == [device EXCEPT !.poll = "INIT_RESET", !.last = "NONE"]
    <2>1. d \in Devices /\ SamePayment(d, device)
      BY <1>4, <1>6, PollMoves, Zenon
    <2> HIDE DEF d
    <2>2. EndTurn(d)
      BY <1>7 DEF d
    <2> QED BY <1>3, <1>5, <1>7, <2>1, <2>2
  <1>8. CASE device.poll = "INIT_EXPANSION" /\ EndTurn([device EXCEPT !.poll = "INIT_ENABLE"])
    <2> DEFINE d == [device EXCEPT !.poll = "INIT_ENABLE"]
    <2>1. d \in Devices /\ SamePayment(d, device)
      BY <1>4, <1>6, PollMoves, Zenon
    <2> HIDE DEF d
    <2>2. EndTurn(d)
      BY <1>8 DEF d
    <2> QED BY <1>3, <1>5, <1>8, <2>1, <2>2
  <1>9. CASE device.poll = "ERROR" /\ ~device.open
             /\ EndTurn([ResetDevice EXCEPT !.poll = "INIT_RESET"])
    <2> DEFINE d == [ResetDevice EXCEPT !.poll = "INIT_RESET"]
    <2>1. d \in Devices /\ SamePayment(d, ResetDevice)
      BY <1>6, ResetFields, PollMoves, Zenon
    <2>2. EndTurn(d)
      BY <1>9
    <2> HIDE DEF d
    <2>3. DeviceOK(d) /\ ~d.open /\ ~d.success /\ d.vend = "IDLE"
      BY <2>1, ResetFields DEF SamePayment, DeviceOK
    <2>4. reader.phase \notin {"ASKED", "HELD"}
      BY <1>1, <1>9 DEF SessionShape
    <2>5. Shape(d, "NONE", queue, reader, due)
      BY <1>1, <2>3, <2>4, ClosedShape DEF OwedShape
    <2> QED BY <1>2, <1>3, <2>2, <2>3, <2>5, TurnShape
  <1>10. CASE device.poll = "ERROR" /\ EndTurn(device)
    BY <1>3, <1>4, <1>5, <1>6, <1>10
  <1> QED BY <1>7, <1>8, <1>9, <1>10 DEF TurnWithoutCommand

\* What a command that reaches the reader makes of the sale.
LEMMA ObeyedMoves ==
    ASSUME TypesOK, SaleIsBacked, wire # "NONE", wire' = "NONE", reader' = Obeyed,
           Settlement
    PROVE  /\ ReaderShape(reader') /\ SaleMoves
           /\ \/ /\ wire # "RESET" /\ reader' = reader /\ due' = due
                 /\ wire = "VEND_SUCCESS" => reader.held = 0
                 /\ wire = "SESSION_COMPLETE" => reader.phase \in {"READY", "FAILED"}
              \/ wire = "RESET" /\ reader'.phase = "READY" /\ due' = 0
              \/ /\ wire = "VEND_REQUEST" /\ reader.phase = "OPEN" /\ reader'.phase = "ASKED"
                 /\ reader'.held = 0 /\ due = 0 /\ due' = 0
                 /\ reader'.say.code # "VEND_APPROVED"
              \/ /\ wire = "VEND_SUCCESS" /\ due # 0 /\ reader.held = due
                 /\ reader.phase \in {"HELD", "PULLED"}
                 /\ reader'.phase = IF reader.phase = "HELD" THEN "OPEN" ELSE "PULLED"
                 /\ reader'.held = 0 /\ due' = 0
              \/ /\ wire = "SESSION_COMPLETE"
                 /\ reader'.phase = "READY" /\ due' = 0
  <1>1. /\ ReaderShape(reader) /\ SessionShape(device, wire, reader)
        /\ OwedShape(device, reader, due)
    BY DEF SaleIsBacked, Shape
  <1>2. reader \in Readers /\ due \in Nat /\ reader.phase \in Phases /\ reader.held \in Nat
    BY DEF TypesOK, ReaderOK, Readers
  <1> DEFINE told == wire = "VEND_SUCCESS" /\ reader'.held < reader.held
  <1>3. due' = IF told \/ reader'.phase = "READY" THEN 0 ELSE due
    BY DEF Settlement
  <1>4. CASE wire = "RESET"
    <2>1. reader'.phase = "READY" /\ reader'.held = 0 /\ reader'.say.code = "JUST_RESET"
      BY <1>4 DEF Obeyed, Say
    <2>2. due' = 0
      BY <1>3, <2>1
    <2>3. reader.phase \notin {"ASKED", "HELD"}
      BY <1>1, <1>4 DEF SessionShape
    <2>4. ReaderShape(reader')
      BY <2>1 DEF ReaderShape
    <2>5. SaleMoves
      BY <1>1, <1>2, <2>1, <2>2, <2>3 DEF SaleMoves, OwedShape, ReaderShape, Phases
    <2> QED BY <1>4, <2>1, <2>2, <2>4, <2>5
  <1>5. CASE wire = "VEND_REQUEST" /\ reader.phase = "OPEN" /\ reader.say.code # "VEND_DENIED"
    <2>1. /\ reader'.phase = "ASKED" /\ reader'.held = reader.held
          /\ reader'.say = reader.say
      BY <1>2, <1>5 DEF Obeyed, Readers
    <2>2. reader.held = 0 /\ due = 0 /\ due' = due
      BY <1>1, <1>3, <1>5, <2>1 DEF ReaderShape, OwedShape
    <2>3. ReaderShape(reader')
      BY <1>1, <1>5, <2>1, <2>2 DEF ReaderShape
    <2>4. SaleMoves
      BY <1>5, <2>1, <2>2 DEF SaleMoves
    <2> QED BY <1>1, <1>5, <2>1, <2>2, <2>3, <2>4 DEF ReaderShape
  <1>6. CASE wire = "VEND_SUCCESS" /\ reader.held > 0
    <2>1. /\ reader'.phase = IF reader.phase = "HELD" THEN "OPEN" ELSE reader.phase
          /\ reader'.held = 0 /\ reader'.say = reader.say
      BY <1>2, <1>6 DEF Obeyed, Readers
    <2>2. /\ reader.phase \in {"HELD", "PULLED"} /\ due = reader.held /\ due # 0
          /\ reader.phase = "HELD" => reader.say = Silent
      BY <1>1, <1>2, <1>6 DEF ReaderShape, SessionShape, OwedShape, Phases
    <2>3. due' = 0
      BY <1>2, <1>3, <1>6, <2>1
    <2>4. ReaderShape(reader')
      BY <1>1, <2>1, <2>2 DEF ReaderShape, Silent
    <2>5. SaleMoves
      BY <2>1, <2>2, <2>3 DEF SaleMoves
    <2> QED BY <1>6, <2>1, <2>2, <2>3, <2>4, <2>5
  <1>7. CASE wire = "SESSION_COMPLETE" /\ reader.phase \notin {"READY", "FAILED"}
    <2>1. reader'.phase = "READY" /\ reader'.held = 0 /\ reader'.say.code = "END_SESSION"
      BY <1>7 DEF Obeyed, Say
    <2>2. due' = 0
      BY <1>3, <2>1
    <2>3. reader.phase # "PULLED" => due = 0
      BY <1>1, <1>7 DEF SessionShape, OwedShape
    <2>4. ReaderShape(reader')
      BY <2>1 DEF ReaderShape
    <2>5. SaleMoves
      BY <1>2, <1>7, <2>1, <2>2, <2>3 DEF SaleMoves, Phases
    <2> QED BY <1>7, <2>1, <2>2, <2>4, <2>5
  <1>8. CASE /\ wire # "RESET"
             /\ ~(wire = "VEND_REQUEST" /\ reader.phase = "OPEN"
                  /\ reader.say.code # "VEND_DENIED")
             /\ ~(wire = "VEND_SUCCESS" /\ reader.held > 0)
             /\ ~(wire = "SESSION_COMPLETE" /\ reader.phase \notin {"READY", "FAILED"})
    <2>1. reader' = reader
      BY <1>8 DEF Obeyed
    <2>2. due' = due
      BY <1>1, <1>2, <1>3, <2>1 DEF OwedShape
    <2> QED BY <1>1, <1>2, <1>8, <2>1, <2>2 DEF SaleMoves
  <1> QED BY <1>4, <1>5, <1>6, <1>7, <1>8

\* With the command answered or lost, and nothing else, the shape stays.
LEMMA WireDropped ==
    ASSUME SaleIsBacked
    PROVE  Shape(device, "NONE", queue, reader, due)
  BY DEF SaleIsBacked, Shape, SessionShape, ApprovalShape

\* A command that is lost, or whose reply is.
LEMMA UnansweredShape ==
    ASSUME TypesOK, SaleIsBacked, ~LateApproval, wire # "NONE", wire' = "NONE",
           Unanswered, reader' \in {reader, Obeyed}, Settlement
    PROVE  SaleIsBacked' /\ SaleMoves
  <1>1. /\ ReaderShape(reader) /\ SessionShape(device, wire, reader)
        /\ ApprovalShape(device, wire, queue, reader, due) /\ OwedShape(device, reader, due)
    BY DEF SaleIsBacked, Shape
  <1>2. /\ device \in Devices /\ DeviceOK(device) /\ wire \in Commands
        /\ reader.phase \in Phases
    BY DEF TypesOK, DeviceOK, ReaderOK, Readers
  <1>3. Approving(queue) = {}
    BY <1>1 DEF ApprovalShape
  <1> DEFINE lame == [device EXCEPT !.poll = "ERROR"]
  <1>4. lame \in Devices /\ SamePayment(lame, device) /\ DeviceOK(lame)
    <2>1. "ERROR" \in Polls
      BY DEF Polls
    <2>2. lame \in Devices /\ SamePayment(lame, device)
      BY <1>2, <2>1, PollMoves, Zenon
    <2> HIDE DEF lame
    <2> QED BY <1>2, <2>2 DEF DeviceOK, SamePayment
  <1>5. \/ EndTurn(device)
        \/ EndTurn(lame) /\ wire \in {"RESET", "SETUP", "LIMITS"}
    BY DEF Unanswered
  <1> HIDE DEF lame
  <1>6. \/ reader' = reader /\ due' = due /\ ReaderShape(reader') /\ SaleMoves
        \/ reader' = Obeyed
    <2> SUFFICES ASSUME reader' = reader
                 PROVE  due' = due /\ ReaderShape(reader') /\ SaleMoves
      OBVIOUS
    <2>1. reader.held \in Nat /\ ~(reader'.held < reader.held)
      BY DEF TypesOK, ReaderOK, Readers
    <2>2. due' = due
      BY <1>1, <2>1 DEF Settlement, OwedShape
    <2>3. SaleMoves
      BY <2>2 DEF SaleMoves
    <2> QED BY <1>1, <2>2, <2>3
  <1>7. SaleMoves
    BY <1>6, ObeyedMoves
  <1>8. CASE wire \in {"RESET", "SETUP", "LIMITS", "EXPANSION", "ENABLE"}
    <2>1. device.poll # "IDLE_POLLING"
      BY <1>1, <1>8 DEF SessionShape
    <2>2. \/ reader' = reader /\ due' = due
          \/ ReaderShape(reader') /\ reader'.phase = "READY" /\ due' = 0
      BY <1>6, <1>8, ObeyedMoves
    <2>3. SamePayment(device, device)
      BY DEF SamePayment
    <2>4. /\ Shape(device, "NONE", queue, reader', due')
          /\ Shape(lame, "NONE", queue, reader', due')
      BY <1>4, <2>1, <2>2, <2>3, StartUpShape
    <2> QED BY <1>2, <1>4, <1>5, <1>7, <2>4, TurnShape
  <1>9. CASE wire \in {"VEND_REQUEST", "VEND_SUCCESS", "SESSION_COMPLETE", "POLL"}
    <2>1. EndTurn(device)
      BY <1>5, <1>9
    <2>2. Shape(device, "NONE", queue, reader', due')
      <3>1. CASE reader' = reader /\ due' = due
        BY <3>1, WireDropped
      <3>2. CASE /\ ReaderShape(reader')
                 /\ wire = "VEND_REQUEST" /\ reader.phase = "OPEN" /\ reader'.phase = "ASKED"
                 /\ reader'.held = 0 /\ due = 0 /\ due' = 0
                 /\ reader'.say.code # "VEND_APPROVED"
        <4>1. /\ device.open /\ device.vend = "PENDING" /\ device.poll = "IDLE_POLLING"
              /\ ~device.success /\ ~Kept(device)
          BY <1>1, <3>2 DEF SessionShape, ApprovalShape, Backed
        <4>2. SessionShape(device, "NONE", reader')
          BY <1>1, <3>2, <4>1 DEF SessionShape
        <4> QED
          BY <1>3, <3>2, <4>1, <4>2 DEF Shape, ApprovalShape, OwedShape
      <3>3. CASE /\ ReaderShape(reader')
                 /\ wire = "VEND_SUCCESS" /\ due # 0 /\ reader.held = due
                 /\ reader.phase \in {"HELD", "PULLED"}
                 /\ reader'.phase = IF reader.phase = "HELD" THEN "OPEN" ELSE "PULLED"
                 /\ reader'.held = 0 /\ due' = 0
        <4>1. /\ device.success /\ device.vend # "PENDING" /\ ~Kept(device)
              /\ reader'.phase \in {"OPEN", "PULLED"}
          BY <1>1, <3>3 DEF SessionShape, ApprovalShape, Backed
        <4>2. SessionShape(device, "NONE", reader')
          BY <1>1, <3>3, <4>1 DEF SessionShape
        <4> QED
          BY <1>3, <3>3, <4>1, <4>2 DEF Shape, ApprovalShape, OwedShape
      <3>4. CASE /\ ReaderShape(reader')
                 /\ wire = "SESSION_COMPLETE"
                 /\ reader'.phase = "READY" /\ due' = 0
        <4>1. ~device.success /\ ~Kept(device)
          BY <1>1, <3>4 DEF SessionShape, LateApproval, Kept
        <4>2. SessionShape(device, "NONE", reader')
          BY <1>1, <3>4, <4>1 DEF SessionShape
        <4> QED
          BY <1>3, <3>4, <4>1, <4>2 DEF Shape, ApprovalShape, OwedShape
      <3> QED BY <1>6, <1>9, <3>1, <3>2, <3>3, <3>4, ObeyedMoves
    <2> QED BY <1>2, <1>7, <2>1, <2>2, TurnShape
  <1> QED BY <1>2, <1>8, <1>9 DEF Commands

\* The reply to a command other than POLL and RESET.
LEMMA AnsweredShape ==
    ASSUME TypesOK, SaleIsBacked, ~LateApproval, wire \notin {"NONE", "POLL", "RESET"},
           wire' = "NONE", Answered, reader' = Obeyed, Settlement
    PROVE  SaleIsBacked' /\ SaleMoves
  <1>1. /\ ReaderShape(reader) /\ SessionShape(device, wire, reader)
        /\ ApprovalShape(device, wire, queue, reader, due) /\ OwedShape(device, reader, due)
    BY DEF SaleIsBacked, Shape
  <1>2. /\ device \in Devices /\ device.credit \in Credits \cup {0} /\ wire \in Commands
        /\ reader.phase \in Phases
    BY DEF TypesOK, DeviceOK, ReaderOK, Readers
  <1>3. Approving(queue) = {}
    BY <1>1 DEF ApprovalShape
  <1>4. SaleMoves /\ ReaderShape(reader')
    BY ObeyedMoves
  <1>5. ASSUME NEW d \in Devices, d.credit \in {0, device.credit}, EndTurn(d),
               Shape(d, "NONE", queue, reader', due')
        PROVE  SaleIsBacked'
    BY <1>2, <1>5, TurnShape DEF DeviceOK
  <1>6. ASSUME NEW d \in Devices, SamePayment(d, device), EndTurn(d),
               wire \in {"SETUP", "LIMITS", "EXPANSION", "ENABLE"}
        PROVE  SaleIsBacked'
    <2>1. reader' = reader /\ due' = due /\ device.poll # "IDLE_POLLING"
      BY <1>1, <1>6, ObeyedMoves DEF SessionShape
    <2>2. Shape(d, "NONE", queue, reader', due')
      BY <1>6, <2>1, StartUpShape
    <2> QED BY <1>5, <1>6, <2>2 DEF SamePayment
  <1>7. CASE wire \in {"SETUP", "LIMITS", "ENABLE"}
    <2>1. \/ wire = "SETUP" /\ EndTurn([device EXCEPT !.config = TRUE])
          \/ wire = "LIMITS" /\ EndTurn([device EXCEPT !.setup = TRUE, !.poll = "INIT_EXPANSION"])
          \/ wire = "ENABLE" /\ EndTurn([device EXCEPT !.poll = "IDLE_POLLING"])
      BY <1>7 DEF Answered
    <2> QED BY <1>2, <1>4, <1>6, <2>1, SetupFields
  <1>8. CASE wire = "EXPANSION"
    <2>1. EndTurn(Parsed(device, Say("REQUEST_ID", 0)))
      BY <1>8 DEF Answered
    <2> QED BY <1>2, <1>4, <1>6, <1>8, <2>1, IdentityFields
  <1>9. CASE wire = "VEND_REQUEST"
    <2> DEFINE d == [device EXCEPT !.vend = "WORKING"]
    <2>1. EndTurn(d)
      BY <1>9 DEF Answered
    <2>2. /\ d \in Devices
          /\ d.poll = device.poll /\ d.present = device.present /\ d.open = device.open
          /\ d.vend = "WORKING" /\ d.credit = device.credit
          /\ d.approved = device.approved /\ d.result = device.result
          /\ d.success = device.success /\ d.complete = device.complete
          /\ d.last = device.last
      BY <1>2, WorkingFields
    <2> HIDE DEF d
    <2>3. CASE reader' = reader /\ due' = due
      <3>1. SessionShape(d, "NONE", reader) /\ OwedShape(d, reader, due)
        BY <1>1, <1>9, <2>2 DEF SessionShape, OwedShape
      <3>2. ApprovalShape(d, "NONE", queue, reader, due)
        BY <1>1, <1>3, <2>2 DEF ApprovalShape, Kept
      <3> QED BY <1>1, <1>4, <1>5, <2>1, <2>2, <2>3, <3>1, <3>2 DEF Shape
    <2>4. CASE /\ reader.phase = "OPEN" /\ reader'.phase = "ASKED"
               /\ reader'.held = 0 /\ due = 0 /\ due' = 0
               /\ reader'.say.code # "VEND_APPROVED"
      <3>1. /\ device.open /\ device.poll = "IDLE_POLLING"
            /\ ~device.success /\ ~Kept(d)
        BY <1>1, <1>9, <2>2, <2>4 DEF SessionShape, ApprovalShape, Backed, Kept
      <3>2. SessionShape(d, "NONE", reader')
        BY <1>1, <2>2, <2>4, <3>1 DEF SessionShape
      <3>3. Shape(d, "NONE", queue, reader', due')
        BY <1>3, <1>4, <2>2, <2>4, <3>1, <3>2 DEF Shape, ApprovalShape, OwedShape
      <3> QED BY <1>4, <1>5, <2>1, <2>2, <3>3
    <2> QED BY <1>9, <2>3, <2>4, ObeyedMoves
  <1>10. CASE wire = "VEND_SUCCESS"
    <2> DEFINE d == [device EXCEPT !.success = FALSE, !.session = "OPEN"]
    <2>1. EndTurn(d)
      BY <1>10 DEF Answered
    <2>2. /\ d \in Devices
          /\ d.poll = device.poll /\ d.present = device.present /\ d.open = device.open
          /\ d.vend = device.vend /\ d.request = device.request /\ d.credit = device.credit
          /\ d.result = device.result /\ ~d.success /\ d.last = device.last
      BY <1>2, SettledFields
    <2> HIDE DEF d
    <2>3. Kept(d) <=> Kept(device)
      BY <2>2 DEF Kept
    <2>4. CASE reader' = reader /\ due' = due /\ reader.held = 0
      <3>1. SessionShape(d, "NONE", reader)
        BY <1>1, <2>2 DEF SessionShape
      <3>2. OwedShape(d, reader, due)
        BY <1>1, <2>2, <2>4 DEF OwedShape
      <3>3. ApprovalShape(d, "NONE", queue, reader, due)
        BY <1>1, <1>3, <2>2, <2>3 DEF ApprovalShape
      <3> QED BY <1>1, <1>4, <1>5, <2>1, <2>2, <2>4, <3>1, <3>2, <3>3 DEF Shape
    <2>5. CASE /\ due # 0 /\ reader.held = due
               /\ reader.phase \in {"HELD", "PULLED"}
               /\ reader'.phase = IF reader.phase = "HELD" THEN "OPEN" ELSE "PULLED"
               /\ reader'.held = 0 /\ due' = 0
      <3>1. ~Kept(d) /\ reader'.phase \in {"OPEN", "PULLED"}
        BY <1>1, <2>3, <2>5 DEF ApprovalShape, Backed
      <3>2. SessionShape(d, "NONE", reader')
        BY <1>1, <2>2, <3>1 DEF SessionShape
      <3>3. Shape(d, "NONE", queue, reader', due')
        BY <1>3, <1>4, <2>2, <2>5, <3>1, <3>2 DEF Shape, ApprovalShape, OwedShape
      <3> QED BY <1>4, <1>5, <2>1, <2>2, <3>3
    <2> QED BY <1>10, <2>4, <2>5, ObeyedMoves
  <1>11. CASE wire = "SESSION_COMPLETE"
    <2> DEFINE c == [device EXCEPT !.complete = FALSE]
               d == ClosedLocally(c)
    <2>1. EndTurn(d)
      BY <1>11 DEF Answered
    <2>2. /\ c \in Devices /\ c.poll = device.poll /\ c.open = device.open
          /\ c.vend = device.vend /\ c.credit = device.credit /\ c.success = device.success
      BY <1>2, CompletedFields
    <2> HIDE DEF c
    <2>3. /\ d \in Devices /\ ~d.open /\ d.credit \in {0, device.credit}
          /\ d.success => device.success /\ ~device.open
          /\ d.vend = "PENDING" => device.vend = "PENDING" /\ ~device.open
      BY <2>2, ClosedLocallyFields
    <2> HIDE DEF d
    <2>4. ~d.success /\ d.vend # "PENDING"
      BY <1>1, <2>3 DEF SessionShape
    <2>5. CASE reader' = reader /\ due' = due /\ reader.phase \in {"READY", "FAILED"}
      <3>1. Shape(d, "NONE", queue, reader', due')
        BY <1>1, <1>4, <2>3, <2>4, <2>5, ClosedShape DEF OwedShape
      <3> QED BY <1>4, <1>5, <2>1, <2>3, <3>1
    <2>6. CASE reader'.phase = "READY" /\ due' = 0
      <3>1. Shape(d, "NONE", queue, reader', due')
        BY <1>4, <2>3, <2>4, <2>6, ClosedShape
      <3> QED BY <1>4, <1>5, <2>1, <2>3, <3>1
    <2> QED BY <1>11, <2>5, <2>6, ObeyedMoves
  <1> QED BY <1>2, <1>7, <1>8, <1>9, <1>10, <1>11 DEF Commands

\* A session ended by what the reader says: closed, and nothing is told of it.
Closed(d) == ~d.open /\ ~d.success /\ d.vend # "PENDING"

\* What each message leaves of the record, in the terms of the sale.
LEMMA ParsedSale ==
    ASSUME TypesOK, NEW msg \in Messages, msg.code # "REQUEST_ID",
           msg.code = "BEGIN_SESSION" => msg.cents \in Credits,
           NEW p, p = Parsed(device, msg)
    PROVE  /\ p \in Devices
           /\ msg.code = "JUST_RESET" => Closed(p)
           /\ msg.code = "BEGIN_SESSION" =>
                 /\ p.open /\ p.present /\ p.last = "BEGIN_SESSION"
                 /\ ~p.success /\ ~p.complete /\ p.poll = device.poll
                 /\ p.vend = "PENDING" => device.vend = "PENDING" /\ p.request = device.request
                 /\ ~p.result.pending \/ p.result = device.result
           /\ msg.code = "VEND_APPROVED" =>
                 /\ p.open = device.open /\ p.present /\ p.last = "VEND_APPROVED"
                 /\ p.success = device.success /\ p.vend = "APPROVED"
                 /\ p.poll = device.poll
                 /\ p.result = [pending |-> TRUE, approved |-> TRUE, cents |-> msg.cents]
           /\ msg.code = "VEND_DENIED" =>
                 /\ p.open = device.open /\ p.present /\ p.last = "VEND_DENIED"
                 /\ p.success = device.success /\ p.vend = "DENIED"
                 /\ p.approved = device.approved /\ p.poll = device.poll
                 /\ ~p.result.approved
           /\ msg.code \in {"SESSION_CANCEL", "END_SESSION"} =>
                 \/ Closed(p)
                 \/ /\ device.last = msg.code
                    /\ p.open = device.open /\ p.success = device.success
                    /\ p.vend = device.vend
           /\ msg.code = "OUT_OF_SEQUENCE" =>
                 ~p.open /\ p.success = device.success /\ p.vend # "PENDING"
  <1> DEFINE e == [device EXCEPT !.last = msg.code, !.present = TRUE]
  <1>1. /\ device \in Devices /\ msg.code \in Responses /\ msg.cents \in Nat
        /\ DeviceOK(p)
    BY ParsedOK DEF TypesOK, DeviceOK, Messages
  <1>2. /\ e \in Devices
        /\ e.last = msg.code /\ e.present
        /\ e.poll = device.poll /\ e.open = device.open /\ e.vend = device.vend
        /\ e.request = device.request /\ e.approved = device.approved
        /\ e.result = device.result /\ e.success = device.success
    BY <1>1, HeardType
  <1>3. /\ msg.code = "JUST_RESET" => p = Zeroed(e)
        /\ msg.code = "BEGIN_SESSION" => p = Begun(e, msg.cents)
        /\ msg.code = "VEND_APPROVED" => p = Approved(e, msg.cents)
        /\ msg.code = "VEND_DENIED" => p = Denied(e)
        /\ msg.code \in {"SESSION_CANCEL", "END_SESSION"} =>
              p = Cancelled(e) \/ p = Finalized(e) \/ (device.last = msg.code /\ p = e)
        /\ msg.code = "OUT_OF_SEQUENCE" => p = OutOfSequence(e)
    BY DEF Parsed
  <1> HIDE DEF e
  <1>4. p \in Devices
    BY <1>1 DEF DeviceOK
  <1>5. CASE msg.code = "JUST_RESET"
    BY <1>2, <1>3, <1>4, <1>5, ZeroedFields, <1>1 DEF Closed
  <1>6. CASE msg.code = "BEGIN_SESSION"
    BY <1>1, <1>2, <1>3, <1>4, <1>6, BegunFields
  <1>7. CASE msg.code = "VEND_APPROVED"
    BY <1>1, <1>2, <1>3, <1>4, <1>7, ApprovedFields
  <1>8. CASE msg.code = "VEND_DENIED"
    BY <1>2, <1>3, <1>4, <1>8, DeniedFields
  <1>9. CASE msg.code \in {"SESSION_CANCEL", "END_SESSION"}
    BY <1>2, <1>3, <1>4, <1>9, CancelledFields, FinalizedFields DEF Closed
  <1>10. CASE msg.code = "OUT_OF_SEQUENCE"
    BY <1>2, <1>3, <1>4, <1>10, OutOfSequenceFields
  <1> QED BY <1>1, <1>4, <1>5, <1>6, <1>7, <1>8, <1>9, <1>10 DEF Responses

LEMMA SpokenFields ==
    ASSUME NEW r \in Readers
    PROVE  /\ Spoken(r).say = Silent /\ Spoken(r).say.code = "NONE"
           /\ Spoken(r).held = r.held
           /\ Spoken(r).phase = IF r.phase = "FAILED" THEN "READY" ELSE r.phase
  BY DEF Spoken, Readers, Silent

LEMMA SpokenShape ==
    ASSUME NEW r \in Readers, ReaderShape(r)
    PROVE  ReaderShape(Spoken(r))
  BY SpokenFields, EngineAssumption DEF ReaderShape

\* The reply to POLL: the reader has said what it had to say.
LEMMA PolledShape ==
    ASSUME TypesOK, SaleIsBacked, ~LateApproval, wire = "POLL", wire' = "NONE",
           reader' = Spoken(reader), PollAnswered(reader.say), Settlement
    PROVE  SaleIsBacked' /\ SaleMoves
  <1>1. /\ ReaderShape(reader) /\ SessionShape(device, wire, reader)
        /\ ApprovalShape(device, wire, queue, reader, due) /\ OwedShape(device, reader, due)
    BY DEF SaleIsBacked, Shape
  <1>2. /\ DeviceOK(device) /\ device \in Devices /\ device.credit \in Credits \cup {0}
        /\ reader \in Readers /\ reader.phase \in Phases /\ reader.held \in Nat
        /\ due \in Nat
        /\ reader.say \in Messages \cup {Silent}
        /\ reader.say.code = "BEGIN_SESSION" => reader.say.cents \in Credits
    BY DEF TypesOK, DeviceOK, ReaderOK, Readers
  <1>3. Approving(queue) = {} /\ ~device.success
    BY <1>1 DEF ApprovalShape, SessionShape
  <1>4. /\ reader'.say.code = "NONE" /\ reader'.held = reader.held /\ reader'.say = Silent
        /\ reader'.phase = IF reader.phase = "FAILED" THEN "READY" ELSE reader.phase
        /\ ReaderShape(reader')
    BY <1>1, <1>2, SpokenFields, SpokenShape
  <1>5. due' = IF reader'.phase = "READY" THEN 0 ELSE due
    BY <1>2, <1>4 DEF Settlement
  <1>6. due' = due \/ (reader.phase = "FAILED" /\ due' = 0)
    BY <1>1, <1>4, <1>5 DEF OwedShape
  <1>7. SaleMoves
    <2>1. CASE reader.phase = "FAILED"
      <3>1. reader'.phase = "READY" /\ due' = 0 /\ reader'.held = 0
        BY <1>1, <1>4, <1>5, <2>1 DEF ReaderShape
      <3> QED BY <2>1, <3>1 DEF SaleMoves
    <2>2. CASE reader.phase # "FAILED"
      BY <1>4, <1>6, <2>2 DEF SaleMoves
    <2> QED BY <2>1, <2>2
  <1>8. ASSUME NEW d, DeviceOK(d), EndTurn(d), Shape(d, "NONE", queue, reader', due')
        PROVE  SaleIsBacked'
    BY <1>8, TurnShape
  <1> DEFINE p == IF reader.say = Silent THEN device ELSE Parsed(device, reader.say)
  <1>9. DeviceOK(p)
    BY <1>2, ParsedOK
  <1>10. CASE reader.say = Silent
    <2>1. EndTurn(device)
      BY <1>10 DEF PollAnswered, Silent
    <2>2. reader.phase # "FAILED" /\ due' = due /\ reader'.phase = reader.phase
      BY <1>1, <1>4, <1>6, <1>10, EngineAssumption DEF ReaderShape, Silent
    <2>3. SessionShape(device, "NONE", reader') /\ OwedShape(device, reader', due')
      BY <1>1, <1>3, <1>4, <2>2 DEF SessionShape, OwedShape
    <2>4. ApprovalShape(device, "NONE", queue, reader', due')
      BY <1>1, <1>3, <1>4, <2>2 DEF ApprovalShape, Backed
    <2> QED BY <1>2, <1>4, <1>7, <1>8, <2>1, <2>3, <2>4 DEF Shape
  <1>11. CASE reader.say # Silent
    <2>1. reader.say \in Messages /\ p = Parsed(device, reader.say)
          /\ reader.say.code # "REQUEST_ID" /\ reader.say.code \in Responses
      BY <1>1, <1>2, <1>11 DEF ReaderShape, Messages
    <2>2. EndTurn(CASE reader.say.code = "JUST_RESET"      -> [p EXCEPT !.poll = "INIT_SETUP"]
                    [] reader.say.code = "OUT_OF_SEQUENCE" -> [p EXCEPT !.poll = "INIT_RESET"]
                    [] OTHER -> p)
      BY DEF PollAnswered
    <2> HIDE DEF p
    <2>3. p \in Devices /\ p.credit \in Credits \cup {0}
      BY <1>9 DEF DeviceOK
    <2>4. CASE reader.say.code = "BEGIN_SESSION"
      <3>1. EndTurn(p)
        BY <2>2, <2>4
      <3>2. /\ p.open /\ p.present /\ p.last = "BEGIN_SESSION"
            /\ ~p.success /\ ~p.complete /\ p.poll = device.poll
            /\ p.vend = "PENDING" => device.vend = "PENDING" /\ p.request = device.request
            /\ ~p.result.pending \/ p.result = device.result
        BY <1>2, <2>1, <2>4, ParsedSale
      <3>3. /\ reader.phase \in {"OPEN", "ASKED"} /\ due = 0 /\ due' = 0
            /\ reader'.phase = reader.phase /\ reader.held = 0
        BY <1>1, <1>4, <1>5, <2>4 DEF ReaderShape, OwedShape
      <3>4. ~(device.result.pending /\ device.result.approved)
        BY <1>1, <3>3 DEF LateApproval, ApprovalShape, Kept, Backed
      <3>5. ~Kept(p)
        BY <3>2, <3>4 DEF Kept
      <3>6. SessionShape(p, "NONE", reader')
        BY <1>1, <3>2, <3>3 DEF SessionShape
      <3>7. ApprovalShape(p, "NONE", queue, reader', due')
        BY <1>3, <1>4, <3>5 DEF ApprovalShape
      <3>8. OwedShape(p, reader', due')
        BY <3>2, <3>3 DEF OwedShape
      <3> QED BY <1>4, <1>7, <1>8, <1>9, <3>1, <3>6, <3>7, <3>8 DEF Shape
    <2>5. CASE reader.say.code = "VEND_APPROVED"
      <3>1. EndTurn(p)
        BY <2>2, <2>5
      <3>2. /\ p.open = device.open /\ p.present /\ p.last = "VEND_APPROVED"
            /\ p.success = device.success /\ p.vend = "APPROVED"
            /\ p.poll = device.poll
            /\ p.result = [pending |-> TRUE, approved |-> TRUE, cents |-> reader.say.cents]
        BY <2>1, <2>5, ParsedSale
      <3>3. /\ reader.phase = "HELD" /\ reader.say.cents = reader.held /\ reader.held # 0
            /\ due = 0 /\ due' = 0 /\ reader'.phase = "HELD"
            /\ device.poll = "IDLE_POLLING"
        BY <1>1, <1>4, <1>6, <2>5 DEF ReaderShape, ApprovalShape, SessionShape
      <3>4. SessionShape(p, "NONE", reader')
        BY <1>1, <1>3, <3>2, <3>3 DEF SessionShape
      <3>5. p.result.cents = reader.held
        BY <3>2, <3>3
      <3>6. Backed(p.result.cents, reader', due')
        BY <1>4, <3>3, <3>5 DEF Backed
      <3>7. ApprovalShape(p, "NONE", queue, reader', due')
        BY <1>3, <1>4, <3>2, <3>3, <3>6 DEF ApprovalShape
      <3>8. OwedShape(p, reader', due')
        BY <1>3, <3>2, <3>3 DEF OwedShape
      <3> QED BY <1>4, <1>7, <1>8, <1>9, <3>1, <3>4, <3>7, <3>8 DEF Shape
    <2>6. CASE reader.say.code = "VEND_DENIED"
      <3>1. EndTurn(p)
        BY <2>2, <2>6
      <3>2. /\ p.open = device.open /\ p.present /\ p.last = "VEND_DENIED"
            /\ p.success = device.success /\ p.vend = "DENIED"
            /\ ~p.result.approved
        BY <2>1, <2>6, ParsedSale
      <3>3. reader.phase = "OPEN" /\ due = 0 /\ due' = 0 /\ reader'.phase = "OPEN"
        BY <1>1, <1>4, <1>6, <2>6 DEF ReaderShape, OwedShape
      <3>4. SessionShape(p, "NONE", reader')
        BY <1>1, <1>3, <3>2, <3>3 DEF SessionShape
      <3>5. ApprovalShape(p, "NONE", queue, reader', due')
        BY <1>3, <1>4, <3>2 DEF ApprovalShape, Kept
      <3>6. OwedShape(p, reader', due')
        BY <1>3, <3>2, <3>3 DEF OwedShape
      <3> QED BY <1>4, <1>7, <1>8, <1>9, <3>1, <3>4, <3>5, <3>6 DEF Shape
    <2>7. ASSUME NEW d \in Devices, Closed(d), d.credit \in Credits \cup {0}, EndTurn(d),
                 reader.say.code \in {"JUST_RESET", "SESSION_CANCEL", "END_SESSION",
                                      "OUT_OF_SEQUENCE"}
          PROVE  SaleIsBacked'
      <3>1. /\ reader'.phase \notin {"ASKED", "HELD"}
            /\ due' # 0 => \/ reader'.phase = "FAILED"
                           \/ reader'.phase = "PULLED" /\ reader'.held = due'
        BY <1>1, <1>4, <1>5, <2>7 DEF ReaderShape, OwedShape
      <3>2. Shape(d, "NONE", queue, reader', due')
        BY <1>4, <2>7, <3>1, ClosedShape DEF Closed
      <3> QED BY <1>8, <2>7, <3>2 DEF DeviceOK
    <2>8. CASE reader.say.code \in {"SESSION_CANCEL", "END_SESSION"}
      <3>1. EndTurn(p)
        BY <2>2, <2>8
      <3>2. Closed(p)
        <4>1. \/ Closed(p)
              \/ /\ device.last = reader.say.code
                 /\ p.open = device.open /\ p.success = device.success
                 /\ p.vend = device.vend
          BY <2>1, <2>8, ParsedSale
        <4> QED BY <1>1, <1>3, <2>8, <4>1 DEF SessionShape, Closed
      <3> QED BY <1>7, <2>3, <2>7, <2>8, <3>1, <3>2
    <2>9. CASE reader.say.code = "JUST_RESET"
      <3> DEFINE d == [p EXCEPT !.poll = "INIT_SETUP"]
      <3>1. EndTurn(d)
        BY <2>2, <2>9
      <3>2. "INIT_SETUP" \in Polls
        BY DEF Polls
      <3>3. d \in Devices /\ SamePayment(d, p)
        BY <2>3, <3>2, PollMoves, Zenon
      <3> HIDE DEF d
      <3>4. Closed(p)
        BY <2>1, <2>9, ParsedSale
      <3>5. Closed(d) /\ d.credit \in Credits \cup {0}
        BY <2>3, <3>3, <3>4 DEF Closed, SamePayment
      <3> QED BY <1>7, <2>7, <2>9, <3>1, <3>3, <3>5
    <2>10. CASE reader.say.code = "OUT_OF_SEQUENCE"
      <3> DEFINE d == [p EXCEPT !.poll = "INIT_RESET"]
      <3>1. EndTurn(d)
        BY <2>2, <2>10
      <3>2. "INIT_RESET" \in Polls
        BY DEF Polls
      <3>3. d \in Devices /\ SamePayment(d, p)
        BY <2>3, <3>2, PollMoves, Zenon
      <3> HIDE DEF d
      <3>4. Closed(p)
        BY <1>3, <2>1, <2>10, ParsedSale DEF Closed
      <3>5. Closed(d) /\ d.credit \in Credits \cup {0}
        BY <2>3, <3>3, <3>4 DEF Closed, SamePayment
      <3> QED BY <1>7, <2>7, <2>10, <3>1, <3>3, <3>5
    <2> QED BY <2>1, <2>4, <2>5, <2>6, <2>8, <2>9, <2>10 DEF Responses
  <1> QED BY <1>10, <1>11

\* The reply to RESET, with the POLL that follows or without: a reader that is
\* reset has no session, and none was under way.
LEMMA ResetShape ==
    ASSUME TypesOK, SaleIsBacked, wire = "RESET", wire' = "NONE", Settlement,
           \/ reader' = Spoken(Obeyed) /\ ResetAnswered(Obeyed.say)
           \/ reader' = Obeyed /\ ResetAnswered(Silent)
    PROVE  SaleIsBacked' /\ SaleMoves
  <1>1. /\ ReaderShape(reader) /\ SessionShape(device, wire, reader)
        /\ OwedShape(device, reader, due)
    BY DEF SaleIsBacked, Shape
  <1>2. /\ DeviceOK(device) /\ device \in Devices /\ device.credit \in Credits \cup {0}
        /\ reader \in Readers /\ reader.phase \in Phases /\ reader.held \in Nat
        /\ due \in Nat
    BY DEF TypesOK, DeviceOK, ReaderOK, Readers
  <1>3. /\ Obeyed.phase = "READY" /\ Obeyed.held = 0 /\ Obeyed.say = Say("JUST_RESET", 0)
        /\ Obeyed \in Readers
    <2>1. Obeyed = [phase |-> "READY", held |-> 0, say |-> Say("JUST_RESET", 0)]
      BY DEF Obeyed
    <2>2. Say("JUST_RESET", 0) \in Messages
      BY SayType DEF Responses
    <2> QED BY <2>1, <2>2 DEF Readers, Phases
  <1>4. /\ Say("JUST_RESET", 0) \in Messages /\ Say("JUST_RESET", 0) # Silent
        /\ Say("JUST_RESET", 0).code = "JUST_RESET"
    BY SayType DEF Responses
  <1>5. /\ reader'.phase = "READY" /\ reader'.held = 0
        /\ ReaderShape(reader')
    <2>1. ReaderShape(Obeyed)
      BY <1>3, <1>4 DEF ReaderShape
    <2> QED BY <1>3, <2>1, SpokenFields, SpokenShape
  <1>6. due' = 0
    BY <1>5 DEF Settlement
  <1>7. reader.phase \notin {"ASKED", "HELD"} /\ device.poll # "IDLE_POLLING"
    BY <1>1 DEF SessionShape
  <1>8. SaleMoves
    BY <1>1, <1>2, <1>5, <1>6, <1>7 DEF SaleMoves, OwedShape, ReaderShape, Phases
  <1>9. "INIT_SETUP" \in Polls
    BY DEF Polls
  <1>10. CASE ResetAnswered(Silent)
    <2> DEFINE d == [device EXCEPT !.last = "NONE", !.poll = "INIT_SETUP"]
    <2>1. EndTurn(d)
      BY <1>10 DEF ResetAnswered
    <2>2. d \in Devices /\ SamePayment(d, device)
      BY <1>2, <1>9, PollMoves, Zenon
    <2> HIDE DEF d
    <2>3. Shape(d, "NONE", queue, reader', due')
      BY <1>5, <1>6, <1>7, <2>2, StartUpShape
    <2> QED BY <1>2, <1>8, <2>1, <2>2, <2>3, TurnShape DEF DeviceOK, SamePayment
  <1>11. CASE ResetAnswered(Obeyed.say)
    <2> DEFINE p == Parsed(device, Say("JUST_RESET", 0))
               d == [p EXCEPT !.last = "NONE", !.poll = "INIT_SETUP"]
    <2>1. EndTurn(d)
      BY <1>3, <1>4, <1>11 DEF ResetAnswered
    <2>2. DeviceOK(p)
      BY <1>2, <1>4, ParsedOK
    <2>3. Closed(p)
      BY <1>4, ParsedSale
    <2> HIDE DEF p
    <2>4. p \in Devices
      BY <2>2 DEF DeviceOK
    <2>5. d \in Devices /\ SamePayment(d, p)
      BY <1>9, <2>4, PollMoves, Zenon
    <2> HIDE DEF d
    <2>6. DeviceOK(d) /\ Closed(d)
      BY <2>2, <2>3, <2>5 DEF DeviceOK, Closed, SamePayment
    <2>7. Shape(d, "NONE", queue, reader', due')
      BY <1>5, <1>6, <2>6, ClosedShape DEF Closed
    <2> QED BY <1>8, <2>1, <2>6, <2>7, TurnShape
  <1> QED BY <1>10, <1>11

\* Every step of the bus master.
LEMMA EngineShape ==
    ASSUME TypesOK, SaleIsBacked, ~LateApproval, EngineStep, Settlement
    PROVE  SaleIsBacked' /\ SaleMoves
  <1>1. CASE Send
    BY <1>1, SendShape
  <1>2. CASE TurnWithoutCommand
    BY <1>2, IdleTurnShape
  <1>3. CASE Exchange
    <2>1. wire # "NONE" /\ wire' = "NONE"
      BY <1>3 DEF Exchange
    <2>2. CASE wire = "POLL" /\ reader' = Spoken(reader) /\ PollAnswered(reader.say)
      BY <2>1, <2>2, PolledShape
    <2>3. CASE wire = "RESET" /\ reader' = Spoken(Obeyed) /\ ResetAnswered(Obeyed.say)
      BY <2>1, <2>3, ResetShape
    <2>4. CASE wire \notin {"POLL", "RESET"} /\ reader' = Obeyed /\ Answered
      BY <2>1, <2>4, AnsweredShape
    <2> QED BY <1>3, <2>2, <2>3, <2>4 DEF Exchange
  <1>4. CASE Loss
    <2>1. wire # "NONE" /\ wire' = "NONE"
      BY <1>4 DEF Loss
    <2>2. CASE Unanswered /\ reader' \in {reader, Obeyed}
      BY <2>1, <2>2, UnansweredShape
    <2>3. CASE wire = "RESET" /\ ResetAnswered(Silent) /\ reader' = Obeyed
      BY <2>1, <2>3, ResetShape
    <2> QED BY <1>4, <2>2, <2>3 DEF Loss
  <1> QED BY <1>1, <1>2, <1>3, <1>4 DEF EngineStep, Receive

\* Every step of the composition.
LEMMA VendShape ==
    ASSUME TypesOK, IInv, SaleIsBacked, ~LateApproval, [VendNext]_vendVars
    PROVE  SaleIsBacked' /\ [Sale!SaleNext]_(Sale!saleVars)
  <1>1. CASE TaskStep
    BY <1>1, TaskStepEffect, TaskShape, SaleMovesImplement
  <1>2. CASE MailboxFilled
    BY <1>2, FilledShape, SaleMovesImplement
  <1>3. CASE EngineTurn
    BY <1>3, EngineShape, SaleMovesImplement DEF EngineTurn, Alone
  <1>4. CASE ReaderTurn
    BY <1>4, ReaderStepShape, SaleMovesImplement DEF ReaderTurn, Alone
  <1>5. CASE UNCHANGED vendVars
    <2>1. UNCHANGED <<device, wire, queue, reader, due>>
      BY <1>5 DEF vendVars, fsmTask, bus, engine
    <2> QED BY <2>1, SaleMovesImplement DEF SaleIsBacked, SaleMoves
  <1> QED BY <1>1, <1>2, <1>3, <1>4, <1>5 DEF VendNext

LEMMA VendInitShape == VendInit => SaleIsBacked /\ Sale!SaleInit
  <1> SUFFICES ASSUME VendInit PROVE SaleIsBacked /\ Sale!SaleInit
    OBVIOUS
  <1>1. /\ reader = [phase |-> "READY", held |-> 0, say |-> Silent]
        /\ wire = "NONE" /\ due = 0
        /\ ~device.open /\ ~device.success /\ device.vend = "IDLE"
    BY ResetFields DEF VendInit, EngineInit
  <1>2. ReaderShape(reader)
    BY <1>1, EngineAssumption DEF ReaderShape, Silent
  <1>3. SaleIsBacked
    BY <1>1, <1>2, ClosedShape DEF SaleIsBacked
  <1>4. Sale!SaleInit
    BY <1>1 DEF Sale!SaleInit
  <1> QED BY <1>3, <1>4

\* A wash by card starts on money the reader holds, and is settled with it or
\* left by a pulled card or a failed reader (CardSale), as long as no approval
\* outlives its session.  Without that the bus master, whose local close of a
\* session leaves the answer to the vend pending, has the FSM start the wash of
\* the next session on the approval of the last one.
THEOREM SaleIsImplemented == VendSpec /\ []~LateApproval => ImplementsCardSale
  <1>1. IInv /\ TypesOK /\ ~LateApproval /\ SaleIsBacked /\ [VendNext]_vendVars
          => SaleIsBacked' /\ [Sale!SaleNext]_(Sale!saleVars)
    BY VendShape
  <1> QED
    BY <1>1, VendInitShape, VendInvariance, PTL
       DEF VendSpec, ImplementsCardSale, Sale!SaleSpec

-----------------------------------------------------------------------------
(* The answer to a vend, on its way from the reader to the FSM *)

\* a session, its end and its vend go together
SessionHolds(d) ==
    /\ d.session = "ENDING" => d.complete
    /\ d.open => d.session # "IDLE"
    /\ d.vend = "WORKING" => d.open

\* the reader has a word to say before a session opens and when it is over
WordShape(d, r) ==
    /\ r.phase = "READY" /\ r.say = Silent => ~d.open
    /\ r.say.code = "BEGIN_SESSION" => ~d.open
    /\ r.say.code = "VEND_DENIED" => d.open /\ d.poll = "IDLE_POLLING"
    /\ r.phase = "PULLED" /\ d.open => r.say.code = "SESSION_CANCEL"

\* an answer that waits for room in the mailbox
ResultShape(d, w, r) ==
    d.result.pending =>
        /\ d.open \/ w = "POLL" => d.poll = "IDLE_POLLING"
        /\ r.phase = "READY" /\ d.open => d.complete

\* an approval comes to an FSM that waits for it and asks for nothing else
Expected(d, v) == (v /\ d.vend # "PENDING") \/ d.complete

\* the FSM waits for every vend that is asked of the bus, decided or approved,
\* or it has had the session completed
AwaitedShape(d, q, r, v) ==
    /\ r.phase = "ASKED" => v \/ d.complete
    /\ r.phase = "HELD" => v \/ d.complete \/ d.success
    /\ d.vend = "PENDING" => v \/ d.complete
    /\ r.phase = "HELD" /\ d.vend = "PENDING" => d.complete \/ r.say.code = "VEND_APPROVED"
    /\ Kept(d) => Expected(d, v)
    /\ d.open /\ Approving(q) # {} => Expected(d, v)

AnswerShape(d, w, q, r, v) ==
    /\ SessionHolds(d)
    /\ WordShape(d, r)
    /\ ResultShape(d, w, r)
    /\ AwaitedShape(d, q, r, v)

AnswerIsAwaited == AnswerShape(device, wire, queue, reader, vendPending)

Answering(q) == {i \in 1..Len(q) : q[i].type \in Answers}

\* the places an answer can be in
Coming(d, q, r) ==
    \/ d.open /\ d.vend = "PENDING" /\ r.phase \notin {"READY", "FAILED"}
    \/ /\ d.vend = "WORKING"
       /\ \/ r.phase = "ASKED"
          \/ r.say.code \in {"VEND_APPROVED", "VEND_DENIED", "SESSION_CANCEL"}
    \/ d.result.pending
    \/ Answering(q) # {}

\* what AnswerGetsThrough excepts
Excused ==
    \/ device.complete \/ Outlived \/ wire = "RESET"
    \/ reader'.phase = "FAILED" \/ reader.phase = "FAILED"
    \/ state # "CREDIT" \/ source # "CARD"

\* what a step makes of an answer that is coming
Through ==
    Coming(device, queue, reader) /\ vendPending /\ vendPending' /\ ~Excused =>
        Coming(device', queue', reader')

\* An answer is under way when the FSM waits and the answer is in one of these
\* places; so before a step and after it.
LEMMA UnderwayIsComing ==
    TypesOK => (Underway <=> vendPending /\ Coming(device, queue, reader))
  <1> SUFFICES ASSUME TypesOK
               PROVE  Underway <=> vendPending /\ Coming(device, queue, reader)
    OBVIOUS
  <1>1. DOMAIN queue = 1..Len(queue)
    BY DEF TypesOK, QueueOK
  <1>2. Answering(queue) # {} <=>
            \E i \in DOMAIN queue : queue[i].type \in {"VEND_APPROVED", "VEND_DENIED"}
    BY <1>1 DEF Answering, Answers
  <1> QED BY <1>2 DEF Underway, Coming

LEMMA UnderwayIsComingNext ==
    TypesOK' => (Underway' <=> vendPending' /\ Coming(device', queue', reader'))
  <1> SUFFICES ASSUME TypesOK'
               PROVE  Underway' <=> vendPending' /\ Coming(device', queue', reader')
    OBVIOUS
  <1>1. DOMAIN queue' = 1..Len(queue')
    BY DEF TypesOK, QueueOK
  <1>2. Answering(queue') # {} <=>
            \E i \in DOMAIN queue' : queue'[i].type \in {"VEND_APPROVED", "VEND_DENIED"}
    BY <1>1 DEF Answering, Answers
  <1> QED BY <1>2 DEF Underway, Coming

\* An answer in the mailbox stays there, and the one the record kept is put
\* there or kept.
LEMMA EndTurnTells ==
    ASSUME NEW d, DeviceOK(d), QueueOK(queue), EndTurn(d)
    PROVE  /\ \A i \in Answering(queue) : i \in Answering(queue')
           /\ d.result.pending => device'.result.pending \/ Answering(queue') # {}
  <1> DEFINE tells == TellsCredit(d, queue)
             q     == IF tells THEN Put(queue, "CARD_CREDIT", d.credit) ELSE queue
             c     == CreditTold(d, queue)
             kind  == IF c.result.approved THEN "VEND_APPROVED" ELSE "VEND_DENIED"
  <1>1. /\ c \in Devices /\ c.result = d.result /\ d.result \in Results
    BY CreditToldFields DEF DeviceOK, Devices, Results
  <1>2. /\ QueueOK(q)
        /\ \A i \in Answering(queue) : i \in Answering(q)
    <2>1. CASE tells
      <3>1. d.credit \in Credits /\ Len(queue) < QueueSize
        BY <2>1 DEF TellsCredit, DeviceOK
      <3>2. Known([type |-> "CARD_CREDIT", value |-> d.credit])
        BY <3>1, EngineAssumption DEF Known, Events
      <3> QED
        BY <2>1, <3>1, <3>2, PutKeeps DEF Answering, QueueOK
    <2>2. CASE ~tells
      BY <2>2
    <2> QED BY <2>1, <2>2
  <1>3. /\ queue' = IF c.result.pending /\ Len(q) < QueueSize
                    THEN Put(q, kind, c.result.cents) ELSE q
        /\ device' = ResultTold(c, q)
    BY DEF EndTurn
  <1> HIDE DEF q, c
  <1>4. CASE c.result.pending /\ Len(q) < QueueSize
    <2>1. queue' = Put(q, kind, c.result.cents)
      BY <1>3, <1>4
    <2>2. Known([type |-> kind, value |-> c.result.cents]) /\ kind \in Answers
      BY <1>1 DEF Known, Events, Results, Answers
    <2> HIDE DEF kind
    <2>3. /\ Len(queue') = Len(q) + 1
          /\ \A i \in 1..Len(q) : queue'[i] = q[i]
          /\ queue'[Len(q) + 1] = [type |-> kind, value |-> c.result.cents]
      BY <1>2, <1>4, <2>1, <2>2, PutKeeps
    <2>4. Len(q) \in Nat
      BY <1>2 DEF QueueOK
    <2>5. Len(q) + 1 \in Answering(queue')
      BY <2>2, <2>3, <2>4 DEF Answering
    <2> QED
      BY <1>2, <2>3, <2>5, <2>4 DEF Answering
  <1>5. CASE ~(c.result.pending /\ Len(q) < QueueSize)
    <2>1. queue' = q /\ device' = c
      BY <1>3, <1>5 DEF ResultTold
    <2> QED BY <1>1, <1>2, <2>1
  <1> QED BY <1>4, <1>5

\* What the end of a turn tells stays on its way, and is awaited as before.
LEMMA EndTurnAnswer ==
    ASSUME NEW d, DeviceOK(d), QueueOK(queue), EndTurn(d), NEW r, NEW v
    PROVE  /\ AnswerShape(d, "NONE", queue, r, v) =>
                  AnswerShape(device', "NONE", queue', r, v)
           /\ Coming(d, queue, r) => Coming(device', queue', r)
  <1>1. /\ Told(device', d)
        /\ \A i \in Approving(queue') :
              \/ i \in Approving(queue) /\ queue'[i] = queue[i]
              \/ d.result.pending /\ d.result.approved
    BY EndTurnKeeps
  <1>2. ASSUME AnswerShape(d, "NONE", queue, r, v)
        PROVE  AnswerShape(device', "NONE", queue', r, v)
    <2>1. /\ SessionHolds(device') /\ WordShape(device', r) /\ ResultShape(device', "NONE", r)
      BY <1>1, <1>2 DEF AnswerShape, SessionHolds, WordShape, ResultShape, Told
    <2>2. Expected(d, v) => Expected(device', v)
      BY <1>1 DEF Expected, Told
    <2>3. Kept(device') => Expected(device', v)
      BY <1>1, <1>2, <2>2 DEF AnswerShape, AwaitedShape, Kept, Told
    <2>4. device'.open /\ Approving(queue') # {} => Expected(device', v)
      BY <1>1, <1>2, <2>2 DEF AnswerShape, AwaitedShape, Kept, Told
    <2>5. AwaitedShape(device', queue', r, v)
      BY <1>1, <1>2, <2>3, <2>4 DEF AnswerShape, AwaitedShape, Told
    <2> QED BY <2>1, <2>5 DEF AnswerShape
  <1>3. /\ \A i \in Answering(queue) : i \in Answering(queue')
        /\ d.result.pending => device'.result.pending \/ Answering(queue') # {}
    BY EndTurnTells
  <1>4. ASSUME Coming(d, queue, r)
        PROVE  Coming(device', queue', r)
    BY <1>1, <1>3, <1>4 DEF Coming, Told
  <1> QED BY <1>2, <1>4

\* The FSM takes the answer it waits for, or it is where it was.
LEMMA TaskAnswer ==
    ASSUME TypesOK, SaleIsBacked, SaleIsBacked', AnswerIsAwaited, TaskEffect
    PROVE  AnswerIsAwaited' /\ Through
  <1>1. /\ SessionHolds(device) /\ WordShape(device, reader)
        /\ ResultShape(device, wire, reader)
        /\ AwaitedShape(device, queue, reader, vendPending)
    BY DEF AnswerIsAwaited, AnswerShape
  <1>2. /\ device \in Devices /\ QueueOK(queue) /\ Len(queue) \in Nat
        /\ UNCHANGED <<wire, reader>>
    BY DEF TypesOK, DeviceOK, QueueOK, TaskEffect
  <1>3. /\ SessionShape(device, wire, reader)
        /\ SessionShape(device', wire, reader)
        /\ ApprovalShape(device, wire, queue, reader, due)
    BY <1>2 DEF SaleIsBacked, Shape
  <1>4. CASE /\ device' \in {device, Completing(device)}
             /\ \/ queue' = queue
                \/ /\ queue # <<>> /\ queue' = Tail(queue)
                   /\ Head(queue).type \in Answers /\ Awaiting => ~vendPending'
                \/ Len(queue) < QueueSize /\ queue' = Put(queue, "CREDIT_ENDED", 1)
             /\ due' = due
             /\ GivenUp
    <2>1. /\ device'.poll = device.poll /\ device'.open = device.open
          /\ device'.vend = device.vend
          /\ device'.result = device.result /\ device'.success = device.success
          /\ device.complete => device'.complete
          /\ device'.session = device.session \/ (device'.session = "ENDING" /\ device'.complete)
      BY <1>2, <1>4, CompletingFields
    <2>2. ASSUME vendPending, device.open
          PROVE  vendPending' \/ device'.complete
      BY <1>2, <1>3, <1>4, <2>2, CompletingFields DEF GivenUp, SessionShape, ActiveDevice
    <2>3. /\ SessionHolds(device') /\ WordShape(device', reader)
          /\ ResultShape(device', wire, reader)
      BY <1>1, <2>1 DEF SessionHolds, WordShape, ResultShape
    <2>4. \/ queue' = queue
          \/ /\ queue # <<>> /\ Len(queue') = Len(queue) - 1
             /\ \A i \in 1..Len(queue) - 1 : queue'[i] = queue[i + 1]
             /\ queue[1].type \in Answers /\ Awaiting => ~vendPending'
          \/ /\ Len(queue') = Len(queue) + 1
             /\ \A i \in 1..Len(queue) : queue'[i] = queue[i]
             /\ queue'[Len(queue) + 1].type = "CREDIT_ENDED"
      <3>1. CASE queue # <<>> /\ queue' = Tail(queue)
                 /\ (Head(queue).type \in Answers /\ Awaiting => ~vendPending')
        BY <1>2, <3>1, TailKeeps
      <3>2. CASE Len(queue) < QueueSize /\ queue' = Put(queue, "CREDIT_ENDED", 1)
        <4>1. Known([type |-> "CREDIT_ENDED", value |-> 1])
          BY DEF Known, Events
        <4> QED BY <1>2, <3>2, <4>1, PutKeeps
      <3> QED BY <1>4, <3>1, <3>2
    <2>5. Approving(queue') # {} => Approving(queue) # {}
      BY <1>2, <2>4 DEF Approving
    <2>6. ASSUME device.open, Expected(device, vendPending)
          PROVE  Expected(device', vendPending')
      BY <2>1, <2>2, <2>6 DEF Expected
    <2>7. AwaitedShape(device', queue', reader, vendPending')
      BY <1>1, <1>3, <2>1, <2>2, <2>5, <2>6 DEF AwaitedShape, SessionShape, Kept
    <2>8. ASSUME Answering(queue) # {}, vendPending, vendPending', ~Excused
          PROVE  Answering(queue') # {}
      <3>1. Awaiting
        BY <2>8 DEF Awaiting, Excused
      <3>2. PICK i \in 1..Len(queue) : queue[i].type \in Answers
        BY <2>8 DEF Answering
      <3>3. CASE /\ queue # <<>> /\ Len(queue') = Len(queue) - 1
                 /\ \A k \in 1..Len(queue) - 1 : queue'[k] = queue[k + 1]
                 /\ queue[1].type \in Answers /\ Awaiting => ~vendPending'
        <4>1. i # 1 /\ i - 1 \in 1..Len(queue) - 1
          BY <1>2, <2>8, <3>1, <3>2, <3>3
        <4>2. queue'[i - 1] = queue[i] /\ i - 1 \in 1..Len(queue')
          BY <1>2, <3>2, <3>3, <4>1
        <4> QED BY <3>2, <4>2 DEF Answering
      <3>4. CASE /\ Len(queue') = Len(queue) + 1
                 /\ \A k \in 1..Len(queue) : queue'[k] = queue[k]
        BY <1>2, <3>2, <3>4 DEF Answering
      <3> QED BY <2>4, <2>8, <3>3, <3>4
    <2>9. Through
      BY <1>2, <2>1, <2>8 DEF Through, Coming
    <2> QED BY <1>2, <2>3, <2>7, <2>9 DEF AnswerIsAwaited, AnswerShape
  <1>5. CASE /\ ActiveDevice(device) /\ ~device.success
             /\ \E cents \in Nat \ {0} : device' = PreparedVend(device, cents)
             /\ UNCHANGED <<queue, due>>
             /\ ~vendPending /\ vendPending'
    <2>1. /\ device'.poll = device.poll /\ device'.open = device.open
          /\ device'.vend = "PENDING" /\ device'.session = "VEND_REQUESTED"
          /\ device'.result = device.result /\ device'.success = device.success
          /\ device'.complete = device.complete
      BY <1>2, <1>5, PreparedVendFields
    <2>2. device.open
      BY <1>5 DEF ActiveDevice
    <2>3. /\ SessionHolds(device') /\ WordShape(device', reader)
          /\ ResultShape(device', wire, reader)
      BY <1>1, <2>1, <2>2 DEF SessionHolds, WordShape, ResultShape
    <2>4. AwaitedShape(device', queue, reader, vendPending')
      BY <1>1, <1>5, <2>1, <2>2 DEF AwaitedShape, Expected, Kept
    <2> QED BY <1>2, <1>5, <2>3, <2>4 DEF AnswerIsAwaited, AnswerShape, Through
  <1>6. CASE /\ ~device.open /\ device' = ResetDevice
             /\ UNCHANGED <<queue, due, vendPending>>
    <2>1. /\ ~device'.open /\ device'.vend = "IDLE" /\ device'.session = "IDLE"
          /\ ~device'.result.pending
      BY <1>6, ResetFields
    <2>2. reader.phase \notin {"ASKED", "HELD"}
      BY <1>3, <1>6 DEF SessionShape
    <2>3. /\ SessionHolds(device') /\ WordShape(device', reader)
          /\ ResultShape(device', wire, reader)
      BY <1>1, <1>6, <2>1 DEF SessionHolds, WordShape, ResultShape
    <2>4. AwaitedShape(device', queue, reader, vendPending')
      BY <2>1, <2>2 DEF AwaitedShape, Kept
    <2>5. Through
      BY <1>1, <1>6 DEF Through, Coming, Excused, Outlived, SessionHolds
    <2> QED BY <1>2, <1>6, <2>3, <2>4, <2>5 DEF AnswerIsAwaited, AnswerShape
  <1>7. CASE /\ ActiveDevice(device) /\ ~vendPending'
             /\ queue # <<>> /\ Head(queue).type = "VEND_APPROVED" /\ queue' = Tail(queue)
             /\ \E cents \in VendPrices :
                   /\ Head(queue).value \in {0, cents}
                   /\ device' = PreparedSuccess(device, cents)
                   /\ due' = cents
    <2>1. /\ device'.poll = device.poll /\ device'.open = device.open
          /\ device'.vend = device.vend /\ device'.session = device.session
          /\ device'.result = device.result /\ device'.success
          /\ device'.complete = device.complete
      <3>1. \A c \in VendPrices : c \in Nat
        BY CreditAssumption, FsmAssumption DEF VendPrices
      <3>2. PICK cents \in VendPrices : device' = PreparedSuccess(device, cents)
        BY <1>7
      <3> QED BY <1>2, <3>1, <3>2, PreparedSuccessFields
    <2>2. /\ Head(queue) = queue[1] /\ 1 \in 1..Len(queue)
          /\ Len(queue') = Len(queue) - 1
          /\ \A i \in 1..Len(queue) - 1 : queue'[i] = queue[i + 1]
      BY <1>2, <1>7, TailKeeps
    <2>3. 1 \in Approving(queue) /\ device.open
      BY <1>7, <2>2 DEF Approving, ActiveDevice
    <2>4. ~Kept(device) /\ \A j \in Approving(queue) : 1 = j
      BY <1>3, <2>3 DEF ApprovalShape
    <2>5. Approving(queue') = {}
      <3>1. \A i \in Approving(queue') : i \in Nat /\ i > 0 /\ i + 1 \in Approving(queue)
        BY <1>2, <2>2 DEF Approving
      <3> QED BY <2>4, <3>1
    <2>6. Expected(device, vendPending)
      BY <1>1, <2>3 DEF AwaitedShape
    <2>7. reader.phase # "ASKED"
      BY <1>3, <2>1 DEF SessionShape
    <2>8. /\ SessionHolds(device') /\ WordShape(device', reader)
          /\ ResultShape(device', wire, reader)
      BY <1>1, <2>1 DEF SessionHolds, WordShape, ResultShape
    <2>9. AwaitedShape(device', queue', reader, vendPending')
      BY <1>1, <2>1, <2>4, <2>5, <2>6, <2>7 DEF AwaitedShape, Expected, Kept
    <2> QED BY <1>2, <1>7, <2>8, <2>9 DEF AnswerIsAwaited, AnswerShape, Through
  <1> QED BY <1>4, <1>5, <1>6, <1>7 DEF TaskEffect

\* An event without effect in the mailbox.
LEMMA FilledAnswer ==
    ASSUME TypesOK, AnswerIsAwaited, MailboxFilled
    PROVE  AnswerIsAwaited' /\ Through
  <1>1. /\ UNCHANGED <<device, wire, reader, vendPending>>
        /\ queue' = Put(queue, "OTHER", 0) /\ Len(queue) < QueueSize
        /\ QueueOK(queue) /\ Len(queue) \in Nat
    BY EngineAssumption DEF MailboxFilled, TypesOK, QueueOK, fsmTask, vars, card
  <1>2. Known([type |-> "OTHER", value |-> 0])
    BY DEF Known, Events
  <1>3. /\ Len(queue') = Len(queue) + 1
        /\ \A i \in 1..Len(queue) : queue'[i] = queue[i]
        /\ queue'[Len(queue) + 1] = [type |-> "OTHER", value |-> 0]
    BY <1>1, <1>2, PutKeeps
  <1>4. queue'[Len(queue) + 1].type = "OTHER"
    BY <1>3
  <1>5. Approving(queue') # {} => Approving(queue) # {}
    BY <1>1, <1>3, <1>4 DEF Approving
  <1>6. Answering(queue) # {} => Answering(queue') # {}
    BY <1>1, <1>3 DEF Answering
  <1>7. AwaitedShape(device, queue', reader, vendPending)
    BY <1>5 DEF AnswerIsAwaited, AnswerShape, AwaitedShape
  <1>8. Through
    BY <1>1, <1>6 DEF Through, Coming
  <1> QED BY <1>1, <1>7, <1>8 DEF AnswerIsAwaited, AnswerShape

\* A card laid on the reader or taken away, a decision, a failure.
LEMMA ReaderAnswer ==
    ASSUME TypesOK, SaleIsBacked, AnswerIsAwaited, ReaderStep, UNCHANGED vendPending
    PROVE  AnswerIsAwaited' /\ Through
  <1>1. /\ SessionHolds(device) /\ WordShape(device, reader)
        /\ ResultShape(device, wire, reader)
        /\ AwaitedShape(device, queue, reader, vendPending)
    BY DEF AnswerIsAwaited, AnswerShape
  <1>2. UNCHANGED <<device, wire, queue, vendPending>>
    BY DEF ReaderStep, CardLaid, CardPulled, ReaderFailed, Decision, engine
  <1>3. ReaderShape(reader) /\ SessionShape(device, wire, reader) /\ reader \in Readers
    BY DEF SaleIsBacked, Shape, TypesOK, ReaderOK
  <1> DEFINE Goal == /\ WordShape(device, reader') /\ ResultShape(device, wire, reader')
                     /\ AwaitedShape(device, queue, reader', vendPending)
                     /\ Coming(device, queue, reader) /\ ~Excused =>
                            Coming(device, queue, reader')
  <1> SUFFICES Goal
    BY <1>1, <1>2 DEF AnswerIsAwaited, AnswerShape, Through
  <1>4. ASSUME NEW cents \in Credits, CardLaid(cents)
        PROVE  Goal
    <2>1. /\ reader.phase = "READY" /\ reader.say = Silent
          /\ reader'.phase = "OPEN" /\ reader'.say.code = "BEGIN_SESSION"
      BY <1>4 DEF CardLaid, Say
    <2> QED
      BY <1>1, <2>1
         DEF WordShape, ResultShape, AwaitedShape, Coming, SessionHolds
  <1>5. CASE CardPulled
    <2>1. /\ reader.phase \in {"OPEN", "ASKED", "HELD"}
          /\ reader'.phase = "PULLED" /\ reader'.say.code = "SESSION_CANCEL"
      BY <1>3, <1>5 DEF CardPulled, Say, Readers
    <2> QED
      BY <1>1, <2>1 DEF WordShape, ResultShape, AwaitedShape, Coming
  <1>6. CASE ReaderFailed
    <2>1. /\ reader'.phase = "FAILED"
          /\ reader'.say.code \in {"JUST_RESET", "END_SESSION", "OUT_OF_SEQUENCE"}
      BY <1>6, EngineAssumption DEF ReaderFailed, Say
    <2> QED
      BY <1>1, <2>1 DEF WordShape, ResultShape, AwaitedShape, Excused
  <1>7. CASE Decision
    <2>1. /\ reader.phase = "ASKED"
          /\ \/ reader'.phase = "HELD" /\ reader'.say.code = "VEND_APPROVED"
             \/ reader'.phase = "OPEN" /\ reader'.say.code = "VEND_DENIED"
      BY <1>7 DEF Decision, Say
    <2>2. device.open /\ device.poll = "IDLE_POLLING"
      BY <1>3, <2>1 DEF SessionShape
    <2> QED
      BY <1>1, <2>1, <2>2 DEF WordShape, ResultShape, AwaitedShape, Coming
  <1> HIDE DEF Goal
  <1> QED BY <1>4, <1>5, <1>6, <1>7 DEF ReaderStep

\* A command is sent: the answer has not moved.
LEMMA SendAnswer ==
    ASSUME TypesOK, SaleIsBacked, AnswerIsAwaited, Send, UNCHANGED vendPending
    PROVE  AnswerIsAwaited' /\ Through
  <1>1. UNCHANGED <<device, queue, reader, vendPending>> /\ wire' = NextCommand(device)
    BY DEF Send
  <1>2. wire' = "POLL" => device.poll = "IDLE_POLLING"
    BY <1>1 DEF NextCommand
  <1>3. ResultShape(device, wire', reader)
    BY <1>2 DEF AnswerIsAwaited, AnswerShape, ResultShape
  <1> QED
    BY <1>1, <1>3 DEF AnswerIsAwaited, AnswerShape, Through

\* what a turn of the bus master leaves, before it is told
Follows(d) ==
    /\ AnswerShape(d, "NONE", queue, reader', vendPending)
    /\ Coming(device, queue, reader) /\ vendPending /\ ~Excused => Coming(d, queue, reader')

\* A turn ends with a record the answer is still in.
LEMMA TurnAnswer ==
    ASSUME TypesOK, NEW d, DeviceOK(d), EndTurn(d), wire' = "NONE", UNCHANGED vendPending,
           Follows(d)
    PROVE  AnswerIsAwaited' /\ Through
  <1>1. QueueOK(queue)
    BY DEF TypesOK
  <1>2. /\ AnswerShape(device', "NONE", queue', reader', vendPending)
        /\ Coming(d, queue, reader') => Coming(device', queue', reader')
    BY <1>1, EndTurnAnswer DEF Follows
  <1> QED BY <1>2 DEF Follows, AnswerIsAwaited, Through

\* A session that is closed, with the reader out of a request.
LEMMA ClosedAnswer ==
    ASSUME NEW d, Closed(d), SessionHolds(d), NEW q, NEW r, NEW v,
           r.phase \notin {"ASKED", "HELD"}, r.say.code # "VEND_DENIED"
    PROVE  AnswerShape(d, "NONE", q, r, v)
  BY DEF Closed, AnswerShape, WordShape, ResultShape, AwaitedShape, Kept

\* Of a closed session only what is in the mailbox is on its way, or what has
\* outlived it.
LEMMA ClosedComing ==
    ASSUME ~device.open, SessionHolds(device), Coming(device, queue, reader), ~Excused
    PROVE  Answering(queue) # {}
  BY DEF SessionHolds, Coming, Excused, Outlived

\* While the reader is being started up, or in error, no answer is on its way
\* but in the mailbox.
LEMMA StartUpAnswer ==
    ASSUME SaleIsBacked, AnswerIsAwaited, device.poll # "IDLE_POLLING",
           NEW d, SamePayment(d, device),
           \/ reader' = reader
           \/ wire = "RESET" /\ reader'.phase = "READY" /\ reader'.say.code = "JUST_RESET"
    PROVE  Follows(d)
  <1>1. /\ SessionHolds(device) /\ WordShape(device, reader)
        /\ ResultShape(device, wire, reader)
        /\ AwaitedShape(device, queue, reader, vendPending)
        /\ SessionShape(device, wire, reader)
    BY DEF AnswerIsAwaited, AnswerShape, SaleIsBacked, Shape
  <1>2. SessionHolds(d)
    BY <1>1 DEF SessionHolds, SamePayment
  <1>3. WordShape(d, reader')
    BY <1>1 DEF WordShape, SamePayment, Silent
  <1>4. ResultShape(d, "NONE", reader')
    BY <1>1 DEF ResultShape, SamePayment
  <1>5. AwaitedShape(d, queue, reader', vendPending)
    BY <1>1 DEF AwaitedShape, Expected, SessionShape, SamePayment, Kept
  <1>6. Coming(device, queue, reader) /\ ~Excused => Coming(d, queue, reader')
    BY DEF Coming, Excused, SamePayment
  <1> QED BY <1>2, <1>3, <1>4, <1>5, <1>6 DEF Follows, AnswerShape

\* A turn in which the bus master has nothing to ask.
LEMMA IdleTurnAnswer ==
    ASSUME TypesOK, SaleIsBacked, AnswerIsAwaited, TurnWithoutCommand, UNCHANGED vendPending
    PROVE  AnswerIsAwaited' /\ Through
  <1>1. /\ SessionHolds(device) /\ WordShape(device, reader)
        /\ SessionShape(device, wire, reader)
    BY DEF AnswerIsAwaited, AnswerShape, SaleIsBacked, Shape
  <1>2. wire = "NONE" /\ wire' = "NONE" /\ reader' = reader
    BY DEF TurnWithoutCommand
  <1>3. device \in Devices /\ device.credit \in Credits \cup {0}
    BY DEF TypesOK, DeviceOK
  <1>4. ASSUME NEW d \in Devices, SamePayment(d, device), device.poll # "IDLE_POLLING",
               EndTurn(d)
        PROVE  AnswerIsAwaited' /\ Through
    <2>1. Follows(d)
      BY <1>2, <1>4, StartUpAnswer
    <2>2. DeviceOK(d)
      BY <1>3, <1>4 DEF DeviceOK, SamePayment
    <2> QED BY <1>2, <1>4, <2>1, <2>2, TurnAnswer
  <1>5. /\ "INIT_RESET" \in Polls /\ "INIT_ENABLE" \in Polls
        /\ SamePayment(device, device)
    BY DEF Polls, SamePayment
  <1>6. CASE device.poll = "INACTIVE"
             /\ EndTurn([device EXCEPT !.poll = "INIT_RESET", !.last = "NONE"])
    <2> DEFINE d == [device EXCEPT !.poll = "INIT_RESET", !.last = "NONE"]
    <2>1. d \in Devices /\ SamePayment(d, device)
      BY <1>3, <1>5, PollMoves, Zenon
    <2> HIDE DEF d
    <2>2. EndTurn(d)
      BY <1>6 DEF d
    <2> QED BY <1>4, <1>6, <2>1, <2>2
  <1>7. CASE device.poll = "INIT_EXPANSION" /\ EndTurn([device EXCEPT !.poll = "INIT_ENABLE"])
    <2> DEFINE d == [device EXCEPT !.poll = "INIT_ENABLE"]
    <2>1. d \in Devices /\ SamePayment(d, device)
      BY <1>3, <1>5, PollMoves, Zenon
    <2> HIDE DEF d
    <2>2. EndTurn(d)
      BY <1>7 DEF d
    <2> QED BY <1>4, <1>7, <2>1, <2>2
  <1>8. CASE device.poll = "ERROR" /\ ~device.open
             /\ EndTurn([ResetDevice EXCEPT !.poll = "INIT_RESET"])
    <2> DEFINE d == [ResetDevice EXCEPT !.poll = "INIT_RESET"]
    <2>1. d \in Devices /\ SamePayment(d, ResetDevice)
      BY <1>5, ResetFields, PollMoves, Zenon
    <2>2. EndTurn(d)
      BY <1>8
    <2> HIDE DEF d
    <2>3. DeviceOK(d) /\ Closed(d) /\ SessionHolds(d)
      BY <2>1, ResetFields DEF SamePayment, DeviceOK, Closed, SessionHolds
    <2>4. reader.phase \notin {"ASKED", "HELD"} /\ reader.say.code # "VEND_DENIED"
      BY <1>1, <1>8 DEF SessionShape, WordShape
    <2>5. AnswerShape(d, "NONE", queue, reader', vendPending)
      BY <1>2, <2>3, <2>4, ClosedAnswer
    <2>6. Coming(device, queue, reader) /\ ~Excused => Coming(d, queue, reader')
      BY <1>1, <1>8, ClosedComing DEF Coming
    <2> QED BY <1>2, <2>2, <2>3, <2>5, <2>6, TurnAnswer DEF Follows
  <1>9. CASE device.poll = "ERROR" /\ EndTurn(device)
    BY <1>3, <1>4, <1>5, <1>9
  <1> QED BY <1>6, <1>7, <1>8, <1>9 DEF TurnWithoutCommand

\* What a command that reaches the reader makes of its phase and its word.
LEMMA ObeyedWord ==
    ASSUME reader \in Readers
    PROVE  \/ /\ Obeyed = reader /\ wire # "RESET"
              /\ wire = "VEND_REQUEST" =>
                    reader.phase # "OPEN" \/ reader.say.code = "VEND_DENIED"
              /\ wire = "VEND_SUCCESS" => reader.held = 0
              /\ wire = "SESSION_COMPLETE" => reader.phase \in {"READY", "FAILED"}
           \/ wire = "RESET" /\ Obeyed.phase = "READY" /\ Obeyed.say.code = "JUST_RESET"
           \/ /\ wire = "VEND_REQUEST" /\ Obeyed.phase = "ASKED"
              /\ Obeyed.say = reader.say /\ reader.phase = "OPEN"
           \/ /\ wire = "VEND_SUCCESS" /\ Obeyed.say = reader.say /\ reader.held # 0
              /\ Obeyed.phase = IF reader.phase = "HELD" THEN "OPEN" ELSE reader.phase
           \/ /\ wire = "SESSION_COMPLETE" /\ Obeyed.phase = "READY"
              /\ Obeyed.say.code = "END_SESSION"
  <1>1. CASE wire = "RESET"
    BY <1>1 DEF Obeyed, Say
  <1>2. CASE wire = "VEND_REQUEST"
    BY <1>2 DEF Obeyed, Readers
  <1>3. CASE wire = "VEND_SUCCESS"
    BY <1>3 DEF Obeyed, Readers
  <1>4. CASE wire = "SESSION_COMPLETE"
    BY <1>4 DEF Obeyed, Say
  <1>5. CASE wire \notin {"RESET", "VEND_REQUEST", "VEND_SUCCESS", "SESSION_COMPLETE"}
    BY <1>5 DEF Obeyed
  <1> QED BY <1>1, <1>2, <1>3, <1>4, <1>5

\* A command that is lost, or whose reply is.
LEMMA UnansweredAnswer ==
    ASSUME TypesOK, SaleIsBacked, AnswerIsAwaited, wire # "NONE", wire' = "NONE",
           Unanswered, reader' \in {reader, Obeyed}, UNCHANGED vendPending
    PROVE  AnswerIsAwaited' /\ Through
  <1>1. /\ SessionHolds(device) /\ WordShape(device, reader)
        /\ ResultShape(device, wire, reader)
        /\ AwaitedShape(device, queue, reader, vendPending)
        /\ ReaderShape(reader) /\ SessionShape(device, wire, reader)
    BY DEF AnswerIsAwaited, AnswerShape, SaleIsBacked, Shape
  <1>2. /\ device \in Devices /\ DeviceOK(device) /\ wire \in Commands
        /\ reader \in Readers /\ reader.phase \in Phases
    BY DEF TypesOK, DeviceOK, ReaderOK, Readers
  <1> DEFINE lame == [device EXCEPT !.poll = "ERROR"]
  <1>3. lame \in Devices /\ SamePayment(lame, device) /\ DeviceOK(lame)
    <2>1. "ERROR" \in Polls
      BY DEF Polls
    <2>2. lame \in Devices /\ SamePayment(lame, device)
      BY <1>2, <2>1, PollMoves, Zenon
    <2> HIDE DEF lame
    <2> QED BY <1>2, <2>2 DEF DeviceOK, SamePayment
  <1>4. \/ EndTurn(device)
        \/ EndTurn(lame) /\ wire \in {"RESET", "SETUP", "LIMITS"}
    BY DEF Unanswered
  <1> HIDE DEF lame
  <1>5. CASE wire \in {"RESET", "SETUP", "LIMITS", "EXPANSION", "ENABLE"}
    <2>1. device.poll # "IDLE_POLLING"
      BY <1>1, <1>5 DEF SessionShape
    <2>2. \/ reader' = reader
          \/ wire = "RESET" /\ reader'.phase = "READY" /\ reader'.say.code = "JUST_RESET"
      BY <1>2, <1>5, ObeyedWord
    <2>3. SamePayment(device, device)
      BY DEF SamePayment
    <2>4. Follows(device) /\ Follows(lame)
      BY <1>3, <2>1, <2>2, <2>3, StartUpAnswer
    <2> QED BY <1>2, <1>3, <1>4, <2>4, TurnAnswer
  <1>6. CASE wire \in {"VEND_REQUEST", "VEND_SUCCESS", "SESSION_COMPLETE", "POLL"}
    <2>1. EndTurn(device)
      BY <1>4, <1>6
    <2>2. Follows(device)
      <3> DEFINE Goal ==
            /\ WordShape(device, reader') /\ ResultShape(device, "NONE", reader')
            /\ AwaitedShape(device, queue, reader', vendPending)
            /\ Coming(device, queue, reader) /\ ~Excused => Coming(device, queue, reader')
      <3> SUFFICES Goal
        BY <1>1 DEF Follows, AnswerShape
      <3>1. CASE reader' = reader
        BY <1>1, <3>1 DEF ResultShape
      <3>2. CASE /\ wire = "VEND_REQUEST" /\ reader'.phase = "ASKED"
                 /\ reader'.say = reader.say /\ reader.phase = "OPEN"
        <4>1. device.open /\ device.vend = "PENDING"
          BY <1>1, <3>2 DEF SessionShape
        <4> QED
          BY <1>1, <3>2, <4>1 DEF WordShape, ResultShape, AwaitedShape, Coming
      <3>3. CASE /\ wire = "VEND_SUCCESS" /\ reader'.say = reader.say /\ reader.held # 0
                 /\ reader'.phase = IF reader.phase = "HELD" THEN "OPEN" ELSE reader.phase
        <4>1. device.success /\ device.vend # "PENDING" /\ reader.phase \in {"HELD", "PULLED"}
          BY <1>1, <1>2, <3>3 DEF SessionShape, ReaderShape, Phases
        <4> QED
          BY <1>1, <3>3, <4>1 DEF WordShape, ResultShape, AwaitedShape, Coming
      <3>4. CASE /\ wire = "SESSION_COMPLETE" /\ reader'.phase = "READY"
                 /\ reader'.say.code = "END_SESSION"
        <4>1. device.open => device.complete
          BY <1>1, <3>4 DEF SessionShape
        <4>2. WordShape(device, reader') /\ ResultShape(device, "NONE", reader')
          BY <1>1, <3>4, <4>1 DEF WordShape, ResultShape, Silent
        <4>3. AwaitedShape(device, queue, reader', vendPending)
          BY <1>1, <3>4 DEF AwaitedShape
        <4>4. Coming(device, queue, reader) /\ ~Excused => Coming(device, queue, reader')
          BY <1>1, <4>1, ClosedComing DEF Coming, Excused
        <4> QED BY <4>2, <4>3, <4>4
      <3> HIDE DEF Goal
      <3> QED BY <1>2, <1>6, <3>1, <3>2, <3>3, <3>4, ObeyedWord
    <2> QED BY <1>2, <2>1, <2>2, TurnAnswer
  <1> QED BY <1>2, <1>5, <1>6 DEF Commands

\* The reply to a command other than POLL and RESET.
LEMMA AnsweredAnswer ==
    ASSUME TypesOK, SaleIsBacked, AnswerIsAwaited, wire \notin {"NONE", "POLL", "RESET"},
           wire' = "NONE", Answered, reader' = Obeyed, UNCHANGED vendPending
    PROVE  AnswerIsAwaited' /\ Through
  <1>1. /\ SessionHolds(device) /\ WordShape(device, reader)
        /\ ResultShape(device, wire, reader)
        /\ AwaitedShape(device, queue, reader, vendPending)
        /\ ReaderShape(reader) /\ SessionShape(device, wire, reader)
    BY DEF AnswerIsAwaited, AnswerShape, SaleIsBacked, Shape
  <1>2. /\ device \in Devices /\ device.credit \in Credits \cup {0} /\ wire \in Commands
        /\ reader \in Readers /\ reader.phase \in Phases
    BY DEF TypesOK, DeviceOK, ReaderOK, Readers
  <1>3. ASSUME NEW d \in Devices, d.credit \in {0, device.credit}, EndTurn(d), Follows(d)
        PROVE  AnswerIsAwaited' /\ Through
    BY <1>2, <1>3, TurnAnswer DEF DeviceOK
  <1>4. ASSUME NEW d \in Devices, SamePayment(d, device), EndTurn(d),
               wire \in {"SETUP", "LIMITS", "EXPANSION", "ENABLE"}
        PROVE  AnswerIsAwaited' /\ Through
    <2>1. reader' = reader /\ device.poll # "IDLE_POLLING"
      BY <1>1, <1>2, <1>4, ObeyedWord DEF SessionShape
    <2>2. Follows(d)
      BY <1>4, <2>1, StartUpAnswer
    <2> QED BY <1>3, <1>4, <2>2 DEF SamePayment
  <1>5. CASE wire \in {"SETUP", "LIMITS", "ENABLE"}
    <2>1. \/ wire = "SETUP" /\ EndTurn([device EXCEPT !.config = TRUE])
          \/ wire = "LIMITS" /\ EndTurn([device EXCEPT !.setup = TRUE, !.poll = "INIT_EXPANSION"])
          \/ wire = "ENABLE" /\ EndTurn([device EXCEPT !.poll = "IDLE_POLLING"])
      BY <1>5 DEF Answered
    <2> QED BY <1>2, <1>4, <2>1, SetupFields
  <1>6. CASE wire = "EXPANSION"
    <2>1. EndTurn(Parsed(device, Say("REQUEST_ID", 0)))
      BY <1>6 DEF Answered
    <2> QED BY <1>2, <1>4, <1>6, <2>1, IdentityFields
  <1>7. CASE wire = "VEND_REQUEST"
    <2> DEFINE d == [device EXCEPT !.vend = "WORKING"]
    <2>1. EndTurn(d)
      BY <1>7 DEF Answered
    <2>2. /\ d \in Devices
          /\ d.poll = device.poll /\ d.open = device.open /\ d.session = device.session
          /\ d.vend = "WORKING" /\ d.credit = device.credit
          /\ d.result = device.result /\ d.success = device.success
          /\ d.complete = device.complete
      BY <1>2, WorkingFields
    <2> HIDE DEF d
    <2>3. device.open /\ device.vend = "PENDING"
      BY <1>1, <1>7 DEF SessionShape
    <2>4. \/ /\ reader' = reader
             /\ reader.phase # "OPEN" \/ reader.say.code = "VEND_DENIED"
          \/ /\ reader'.phase = "ASKED" /\ reader'.say = reader.say
             /\ reader.phase = "OPEN"
      BY <1>2, <1>7, ObeyedWord
    <2>5. SessionHolds(d) /\ WordShape(d, reader') /\ ResultShape(d, "NONE", reader')
      BY <1>1, <2>2, <2>3, <2>4 DEF SessionHolds, WordShape, ResultShape
    <2>6. AwaitedShape(d, queue, reader', vendPending)
      BY <1>1, <2>2, <2>3, <2>4 DEF AwaitedShape, Expected, Kept
    <2>7. Coming(device, queue, reader) /\ ~Excused => Coming(d, queue, reader')
      BY <1>1, <1>2, <2>2, <2>3, <2>4
         DEF Coming, Excused, WordShape, AwaitedShape, Phases
    <2> QED BY <1>3, <2>1, <2>2, <2>5, <2>6, <2>7 DEF Follows, AnswerShape
  <1>8. CASE wire = "VEND_SUCCESS"
    <2> DEFINE d == [device EXCEPT !.success = FALSE, !.session = "OPEN"]
    <2>1. EndTurn(d)
      BY <1>8 DEF Answered
    <2>2. /\ d \in Devices
          /\ d.poll = device.poll /\ d.open = device.open /\ d.session = "OPEN"
          /\ d.vend = device.vend /\ d.credit = device.credit
          /\ d.result = device.result /\ d.complete = device.complete
      BY <1>2, SettledFields
    <2> HIDE DEF d
    <2>3. device.success /\ device.vend # "PENDING"
      BY <1>1, <1>8 DEF SessionShape
    <2>4. \/ reader' = reader /\ reader.phase # "HELD"
          \/ /\ reader'.say = reader.say /\ reader.phase \in {"HELD", "PULLED"}
             /\ reader'.phase = IF reader.phase = "HELD" THEN "OPEN" ELSE reader.phase
      BY <1>1, <1>2, <1>8, ObeyedWord DEF ReaderShape, SessionShape, Phases
    <2>5. SessionHolds(d) /\ WordShape(d, reader') /\ ResultShape(d, "NONE", reader')
      BY <1>1, <2>2, <2>4 DEF SessionHolds, WordShape, ResultShape
    <2>6. AwaitedShape(d, queue, reader', vendPending)
      BY <1>1, <2>2, <2>3, <2>4 DEF AwaitedShape, Expected, Kept
    <2>7. Coming(device, queue, reader) => Coming(d, queue, reader')
      BY <2>2, <2>3, <2>4 DEF Coming
    <2> QED BY <1>3, <2>1, <2>2, <2>5, <2>6, <2>7 DEF Follows, AnswerShape
  <1>9. CASE wire = "SESSION_COMPLETE"
    <2> DEFINE c == [device EXCEPT !.complete = FALSE]
               d == ClosedLocally(c)
    <2>1. EndTurn(d)
      BY <1>9 DEF Answered
    <2>2. /\ c \in Devices /\ c.open = device.open /\ c.vend = device.vend
          /\ c.credit = device.credit /\ c.success = device.success
      BY <1>2, CompletedFields
    <2> HIDE DEF c
    <2>3. /\ d \in Devices /\ ~d.open /\ d.credit \in {0, device.credit}
          /\ d.success => device.success
          /\ d.vend = "IDLE" \/ (d.vend = device.vend /\ ~device.open)
          /\ d.session # "ENDING"
      BY <2>2, ClosedLocallyFields
    <2> HIDE DEF d
    <2>4. device.open => device.complete
      BY <1>1, <1>9 DEF SessionShape
    <2>5. Closed(d) /\ SessionHolds(d)
      BY <1>1, <1>9, <2>3 DEF Closed, SessionHolds, SessionShape
    <2>6. reader'.phase \in {"READY", "FAILED"} /\ reader'.say.code # "VEND_DENIED"
      BY <1>1, <1>2, <1>9, ObeyedWord DEF ReaderShape
    <2>7. AnswerShape(d, "NONE", queue, reader', vendPending)
      BY <2>5, <2>6, ClosedAnswer
    <2>8. Coming(device, queue, reader) /\ ~Excused => Coming(d, queue, reader')
      BY <1>1, <2>4, ClosedComing DEF Coming, Excused
    <2> QED BY <1>3, <2>1, <2>3, <2>7, <2>8 DEF Follows
  <1> QED BY <1>2, <1>5, <1>6, <1>7, <1>8, <1>9 DEF Commands

\* What each message leaves of the record, in the terms of the answer.
LEMMA ParsedAnswer ==
    ASSUME TypesOK, SessionHolds(device), NEW msg \in Messages, msg.code # "REQUEST_ID",
           msg.code = "BEGIN_SESSION" => ~device.open,
           NEW p, p = Parsed(device, msg)
    PROVE  /\ p.open => p.poll = device.poll
           /\ SessionHolds(p)
           /\ msg.code = "BEGIN_SESSION" =>
                 /\ p.vend = "IDLE" \/ p.vend = device.vend
                 /\ p.result.pending => p.result = device.result
           /\ msg.code = "VEND_APPROVED" =>
                 p.complete = device.complete /\ p.result.pending
           /\ msg.code = "VEND_DENIED" => p.complete /\ p.result.pending
           /\ /\ msg.code = "SESSION_CANCEL" /\ device.last # "SESSION_CANCEL"
              /\ \/ device.vend \in {"PENDING", "WORKING"}
                 \/ device.session \in {"VEND_REQUESTED", "VEND_APPROVED"}
              => p.result.pending
           /\ msg.code = "END_SESSION" => p.result.pending = device.result.pending
  <1> DEFINE e == [device EXCEPT !.last = msg.code, !.present = TRUE]
  <1>1. device \in Devices /\ msg.code \in Responses /\ msg.cents \in Nat
    BY DEF TypesOK, DeviceOK, Messages
  <1>2. /\ e \in Devices
        /\ e.poll = device.poll /\ e.open = device.open /\ e.vend = device.vend
        /\ e.session = device.session /\ e.complete = device.complete
        /\ e.result = device.result /\ e.last = msg.code
    BY <1>1, HeardType
  <1>3. /\ msg.code = "JUST_RESET" => p = Zeroed(e)
        /\ msg.code = "BEGIN_SESSION" => p = Begun(e, msg.cents)
        /\ msg.code = "VEND_APPROVED" => p = Approved(e, msg.cents)
        /\ msg.code = "VEND_DENIED" => p = Denied(e)
        /\ msg.code = "SESSION_CANCEL" =>
              p = IF device.last = msg.code THEN e ELSE Cancelled(e)
        /\ msg.code = "END_SESSION" =>
              p = IF device.last = msg.code THEN e ELSE Finalized(e)
        /\ msg.code = "OUT_OF_SEQUENCE" => p = OutOfSequence(e)
    BY DEF Parsed
  <1> HIDE DEF e
  <1>4. SessionHolds(e)
    BY <1>2 DEF SessionHolds
  <1>5. CASE msg.code = "JUST_RESET"
    BY <1>2, <1>3, <1>5, ZeroedFields DEF SessionHolds, Devices
  <1>6. CASE msg.code = "BEGIN_SESSION"
    BY <1>1, <1>2, <1>3, <1>6, BegunFields DEF SessionHolds
  <1>7. CASE msg.code = "VEND_APPROVED"
    <2>1. /\ p.open = e.open /\ p.complete = e.complete /\ p.poll = e.poll
          /\ p.session = "VEND_APPROVED" /\ p.vend = "APPROVED"
          /\ p.result = [pending |-> TRUE, approved |-> TRUE, cents |-> msg.cents]
      BY <1>1, <1>2, <1>3, <1>7, ApprovedFields
    <2>2. p.result.pending
      BY <2>1
    <2>3. SessionHolds(p)
      BY <2>1 DEF SessionHolds
    <2> QED BY <1>2, <1>7, <2>1, <2>2, <2>3
  <1>8. CASE msg.code = "VEND_DENIED"
    BY <1>2, <1>3, <1>8, DeniedFields DEF SessionHolds
  <1>9. CASE msg.code = "SESSION_CANCEL" /\ device.last # msg.code
    <2>1. p = Cancelled(e)
      BY <1>3, <1>9
    <2> QED BY <1>2, <1>9, <2>1, CancelledFields DEF SessionHolds
  <1>10. CASE msg.code = "END_SESSION" /\ device.last # msg.code
    <2>1. p = Finalized(e)
      BY <1>3, <1>10
    <2> QED BY <1>2, <1>10, <2>1, FinalizedFields DEF SessionHolds
  <1>11. CASE msg.code \in {"SESSION_CANCEL", "END_SESSION"} /\ device.last = msg.code
    <2>1. p = e
      BY <1>3, <1>11
    <2> QED BY <1>2, <1>4, <1>11, <2>1
  <1>12. CASE msg.code = "OUT_OF_SEQUENCE"
    BY <1>2, <1>3, <1>12, OutOfSequenceFields DEF SessionHolds
  <1> QED BY <1>1, <1>5, <1>6, <1>7, <1>8, <1>9, <1>10, <1>11, <1>12 DEF Responses

\* The reply to POLL: the reader has said what it had to say.
LEMMA PolledAnswer ==
    ASSUME TypesOK, SaleIsBacked, AnswerIsAwaited, ~LateApproval,
           wire = "POLL", wire' = "NONE", reader' = Spoken(reader),
           PollAnswered(reader.say), UNCHANGED vendPending
    PROVE  AnswerIsAwaited' /\ Through
  <1>1. /\ SessionHolds(device) /\ WordShape(device, reader)
        /\ ResultShape(device, wire, reader)
        /\ AwaitedShape(device, queue, reader, vendPending)
        /\ ReaderShape(reader) /\ SessionShape(device, wire, reader)
        /\ ApprovalShape(device, wire, queue, reader, due)
    BY DEF AnswerIsAwaited, AnswerShape, SaleIsBacked, Shape
  <1>2. /\ DeviceOK(device) /\ device \in Devices
        /\ reader \in Readers /\ reader.phase \in Phases
        /\ reader.say \in Messages \cup {Silent}
        /\ reader.say.code = "BEGIN_SESSION" => reader.say.cents \in Credits
    BY DEF TypesOK, DeviceOK, ReaderOK, Readers
  <1>3. Approving(queue) = {} /\ ~device.success
    BY <1>1 DEF ApprovalShape, SessionShape
  <1>4. /\ reader'.say.code = "NONE" /\ reader'.say = Silent
        /\ reader'.phase = IF reader.phase = "FAILED" THEN "READY" ELSE reader.phase
    BY <1>2, SpokenFields
  <1>5. ASSUME NEW d, DeviceOK(d), EndTurn(d), Follows(d)
        PROVE  AnswerIsAwaited' /\ Through
    BY <1>5, TurnAnswer
  <1> DEFINE p == IF reader.say = Silent THEN device ELSE Parsed(device, reader.say)
  <1>6. DeviceOK(p)
    BY <1>2, ParsedOK
  <1>7. CASE reader.say = Silent
    <2>1. EndTurn(device)
      BY <1>7 DEF PollAnswered, Silent
    <2>2. reader.say.code = "NONE"
      BY <1>7 DEF Silent
    <2>3. reader.phase # "FAILED" /\ reader'.phase = reader.phase
      BY <1>1, <1>4, <2>2, EngineAssumption DEF ReaderShape
    <2>4. WordShape(device, reader') /\ ResultShape(device, "NONE", reader')
      BY <1>1, <1>4, <1>7, <2>2, <2>3 DEF WordShape, ResultShape
    <2>5. AwaitedShape(device, queue, reader', vendPending)
      BY <1>1, <1>4, <2>2, <2>3 DEF AwaitedShape
    <2>6. Coming(device, queue, reader) => Coming(device, queue, reader')
      BY <2>2, <2>3 DEF Coming
    <2> QED BY <1>1, <1>2, <1>5, <2>1, <2>4, <2>5, <2>6 DEF Follows, AnswerShape
  <1>8. CASE reader.say # Silent
    <2>1. /\ reader.say \in Messages /\ p = Parsed(device, reader.say)
          /\ reader.say.code # "REQUEST_ID" /\ reader.say.code \in Responses
      BY <1>1, <1>2, <1>8 DEF ReaderShape, Messages
    <2>2. EndTurn(CASE reader.say.code = "JUST_RESET"      -> [p EXCEPT !.poll = "INIT_SETUP"]
                    [] reader.say.code = "OUT_OF_SEQUENCE" -> [p EXCEPT !.poll = "INIT_RESET"]
                    [] OTHER -> p)
      BY DEF PollAnswered
    <2> HIDE DEF p
    <2>3. p \in Devices /\ p.credit \in Credits \cup {0} /\ SessionHolds(p)
      BY <1>1, <1>6, <2>1, ParsedAnswer DEF DeviceOK, WordShape
    <2>4. CASE reader.say.code = "BEGIN_SESSION"
      <3>1. EndTurn(p)
        BY <2>2, <2>4
      <3>2. ~device.open
        BY <1>1, <2>4 DEF WordShape
      <3>3. /\ p.open /\ ~p.success /\ ~p.complete /\ p.poll = device.poll
            /\ ~p.result.pending \/ p.result = device.result
            /\ p.vend = "IDLE" \/ p.vend = device.vend
        BY <1>1, <1>2, <2>1, <2>4, <3>2, ParsedSale, ParsedAnswer
      <3>4. /\ reader.phase = "OPEN" /\ reader'.phase = "OPEN"
            /\ p.vend # "PENDING" /\ p.vend # "WORKING"
        BY <1>1, <1>4, <2>4, <3>2, <3>3 DEF ReaderShape, SessionShape, SessionHolds
      <3>5. ~Kept(p)
        BY <3>2, <3>3 DEF Kept, LateApproval
      <3>6. WordShape(p, reader') /\ ResultShape(p, "NONE", reader')
        BY <1>1, <1>4, <3>3, <3>4 DEF WordShape, ResultShape
      <3>7. AwaitedShape(p, queue, reader', vendPending)
        BY <1>3, <3>4, <3>5 DEF AwaitedShape
      <3>8. Coming(device, queue, reader) /\ ~Excused => Coming(p, queue, reader')
        BY <1>1, <3>2, ClosedComing DEF Coming
      <3> QED BY <1>5, <1>6, <2>3, <3>1, <3>6, <3>7, <3>8 DEF Follows, AnswerShape
    <2>5. CASE reader.say.code = "VEND_APPROVED"
      <3>1. EndTurn(p)
        BY <2>2, <2>5
      <3>2. /\ p.open = device.open /\ p.vend = "APPROVED" /\ p.poll = device.poll
            /\ p.success = device.success
            /\ p.complete = device.complete /\ p.result.pending
        <4>1. p.complete = device.complete /\ p.result.pending
          BY <1>1, <2>1, <2>5, ParsedAnswer
        <4> QED BY <1>2, <2>1, <2>5, <4>1, ParsedSale
      <3>3. /\ reader.phase = "HELD" /\ reader'.phase = "HELD"
            /\ device.open /\ device.poll = "IDLE_POLLING"
        BY <1>1, <1>4, <2>5 DEF ReaderShape, SessionShape
      <3>4. vendPending \/ device.complete
        BY <1>1, <1>3, <3>3 DEF AwaitedShape
      <3>5. WordShape(p, reader') /\ ResultShape(p, "NONE", reader')
        BY <1>4, <3>2, <3>3 DEF WordShape, ResultShape
      <3>6. AwaitedShape(p, queue, reader', vendPending)
        BY <1>3, <3>2, <3>3, <3>4 DEF AwaitedShape, Expected
      <3>7. Coming(p, queue, reader')
        BY <3>2 DEF Coming
      <3> QED BY <1>5, <1>6, <2>3, <3>1, <3>5, <3>6, <3>7 DEF Follows, AnswerShape
    <2>6. CASE reader.say.code = "VEND_DENIED"
      <3>1. EndTurn(p)
        BY <2>2, <2>6
      <3>2. /\ p.open = device.open /\ p.vend = "DENIED"
            /\ p.complete /\ p.result.pending /\ ~p.result.approved
        <4>1. p.complete /\ p.result.pending
          BY <1>1, <2>1, <2>6, ParsedAnswer
        <4> QED BY <1>2, <2>1, <2>6, <4>1, ParsedSale
      <3>3. /\ reader.phase = "OPEN" /\ reader'.phase = "OPEN"
            /\ device.open /\ device.poll = "IDLE_POLLING"
        BY <1>1, <1>4, <2>6 DEF ReaderShape, WordShape
      <3>4. p.poll = "IDLE_POLLING"
        BY <1>1, <2>1, <2>6, <3>2, <3>3, ParsedAnswer
      <3>5. WordShape(p, reader') /\ ResultShape(p, "NONE", reader')
        BY <1>4, <3>3, <3>4 DEF WordShape, ResultShape
      <3>6. AwaitedShape(p, queue, reader', vendPending)
        BY <1>3, <3>2, <3>3 DEF AwaitedShape, Expected, Kept
      <3>7. Coming(p, queue, reader')
        BY <3>2 DEF Coming
      <3> QED BY <1>5, <1>6, <2>3, <3>1, <3>5, <3>6, <3>7 DEF Follows, AnswerShape
    <2>7. ASSUME NEW d \in Devices, Closed(d), SessionHolds(d), d.credit \in Credits \cup {0},
                 EndTurn(d), d.result.pending = p.result.pending,
                 reader.say.code \in {"JUST_RESET", "SESSION_CANCEL", "END_SESSION",
                                      "OUT_OF_SEQUENCE"},
                 Coming(device, queue, reader) /\ ~Excused =>
                     p.result.pending \/ Answering(queue) # {}
          PROVE  AnswerIsAwaited' /\ Through
      <3>1. reader'.phase \notin {"ASKED", "HELD"} /\ reader'.say.code # "VEND_DENIED"
        BY <1>1, <1>4, <2>7 DEF ReaderShape
      <3>2. AnswerShape(d, "NONE", queue, reader', vendPending)
        BY <2>7, <3>1, ClosedAnswer
      <3>3. Coming(device, queue, reader) /\ ~Excused => Coming(d, queue, reader')
        BY <2>7 DEF Coming
      <3> QED BY <1>5, <2>7, <3>2, <3>3 DEF DeviceOK, Follows
    <2>8. CASE reader.say.code \in {"SESSION_CANCEL", "END_SESSION"}
      <3>1. EndTurn(p)
        BY <2>2, <2>8
      <3>2. Closed(p)
        <4>1. \/ Closed(p)
              \/ /\ device.last = reader.say.code
                 /\ p.open = device.open /\ p.success = device.success
                 /\ p.vend = device.vend
          BY <2>1, <2>8, ParsedSale
        <4> QED BY <1>1, <1>3, <2>8, <4>1 DEF SessionShape, Closed
      <3>3. ASSUME Coming(device, queue, reader), ~Excused
            PROVE  p.result.pending \/ Answering(queue) # {}
        <4>1. CASE ~device.open
          BY <1>1, <3>3, <4>1, ClosedComing
        <4>2. CASE device.open /\ reader.say.code = "SESSION_CANCEL"
          <5>1. device.last # "SESSION_CANCEL"
            BY <1>1, <4>2 DEF SessionShape
          <5>2. \/ device.vend \in {"PENDING", "WORKING"}
                \/ device.session \in {"VEND_REQUESTED", "VEND_APPROVED"}
                => p.result.pending
            BY <1>1, <2>1, <4>2, <5>1, ParsedAnswer
          <5>3. device.result.pending =>
                    device.session \in {"VEND_REQUESTED", "VEND_APPROVED"}
            BY <1>1, <1>2, <3>3, <4>2
               DEF Excused, Outlived, SessionHolds, Devices
          <5> QED BY <3>3, <5>2, <5>3 DEF Coming
        <4>3. CASE device.open /\ reader.say.code = "END_SESSION"
          <5>1. p.result.pending = device.result.pending
            BY <1>1, <2>1, <4>3, ParsedAnswer
          <5>2. reader.phase \in {"READY", "FAILED"}
            BY <1>1, <4>3 DEF ReaderShape
          <5> QED BY <3>3, <4>3, <5>1, <5>2 DEF Coming
        <4> QED BY <2>8, <4>1, <4>2, <4>3
      <3> QED BY <2>3, <2>7, <2>8, <3>1, <3>2, <3>3
    <2>9. CASE reader.say.code = "JUST_RESET"
      <3> DEFINE d == [p EXCEPT !.poll = "INIT_SETUP"]
      <3>1. EndTurn(d)
        BY <2>2, <2>9
      <3>2. "INIT_SETUP" \in Polls
        BY DEF Polls
      <3>3. d \in Devices /\ SamePayment(d, p)
        BY <2>3, <3>2, PollMoves, Zenon
      <3> HIDE DEF d
      <3>4. Closed(p)
        BY <2>1, <2>9, ParsedSale
      <3>5. Closed(d) /\ d.credit \in Credits \cup {0} /\ SessionHolds(d)
        BY <2>3, <3>3, <3>4 DEF Closed, SamePayment, SessionHolds
      <3>6. ASSUME Coming(device, queue, reader), ~Excused
            PROVE  Answering(queue) # {}
        <4>1. CASE ~device.open
          BY <1>1, <3>6, <4>1, ClosedComing
        <4>2. CASE device.open
          <5>1. reader.phase = "READY" /\ ~device.complete
            BY <1>1, <2>9, <3>6 DEF ReaderShape, Excused
          <5>2. ~device.result.pending
            BY <1>1, <4>2, <5>1 DEF ResultShape
          <5> QED BY <2>9, <3>6, <5>1, <5>2 DEF Coming
        <4> QED BY <4>1, <4>2
      <3>7. d.result.pending = p.result.pending
        BY <3>3 DEF SamePayment
      <3> QED BY <2>7, <2>9, <3>1, <3>3, <3>5, <3>6, <3>7
    <2>10. CASE reader.say.code = "OUT_OF_SEQUENCE"
      <3> DEFINE d == [p EXCEPT !.poll = "INIT_RESET"]
      <3>1. EndTurn(d)
        BY <2>2, <2>10
      <3>2. "INIT_RESET" \in Polls
        BY DEF Polls
      <3>3. d \in Devices /\ SamePayment(d, p)
        BY <2>3, <3>2, PollMoves, Zenon
      <3> HIDE DEF d
      <3>4. Closed(p)
        BY <1>3, <2>1, <2>10, ParsedSale DEF Closed
      <3>5. Closed(d) /\ d.credit \in Credits \cup {0} /\ SessionHolds(d)
        BY <2>3, <3>3, <3>4 DEF Closed, SamePayment, SessionHolds
      <3>6. Excused
        BY <1>1, <2>10 DEF ReaderShape, Excused
      <3>7. d.result.pending = p.result.pending
        BY <3>3 DEF SamePayment
      <3> QED BY <2>7, <2>10, <3>1, <3>3, <3>5, <3>6, <3>7
    <2> QED BY <2>1, <2>4, <2>5, <2>6, <2>8, <2>9, <2>10 DEF Responses
  <1> QED BY <1>7, <1>8

\* The reply to RESET, with the POLL that follows or without.
LEMMA ResetAnswer ==
    ASSUME TypesOK, SaleIsBacked, AnswerIsAwaited, wire = "RESET", wire' = "NONE",
           \/ reader' = Spoken(Obeyed) /\ ResetAnswered(Obeyed.say)
           \/ reader' = Obeyed /\ ResetAnswered(Silent),
           UNCHANGED vendPending
    PROVE  AnswerIsAwaited' /\ Through
  <1>1. /\ DeviceOK(device) /\ device \in Devices /\ ReaderOK(reader)
        /\ device.poll # "IDLE_POLLING" /\ SessionHolds(device)
    BY DEF TypesOK, DeviceOK, SaleIsBacked, Shape, SessionShape, AnswerIsAwaited,
           AnswerShape
  <1>2. /\ Say("JUST_RESET", 0) \in Messages /\ Say("JUST_RESET", 0) # Silent
        /\ Say("JUST_RESET", 0).code = "JUST_RESET" /\ "INIT_SETUP" \in Polls
    BY SayType DEF Responses, Polls
  <1>3. /\ Obeyed \in Readers /\ Obeyed.phase = "READY" /\ Obeyed.say = Say("JUST_RESET", 0)
    BY <1>1, ReaderMoves DEF ReaderOK, Obeyed
  <1>4. CASE reader' = Obeyed /\ ResetAnswered(Silent)
    <2> DEFINE d == [device EXCEPT !.last = "NONE", !.poll = "INIT_SETUP"]
    <2>1. EndTurn(d)
      BY <1>4 DEF ResetAnswered
    <2>2. d \in Devices /\ SamePayment(d, device)
      BY <1>1, <1>2, PollMoves, Zenon
    <2> HIDE DEF d
    <2>3. Follows(d)
      BY <1>1, <1>2, <1>3, <1>4, <2>2, StartUpAnswer
    <2> QED BY <1>1, <2>1, <2>2, <2>3, TurnAnswer DEF DeviceOK, SamePayment
  <1>5. CASE reader' = Spoken(Obeyed) /\ ResetAnswered(Obeyed.say)
    <2> DEFINE p == Parsed(device, Say("JUST_RESET", 0))
               d == [p EXCEPT !.last = "NONE", !.poll = "INIT_SETUP"]
    <2>1. EndTurn(d)
      BY <1>2, <1>3, <1>5 DEF ResetAnswered
    <2>2. DeviceOK(p)
      BY <1>1, <1>2, ParsedOK
    <2>3. Closed(p) /\ SessionHolds(p)
      BY <1>1, <1>2, ParsedSale, ParsedAnswer
    <2> HIDE DEF p
    <2>4. p \in Devices
      BY <2>2 DEF DeviceOK
    <2>5. d \in Devices /\ SamePayment(d, p)
      BY <1>2, <2>4, PollMoves, Zenon
    <2> HIDE DEF d
    <2>6. DeviceOK(d) /\ Closed(d) /\ SessionHolds(d)
      BY <2>2, <2>3, <2>5 DEF DeviceOK, Closed, SamePayment, SessionHolds
    <2>7. reader'.phase = "READY" /\ reader'.say.code = "NONE"
      BY <1>3, <1>5, SpokenFields
    <2>8. AnswerShape(d, "NONE", queue, reader', vendPending)
      BY <2>6, <2>7, ClosedAnswer
    <2>9. Follows(d)
      BY <2>8 DEF Follows, Excused
    <2> QED BY <2>1, <2>6, <2>9, TurnAnswer
  <1> QED BY <1>4, <1>5

\* Every step of the bus master.
LEMMA EngineAnswer ==
    ASSUME TypesOK, SaleIsBacked, AnswerIsAwaited, ~LateApproval, EngineStep,
           UNCHANGED vendPending
    PROVE  AnswerIsAwaited' /\ Through
  <1>1. CASE Send
    BY <1>1, SendAnswer
  <1>2. CASE TurnWithoutCommand
    BY <1>2, IdleTurnAnswer
  <1>3. CASE Exchange
    <2>1. wire # "NONE" /\ wire' = "NONE"
      BY <1>3 DEF Exchange
    <2>2. CASE wire = "POLL" /\ reader' = Spoken(reader) /\ PollAnswered(reader.say)
      BY <2>1, <2>2, PolledAnswer
    <2>3. CASE wire = "RESET" /\ reader' = Spoken(Obeyed) /\ ResetAnswered(Obeyed.say)
      BY <2>1, <2>3, ResetAnswer
    <2>4. CASE wire \notin {"POLL", "RESET"} /\ reader' = Obeyed /\ Answered
      BY <2>1, <2>4, AnsweredAnswer
    <2> QED BY <1>3, <2>2, <2>3, <2>4 DEF Exchange
  <1>4. CASE Loss
    <2>1. wire # "NONE" /\ wire' = "NONE"
      BY <1>4 DEF Loss
    <2>2. CASE Unanswered /\ reader' \in {reader, Obeyed}
      BY <2>1, <2>2, UnansweredAnswer
    <2>3. CASE wire = "RESET" /\ ResetAnswered(Silent) /\ reader' = Obeyed
      BY <2>1, <2>3, ResetAnswer
    <2> QED BY <1>4, <2>2, <2>3 DEF Loss
  <1> QED BY <1>1, <1>2, <1>3, <1>4 DEF EngineStep, Receive

\* Every step of the composition.
LEMMA VendAnswer ==
    ASSUME TypesOK, IInv, SaleIsBacked, AnswerIsAwaited, ~LateApproval,
           [VendNext]_vendVars
    PROVE  AnswerIsAwaited' /\ Through
  <1>1. CASE TaskStep
    BY <1>1, TaskStepEffect, TaskShape, TaskAnswer
  <1>2. CASE MailboxFilled
    BY <1>2, FilledAnswer
  <1>3. CASE EngineTurn
    BY <1>3, EngineAnswer DEF EngineTurn, Alone, vars, card
  <1>4. CASE ReaderTurn
    BY <1>4, ReaderAnswer DEF ReaderTurn, Alone, vars, card
  <1>5. CASE UNCHANGED vendVars
    <2>1. UNCHANGED <<device, wire, queue, reader, vendPending>>
      BY <1>5 DEF vendVars, fsmTask, bus, engine, vars, card
    <2> QED BY <2>1 DEF AnswerIsAwaited, Through
  <1> QED BY <1>1, <1>2, <1>3, <1>4, <1>5 DEF VendNext

\* Nothing is awaited at the start.
LEMMA VendInitAnswer == VendInit => AnswerIsAwaited
  <1> SUFFICES ASSUME VendInit PROVE AnswerIsAwaited
    OBVIOUS
  <1>1. /\ reader = [phase |-> "READY", held |-> 0, say |-> Silent]
        /\ wire = "NONE" /\ device = ResetDevice
    BY DEF VendInit, EngineInit
  <1>2. Closed(device) /\ SessionHolds(device)
    BY <1>1, ResetFields DEF Closed, SessionHolds
  <1> QED BY <1>1, <1>2, ClosedAnswer DEF AnswerIsAwaited, Silent

\* The answer to a vend gets from the reader to the FSM that waits for it,
\* through lost replies, full mailboxes and whatever the customer does, but for
\* what AnswerGetsThrough names: a session completed over it, a failed reader,
\* an answer that has outlived its session.
THEOREM AnswersGetThrough == VendSpec /\ []~LateApproval => AnswerGetsThrough
  <1>1. IInv /\ TypesOK /\ ~LateApproval /\ SaleIsBacked /\ [VendNext]_vendVars
          => SaleIsBacked'
    BY VendShape
  <1>2. IInv /\ TypesOK /\ ~LateApproval /\ SaleIsBacked /\ AnswerIsAwaited
          /\ [VendNext]_vendVars => AnswerIsAwaited'
    BY VendAnswer
  <1>3. IInv /\ TypesOK /\ (IInv /\ TypesOK)' /\ ~LateApproval /\ SaleIsBacked
          /\ AnswerIsAwaited /\ [VendNext]_vendVars
          => [Underway /\ vendPending' /\ ~Underway' =>
                 \/ device.complete \/ Outlived \/ wire = "RESET"
                 \/ reader'.phase = "FAILED" \/ reader.phase = "FAILED"
                 \/ state # "CREDIT" \/ source # "CARD"]_vendVars
    <2> SUFFICES ASSUME IInv, TypesOK, TypesOK', ~LateApproval, SaleIsBacked,
                        AnswerIsAwaited, [VendNext]_vendVars,
                        Underway, vendPending', ~Underway'
                 PROVE  Excused
      BY DEF Excused
    <2>1. vendPending /\ Coming(device, queue, reader)
      BY UnderwayIsComing
    <2>2. ~Coming(device', queue', reader')
      BY UnderwayIsComingNext
    <2>3. Through
      BY VendAnswer
    <2> QED BY <2>1, <2>2, <2>3 DEF Through
  <1> QED
    BY <1>1, <1>2, <1>3, VendInitShape, VendInitAnswer, VendInvariance, PTL
       DEF VendSpec, AnswerGetsThrough

=============================================================================
