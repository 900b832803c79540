--------------------------- MODULE DigitalIoProofs --------------------------
(* The record shared by the web server and the FSM task, for any heap. *)
EXTENDS DigitalIoAgent, TLAPS

\* the client's record: answered, with nothing left behind it, or still the
\* last thing the FSM task will come to
ClientRecord ==
    client.at # "idle" =>
        \/ /\ record[client.r].completed /\ record[client.r].result # "TIMEOUT"
           /\ inbox = <<>> /\ handler.at \in {"idle", "give"}
        \/ /\ ~record[client.r].completed
           /\ client.at \in {"waiting", "timedout"}
           /\ \/ inbox # <<>> /\ inbox[Len(inbox)] = client.r
              \/ inbox = <<>> /\ handler.at = "executed" /\ handler.r = client.r

\* whose the records are that the FSM task has or will have
HandlerRecord ==
    /\ client.at = "idle" <=> client.r = None
    /\ handler.at = "idle" <=> handler.r = None
    /\ handler.at = "free" => record[handler.r].abandoned
    /\ handler.at = "executed" =>
           /\ ~record[handler.r].completed /\ record[handler.r].result # "TIMEOUT"
           /\ record[handler.r].abandoned \/ client.r = handler.r
    /\ \A i \in DOMAIN inbox :
           /\ ~record[inbox[i]].completed
           /\ record[inbox[i]].abandoned \/ client.r = inbox[i]

\* a pending notification belongs to the client's request or to none
NotificationOwner ==
    /\ ~overtaken /\ notified = 1 /\ client.at \in {"waiting", "timedout"} =>
           record[client.r].completed
    /\ ~overtaken /\ notified = 1 => handler.at # "give"

\* the inductive invariant
IoInv ==
    /\ IoTypeOK /\ RecordsAreUsedWhileLive
    /\ ClientRecord /\ HandlerRecord /\ NotificationOwner

-----------------------------------------------------------------------------

USE RecordsAssumption DEF IoTypeOK, ByClient, ByHandler, ByInbox, Results

RecordType == [live : BOOLEAN, completed : BOOLEAN, abandoned : BOOLEAN, result : Results]

\* Taking the first request away leaves the last where it is, if there is one.
LEMMA LastStays ==
  ASSUME NEW S, NEW s \in Seq(S), s # <<>>
  PROVE  /\ Tail(s) \in Seq(S) /\ Head(s) \in S /\ Len(Tail(s)) = Len(s) - 1
         /\ \A i \in DOMAIN Tail(s) : i + 1 \in DOMAIN s /\ Tail(s)[i] = s[i + 1]
         /\ Tail(s) # <<>> => Tail(s)[Len(Tail(s))] = s[Len(s)]
         /\ Tail(s) = <<>> => s[Len(s)] = Head(s)
<1>1. /\ Len(s) \in Nat /\ Len(s) > 0 /\ DOMAIN s = 1..Len(s)
      /\ Tail(s) \in Seq(S) /\ Len(Tail(s)) = Len(s) - 1
      /\ DOMAIN Tail(s) = 1..Len(s) - 1
      /\ Head(s) = s[1] /\ Head(s) \in S
      /\ \A i \in 1..Len(s) - 1 : Tail(s)[i] = s[i + 1]
  OBVIOUS
<1>2. Tail(s) # <<>> => Len(s) - 1 > 0
  BY <1>1
<1>3. Tail(s) = <<>> => Len(s) = 1
  <2>1. Len(<<>>) = 0
    OBVIOUS
  <2>2. Tail(s) = <<>> => Len(Tail(s)) = 0
    BY <2>1, Zenon
  <2> QED
    BY <1>1, <2>2
<1> QED
  BY <1>1, <1>2, <1>3

\* The initial state satisfies the invariant.
LEMMA IoInitInv == IoInit => IoInv
<1> SUFFICES ASSUME IoInit PROVE IoInv
  OBVIOUS
<1>1. IoTypeOK
  <2>1. FreeRecord \in RecordType
    BY DEF FreeRecord, RecordType
  <2>2. inbox \in Seq(Records)
    BY DEF IoInit
  <2> QED
    <3>1. record \in [Records -> RecordType]
      BY <2>1 DEF IoInit
    <3>2. /\ client \in [at : {"idle", "waiting", "timedout", "late", "answered"},
                         r : Records \cup {None}]
          /\ handler \in [at : {"idle", "executed", "give", "free"}, r : Records \cup {None}]
      BY DEF IoInit, Idle
    <3>3. notified \in 0..1 /\ expired \subseteq Records
      BY DEF IoInit
    <3>4. overtaken \in BOOLEAN
      BY Zenon DEF IoInit
    <3> QED
      BY <2>2, <3>1, <3>2, <3>3, <3>4 DEF RecordType
<1>2. RecordsAreUsedWhileLive
  BY DEF IoInit, RecordsAreUsedWhileLive, FreeRecord, Idle
<1>3. ClientRecord /\ HandlerRecord /\ NotificationOwner
  BY DEF IoInit, ClientRecord, HandlerRecord, NotificationOwner, Idle
<1> QED
  BY <1>1, <1>2, <1>3 DEF IoInv

LEMMA RequestInv ==
  ASSUME IoInv, ~overtaken, NEW r \in Records, Request(r)
  PROVE  IoInv'
<1> USE DEF IoInv
<1>0. record' \in [Records -> RecordType]
  BY DEF Request, NewRecord, FreeRecord, NotificationTaken, RecordType, ClientRecord, HandlerRecord
<1>1. IoTypeOK'
  BY <1>0 DEF Request, NewRecord, FreeRecord, NotificationTaken, RecordType, ClientRecord, HandlerRecord, NotificationOwner
<1>2. RecordsAreUsedWhileLive'
  BY DEF Request, NewRecord, FreeRecord, NotificationTaken, RecordsAreUsedWhileLive, ClientRecord, HandlerRecord, NotificationOwner
<1>3. ClientRecord'
  BY DEF Request, NewRecord, FreeRecord, NotificationTaken, RecordsAreUsedWhileLive, ClientRecord, HandlerRecord, NotificationOwner
<1>4. HandlerRecord'
  BY DEF Request, NewRecord, FreeRecord, NotificationTaken, RecordsAreUsedWhileLive, ClientRecord, HandlerRecord, NotificationOwner
<1>5. NotificationOwner'
  BY DEF Request, NewRecord, FreeRecord, NotificationTaken, RecordsAreUsedWhileLive, ClientRecord, HandlerRecord, NotificationOwner
<1> QED
  BY <1>1, <1>2, <1>3, <1>4, <1>5

LEMMA RequestRefusedInv ==
  ASSUME IoInv, ~overtaken, RequestRefused
  PROVE  IoInv'
<1> USE DEF IoInv
<1>1. IoTypeOK'
  BY DEF RequestRefused, NotificationTaken, RecordsAreUsedWhileLive, ClientRecord, HandlerRecord, NotificationOwner
<1>2. RecordsAreUsedWhileLive'
  BY DEF RequestRefused, NotificationTaken, RecordsAreUsedWhileLive, ClientRecord, HandlerRecord, NotificationOwner
<1>3. ClientRecord'
  BY DEF RequestRefused, NotificationTaken, RecordsAreUsedWhileLive, ClientRecord, HandlerRecord, NotificationOwner
<1>4. HandlerRecord'
  BY DEF RequestRefused, NotificationTaken, RecordsAreUsedWhileLive, ClientRecord, HandlerRecord, NotificationOwner
<1>5. NotificationOwner'
  BY DEF RequestRefused, NotificationTaken, RecordsAreUsedWhileLive, ClientRecord, HandlerRecord, NotificationOwner
<1> QED
  BY <1>1, <1>2, <1>3, <1>4, <1>5

LEMMA WokenInv ==
  ASSUME IoInv, ~overtaken, Woken
  PROVE  IoInv'
<1> USE DEF IoInv
<1>1. IoTypeOK'
  BY DEF Woken, RecordsAreUsedWhileLive, ClientRecord, HandlerRecord, NotificationOwner
<1>2. RecordsAreUsedWhileLive'
  BY DEF Woken, RecordsAreUsedWhileLive, ClientRecord, HandlerRecord, NotificationOwner
<1>3. ClientRecord'
  BY DEF Woken, RecordsAreUsedWhileLive, ClientRecord, HandlerRecord, NotificationOwner
<1>4. HandlerRecord'
  BY DEF Woken, RecordsAreUsedWhileLive, ClientRecord, HandlerRecord, NotificationOwner
<1>5. NotificationOwner'
  BY DEF Woken, RecordsAreUsedWhileLive, ClientRecord, HandlerRecord, NotificationOwner
<1> QED
  BY <1>1, <1>2, <1>3, <1>4, <1>5

LEMMA WaitOverInv ==
  ASSUME IoInv, ~overtaken, WaitOver
  PROVE  IoInv'
<1> USE DEF IoInv
<1>1. IoTypeOK'
  BY DEF WaitOver, RecordsAreUsedWhileLive, ClientRecord, HandlerRecord, NotificationOwner
<1>2. RecordsAreUsedWhileLive'
  BY DEF WaitOver, RecordsAreUsedWhileLive, ClientRecord, HandlerRecord, NotificationOwner
<1>3. ClientRecord'
  BY DEF WaitOver, RecordsAreUsedWhileLive, ClientRecord, HandlerRecord, NotificationOwner
<1>4. HandlerRecord'
  BY DEF WaitOver, RecordsAreUsedWhileLive, ClientRecord, HandlerRecord, NotificationOwner
<1>5. NotificationOwner'
  BY DEF WaitOver, RecordsAreUsedWhileLive, ClientRecord, HandlerRecord, NotificationOwner
<1> QED
  BY <1>1, <1>2, <1>3, <1>4, <1>5

LEMMA GiveUpInv ==
  ASSUME IoInv, ~overtaken, GiveUp
  PROVE  IoInv'
<1> USE DEF IoInv
<1>0. record' \in [Records -> RecordType]
  <2>1. \A place \in RecordType : Abandoned(place) \in RecordType
    BY DEF Abandoned, RecordType
  <2>2. record \in [Records -> RecordType]
    BY DEF RecordType
  <2> QED
    BY <2>1, <2>2 DEF GiveUp
<1>1. IoTypeOK'
  BY <1>0 DEF GiveUp, AnswerCame, Abandoned, Idle, RecordType, ClientRecord, HandlerRecord, NotificationOwner
<1>2. RecordsAreUsedWhileLive'
  BY DEF GiveUp, AnswerCame, Abandoned, Idle, RecordsAreUsedWhileLive, ClientRecord, HandlerRecord, NotificationOwner
<1>3. ClientRecord'
  BY DEF GiveUp, AnswerCame, Abandoned, Idle, RecordsAreUsedWhileLive, ClientRecord, HandlerRecord, NotificationOwner
<1>4. HandlerRecord'
  BY DEF GiveUp, AnswerCame, Abandoned, Idle, RecordsAreUsedWhileLive, ClientRecord, HandlerRecord, NotificationOwner
<1>5. NotificationOwner'
  BY DEF GiveUp, AnswerCame, Abandoned, Idle, RecordsAreUsedWhileLive, ClientRecord, HandlerRecord, NotificationOwner
<1> QED
  BY <1>1, <1>2, <1>3, <1>4, <1>5

LEMMA TakeLateInv ==
  ASSUME IoInv, ~overtaken, TakeLate
  PROVE  IoInv'
<1> USE DEF IoInv
<1>1. IoTypeOK'
  BY DEF TakeLate, NotificationTaken, RecordsAreUsedWhileLive, ClientRecord, HandlerRecord, NotificationOwner
<1>2. RecordsAreUsedWhileLive'
  BY DEF TakeLate, NotificationTaken, RecordsAreUsedWhileLive, ClientRecord, HandlerRecord, NotificationOwner
<1>3. ClientRecord'
  BY DEF TakeLate, NotificationTaken, RecordsAreUsedWhileLive, ClientRecord, HandlerRecord, NotificationOwner
<1>4. HandlerRecord'
  BY DEF TakeLate, NotificationTaken, RecordsAreUsedWhileLive, ClientRecord, HandlerRecord, NotificationOwner
<1>5. NotificationOwner'
  BY DEF TakeLate, NotificationTaken, RecordsAreUsedWhileLive, ClientRecord, HandlerRecord, NotificationOwner
<1> QED
  BY <1>1, <1>2, <1>3, <1>4, <1>5

LEMMA ReturnInv ==
  ASSUME IoInv, ~overtaken, Return
  PROVE  IoInv'
<1> USE DEF IoInv
<1>1. IoTypeOK'
  BY DEF Return, Idle, FreeRecord, RecordsAreUsedWhileLive, ClientRecord, HandlerRecord, NotificationOwner
<1>2. RecordsAreUsedWhileLive'
  BY DEF Return, Idle, FreeRecord, RecordsAreUsedWhileLive, ClientRecord, HandlerRecord, NotificationOwner
<1>3. ClientRecord'
  BY DEF Return, Idle, FreeRecord, RecordsAreUsedWhileLive, ClientRecord, HandlerRecord, NotificationOwner
<1>4. HandlerRecord'
  BY DEF Return, Idle, FreeRecord, RecordsAreUsedWhileLive, ClientRecord, HandlerRecord, NotificationOwner
<1>5. NotificationOwner'
  BY DEF Return, Idle, FreeRecord, RecordsAreUsedWhileLive, ClientRecord, HandlerRecord, NotificationOwner
<1> QED
  BY <1>1, <1>2, <1>3, <1>4, <1>5

LEMMA ExecuteInv ==
  ASSUME IoInv, ~overtaken, Execute
  PROVE  IoInv'
<1> USE DEF IoInv
<1>1. IoTypeOK'
  BY LastStays DEF Execute, RecordsAreUsedWhileLive, ClientRecord, HandlerRecord, NotificationOwner
<1>2. RecordsAreUsedWhileLive'
  BY LastStays DEF Execute, RecordsAreUsedWhileLive, ClientRecord, HandlerRecord, NotificationOwner
<1>3. ClientRecord'
  BY LastStays DEF Execute, RecordsAreUsedWhileLive, ClientRecord, HandlerRecord, NotificationOwner
<1>4. HandlerRecord'
  BY LastStays DEF Execute, RecordsAreUsedWhileLive, ClientRecord, HandlerRecord, NotificationOwner
<1>5. NotificationOwner'
  BY LastStays DEF Execute, RecordsAreUsedWhileLive, ClientRecord, HandlerRecord, NotificationOwner
<1> QED
  BY <1>1, <1>2, <1>3, <1>4, <1>5

LEMMA CompleteInv ==
  ASSUME IoInv, ~overtaken, Complete
  PROVE  IoInv'
<1> USE DEF IoInv
<1>0. record' \in [Records -> RecordType]
  BY DEF Complete, AfterCompletion, RecordType, ClientRecord, HandlerRecord
<1>1. IoTypeOK'
  BY <1>0 DEF Complete, AfterCompletion, RecordType, ClientRecord, HandlerRecord, NotificationOwner
<1>2. RecordsAreUsedWhileLive'
  BY DEF Complete, AfterCompletion, RecordsAreUsedWhileLive, ClientRecord, HandlerRecord, NotificationOwner
<1>3. ClientRecord'
  BY DEF Complete, AfterCompletion, RecordsAreUsedWhileLive, ClientRecord, HandlerRecord, NotificationOwner
<1>4. HandlerRecord'
  BY DEF Complete, AfterCompletion, RecordsAreUsedWhileLive, ClientRecord, HandlerRecord, NotificationOwner
<1>5. NotificationOwner'
  BY DEF Complete, AfterCompletion, RecordsAreUsedWhileLive, ClientRecord, HandlerRecord, NotificationOwner
<1> QED
  BY <1>1, <1>2, <1>3, <1>4, <1>5

LEMMA GiveInv ==
  ASSUME IoInv, ~overtaken, Give
  PROVE  IoInv'
<1> USE DEF IoInv
<1>1. IoTypeOK'
  BY DEF Give, Idle, RecordsAreUsedWhileLive, ClientRecord, HandlerRecord, NotificationOwner
<1>2. RecordsAreUsedWhileLive'
  BY DEF Give, Idle, RecordsAreUsedWhileLive, ClientRecord, HandlerRecord, NotificationOwner
<1>3. ClientRecord'
  BY DEF Give, Idle, RecordsAreUsedWhileLive, ClientRecord, HandlerRecord, NotificationOwner
<1>4. HandlerRecord'
  BY DEF Give, Idle, RecordsAreUsedWhileLive, ClientRecord, HandlerRecord, NotificationOwner
<1>5. NotificationOwner'
  BY DEF Give, Idle, RecordsAreUsedWhileLive, ClientRecord, HandlerRecord, NotificationOwner
<1> QED
  BY <1>1, <1>2, <1>3, <1>4, <1>5

LEMMA FreeAbandonedInv ==
  ASSUME IoInv, ~overtaken, FreeAbandoned
  PROVE  IoInv'
<1> USE DEF IoInv
<1>1. IoTypeOK'
  BY DEF FreeAbandoned, Idle, FreeRecord, RecordsAreUsedWhileLive, ClientRecord, HandlerRecord, NotificationOwner
<1>2. RecordsAreUsedWhileLive'
  BY DEF FreeAbandoned, Idle, FreeRecord, RecordsAreUsedWhileLive, ClientRecord, HandlerRecord, NotificationOwner
<1>3. ClientRecord'
  BY DEF FreeAbandoned, Idle, FreeRecord, RecordsAreUsedWhileLive, ClientRecord, HandlerRecord, NotificationOwner
<1>4. HandlerRecord'
  BY DEF FreeAbandoned, Idle, FreeRecord, RecordsAreUsedWhileLive, ClientRecord, HandlerRecord, NotificationOwner
<1>5. NotificationOwner'
  BY DEF FreeAbandoned, Idle, FreeRecord, RecordsAreUsedWhileLive, ClientRecord, HandlerRecord, NotificationOwner
<1> QED
  BY <1>1, <1>2, <1>3, <1>4, <1>5

LEMMA ExpireInv ==
  ASSUME IoInv, ~overtaken, Expire
  PROVE  IoInv'
<1> USE DEF IoInv
<1>1. IoTypeOK'
  BY LastStays DEF Expire, RecordsAreUsedWhileLive, ClientRecord, HandlerRecord, NotificationOwner
<1>2. RecordsAreUsedWhileLive'
  BY LastStays DEF Expire, RecordsAreUsedWhileLive, ClientRecord, HandlerRecord, NotificationOwner
<1>3. ClientRecord'
  BY LastStays DEF Expire, RecordsAreUsedWhileLive, ClientRecord, HandlerRecord, NotificationOwner
<1>4. HandlerRecord'
  BY LastStays DEF Expire, RecordsAreUsedWhileLive, ClientRecord, HandlerRecord, NotificationOwner
<1>5. NotificationOwner'
  BY LastStays DEF Expire, RecordsAreUsedWhileLive, ClientRecord, HandlerRecord, NotificationOwner
<1> QED
  BY <1>1, <1>2, <1>3, <1>4, <1>5

LEMMA IoStepInv == IoInv /\ [IoNext]_iovars => IoInv'
<1> SUFFICES ASSUME IoInv, [IoNext]_iovars PROVE IoInv'
  OBVIOUS
<1>1. ASSUME IoNext PROVE IoInv'
  <2>1. ~overtaken
    BY <1>1 DEF IoNext
  <2>2. ASSUME NEW r \in Records, Request(r) PROVE IoInv'
    BY <2>1, <2>2, RequestInv
  <2>3. CASE ClientStep
    BY <2>1, <2>3, RequestRefusedInv, WokenInv, WaitOverInv, GiveUpInv, TakeLateInv,
       ReturnInv DEF ClientStep
  <2>4. CASE HandlerStep
    BY <2>1, <2>4, ExecuteInv, CompleteInv, GiveInv, FreeAbandonedInv, ExpireInv
       DEF HandlerStep
  <2> QED
    BY <1>1, <2>2, <2>3, <2>4 DEF IoNext
<1>2. CASE UNCHANGED iovars
  BY <1>2 DEF iovars, IoInv, RecordsAreUsedWhileLive, ClientRecord, HandlerRecord,
     NotificationOwner
<1> QED
  BY <1>1, <1>2

-----------------------------------------------------------------------------

\* The inductive invariant holds in every reachable state, for a heap of any
\* size: whose each record is, and whom a pending notification is for.
THEOREM IoInvariance == IoSpec => []IoInv
  BY IoInitInv, IoStepInv, PTL DEF IoSpec

\* Every field keeps its type, and no two notifications are ever pending: the
\* dispatch drains the count where an answer may come late.
THEOREM IoTypeCorrect == IoSpec => []IoTypeOK
<1>1. IoInv => IoTypeOK
  BY DEF IoInv
<1> QED
  BY <1>1, IoInvariance, PTL

\* No record is used after it was freed, freed twice or shared by two requests,
\* in whatever order the two tasks reach the lock.
THEOREM NoUseAfterFree == IoSpec => []RecordsAreUsedWhileLive
<1>1. IoInv => RecordsAreUsedWhileLive
  BY DEF IoInv
<1> QED
  BY <1>1, IoInvariance, PTL

\* A client returns the answer of its own request, and no earlier command is
\* carried out after it, as long as no notification overtakes a request.
THEOREM OwnAnswer == IoSpec => []AnswerIsOfTheRequest
<1>1. IoInv => AnswerIsOfTheRequest
  BY DEF IoInv, ClientRecord, AnswerIsOfTheRequest
<1> QED
  BY <1>1, IoInvariance, PTL

=============================================================================
