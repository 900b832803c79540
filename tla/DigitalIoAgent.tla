---------------------------- MODULE DigitalIoAgent --------------------------
(***************************************************************************)
(* A digital output set from the web server (main/tasks.c): the request    *)
(* goes to the FSM task through the mailbox with a reply record on the     *)
(* heap, which the two tasks share.  The server's task, the only one that  *)
(* comes here from outside the FSM task, waits for a notification at most  *)
(* 250 ms; whoever is last at the record frees it.  Reading an output and a *)
(* request of the FSM task itself need no record and are left out.  The    *)
(* inbox is what EventBus promises: first in, first out, each event at     *)
(* most once, too old ones dropped.                                        *)
(***************************************************************************)
EXTENDS Naturals, Sequences

CONSTANTS
    Records,   \* places on the heap for tasks_digital_io_agent_result_t
    None

ASSUME RecordsAssumption == None \notin Records

VARIABLES
    record,    \* the heap: what each place holds
    inbox,     \* records the requests in the mailbox refer to, oldest first
    client,    \* the web server: where it is in the dispatch, and its record
    handler,   \* the FSM task: where it is in the handler, and its record
    notified,  \* the notification count of the web server's task
    expired,   \* records whose request was dropped by the mailbox
    overtaken  \* a notification came while a later request was waiting

iovars == <<record, inbox, client, handler, notified, expired, overtaken>>

Results == {"TIMEOUT", "OK", "ERROR"}
Idle    == [at |-> "idle", r |-> None]

FreeRecord == [live |-> FALSE, completed |-> FALSE, abandoned |-> FALSE, result |-> "TIMEOUT"]
NewRecord  == [FreeRecord EXCEPT !.live = TRUE]

\* type correctness; no two notifications are ever pending
IoTypeOK ==
    /\ record \in [Records -> [live : BOOLEAN, completed : BOOLEAN,
                               abandoned : BOOLEAN, result : Results]]
    /\ inbox \in Seq(Records)
    /\ client \in [at : {"idle", "waiting", "timedout", "late", "answered"},
                   r : Records \cup {None}]
    /\ handler \in [at : {"idle", "executed", "give", "free"}, r : Records \cup {None}]
    /\ notified \in 0..1
    /\ expired \subseteq Records /\ overtaken \in BOOLEAN

IoInit ==
    /\ record = [r \in Records |-> FreeRecord]
    /\ inbox = <<>>
    /\ client = Idle /\ handler = Idle
    /\ notified = 0
    /\ expired = {} /\ overtaken = FALSE

\* bug: a notification left by the previous request is not taken away
NotificationKept == notified

\* ulTaskNotifyTake(pdTRUE, 0) before a request, and after a late answer
NotificationTaken == 0

\* The request is published.  calloc finds any free place; a place freed is
\* used again.
Request(r) ==
    /\ client.at = "idle" /\ ~record[r].live
    /\ record' = [record EXCEPT ![r] = NewRecord]
    /\ notified' = NotificationTaken
    /\ inbox' = Append(inbox, r)
    /\ client' = [at |-> "waiting", r |-> r]
    /\ UNCHANGED <<handler, expired, overtaken>>

\* the mailbox is full, or its mutex is not had in 20 ms: the record is freed
\* at once; with no place on the heap nothing happens either
RequestRefused ==
    /\ client.at = "idle"
    /\ notified' \in {notified, NotificationTaken}
    /\ UNCHANGED <<record, inbox, client, handler, expired, overtaken>>

\* the notification ends the wait
Woken ==
    /\ client.at = "waiting" /\ notified > 0
    /\ notified' = 0
    /\ client' = [client EXCEPT !.at = "answered"]
    /\ UNCHANGED <<record, inbox, handler, expired, overtaken>>

\* the wait ends without it
WaitOver ==
    /\ client.at = "waiting" /\ notified = 0
    /\ client' = [client EXCEPT !.at = "timedout"]
    /\ UNCHANGED <<record, inbox, handler, notified, expired, overtaken>>

\* bug: the request is given up without a look at the answer
AnswerMissed(r) == FALSE

AnswerCame(r) == record[r].completed

\* bug: the client frees what the request in the mailbox refers to
FreedByClient(place) == FreeRecord

Abandoned(place) == [place EXCEPT !.abandoned = TRUE]

\* under the lock: the answer has come after all, and the record is still the
\* client's, or the record is left to the handler
GiveUp ==
    /\ client.at = "timedout"
    /\ IF AnswerCame(client.r)
       THEN client' = [client EXCEPT !.at = "late"] /\ UNCHANGED record
       ELSE /\ record' = [record EXCEPT ![client.r] = Abandoned(@)]
            /\ client' = Idle
    /\ UNCHANGED <<inbox, handler, notified, expired, overtaken>>

\* the notification of a late answer, if it has come by now, is taken away
TakeLate ==
    /\ client.at = "late"
    /\ notified' = NotificationTaken
    /\ client' = [client EXCEPT !.at = "answered"]
    /\ UNCHANGED <<record, inbox, handler, expired, overtaken>>

\* the result is read and the record freed
Return ==
    /\ client.at = "answered"
    /\ record' = [record EXCEPT ![client.r] = FreeRecord]
    /\ client' = Idle
    /\ UNCHANGED <<inbox, handler, notified, expired, overtaken>>

-----------------------------------------------------------------------------

\* the FSM task takes the request, sets the output and writes the result
Execute ==
    /\ handler.at = "idle" /\ inbox # <<>>
    /\ handler' = [at |-> "executed", r |-> Head(inbox)]
    /\ inbox' = Tail(inbox)
    /\ \E result \in {"OK", "ERROR"} :
           record' = [record EXCEPT ![Head(inbox)].result = result]
    /\ UNCHANGED <<client, notified, expired, overtaken>>

\* bug: the handler never owns the record
NeverFrees(r) == "give"

\* who is told, or who frees
AfterCompletion(r) == IF record[r].abandoned THEN "free" ELSE "give"

\* under the lock
Complete ==
    /\ handler.at = "executed"
    /\ record' = [record EXCEPT ![handler.r].completed = TRUE]
    /\ handler' = [handler EXCEPT !.at = AfterCompletion(handler.r)]
    /\ UNCHANGED <<inbox, client, notified, expired, overtaken>>

\* xTaskNotifyGive, after the unlock: it finds the client wherever it is by now
Give ==
    /\ handler.at = "give"
    /\ handler' = Idle
    /\ notified' = notified + 1
    /\ overtaken' = (/\ client.at \in {"waiting", "timedout"}
                     /\ ~record[client.r].completed)
    /\ UNCHANGED <<record, inbox, client, expired>>

FreeAbandoned ==
    /\ handler.at = "free"
    /\ handler' = Idle
    /\ record' = [record EXCEPT ![handler.r] = FreeRecord]
    /\ UNCHANGED <<inbox, client, notified, expired, overtaken>>

\* A reader of the mailbox finds the request too old, 1100 ms, and drops it with
\* its slot; its client stopped waiting long before.
Expire ==
    /\ inbox # <<>>
    /\ record[Head(inbox)].abandoned
    /\ inbox' = Tail(inbox)
    /\ expired' = expired \cup {Head(inbox)}
    /\ UNCHANGED <<record, client, handler, notified, overtaken>>

ClientStep  == RequestRefused \/ Woken \/ WaitOver \/ GiveUp \/ TakeLate \/ Return
HandlerStep == Execute \/ Complete \/ Give \/ FreeAbandoned \/ Expire

\* What the program does with a record freed under its feet is not followed.
IoNext ==
    /\ ~overtaken
    /\ (\E r \in Records : Request(r)) \/ ClientStep \/ HandlerStep

\* The wait is bounded, and both tasks run on when they can; the FSM task polls
\* the mailbox every 2 ms.
IoSpec ==
    /\ IoInit /\ [][IoNext]_iovars
    /\ WF_iovars(~overtaken /\ (Woken \/ WaitOver \/ GiveUp \/ TakeLate \/ Return))
    /\ WF_iovars(~overtaken /\ HandlerStep)

-----------------------------------------------------------------------------
(* What the protocol of the record must give.  A notification that overtakes *)
(* a request is excepted: the FSM task would have to stop between the unlock *)
(* and xTaskNotifyGive until the client's next request waits.                *)

\* the record is reached by
ByClient(r)  == client.r = r
ByHandler(r) == handler.at \in {"executed", "free"} /\ handler.r = r
ByInbox(r)   == \E i \in DOMAIN inbox : inbox[i] = r

\* A record is freed when its last user has done with it and not before: what
\* the client, the handler or a queued request still refers to is allocated, no
\* two requests share a record, and an abandoned one is not the client's any
\* more.
RecordsAreUsedWhileLive ==
    /\ \A r \in Records :
           /\ ByClient(r) \/ ByHandler(r) \/ ByInbox(r) => record[r].live
           /\ record[r].abandoned => ~ByClient(r)
           /\ ~(ByHandler(r) /\ ByInbox(r))
    /\ \A i, j \in DOMAIN inbox : inbox[i] = inbox[j] => i = j

\* A client that returns an answer returns that of its own request: the handler
\* has finished with its record; and what it is told to be done is the last word:
\* no earlier command, given up but still queued, is carried out after it.
AnswerIsOfTheRequest ==
    client.at = "answered" /\ ~overtaken =>
        /\ record[client.r].completed /\ record[client.r].result # "TIMEOUT"
        /\ inbox = <<>> /\ handler.at # "executed"

\* Every record comes back to the heap, whichever side gives up first; only one
\* whose request was dropped from the mailbox does not.
EveryRecordIsFreed ==
    \A r \in Records :
        record[r].live ~> \/ ~record[r].live
                          \/ r \in expired \/ overtaken

=============================================================================
