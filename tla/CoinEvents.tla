------------------------------ MODULE CoinEvents -----------------------------
(***************************************************************************)
(* The coins: the acceptor counts its events and keeps the last five, the  *)
(* driver (components/cctalk/cctalk_driver.c) asks for them every 250 ms   *)
(* and reads as many as the counter says are new.  Whether an event is a   *)
(* coin or an error makes no difference to that.  A poll without an        *)
(* answer, or without the lock, is no step.  What becomes of a coin that   *)
(* was read, the name of its channel and the mailbox, is left out.         *)
(***************************************************************************)
EXTENDS Integers, FiniteSets

CONSTANTS
    Width,     \* values of the counter: 256, a uint8_t
    Depth,     \* events the acceptor keeps: 5
    MaxFresh   \* bound: events between two polls

ASSUME CoinAssumption ==
    /\ Depth \in Nat \ {0} /\ MaxFresh \in Nat
    /\ Width \in Nat /\ MaxFresh + 2 < Width /\ Depth + 2 < Width

VARIABLES
    enabled,   \* s_acceptor_enabled: the driver polls
    valid,     \* s_event_counter_valid
    last,      \* s_last_event_counter
    accepting, \* environment: the acceptor takes coins
    counter,   \* environment: its event counter
    buffer,    \* environment: its events, newest first, and what became of them
    fresh,     \* history: events since the last poll
    wrapped,   \* history: the counter went round since the last poll
    restarted  \* history: the acceptor was switched on again since the last poll

driver   == <<enabled, valid, last>>
acceptor == <<accepting, counter, buffer>>
cvars    == <<driver, acceptor, fresh, wrapped, restarted>>

Events == {"none", "new", "read", "missed", "foreign"}

Empty == [i \in 1..Depth |-> "none"]

CoinInit ==
    /\ enabled = FALSE /\ valid = FALSE /\ last = 0
    /\ accepting = FALSE /\ counter = 0 /\ buffer = Empty
    /\ fresh = 0 /\ wrapped = FALSE /\ restarted = FALSE

\* bug: the difference is computed in a wider type
DeltaSigned(previous, current) == current - previous

\* cctalk_event_counter_delta
Delta(previous, current) == (current - previous + Width) % Width

\* bug: all the events counted are read
Unclamped(n) == n

\* "BUFFER overflow: elaboro ultimi 5"
Clamped(n) == IF n > Depth THEN Depth ELSE n

\* the events the next poll reads
ReadNow ==
    IF enabled /\ valid THEN 1..Clamped(Delta(last, counter)) ELSE {}

\* bug: the count of the session before goes on
CounterKept == valid

CounterForgotten == FALSE

-----------------------------------------------------------------------------
(* The driver. *)

\* cctalk_driver_start_acceptor: one of the three commands without an answer
\* leaves the driver as it was, and the acceptor perhaps on
Start ==
    /\ UNCHANGED <<counter, buffer, fresh, wrapped, restarted>>
    /\ \/ /\ enabled' = TRUE /\ accepting' = TRUE
          /\ valid' = CounterForgotten
          /\ last' = IF valid' THEN last ELSE 0
       \/ accepting' = TRUE /\ UNCHANGED driver

\* cctalk_driver_stop_acceptor: the driver stops, the acceptor if it heard
Stop ==
    /\ enabled' = FALSE
    /\ accepting' \in {accepting, FALSE}
    /\ valid' = CounterForgotten
    /\ last' = IF valid' THEN last ELSE 0
    /\ UNCHANGED <<counter, buffer, fresh, wrapped, restarted>>

\* what a poll makes of an event; one it could not tell to be new is missed
Polled(i) ==
    IF i \in ReadNow /\ buffer[i] # "none" THEN "read"
    ELSE IF buffer[i] = "new" /\ (~valid \/ restarted) THEN "missed"
    ELSE buffer[i]

\* cctalk_poll_once with an answer and cctalk_handle_buffered_credit: the first
\* poll after a start only notes the count
Poll ==
    /\ enabled
    /\ valid' = TRUE /\ last' = counter
    /\ buffer' = [i \in 1..Depth |-> Polled(i)]
    /\ fresh' = 0 /\ wrapped' = FALSE /\ restarted' = FALSE
    /\ UNCHANGED <<enabled, accepting, counter>>

-----------------------------------------------------------------------------
(* The acceptor: its counter is 0 only after power-on, and 1 comes after the *)
(* last value. *)

CounterNext == IF counter = Width - 1 THEN 1 ELSE counter + 1

\* a coin or an error; one while the driver is off is nobody's
Inserted ==
    /\ accepting /\ fresh < MaxFresh
    /\ counter' = CounterNext
    /\ buffer' = [i \in 1..Depth |->
                     IF i > 1 THEN buffer[i - 1]
                     ELSE IF enabled THEN "new" ELSE "foreign"]
    /\ fresh' = fresh + 1
    /\ wrapped' = (wrapped \/ counter = Width - 1)
    /\ UNCHANGED <<driver, accepting, restarted>>

PowerCycle ==
    /\ accepting' \in BOOLEAN
    /\ counter' = 0 /\ buffer' = Empty
    /\ wrapped' = FALSE /\ restarted' = TRUE
    /\ UNCHANGED <<driver, fresh>>

CoinNext == Start \/ Stop \/ Poll \/ Inserted \/ PowerCycle

CoinSpec == CoinInit /\ [][CoinNext]_cvars

-----------------------------------------------------------------------------

\* type correctness; the driver never reads past the events it was sent
CoinTypeOK ==
    /\ enabled \in BOOLEAN /\ valid \in BOOLEAN /\ last \in 0..Width - 1
    /\ accepting \in BOOLEAN /\ counter \in 0..Width - 1
    /\ buffer \in [1..Depth -> Events]
    /\ fresh \in 0..MaxFresh /\ wrapped \in BOOLEAN /\ restarted \in BOOLEAN
    /\ ReadNow \subseteq 1..Depth

\* No coin is credited twice, nor one that fell in while the acceptor was to be
\* off: what the next poll will read is new.  When the counter goes round it
\* skips 0, the driver's difference does not, and one older event is read again.
OnlyNewEventsAreRead ==
    Cardinality({i \in ReadNow : buffer[i] \notin {"new", "none"}})
        <= IF wrapped THEN 1 ELSE 0

\* No coin taken while the driver polls is passed over, also when the counter
\* goes round or more events came than the acceptor keeps: the next poll reads
\* every new event there still is.  Excepted are the events before the first
\* poll after a start and those of an acceptor switched on again.
NoNewEventIsPassedOver ==
    enabled /\ valid /\ ~restarted =>
        \A i \in 1..Depth : buffer[i] = "new" => i \in ReadNow

=============================================================================
