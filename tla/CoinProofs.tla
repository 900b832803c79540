------------------------------ MODULE CoinProofs ----------------------------
(* Theorems about CoinEvents, for a counter of any width and an acceptor    *)
(* that keeps any number of events.                                         *)
EXTENDS CoinEvents, FiniteSetTheorems, TLAPS

Flags ==
    /\ enabled \in BOOLEAN /\ valid \in BOOLEAN /\ accepting \in BOOLEAN
    /\ wrapped \in BOOLEAN /\ restarted \in BOOLEAN

Counts ==
    /\ last \in 0..Width - 1 /\ counter \in 0..Width - 1 /\ fresh \in 0..MaxFresh
    /\ buffer \in [1..Depth -> Events]

CoinTypes == Flags /\ Counts

\* the counter since the last poll: once round, it is one ahead of the events
CounterFollows ==
    valid /\ ~restarted =>
        /\ counter = IF wrapped THEN last + fresh + 1 - Width ELSE last + fresh
        /\ wrapped => counter > 0

\* what came since the last poll is new, what was there is not
NewestAreNew ==
    valid /\ ~restarted =>
        \A i \in 1..Depth : buffer[i] = "new" <=> i <= fresh

\* an acceptor switched on again has forgotten what was there
NothingOld ==
    valid /\ restarted => \A i \in 1..Depth : buffer[i] \in {"new", "none"}

\* The inductive invariant.
CoinInv ==
    /\ CoinTypes
    /\ valid => enabled
    /\ CounterFollows /\ NewestAreNew /\ NothingOld

-----------------------------------------------------------------------------

USE CoinAssumption DEF Events, CoinTypes

\* The remainder of a number below twice the divisor.
LEMMA OnceAround ==
  ASSUME NEW S \in Nat \ {0}, NEW y \in 0..2 * S - 1
  PROVE  y % S = IF y < S THEN y ELSE y - S
  OBVIOUS

LEMMA DeltaIs ==
  ASSUME NEW a \in 0..Width - 1, NEW b \in 0..Width - 1
  PROVE  /\ Delta(a, b) = IF b >= a THEN b - a ELSE b - a + Width
         /\ Delta(a, b) \in 0..Width - 1
<1> DEFINE y == b - a + Width
<1>1. Width \in Nat \ {0} /\ y \in 0..2 * Width - 1
  OBVIOUS
<1> HIDE DEF y
<1>2. y % Width = IF y < Width THEN y ELSE y - Width
  BY <1>1, OnceAround
<1> USE DEF y
<1> QED
  BY <1>2 DEF Delta

\* The difference of the counters is the number of events since the last poll,
\* and one more when the counter has gone round.
LEMMA DeltaCountsEvents ==
  ASSUME CoinInv, valid, ~restarted
  PROVE  Delta(last, counter) = IF wrapped THEN fresh + 1 ELSE fresh
<1>1. last \in 0..Width - 1 /\ counter \in 0..Width - 1 /\ fresh \in 0..MaxFresh
  BY DEF CoinInv, Counts
<1>2. Delta(last, counter) = IF counter >= last THEN counter - last ELSE counter - last + Width
  BY <1>1, DeltaIs
<1>3. CASE wrapped
  BY <1>1, <1>2, <1>3 DEF CoinInv, CounterFollows
<1>4. CASE ~wrapped
  BY <1>1, <1>2, <1>4 DEF CoinInv, CounterFollows
<1> QED
  BY <1>3, <1>4

LEMMA ReadNowIs ==
  ASSUME CoinInv
  PROVE  /\ ReadNow \subseteq 1..Depth
         /\ valid => \A i \in 1..Depth : i \in ReadNow <=> i <= Delta(last, counter)
<1>1. Delta(last, counter) \in Nat
  <2>1. last \in 0..Width - 1 /\ counter \in 0..Width - 1
    BY DEF CoinInv, Counts
  <2>2. Delta(last, counter) \in 0..Width - 1
    BY <2>1, DeltaIs
  <2> QED
    BY <2>2
<1>2. Clamped(Delta(last, counter)) = IF Delta(last, counter) > Depth THEN Depth ELSE Delta(last, counter)
  BY DEF Clamped
<1> QED
  BY <1>1, <1>2 DEF ReadNow, CoinInv

LEMMA CoinInitInv == CoinInit => CoinInv
<1> SUFFICES ASSUME CoinInit PROVE CoinInv
  OBVIOUS
<1>1. Flags
  BY DEF CoinInit, Flags
<1>2. Counts
  BY DEF CoinInit, Counts, Empty
<1> QED
  BY <1>1, <1>2 DEF CoinInit, CoinInv, CounterFollows, NewestAreNew, NothingOld

\* A driver that has started or stopped has no count to go by.
LEMMA SwitchInv ==
  ASSUME CoinInv, Start \/ Stop
  PROVE  CoinInv'
<1>1. UNCHANGED <<counter, buffer, fresh, wrapped, restarted>>
  BY DEF Start, Stop
<1>2. Flags'
  BY <1>1 DEF Start, Stop, driver, CounterForgotten, CoinInv, Flags
<1>3. last' \in {last, 0}
  BY DEF Start, Stop, driver, CounterForgotten
<1>4. Counts'
  BY <1>1, <1>3 DEF CoinInv, Counts
<1>5. CASE ~valid'
  BY <1>1, <1>2, <1>4, <1>5 DEF CoinInv, CounterFollows, NewestAreNew, NothingOld
<1>6. CASE UNCHANGED driver
  BY <1>1, <1>2, <1>4, <1>6 DEF driver, CoinInv, CounterFollows, NewestAreNew, NothingOld
<1> QED
  BY <1>5, <1>6 DEF Start, Stop, CounterForgotten

LEMMA PollInv ==
  ASSUME CoinInv, Poll
  PROVE  CoinInv'
<1>1. /\ enabled /\ enabled' = enabled /\ valid' = TRUE /\ last' = counter
      /\ buffer' = [i \in 1..Depth |-> Polled(i)]
      /\ fresh' = 0 /\ wrapped' = FALSE /\ restarted' = FALSE
      /\ accepting' = accepting /\ counter' = counter
  BY DEF Poll
<1>2. ASSUME NEW i \in 1..Depth
      PROVE  Polled(i) \in {"none", "read", "missed", "foreign"}
  <2>1. buffer[i] \in Events
    BY <1>2 DEF CoinInv, Counts
  <2>2. CASE buffer[i] = "new" /\ valid /\ ~restarted
    <3>1. i <= fresh
      BY <2>2, <1>2 DEF CoinInv, NewestAreNew
    <3>2. Delta(last, counter) \in {fresh, fresh + 1}
      BY <2>2, DeltaCountsEvents
    <3>3. i \in ReadNow
      BY <1>2, <2>2, <3>1, <3>2, ReadNowIs DEF CoinInv, Counts
    <3> QED
      BY <2>2, <3>3 DEF Polled
  <2> QED
    BY <2>1, <2>2 DEF Polled
<1>3. buffer' \in [1..Depth -> Events] /\ \A i \in 1..Depth : buffer'[i] # "new"
  BY <1>1, <1>2
<1>4. Counts'
  BY <1>1, <1>3 DEF CoinInv, Counts
<1>f. Flags'
  BY <1>1 DEF CoinInv, Flags
<1> QED
  BY <1>1, <1>3, <1>4, <1>f DEF CoinInv, Counts, CounterFollows, NewestAreNew, NothingOld

LEMMA InsertedInv ==
  ASSUME CoinInv, Inserted
  PROVE  CoinInv'
<1>1. /\ fresh < MaxFresh /\ fresh' = fresh + 1
      /\ counter' = IF counter = Width - 1 THEN 1 ELSE counter + 1
      /\ wrapped' = (wrapped \/ counter = Width - 1)
      /\ UNCHANGED <<enabled, valid, last, accepting, restarted>>
  BY DEF Inserted, CounterNext, driver
<1>2. buffer' = [i \in 1..Depth |->
                    IF i > 1 THEN buffer[i - 1]
                    ELSE IF enabled THEN "new" ELSE "foreign"]
  BY DEF Inserted
<1>3. buffer' \in [1..Depth -> Events]
  <2>1. \A i \in 1..Depth : i > 1 => i - 1 \in 1..Depth
    OBVIOUS
  <2> QED
    BY <1>2, <2>1 DEF CoinInv, Counts
<1>4. Counts'
  BY <1>1, <1>3 DEF CoinInv, Counts
<1>f. Flags'
  BY <1>1 DEF CoinInv, Flags
<1>5. ASSUME valid, ~restarted
      PROVE  /\ counter' = IF wrapped' THEN last + fresh' + 1 - Width ELSE last + fresh'
             /\ wrapped' => counter' > 0
  <2>1. last \in 0..Width - 1 /\ counter \in 0..Width - 1 /\ fresh \in 0..MaxFresh
    BY DEF CoinInv, Counts
  <2>2. CASE wrapped
    <3>1. counter = last + fresh + 1 - Width /\ wrapped'
      BY <1>1, <1>5, <2>2 DEF CoinInv, CounterFollows
    <3> QED
      BY <1>1, <2>1, <3>1
  <2>3. CASE ~wrapped
    <3>1. counter = last + fresh /\ (wrapped' <=> counter = Width - 1)
      BY <1>1, <1>5, <2>3 DEF CoinInv, CounterFollows
    <3> QED
      BY <1>1, <2>1, <3>1
  <2> QED
    BY <2>2, <2>3
<1>g. CounterFollows'
  BY <1>1, <1>5 DEF CounterFollows
<1>6. ASSUME valid, ~restarted, NEW i \in 1..Depth
      PROVE  buffer'[i] = "new" <=> i <= fresh'
  <2>1. CASE i = 1
    BY <1>1, <1>2, <1>6, <2>1 DEF CoinInv, Counts
  <2>2. CASE i > 1
    <3>1. i - 1 \in 1..Depth /\ buffer'[i] = buffer[i - 1]
      BY <1>2, <2>2
    <3>2. buffer[i - 1] = "new" <=> i - 1 <= fresh
      BY <1>6, <3>1 DEF CoinInv, NewestAreNew
    <3> QED
      BY <1>1, <3>1, <3>2 DEF CoinInv, Counts
  <2> QED
    BY <2>1, <2>2
<1>7. NewestAreNew'
  BY <1>1, <1>6 DEF NewestAreNew
<1>8. ASSUME valid, restarted, NEW i \in 1..Depth
      PROVE  buffer'[i] \in {"new", "none"}
  <2>1. CASE i = 1
    BY <1>2, <1>8, <2>1 DEF CoinInv
  <2>2. CASE i > 1
    <3>1. i - 1 \in 1..Depth /\ buffer'[i] = buffer[i - 1]
      BY <1>2, <2>2
    <3> QED
      BY <1>8, <3>1 DEF CoinInv, NothingOld
  <2> QED
    BY <2>1, <2>2
<1>9. NothingOld'
  BY <1>1, <1>8 DEF NothingOld
<1> QED
  BY <1>1, <1>4, <1>f, <1>g, <1>7, <1>9 DEF CoinInv

LEMMA PowerCycleInv ==
  ASSUME CoinInv, PowerCycle
  PROVE  CoinInv'
<1>1. /\ accepting' \in BOOLEAN /\ wrapped' = FALSE /\ restarted' = TRUE
      /\ counter' = 0 /\ buffer' = Empty
      /\ UNCHANGED <<enabled, valid, last, fresh>>
  BY DEF PowerCycle, driver
<1>2. Flags'
  BY <1>1 DEF CoinInv, Flags
<1>3. Counts'
  BY <1>1 DEF CoinInv, Counts, Empty
<1>4. NothingOld'
  BY <1>1 DEF NothingOld, Empty
<1> QED
  BY <1>1, <1>2, <1>3, <1>4 DEF CoinInv, CounterFollows, NewestAreNew

\* The inductive invariant of driver and acceptor: what the driver will read
\* next against what has happened since it last read.
THEOREM CoinInvariance == CoinSpec => []CoinInv
<1>1. CoinInv /\ [CoinNext]_cvars => CoinInv'
  <2> SUFFICES ASSUME CoinInv, [CoinNext]_cvars PROVE CoinInv'
    OBVIOUS
  <2>1. CASE UNCHANGED cvars
    BY <2>1 DEF cvars, driver, acceptor, CoinInv, Flags, Counts, CounterFollows,
                NewestAreNew, NothingOld
  <2> QED
    BY <2>1, SwitchInv, PollInv, InsertedInv, PowerCycleInv DEF CoinNext
<1> QED
  BY <1>1, CoinInitInv, PTL DEF CoinSpec

\* Driver, acceptor and histories keep their types, and no more events are read
\* than the acceptor keeps (cctalk_handle_buffered_credit).
THEOREM CoinTypeCorrect == CoinSpec => []CoinTypeOK
<1>1. CoinInv => CoinTypeOK
  BY ReadNowIs DEF CoinInv, Flags, Counts, CoinTypeOK
<1> QED
  BY <1>1, CoinInvariance, PTL

\* An event is read again at most once for each time the counter goes round
\* (cctalk_event_counter_delta).
THEOREM NoCoinTwice == CoinSpec => []OnlyNewEventsAreRead
<1>1. CoinInv => OnlyNewEventsAreRead
  <2> DEFINE again == {i \in ReadNow : buffer[i] \notin {"new", "none"}}
  <2> SUFFICES ASSUME CoinInv
               PROVE  Cardinality(again) <= IF wrapped THEN 1 ELSE 0
    BY DEF OnlyNewEventsAreRead
  <2>1. again \subseteq 1..Depth
    BY ReadNowIs
  <2>2. CASE again = {}
    BY <2>2, FS_EmptySet
  <2>3. CASE again # {}
    <3>1. valid /\ ~restarted
      BY <2>1, <2>3 DEF ReadNow, CoinInv, NothingOld
    <3>2. \A i \in again : i > fresh /\ i <= Delta(last, counter)
      BY <2>1, <3>1, ReadNowIs DEF CoinInv, Counts, NewestAreNew
    <3>3. wrapped /\ again \subseteq {fresh + 1}
      BY <2>1, <2>3, <3>1, <3>2, DeltaCountsEvents DEF CoinInv, Counts
    <3>4. again = {fresh + 1}
      BY <2>3, <3>3
    <3> QED
      BY <3>3, <3>4, FS_Singleton
  <2> QED
    BY <2>2, <2>3
<1> QED
  BY <1>1, CoinInvariance, PTL

\* What the next poll reads has every new event the acceptor still keeps
\* (cctalk_handle_buffered_credit).
THEOREM NoCoinPassedOver == CoinSpec => []NoNewEventIsPassedOver
<1>1. CoinInv => NoNewEventIsPassedOver
  <2> SUFFICES ASSUME CoinInv, valid, ~restarted, NEW i \in 1..Depth, buffer[i] = "new"
               PROVE  i \in ReadNow
    BY DEF NoNewEventIsPassedOver
  <2>1. i <= fresh
    BY DEF CoinInv, NewestAreNew
  <2> QED
    BY <2>1, ReadNowIs, DeltaCountsEvents DEF CoinInv, Counts
<1> QED
  BY <1>1, CoinInvariance, PTL

=============================================================================
