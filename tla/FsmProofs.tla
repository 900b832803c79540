------------------------------ MODULE FsmProofs -----------------------------
(***************************************************************************)
(* Proofs about the state machine, for every table of programs, cap,       *)
(* payment, tick and timeout.                                              *)
(***************************************************************************)
EXTENDS Fsm, TLAPS

-----------------------------------------------------------------------------
(* The operators on the purse *)

WithinCap(p) ==
    /\ Held(p.coins) <= MaxCredit
    /\ \A b \in Buckets : p.cents[b] < CentsPerCredit

TotalsAgree(p) ==
    /\ p.credit = p.coins["ecd"] + p.vcd
    /\ p.vcd \in {0, p.coins["card"] + p.coins["qr"]}

GoodPurse(p) == p \in Purse /\ WithinCap(p) /\ TotalsAgree(p)

\* Division by the cents of a credit stays in the naturals.
LEMMA DivisionType ==
    ASSUME NEW n \in Nat, NEW d \in Nat \ {0}
    PROVE  n \div d \in Nat /\ n % d \in 0..d - 1
  OBVIOUS

\* Recomputing the totals makes any buckets within the cap a good purse.
LEMMA RecalculatedIsGood ==
    ASSUME NEW coins \in [Buckets -> Nat], NEW cents \in [Buckets -> Nat],
           Held(coins) <= MaxCredit,
           \A b \in Buckets : cents[b] < CentsPerCredit
    PROVE  GoodPurse(Recalculated(coins, cents))
  BY DEF GoodPurse, Purse, WithinCap, TotalsAgree, Recalculated, Held, Buckets

\* fsm_add_credit_from_cents keeps the purse good, whatever the payment.
LEMMA AddCentsIsGood ==
    ASSUME NEW p, GoodPurse(p), NEW s, NEW amount \in Nat
    PROVE  GoodPurse(AddCents(p, s, amount))
  <1> DEFINE b       == BucketOf(s)
             total   == p.cents[b] + amount
             credits == total \div CentsPerCredit
             room    == Available(p.coins)
             coins   == [p.coins EXCEPT ![b] = @ + Smaller(credits, room)]
             residue == Residue(total, room)
             cents   == [p.cents EXCEPT ![b] = residue]
  <1>1. CASE amount <= 0
    BY <1>1 DEF AddCents
  <1>2. CASE amount > 0
    <2>1. b \in Buckets
      BY DEF BucketOf, Buckets
    <2>2. /\ p.coins \in [Buckets -> Nat] /\ p.cents \in [Buckets -> Nat]
          /\ Held(p.coins) <= MaxCredit
          /\ \A c \in Buckets : p.cents[c] < CentsPerCredit
      BY DEF GoodPurse, Purse, WithinCap
    <2>3. total \in Nat
      BY <2>1, <2>2
    <2>4. credits \in Nat /\ total % CentsPerCredit \in 0..CentsPerCredit - 1
      BY <2>3, DivisionType, CreditAssumption
    <2>5. room \in Nat /\ Held(p.coins) + room = MaxCredit
      BY <2>2, CreditAssumption DEF Available, Held, Buckets
    <2>6. Smaller(credits, room) \in Nat /\ Smaller(credits, room) <= room
      BY <2>4, <2>5 DEF Smaller
    <2>7. coins \in [Buckets -> Nat]
      BY <2>1, <2>2, <2>6
    <2>8. Held(coins) = Held(p.coins) + Smaller(credits, room)
      <3> HIDE DEF credits, room
      <3> QED BY <2>1, <2>2, <2>6 DEF Held, Buckets
    <2>9. Held(coins) <= MaxCredit
      <3> HIDE DEF credits, room, coins
      <3>1. Held(p.coins) \in Nat
        BY <2>2 DEF Held, Buckets
      <3> QED BY <3>1, <2>5, <2>6, <2>8, CreditAssumption
    <2>9a. residue \in 0..CentsPerCredit - 1
      BY <2>4, CreditAssumption DEF Residue
    <2>10. cents \in [Buckets -> Nat] /\ \A c \in Buckets : cents[c] < CentsPerCredit
      <3> HIDE DEF residue
      <3> QED BY <2>1, <2>2, <2>9a, CreditAssumption
    <2>11. AddCents(p, s, amount) = Recalculated(coins, cents)
      BY <1>2 DEF AddCents
    <2> HIDE DEF coins, cents
    <2> QED BY <2>7, <2>9, <2>10, <2>11, RecalculatedIsGood
  <1> QED BY <1>1, <1>2

\* fsm_try_charge_program_cycle takes exactly the cost, no bucket goes below
\* zero and coins are taken first.
LEMMA ChargedTakesTheCost ==
    ASSUME NEW p, GoodPurse(p), NEW cost \in Nat, CanCharge(p, cost)
    PROVE  /\ GoodPurse(Charged(p, cost))
           /\ Held(p.coins) - Held(Charged(p, cost).coins) = cost
           /\ \A b \in Buckets : Charged(p, cost).coins[b] <= p.coins[b]
  <1> DEFINE e == FromEcd(p.coins, cost)
             c == FromCard(p.coins, cost)
             q == FromQr(p.coins, cost)
             coins == [b \in Buckets |-> p.coins[b] - CASE b = "ecd"  -> e
                                                        [] b = "card" -> c
                                                        [] b = "qr"   -> q]
  <1>1. /\ p.coins \in [Buckets -> Nat] /\ p.cents \in [Buckets -> Nat]
        /\ Held(p.coins) <= MaxCredit
        /\ \A b \in Buckets : p.cents[b] < CentsPerCredit
    BY DEF GoodPurse, Purse, WithinCap
  <1>2. /\ p.coins["ecd"] \in Nat /\ p.coins["card"] \in Nat /\ p.coins["qr"] \in Nat
    BY <1>1 DEF Buckets
  <1>3. e \in 0..p.coins["ecd"] /\ e <= cost
    BY <1>2 DEF FromEcd, Smaller
  <1>4. c \in 0..p.coins["card"] /\ e + c <= cost
    BY <1>2, <1>3 DEF FromCard, Smaller
  <1>5. q \in 0..p.coins["qr"]
    BY <1>2, <1>3, <1>4 DEF FromQr, Smaller
  <1>6. e + c + q = cost
    BY DEF CanCharge
  <1> HIDE DEF e, c, q
  <1>7. /\ coins["ecd"] = p.coins["ecd"] - e
        /\ coins["card"] = p.coins["card"] - c
        /\ coins["qr"] = p.coins["qr"] - q
    BY DEF Buckets
  <1>8. coins \in [Buckets -> Nat] /\ \A b \in Buckets : coins[b] <= p.coins[b]
    BY <1>2, <1>3, <1>4, <1>5, <1>7 DEF Buckets
  <1> HIDE DEF coins
  <1>9. Held(p.coins) - Held(coins) = cost /\ Held(coins) <= MaxCredit
    BY <1>1, <1>2, <1>3, <1>4, <1>5, <1>6, <1>7, CreditAssumption DEF Held
  <1>10. Charged(p, cost) = Recalculated(coins, p.cents)
    BY DEF Charged, coins, e, c, q
  <1>11. GoodPurse(Charged(p, cost))
    BY <1>1, <1>8, <1>9, <1>10, RecalculatedIsGood
  <1> QED BY <1>8, <1>9, <1>10, <1>11 DEF Recalculated

\* The purses left by the end of the virtual credit, by the timeout and by the
\* removal of a tag are good, and hold all the coins.
LEMMA DroppingIsGood ==
    ASSUME NEW p, GoodPurse(p)
    PROVE  \A r \in {WithoutVirtual(p), RetainedEcd(p), VirtualHidden(p)} :
                GoodPurse(r) /\ r.coins["ecd"] = p.coins["ecd"]
  <1>1. /\ p.coins \in [Buckets -> Nat] /\ p.cents \in [Buckets -> Nat]
        /\ Held(p.coins) <= MaxCredit
        /\ \A b \in Buckets : p.cents[b] < CentsPerCredit
    BY DEF GoodPurse, Purse, WithinCap
  <1>2. /\ p.coins["ecd"] \in Nat /\ p.coins["card"] \in Nat /\ p.coins["qr"] \in Nat
    BY <1>1 DEF Buckets
  <1> DEFINE coins == [b \in Buckets |-> IF b = "ecd" THEN p.coins[b] ELSE 0]
             cents == [b \in Buckets |-> IF b = "ecd" THEN p.cents[b] ELSE 0]
             none  == [b \in Buckets |-> 0]
  <1>3. coins \in [Buckets -> Nat] /\ coins["ecd"] = p.coins["ecd"]
    BY <1>1 DEF Buckets
  <1>4. Held(coins) <= MaxCredit
    BY <1>1, <1>2, CreditAssumption DEF Held, Buckets
  <1>5. cents \in [Buckets -> Nat] /\ \A b \in Buckets : cents[b] < CentsPerCredit
    BY <1>1, CreditAssumption DEF Buckets
  <1>6. none \in [Buckets -> Nat] /\ \A b \in Buckets : none[b] < CentsPerCredit
    BY CreditAssumption
  <1>7. /\ WithoutVirtual(p) = Recalculated(coins, cents)
        /\ RetainedEcd(p) = Recalculated(coins, none)
    BY DEF WithoutVirtual, RetainedEcd
  <1>8. GoodPurse(VirtualHidden(p)) /\ VirtualHidden(p).coins = p.coins
    BY <1>1, <1>2 DEF VirtualHidden, GoodPurse, Purse, WithinCap, TotalsAgree
  <1> HIDE DEF coins, cents, none
  <1>9. GoodPurse(WithoutVirtual(p)) /\ GoodPurse(RetainedEcd(p))
    BY <1>3, <1>4, <1>5, <1>6, <1>7, RecalculatedIsGood
  <1> QED BY <1>3, <1>7, <1>8, <1>9 DEF Recalculated

\* The purse of a machine just started is good.
LEMMA EmptyIsGood == GoodPurse(EmptyPurse)
  BY CreditAssumption
     DEF GoodPurse, Purse, WithinCap, TotalsAgree, EmptyPurse, Recalculated, Held, Buckets

-----------------------------------------------------------------------------
(* Type correctness *)

\* The operators that compute times stay in the naturals.
LEMMA TimesType ==
    /\ \A rest, oldDuration, newDuration, oldPrice \in Nat, newPrice \in Nat \ {0} :
          Scaled(rest, oldDuration, oldPrice, newDuration, newPrice) \in Nat
    /\ \A a, b \in Nat : OrKeep(a, b) \in Nat
    /\ \A b \in Nat : OrKeep(b, 1) \in Nat \ {0}
    /\ TypeOK => \A dt \in Nat : Inactive(dt) \in Nat
  <1>1. ASSUME NEW rest \in Nat, NEW oldDuration \in Nat, NEW newDuration \in Nat,
               NEW oldPrice \in Nat, NEW newPrice \in Nat \ {0}
        PROVE  Scaled(rest, oldDuration, oldPrice, newDuration, newPrice) \in Nat
    <2> DEFINE n == rest * newDuration * oldPrice
               d == oldDuration * newPrice
    <2>1. CASE oldDuration > 0 /\ newDuration > 0
      <3>1. n \in Nat
        OBVIOUS
      <3>2. d \in Nat \ {0}
        BY <2>1
      <3>3. n \div d \in Nat
        <4> HIDE DEF n, d
        <4> QED BY <3>1, <3>2, DivisionType
      <3> QED BY <2>1, <3>3 DEF Scaled
    <2>2. CASE ~(oldDuration > 0 /\ newDuration > 0)
      BY <2>2 DEF Scaled
    <2> QED BY <2>1, <2>2
  <1>2. /\ \A a, b \in Nat : OrKeep(a, b) \in Nat
        /\ \A b \in Nat : OrKeep(b, 1) \in Nat \ {0}
    BY DEF OrKeep
  <1>3. TypeOK => \A dt \in Nat : Inactive(dt) \in Nat
    BY FsmAssumption DEF TypeOK, CycleTypeOK, Inactive, Smaller
  <1> QED BY <1>1, <1>2, <1>3

\* The context is typed when fsm_init and the FSM task have prepared it.
LEMMA TypeInit == Init => TypeOK
  <1> SUFFICES ASSUME Init PROVE TypeOK
    OBVIOUS
  <1>1. EmptyPurse \in Purse
    BY EmptyIsGood DEF GoodPurse
  <1>2. DefaultPause \in Nat
    BY FsmAssumption
  <1> QED BY <1>1, <1>2 
     DEF Init, TypeOK, SessionTypeOK, CycleTypeOK, CardTypeOK, States, Sources, Codes,
         NothingPending, Requests

-----------------------------------------------------------------------------
(* The purse, whatever happens *)

\* Writing into the stored total the sum it already has changes nothing.
LEMMA CreditRestored ==
    ASSUME NEW p, GoodPurse(p), NEW c, c = p.coins["ecd"] + p.vcd
    PROVE  [p EXCEPT !.credit = c] = p
  BY DEF GoodPurse, TotalsAgree, Purse

\* FSM_EVENT_PROGRAM_STOP rewrites the stored credit with the value it has.
LEMMA StopNowKeepsThePurse ==
    ASSUME GoodPurse(purse), StopNow
    PROVE  purse' = purse
  <1>1. \/ purse' = purse
        \/ purse' = [purse EXCEPT !.credit = purse.coins["ecd"] + purse.vcd]
        \/ purse' = [purse EXCEPT !.credit = purse.credit]
    BY DEF StopNow
  <1>2. purse.credit = purse.coins["ecd"] + purse.vcd
    BY DEF GoodPurse, TotalsAgree
  <1> QED BY <1>1, <1>2, CreditRestored

\* The zero written when a cycle ends without credit is the value it replaces.
LEMMA ExhaustedKeepsThePurse ==
    ASSUME GoodPurse(purse), NEW dt, TickExhausted(dt)
    PROVE  purse' = purse
  <1>1. purse.coins["ecd"] \in Nat /\ purse.vcd \in Nat
    BY DEF GoodPurse, Purse, Buckets
  <1>2. purse.coins["ecd"] + purse.vcd = 0
    BY <1>1 DEF TickExhausted, Spendable
  <1> QED BY <1>2, CreditRestored DEF TickExhausted

\* All a step can do to the purse.
PurseMoves ==
    \/ purse' = purse
    \/ \E s \in Sources, amount \in Amounts : purse' = AddCents(purse, s, amount)
    \/ \E cost \in Nat : CanCharge(purse, cost) /\ purse' = Charged(purse, cost)
    \/ purse' \in {WithoutVirtual(purse), RetainedEcd(purse), VirtualHidden(purse),
                   EmptyPurse}

\* Every step of the machine leaves the purse as it is or makes one of the
\* moves of PurseMoves.
LEMMA EveryStepMovesThePurse ==
    ASSUME TypeOK, GoodPurse(purse), [Next]_vars
    PROVE  PurseMoves
  <1> USE DEF PurseMoves
  <1>1. ASSUME NEW tag \in OpenSources, Activity(tag)
        PROVE  PurseMoves
    BY <1>1 DEF Activity
  <1>2. CASE QrScanned
    BY <1>2 DEF QrScanned
  <1>3. ASSUME NEW tag \in CoinTags, NEW amount \in Amounts, CoinInserted(tag, amount)
        PROVE  PurseMoves
    BY <1>3 DEF CoinInserted, Sources
  <1>4. ASSUME NEW code \in QrCodes, NEW amount \in Amounts, QrCredited(code, amount)
        PROVE  PurseMoves
    BY <1>4 DEF QrCredited, Sources
  <1>5. ASSUME NEW amount \in Amounts, CardCredited(amount)
        PROVE  PurseMoves
    BY <1>5 DEF CardCredited, Sources
  <1>6. ASSUME NEW p \in Programs, NEW ok \in BOOLEAN, SelectByCard(p, ok)
        PROVE  PurseMoves
    BY <1>6 DEF SelectByCard
  <1>7. ASSUME NEW p \in Programs, SelectAndStart(p)
        PROVE  PurseMoves
    BY <1>7, FsmAssumption DEF SelectAndStart, LoadProgram
  <1>8. ASSUME NEW p \in Programs, SelectUnaffordable(p)
        PROVE  PurseMoves
    BY <1>8 DEF SelectUnaffordable
  <1>9. ASSUME NEW match \in BOOLEAN, NEW ok \in BOOLEAN, VendApproved(match, ok)
        PROVE  PurseMoves
    BY <1>9 DEF VendApproved, TypeOK, CardTypeOK, Requests
  <1>10. CASE VendDenied
    BY <1>10 DEF VendDenied
  <1>11. CASE ProgramStopped
    BY <1>11, StopNowKeepsThePurse DEF ProgramStopped
  <1>12. CASE StopAfterCycle
    BY <1>12 DEF StopAfterCycle
  <1>13. CASE PauseToggled
    BY <1>13 DEF PauseToggled
  <1>14. ASSUME NEW p \in Programs, ProgramSwitched(p)
         PROVE  PurseMoves
    BY <1>14 DEF ProgramSwitched
  <1>15. ASSUME NEW aux \in EndedAux, CreditEnded(aux)
         PROVE  PurseMoves
    BY <1>15 DEF CreditEnded
  <1>16. CASE SystemError
    BY <1>16 DEF SystemError
  <1>17. CASE SystemRun
    BY <1>17 DEF SystemRun
  <1>18. CASE LvglTestEntered
    BY <1>18 DEF LvglTestEntered
  <1>19. CASE LvglTestExited
    BY <1>19 DEF LvglTestExited
  <1>20. CASE TagRemovedInProgram
    BY <1>20 DEF TagRemovedInProgram
  <1>21. CASE TagRemovedInCredit
    BY <1>21 DEF TagRemovedInCredit
  <1>22. ASSUME NEW dt \in Elapsed, TickWaiting(dt)
         PROVE  PurseMoves
    BY <1>22 DEF TickWaiting
  <1>23. ASSUME NEW dt \in Elapsed, TickCreditTimeout(dt)
         PROVE  PurseMoves
    BY <1>23 DEF TickCreditTimeout
  <1>24. ASSUME NEW dt \in Elapsed, TickRunning(dt)
         PROVE  PurseMoves
    BY <1>24 DEF TickRunning
  <1>25. ASSUME NEW dt \in Elapsed, TickRenew(dt)
         PROVE  PurseMoves
    BY <1>25 DEF TickRenew, MayRenew, TypeOK, CycleTypeOK
  <1>26. ASSUME NEW dt \in Elapsed, TickExhausted(dt)
         PROVE  PurseMoves
    BY <1>26, ExhaustedKeepsThePurse
  <1>27. ASSUME NEW dt \in Elapsed, TickStop(dt)
         PROVE  PurseMoves
    BY <1>27, StopNowKeepsThePurse DEF TickStop
  <1>28. ASSUME NEW dt \in Elapsed, TickPaused(dt)
         PROVE  PurseMoves
    BY <1>28 DEF TickPaused
  <1>29. CASE UNCHANGED vars
    BY <1>29 DEF vars
  <1> QED
    BY <1>1, <1>2, <1>3, <1>4, <1>5, <1>6, <1>7, <1>8, <1>9, <1>10, <1>11, <1>12, <1>13,
       <1>14, <1>15, <1>16, <1>17, <1>18, <1>19, <1>20, <1>21, <1>22, <1>23, <1>24,
       <1>25, <1>26, <1>27, <1>28, <1>29
       DEF Next, Input, Payment, Choice, Command, Service, Removal, Time, Tick

\* So no step makes a good purse a bad one.
LEMMA PurseStep ==
    ASSUME TypeOK, GoodPurse(purse), [Next]_vars
    PROVE  GoodPurse(purse')
  <1>1. PurseMoves
    BY EveryStepMovesThePurse
  <1>2. ASSUME NEW s \in Sources, NEW amount \in Amounts,
               purse' = AddCents(purse, s, amount)
        PROVE  GoodPurse(purse')
    BY <1>2, FsmAssumption, AddCentsIsGood
  <1>3. ASSUME NEW cost \in Nat, CanCharge(purse, cost), purse' = Charged(purse, cost)
        PROVE  GoodPurse(purse')
    BY <1>3, ChargedTakesTheCost
  <1>4. CASE purse' \in {WithoutVirtual(purse), RetainedEcd(purse), VirtualHidden(purse),
                        EmptyPurse}
    BY <1>4, DroppingIsGood, EmptyIsGood
  <1> QED BY <1>1, <1>2, <1>3, <1>4 DEF PurseMoves

\* fsm_reset_runtime_locked leaves the fields of the cycle typed.
LEMMA ResetCycleType ==
    ASSUME CycleTypeOK, ResetCycle
    PROVE  CycleTypeOK'
  BY DEF CycleTypeOK, ResetCycle

\* fsm_reset_card_vend_pending leaves an empty request.
LEMMA ForgetVendType ==
    ASSUME ForgetVend
    PROVE  vendPending' \in BOOLEAN /\ pending' \in Requests
  BY DEF ForgetVend, NothingPending, Requests

\* FSM_EVENT_PROGRAM_STOP leaves the session, the cycle and the card fields typed.
LEMMA StopNowType ==
    ASSUME TypeOK, purse' \in Purse, StopNow
    PROVE  TypeOK'
  <1>1. SessionTypeOK'
    BY DEF TypeOK, SessionTypeOK, StopNow, ResetPayer, CloseSession, Rest, States, Sources,
           Codes
  <1>2. CycleTypeOK'
    BY DEF TypeOK, CycleTypeOK, StopNow, ResetCycle
  <1>3. CardTypeOK'
    BY DEF TypeOK, CardTypeOK, StopNow
  <1> QED BY <1>1, <1>2, <1>3 DEF TypeOK

\* PROGRAM_SWITCH gives the program a time not below the time already used.
LEMMA SwitchedTargetType ==
    ASSUME TypeOK, NEW p \in Programs, ProgramSwitched(p)
    PROVE  target' \in Nat /\ target' >= elapsed
  <1>1. TimeLeft \in Nat /\ target \in Nat /\ elapsed \in Nat /\ price \in Nat
    BY DEF TypeOK, CycleTypeOK, TimeLeft
  <1>2. Duration[p] \in Nat /\ Price[p] \in Nat
    BY FsmAssumption
  <1>3. OrKeep(price, 1) \in Nat /\ OrKeep(Price[p], 1) \in Nat \ {0}
    BY <1>1, <1>2, TimesType
  <1>4. ScaledRest(p) \in Nat
    BY <1>1, <1>2, <1>3, TimesType DEF ScaledRest
  <1>5. target' = elapsed + ScaledRest(p)
    BY DEF ProgramSwitched, SwitchedTarget
  <1> QED BY <1>1, <1>4, <1>5

\* Every step keeps the context typed: one case per action.
LEMMA TypeStep ==
    ASSUME TypeOK, GoodPurse(purse), [Next]_vars
    PROVE  TypeOK'
  <1>0. purse' \in Purse
    BY PurseStep DEF GoodPurse
  <1>1. ASSUME NEW tag \in OpenSources, Activity(tag)
        PROVE  TypeOK'
    <2>1. SessionTypeOK'
      BY <1>1, FsmAssumption
         DEF TypeOK, SessionTypeOK, OpenState, States, Sources, Codes, Activity
    <2>2. CycleTypeOK'
      BY <1>1 DEF TypeOK, CycleTypeOK, OpenState, cycle, Activity
    <2>3. CardTypeOK'
      BY <1>1 DEF TypeOK, CardTypeOK, card, Activity
    <2> QED BY <1>0, <2>1, <2>2, <2>3 DEF TypeOK
  <1>2. CASE QrScanned
    <2>1. SessionTypeOK'
      BY <1>2
         DEF TypeOK, SessionTypeOK, States, Sources, Codes, ResetPayer, Active, Resting,
             QrScanned
    <2>2. CycleTypeOK'
      <3>1. CASE state \in Resting
        BY <1>2, <3>1, ResetCycleType DEF TypeOK, QrScanned
      <3>2. CASE state \notin Resting
        BY <1>2, <3>2 DEF TypeOK, CycleTypeOK, ResetCycle, cycle, QrScanned
      <3> QED BY <3>1, <3>2
    <2>3. CardTypeOK'
      BY <1>2 DEF TypeOK, CardTypeOK, card, QrScanned
    <2> QED BY <1>0, <2>1, <2>2, <2>3 DEF TypeOK
  <1>3. ASSUME NEW tag \in CoinTags, NEW amount \in Amounts, CoinInserted(tag, amount)
        PROVE  TypeOK'
    <2>1. SessionTypeOK'
      BY <1>3, FsmAssumption
         DEF TypeOK, SessionTypeOK, OpenState, States, Sources, Codes, CoinInserted
    <2>2. CycleTypeOK'
      BY <1>3 DEF TypeOK, CycleTypeOK, OpenState, cycle, CoinInserted
    <2>3. CardTypeOK'
      BY <1>3 DEF TypeOK, CardTypeOK, card, CoinInserted
    <2> QED BY <1>0, <2>1, <2>2, <2>3 DEF TypeOK
  <1>4. ASSUME NEW code \in QrCodes, NEW amount \in Amounts, QrCredited(code, amount)
        PROVE  TypeOK'
    <2>1. SessionTypeOK'
      BY <1>4 DEF TypeOK, SessionTypeOK, OpenState, States, Sources, Codes, QrCredited
    <2>2. CycleTypeOK'
      BY <1>4 DEF TypeOK, CycleTypeOK, OpenState, cycle, QrCredited
    <2>3. CardTypeOK'
      BY <1>4 DEF TypeOK, CardTypeOK, card, QrCredited
    <2> QED BY <1>0, <2>1, <2>2, <2>3 DEF TypeOK
  <1>5. ASSUME NEW amount \in Amounts, CardCredited(amount)
        PROVE  TypeOK'
    <2>1. SessionTypeOK'
      BY <1>5
         DEF TypeOK, SessionTypeOK, OpenState, session, States, Sources, Codes,
             CardCredited
    <2>2. CycleTypeOK'
      BY <1>5 DEF TypeOK, CycleTypeOK, OpenState, cycle, CardCredited
    <2>3. CardTypeOK'
      BY <1>5 DEF TypeOK, CardTypeOK, CardCredited
    <2> QED BY <1>0, <2>1, <2>2, <2>3 DEF TypeOK
  <1>6. ASSUME NEW p \in Programs, NEW ok \in BOOLEAN, SelectByCard(p, ok)
        PROVE  TypeOK'
    <2>1. SessionTypeOK'
      BY <1>6 DEF TypeOK, SessionTypeOK, session, SelectByCard
    <2>2. CycleTypeOK'
      BY <1>6 DEF TypeOK, CycleTypeOK, clock, cycle, SelectByCard
    <2>3. CardTypeOK'
      BY <1>6, FsmAssumption DEF TypeOK, CardTypeOK, NothingPending, Requests, SelectByCard
    <2> QED BY <1>0, <2>1, <2>2, <2>3 DEF TypeOK
  <1>7. ASSUME NEW p \in Programs, SelectAndStart(p)
        PROVE  TypeOK'
    <2>1. SessionTypeOK'
      BY <1>7
         DEF TypeOK, SessionTypeOK, LoadProgram, StartCycle, session, States,
             SelectAndStart
    <2>2. CycleTypeOK'
      BY <1>7, FsmAssumption, TimesType
         DEF TypeOK, CycleTypeOK, LoadProgram, StartCycle, SelectAndStart
    <2>3. CardTypeOK'
      BY <1>7 DEF TypeOK, CardTypeOK, LoadProgram, card, SelectAndStart
    <2> QED BY <1>0, <2>1, <2>2, <2>3 DEF TypeOK
  <1>8. ASSUME NEW p \in Programs, SelectUnaffordable(p)
        PROVE  TypeOK'
    <2>1. SessionTypeOK'
      BY <1>8 DEF TypeOK, SessionTypeOK, LoadProgram, session, SelectUnaffordable
    <2>2. CycleTypeOK'
      BY <1>8, FsmAssumption, TimesType
         DEF TypeOK, CycleTypeOK, LoadProgram, clock, SelectUnaffordable
    <2>3. CardTypeOK'
      BY <1>8 DEF TypeOK, CardTypeOK, LoadProgram, card, SelectUnaffordable
    <2> QED BY <1>0, <2>1, <2>2, <2>3 DEF TypeOK
  <1>9. ASSUME NEW match \in BOOLEAN, NEW ok \in BOOLEAN, VendApproved(match, ok)
        PROVE  TypeOK'
    <2>1. SessionTypeOK'
      BY <1>9 DEF TypeOK, SessionTypeOK, StartCycle, session, States, VendApproved
    <2>2. CycleTypeOK'
      <3>1. \/ /\ pauseMax' = OrKeep(pending.pause, pauseMax)
               /\ target' = OrKeep(pending.duration, target)
               /\ price' = pending.price
               /\ program' = pending.program
            \/ UNCHANGED <<pauseMax, target, price, program>>
        BY <1>9 DEF VendApproved
      <3>2. pauseMax' \in Nat /\ target' \in Nat /\ price' \in Nat
            /\ program' \in Programs \cup {NoProgram}
        <4>1. /\ pending.pause \in Nat /\ pending.duration \in Nat /\ pending.price \in Nat
              /\ pending.program \in Programs \cup {NoProgram}
          BY DEF TypeOK, CardTypeOK, Requests
        <4>2. /\ pauseMax \in Nat /\ target \in Nat /\ price \in Nat
              /\ program \in Programs \cup {NoProgram}
          BY DEF TypeOK, CycleTypeOK
        <4>3. /\ OrKeep(pending.pause, pauseMax) \in Nat
              /\ OrKeep(pending.duration, target) \in Nat
          BY <4>1, <4>2, TimesType
        <4> QED BY <3>1, <4>1, <4>2, <4>3
      <3>3. StartCycle \/ UNCHANGED <<clock, running>>
        BY <1>9 DEF VendApproved
      <3>4. UNCHANGED <<stopAfter, preFine>>
        BY <1>9 DEF VendApproved
      <3>5. /\ running' \in BOOLEAN
            /\ elapsed' \in Nat /\ pauseElapsed' \in Nat /\ inactivity' \in Nat
        <4>1. CASE StartCycle
          BY <4>1 DEF StartCycle
        <4>2. CASE UNCHANGED <<clock, running>>
          BY <4>2 DEF TypeOK, CycleTypeOK, clock
        <4> QED BY <3>3, <4>1, <4>2
      <3> QED BY <3>2, <3>4, <3>5 DEF TypeOK, CycleTypeOK
    <2>3. CardTypeOK'
      BY <1>9 DEF TypeOK, CardTypeOK, ForgetVend, NothingPending, Requests, VendApproved
    <2> QED BY <1>0, <2>1, <2>2, <2>3 DEF TypeOK
  <1>10. CASE VendDenied
    <2>1. SessionTypeOK'
      BY <1>10 DEF TypeOK, SessionTypeOK, session, VendDenied
    <2>2. CycleTypeOK'
      BY <1>10 DEF TypeOK, CycleTypeOK, clock, cycle, VendDenied
    <2>3. CardTypeOK'
      BY <1>10 DEF TypeOK, CardTypeOK, ForgetVend, NothingPending, Requests, VendDenied
    <2> QED BY <1>0, <2>1, <2>2, <2>3 DEF TypeOK
  <1>11. CASE ProgramStopped
    BY <1>11, <1>0, StopNowType DEF ProgramStopped
  <1>12. CASE StopAfterCycle
    <2>1. SessionTypeOK'
      BY <1>12 DEF TypeOK, SessionTypeOK, Resume, session, States, StopAfterCycle
    <2>2. CycleTypeOK'
      <3>1. CASE state = "PAUSED"
        BY <1>12, <3>1 DEF TypeOK, CycleTypeOK, Resume, StopAfterCycle
      <3>2. CASE state # "PAUSED"
        BY <1>12, <3>2 DEF TypeOK, CycleTypeOK, Resume, StopAfterCycle
      <3> QED BY <3>1, <3>2
    <2>3. CardTypeOK'
      BY <1>12 DEF TypeOK, CardTypeOK, card, StopAfterCycle
    <2> QED BY <1>0, <2>1, <2>2, <2>3 DEF TypeOK
  <1>13. CASE PauseToggled
    <2>1. SessionTypeOK'
      BY <1>13 DEF TypeOK, SessionTypeOK, Resume, session, States, PauseToggled
    <2>2. CycleTypeOK'
      <3>1. CASE state = "PAUSED"
        BY <1>13, <3>1 DEF TypeOK, CycleTypeOK, Resume, PauseToggled
      <3>2. CASE state = "RUNNING"
        <4>1. /\ running' = FALSE /\ pauseElapsed' = 0 /\ inactivity' = 0
              /\ UNCHANGED <<elapsed, target, price, program, pauseMax, stopAfter, preFine>>
          BY <1>13, <3>2 DEF PauseToggled
        <4> QED BY <4>1 DEF TypeOK, CycleTypeOK
      <3> QED BY <3>1, <3>2, <1>13 DEF PauseToggled
    <2>3. CardTypeOK'
      BY <1>13 DEF TypeOK, CardTypeOK, card, PauseToggled
    <2> QED BY <1>0, <2>1, <2>2, <2>3 DEF TypeOK
  <1>14. ASSUME NEW p \in Programs, ProgramSwitched(p)
         PROVE  TypeOK'
    <2>1. SessionTypeOK'
      BY <1>14 DEF TypeOK, SessionTypeOK, Resume, session, States, ProgramSwitched
    <2>2. CycleTypeOK'
      <3>1. CASE state = "PAUSED"
        <4>1. /\ Resume
              /\ price' = OrKeep(Price[p], price)
              /\ pauseMax' = OrKeep(Pause[p], pauseMax)
              /\ program' = p
              /\ UNCHANGED <<elapsed, stopAfter, preFine>>
          BY <1>14, <3>1 DEF ProgramSwitched
        <4>2. Price[p] \in Nat /\ Pause[p] \in Nat /\ target' \in Nat
          BY <1>14, FsmAssumption, SwitchedTargetType
        <4> QED BY <4>1, <4>2, TimesType DEF TypeOK, CycleTypeOK, Resume
      <3>2. CASE state # "PAUSED"
        BY <1>14, <3>2, FsmAssumption, SwitchedTargetType, TimesType
           DEF TypeOK, CycleTypeOK, Resume, ProgramSwitched
      <3> QED BY <3>1, <3>2
    <2>3. CardTypeOK'
      BY <1>14 DEF TypeOK, CardTypeOK, card, ProgramSwitched
    <2> QED BY <1>0, <2>1, <2>2, <2>3 DEF TypeOK
  <1>15. ASSUME NEW aux \in EndedAux, CreditEnded(aux)
         PROVE  TypeOK'
    <2>1. SessionTypeOK'
      BY <1>15
         DEF TypeOK, SessionTypeOK, CloseSession, Rest, session, States, Sources, Codes,
             CreditEnded
    <2>2. CycleTypeOK'
      <3>1. CASE state \in Active \cup {"CREDIT"}
        BY <1>15, <3>1, ResetCycleType DEF TypeOK, CreditEnded
      <3>2. CASE state \notin Active \cup {"CREDIT"}
        BY <1>15, <3>2 DEF TypeOK, CycleTypeOK, ResetCycle, clock, cycle, CreditEnded
      <3> QED BY <3>1, <3>2
    <2>3. CardTypeOK'
      <3>1. IF vendPending THEN ForgetVend ELSE UNCHANGED <<vendPending, pending>>
        BY <1>15 DEF CreditEnded
      <3>2. completeRequired' \in BOOLEAN /\ removed' \in BOOLEAN /\ qrPending' = qrPending
        BY <1>15 DEF CreditEnded
      <3>3. vendPending' \in BOOLEAN /\ pending' \in Requests
        BY <3>1, ForgetVendType DEF TypeOK, CardTypeOK
      <3> QED BY <3>2, <3>3 DEF TypeOK, CardTypeOK
    <2> QED BY <1>0, <2>1, <2>2, <2>3 DEF TypeOK
  <1>16. CASE SystemError
    <2>1. SessionTypeOK'
      BY <1>16 DEF TypeOK, SessionTypeOK, session, States, SystemError
    <2>2. CycleTypeOK'
      BY <1>16 DEF TypeOK, CycleTypeOK, clock, SystemError
    <2>3. CardTypeOK'
      BY <1>16 DEF TypeOK, CardTypeOK, card, SystemError
    <2> QED BY <1>0, <2>1, <2>2, <2>3 DEF TypeOK
  <1>17. CASE SystemRun
    <2>1. SessionTypeOK'
      BY <1>17 DEF TypeOK, SessionTypeOK, session, States, SystemRun
    <2>2. CycleTypeOK'
      BY <1>17 DEF TypeOK, CycleTypeOK, clock, cycle, SystemRun
    <2>3. CardTypeOK'
      BY <1>17 DEF TypeOK, CardTypeOK, card, SystemRun
    <2> QED BY <1>0, <2>1, <2>2, <2>3 DEF TypeOK
  <1>18. CASE LvglTestEntered
    <2>1. SessionTypeOK'
      BY <1>18 DEF TypeOK, SessionTypeOK, session, States, LvglTestEntered
    <2>2. CycleTypeOK'
      BY <1>18 DEF TypeOK, CycleTypeOK, clock, LvglTestEntered
    <2>3. CardTypeOK'
      BY <1>18 DEF TypeOK, CardTypeOK, card, LvglTestEntered
    <2> QED BY <1>0, <2>1, <2>2, <2>3 DEF TypeOK
  <1>19. CASE LvglTestExited
    <2>1. SessionTypeOK'
      BY <1>19 DEF TypeOK, SessionTypeOK, session, States, LvglTestExited
    <2>2. CycleTypeOK'
      BY <1>19 DEF TypeOK, CycleTypeOK, clock, cycle, LvglTestExited
    <2>3. CardTypeOK'
      BY <1>19 DEF TypeOK, CardTypeOK, card, LvglTestExited
    <2> QED BY <1>0, <2>1, <2>2, <2>3 DEF TypeOK
  <1>20. CASE TagRemovedInProgram
    <2>1. SessionTypeOK'
      BY <1>20 DEF TypeOK, SessionTypeOK, session, TagRemovedInProgram
    <2>2. CycleTypeOK'
      BY <1>20 DEF TypeOK, CycleTypeOK, clock, cycle, TagRemovedInProgram
    <2>3. CardTypeOK'
      BY <1>20 DEF TypeOK, CardTypeOK, TagRemovedInProgram
    <2> QED BY <1>0, <2>1, <2>2, <2>3 DEF TypeOK
  <1>21. CASE TagRemovedInCredit
    <2>1. SessionTypeOK'
      BY <1>21 DEF TypeOK, SessionTypeOK, session, TagRemovedInCredit
    <2>2. CycleTypeOK'
      BY <1>21 DEF TypeOK, CycleTypeOK, clock, cycle, TagRemovedInCredit
    <2>3. CardTypeOK'
      BY <1>21 DEF TypeOK, CardTypeOK, TagRemovedInCredit
    <2> QED BY <1>0, <2>1, <2>2, <2>3 DEF TypeOK
  <1>22. ASSUME NEW dt \in Elapsed, TickWaiting(dt)
         PROVE  TypeOK'
    <2>1. SessionTypeOK'
      BY <1>22 DEF TypeOK, SessionTypeOK, session, TickWaiting
    <2>2. CycleTypeOK'
      BY <1>22, FsmAssumption, TimesType DEF TypeOK, CycleTypeOK, cycle, TickWaiting
    <2>3. CardTypeOK'
      BY <1>22 DEF TypeOK, CardTypeOK, card, TickWaiting
    <2> QED BY <1>0, <2>1, <2>2, <2>3 DEF TypeOK
  <1>23. ASSUME NEW dt \in Elapsed, TickCreditTimeout(dt)
         PROVE  TypeOK'
    <2>1. SessionTypeOK'
      BY <1>23
         DEF TypeOK, SessionTypeOK, States, Sources, Codes, ResetPayer, Rest,
             TickCreditTimeout
    <2>2. CycleTypeOK'
      BY <1>23 DEF TypeOK, CycleTypeOK, ResetCycle, TickCreditTimeout
    <2>3. CardTypeOK'
      BY <1>23 DEF TypeOK, CardTypeOK, card, TickCreditTimeout
    <2> QED BY <1>0, <2>1, <2>2, <2>3 DEF TypeOK
  <1>24. ASSUME NEW dt \in Elapsed, TickRunning(dt)
         PROVE  TypeOK'
    <2>1. SessionTypeOK'
      BY <1>24 DEF TypeOK, SessionTypeOK, session, TickRunning
    <2>2. CycleTypeOK'
      BY <1>24, FsmAssumption, TimesType DEF TypeOK, CycleTypeOK, TickRunning
    <2>3. CardTypeOK'
      BY <1>24 DEF TypeOK, CardTypeOK, card, TickRunning
    <2> QED BY <1>0, <2>1, <2>2, <2>3 DEF TypeOK
  <1>25. ASSUME NEW dt \in Elapsed, TickRenew(dt)
         PROVE  TypeOK'
    <2>1. SessionTypeOK'
      BY <1>25 DEF TypeOK, SessionTypeOK, session, TickRenew
    <2>2. CycleTypeOK'
      BY <1>25, FsmAssumption, TimesType DEF TypeOK, CycleTypeOK, TickRenew
    <2>3. CardTypeOK'
      BY <1>25 DEF TypeOK, CardTypeOK, card, TickRenew
    <2> QED BY <1>0, <2>1, <2>2, <2>3 DEF TypeOK
  <1>26. ASSUME NEW dt \in Elapsed, TickExhausted(dt)
         PROVE  TypeOK'
    <2>1. SessionTypeOK'
      BY <1>26
         DEF TypeOK, SessionTypeOK, CloseSession, Rest, session, States, Sources, Codes,
             TickExhausted
    <2>2. CycleTypeOK'
      BY <1>26 DEF TypeOK, CycleTypeOK, ResetCycle, TickExhausted
    <2>3. CardTypeOK'
      BY <1>26 DEF TypeOK, CardTypeOK, TickExhausted
    <2> QED BY <1>0, <2>1, <2>2, <2>3 DEF TypeOK
  <1>27. ASSUME NEW dt \in Elapsed, TickStop(dt)
         PROVE  TypeOK'
    BY <1>27, <1>0, StopNowType DEF TickStop
  <1>28. ASSUME NEW dt \in Elapsed, TickPaused(dt)
         PROVE  TypeOK'
    <2>1. SessionTypeOK'
      BY <1>28 DEF TypeOK, SessionTypeOK, Resume, session, States, TickPaused
    <2>2. CycleTypeOK'
      <3>1. CASE pauseElapsed + dt >= pauseMax
        BY <1>28, <3>1, FsmAssumption, TimesType DEF TypeOK, CycleTypeOK, Resume, TickPaused
      <3>2. CASE ~(pauseElapsed + dt >= pauseMax)
        BY <1>28, <3>2, FsmAssumption, TimesType DEF TypeOK, CycleTypeOK, Resume, TickPaused
      <3> QED BY <3>1, <3>2
    <2>3. CardTypeOK'
      BY <1>28 DEF TypeOK, CardTypeOK, card, TickPaused
    <2> QED BY <1>0, <2>1, <2>2, <2>3 DEF TypeOK
  <1>29. CASE UNCHANGED vars
    BY <1>29
       DEF vars, session, clock, cycle, card, TypeOK, SessionTypeOK, CycleTypeOK,
           CardTypeOK
  <1> QED
    BY <1>1, <1>2, <1>3, <1>4, <1>5, <1>6, <1>7, <1>8, <1>9, <1>10, <1>11, <1>12, <1>13,
       <1>14, <1>15, <1>16, <1>17, <1>18, <1>19, <1>20, <1>21, <1>22, <1>23, <1>24,
       <1>25, <1>26, <1>27, <1>28, <1>29
       DEF Next, Input, Payment, Choice, Command, Service, Removal, Time, Tick

-----------------------------------------------------------------------------
(* The session, the vend and the times *)

\* What the stored credit covers, the buckets hold.
LEMMA SelectedIsCovered ==
    ASSUME NEW q, GoodPurse(q), NEW cost \in Nat, cost > 0, cost <= q.credit
    PROVE  CanCharge(q, cost)
  <1>1. /\ q.coins["ecd"] \in Nat /\ q.coins["card"] \in Nat /\ q.coins["qr"] \in Nat
        /\ q.vcd \in Nat
    BY DEF GoodPurse, Purse, Buckets
  <1>2. q.credit <= q.coins["ecd"] + q.coins["card"] + q.coins["qr"]
    BY <1>1 DEF GoodPurse, TotalsAgree
  <1>3. q.credit \in Nat
    BY DEF GoodPurse, Purse
  <1> QED BY <1>1, <1>2, <1>3 DEF CanCharge, FromEcd, FromCard, FromQr, Smaller

\* VendIsCovered is inductive over good purses: the price was compared with the
\* stored credit, which the buckets hold, and while the card session lasts no
\* step spends, drops or hides them without giving the vend up.
LEMMA VendStep ==
    ASSUME TypeOK, GoodPurse(purse), VendIsCovered, [Next]_vars
    PROVE  VendIsCovered'
  <1> USE DEF VendIsCovered, Active, Virtual
  <1>1. ASSUME NEW tag \in OpenSources, Activity(tag)
        PROVE  VendIsCovered'
    BY <1>1, FsmAssumption DEF Activity, OpenState, card
  <1>2. CASE QrScanned
    BY <1>2 DEF QrScanned, card, Resting
  <1>3. ASSUME NEW tag \in CoinTags, NEW amount \in Amounts, CoinInserted(tag, amount)
        PROVE  VendIsCovered'
    BY <1>3 DEF CoinInserted, OpenState, card
  <1>4. ASSUME NEW code \in QrCodes, NEW amount \in Amounts, QrCredited(code, amount)
        PROVE  VendIsCovered'
    BY <1>4 DEF QrCredited, OpenState, card
  <1>5. ASSUME NEW amount \in Amounts, CardCredited(amount)
        PROVE  VendIsCovered'
    BY <1>5 DEF CardCredited, OpenState, session
  <1>6. ASSUME NEW p \in Programs, NEW ok \in BOOLEAN, SelectByCard(p, ok)
        PROVE  VendIsCovered'
    BY <1>6, SelectedIsCovered, FsmAssumption DEF SelectByCard, MaySelect, session
  <1>7. ASSUME NEW p \in Programs, SelectAndStart(p)
        PROVE  VendIsCovered'
    BY <1>7 DEF SelectAndStart, LoadProgram, StartCycle, MaySelect, card, session
  <1>8. ASSUME NEW p \in Programs, SelectUnaffordable(p)
        PROVE  VendIsCovered'
    BY <1>8 DEF SelectUnaffordable, LoadProgram, MaySelect, card, session
  <1>9. ASSUME NEW match \in BOOLEAN, NEW ok \in BOOLEAN, VendApproved(match, ok)
        PROVE  VendIsCovered'
    BY <1>9 DEF VendApproved, ForgetVend
  <1>10. CASE VendDenied
    BY <1>10 DEF VendDenied, ForgetVend
  <1>11. CASE ProgramStopped
    BY <1>11 DEF ProgramStopped, StopNow, CloseSession
  <1>12. CASE StopAfterCycle
    BY <1>12 DEF StopAfterCycle, session, clock, cycle, card
  <1>13. CASE PauseToggled
    BY <1>13 DEF PauseToggled, session, clock, cycle, card
  <1>14. ASSUME NEW p \in Programs, ProgramSwitched(p)
         PROVE  VendIsCovered'
    BY <1>14 DEF ProgramSwitched, session, clock, cycle, card
  <1>15. ASSUME NEW aux \in EndedAux, CreditEnded(aux)
         PROVE  VendIsCovered'
    BY <1>15 DEF CreditEnded, ForgetVend, CloseSession
  <1>16. CASE SystemError
    BY <1>16 DEF SystemError, session, clock, cycle, card
  <1>17. CASE SystemRun
    BY <1>17 DEF SystemRun, session, clock, cycle, card
  <1>18. CASE LvglTestEntered
    BY <1>18 DEF LvglTestEntered, session, clock, cycle, card
  <1>19. CASE LvglTestExited
    BY <1>19 DEF LvglTestExited, session, clock, cycle, card
  <1>20. CASE TagRemovedInProgram
    BY <1>20 DEF TagRemovedInProgram, session
  <1>21. CASE TagRemovedInCredit
    BY <1>21 DEF TagRemovedInCredit, session, clock, cycle, card
  <1>22. ASSUME NEW dt \in Elapsed, TickWaiting(dt)
         PROVE  VendIsCovered'
    BY <1>22 DEF TickWaiting, session, clock, cycle, card
  <1>23. ASSUME NEW dt \in Elapsed, TickCreditTimeout(dt)
         PROVE  VendIsCovered'
    BY <1>23 DEF TickCreditTimeout, session, clock, cycle, card
  <1>24. ASSUME NEW dt \in Elapsed, TickRunning(dt)
         PROVE  VendIsCovered'
    BY <1>24 DEF TickRunning, session, clock, cycle, card
  <1>25. ASSUME NEW dt \in Elapsed, TickRenew(dt)
         PROVE  VendIsCovered'
    BY <1>25 DEF TickRenew, CycleOver, session, card
  <1>26. ASSUME NEW dt \in Elapsed, TickExhausted(dt)
         PROVE  VendIsCovered'
    BY <1>26 DEF TickExhausted, CloseSession, CycleOver
  <1>27. ASSUME NEW dt \in Elapsed, TickStop(dt)
         PROVE  VendIsCovered'
    BY <1>27 DEF TickStop, StopNow, CloseSession, CycleOver
  <1>28. ASSUME NEW dt \in Elapsed, TickPaused(dt)
         PROVE  VendIsCovered'
    BY <1>28 DEF TickPaused, session, clock, cycle, card
  <1>29. CASE UNCHANGED vars
    BY <1>29 DEF vars, session, clock, cycle, card
  <1> QED
    BY <1>1, <1>2, <1>3, <1>4, <1>5, <1>6, <1>7, <1>8, <1>9, <1>10, <1>11, <1>12, <1>13,
       <1>14, <1>15, <1>16, <1>17, <1>18, <1>19, <1>20, <1>21, <1>22, <1>23, <1>24,
       <1>25, <1>26, <1>27, <1>28, <1>29
       DEF Next, Input, Payment, Choice, Command, Service, Removal, Time, Tick

\* CustomerIsOfSession is inductive by itself.
LEMMA CustomerStep ==
    ASSUME TypeOK, CustomerIsOfSession, [Next]_vars
    PROVE  CustomerIsOfSession'
  <1> USE DEF CustomerIsOfSession, Active, Virtual
  <1>1. ASSUME NEW tag \in OpenSources, Activity(tag)
        PROVE  CustomerIsOfSession'
    BY <1>1, FsmAssumption DEF Activity, OpenState
  <1>2. CASE QrScanned
    BY <1>2 DEF QrScanned, ResetPayer, Resting
  <1>3. ASSUME NEW tag \in CoinTags, NEW amount \in Amounts, CoinInserted(tag, amount)
        PROVE  CustomerIsOfSession'
    BY <1>3 DEF CoinInserted, OpenState
  <1>4. ASSUME NEW code \in QrCodes, NEW amount \in Amounts, QrCredited(code, amount)
        PROVE  CustomerIsOfSession'
    BY <1>4 DEF QrCredited, OpenState
  <1>5. ASSUME NEW amount \in Amounts, CardCredited(amount)
        PROVE  CustomerIsOfSession'
    BY <1>5 DEF CardCredited, OpenState, session
  <1>6. ASSUME NEW p \in Programs, NEW ok \in BOOLEAN, SelectByCard(p, ok)
        PROVE  CustomerIsOfSession'
    BY <1>6 DEF SelectByCard, session
  <1>7. ASSUME NEW p \in Programs, SelectAndStart(p)
        PROVE  CustomerIsOfSession'
    BY <1>7 DEF SelectAndStart, LoadProgram, StartCycle, MaySelect, session
  <1>8. ASSUME NEW p \in Programs, SelectUnaffordable(p)
        PROVE  CustomerIsOfSession'
    BY <1>8 DEF SelectUnaffordable, LoadProgram, MaySelect, session
  <1>9. ASSUME NEW match \in BOOLEAN, NEW ok \in BOOLEAN, VendApproved(match, ok)
        PROVE  CustomerIsOfSession'
    BY <1>9 DEF VendApproved, StartCycle, session
  <1>10. CASE VendDenied
    BY <1>10 DEF VendDenied, session
  <1>11. CASE ProgramStopped
    BY <1>11 DEF ProgramStopped, StopNow, ResetPayer, CloseSession, Rest
  <1>12. CASE StopAfterCycle
    BY <1>12 DEF StopAfterCycle, Resume, session
  <1>13. CASE PauseToggled
    BY <1>13 DEF PauseToggled, Resume, session
  <1>14. ASSUME NEW p \in Programs, ProgramSwitched(p)
         PROVE  CustomerIsOfSession'
    BY <1>14 DEF ProgramSwitched, Resume, session
  <1>15. ASSUME NEW aux \in EndedAux, CreditEnded(aux)
         PROVE  CustomerIsOfSession'
    BY <1>15 DEF CreditEnded, CloseSession, Rest, session
  <1>16. CASE SystemError
    BY <1>16 DEF SystemError, session
  <1>17. CASE SystemRun
    BY <1>17 DEF SystemRun, session
  <1>18. CASE LvglTestEntered
    BY <1>18 DEF LvglTestEntered, session
  <1>19. CASE LvglTestExited
    BY <1>19 DEF LvglTestExited, session
  <1>20. CASE TagRemovedInProgram
    BY <1>20 DEF TagRemovedInProgram, session
  <1>21. CASE TagRemovedInCredit
    BY <1>21 DEF TagRemovedInCredit, session
  <1>22. ASSUME NEW dt \in Elapsed, TickWaiting(dt)
         PROVE  CustomerIsOfSession'
    BY <1>22 DEF TickWaiting, session
  <1>23. ASSUME NEW dt \in Elapsed, TickCreditTimeout(dt)
         PROVE  CustomerIsOfSession'
    BY <1>23 DEF TickCreditTimeout, ResetPayer, Rest
  <1>24. ASSUME NEW dt \in Elapsed, TickRunning(dt)
         PROVE  CustomerIsOfSession'
    BY <1>24 DEF TickRunning, session
  <1>25. ASSUME NEW dt \in Elapsed, TickRenew(dt)
         PROVE  CustomerIsOfSession'
    BY <1>25 DEF TickRenew, session
  <1>26. ASSUME NEW dt \in Elapsed, TickExhausted(dt)
         PROVE  CustomerIsOfSession'
    BY <1>26 DEF TickExhausted, CloseSession, CycleOver, Rest, session
  <1>27. ASSUME NEW dt \in Elapsed, TickStop(dt)
         PROVE  CustomerIsOfSession'
    BY <1>27 DEF TickStop, StopNow, ResetPayer, CloseSession, Rest, CycleOver
  <1>28. ASSUME NEW dt \in Elapsed, TickPaused(dt)
         PROVE  CustomerIsOfSession'
    BY <1>28 DEF TickPaused, Resume, session
  <1>29. CASE UNCHANGED vars
    BY <1>29 DEF vars, session, clock, cycle, card
  <1> QED
    BY <1>1, <1>2, <1>3, <1>4, <1>5, <1>6, <1>7, <1>8, <1>9, <1>10, <1>11, <1>12, <1>13,
       <1>14, <1>15, <1>16, <1>17, <1>18, <1>19, <1>20, <1>21, <1>22, <1>23, <1>24,
       <1>25, <1>26, <1>27, <1>28, <1>29
       DEF Next, Input, Payment, Choice, Command, Service, Removal, Time, Tick

\* CycleNeverOverruns is inductive: a switch adds the scaled rest to the time
\* already used, and every other change of the two times resets the one used.
LEMMA OverrunStep ==
    ASSUME TypeOK, TypeOK', CycleNeverOverruns, [Next]_vars
    PROVE  CycleNeverOverruns'
  <1>0. target' \in Nat /\ elapsed' \in Nat
    BY DEF TypeOK, CycleTypeOK
  <1> USE DEF CycleNeverOverruns, Active
  <1>1. ASSUME NEW tag \in OpenSources, Activity(tag)
        PROVE  CycleNeverOverruns'
    BY <1>1 DEF Activity, OpenState, cycle, Resting
  <1>2. CASE QrScanned
    BY <1>2 DEF QrScanned, Resting, cycle, ResetCycle
  <1>3. ASSUME NEW tag \in CoinTags, NEW amount \in Amounts, CoinInserted(tag, amount)
        PROVE  CycleNeverOverruns'
    BY <1>3 DEF CoinInserted, OpenState, cycle, Resting
  <1>4. ASSUME NEW code \in QrCodes, NEW amount \in Amounts, QrCredited(code, amount)
        PROVE  CycleNeverOverruns'
    BY <1>4 DEF QrCredited, OpenState, cycle, Resting
  <1>5. ASSUME NEW amount \in Amounts, CardCredited(amount)
        PROVE  CycleNeverOverruns'
    BY <1>5 DEF CardCredited, OpenState, cycle, Resting
  <1>6. ASSUME NEW p \in Programs, NEW ok \in BOOLEAN, SelectByCard(p, ok)
        PROVE  CycleNeverOverruns'
    BY <1>6 DEF SelectByCard, clock, cycle
  <1>7. ASSUME NEW p \in Programs, SelectAndStart(p)
        PROVE  CycleNeverOverruns'
    BY <1>7, <1>0 DEF SelectAndStart, LoadProgram, StartCycle, TypeOK, CycleTypeOK
  <1>8. ASSUME NEW p \in Programs, SelectUnaffordable(p)
        PROVE  CycleNeverOverruns'
    BY <1>8 DEF SelectUnaffordable, LoadProgram, MaySelect, clock
  <1>9. ASSUME NEW match \in BOOLEAN, NEW ok \in BOOLEAN, VendApproved(match, ok)
        PROVE  CycleNeverOverruns'
    BY <1>9, <1>0 DEF VendApproved, StartCycle, TypeOK, CycleTypeOK, clock
  <1>10. CASE VendDenied
    BY <1>10 DEF VendDenied, clock, cycle
  <1>11. CASE ProgramStopped
    BY <1>11 DEF ProgramStopped, StopNow, ResetCycle
  <1>12. CASE StopAfterCycle
    BY <1>12 DEF StopAfterCycle, Resume
  <1>13. CASE PauseToggled
    BY <1>13 DEF PauseToggled, Resume
  <1>14. ASSUME NEW p \in Programs, ProgramSwitched(p)
         PROVE  CycleNeverOverruns'
    BY <1>14, SwitchedTargetType DEF ProgramSwitched, Resume
  <1>15. ASSUME NEW aux \in EndedAux, CreditEnded(aux)
         PROVE  CycleNeverOverruns'
    BY <1>15 DEF CreditEnded, ResetCycle, clock, cycle
  <1>16. CASE SystemError
    BY <1>16 DEF SystemError, clock
  <1>17. CASE SystemRun
    BY <1>17 DEF SystemRun, clock, cycle
  <1>18. CASE LvglTestEntered
    BY <1>18 DEF LvglTestEntered, clock
  <1>19. CASE LvglTestExited
    BY <1>19 DEF LvglTestExited, clock, cycle
  <1>20. CASE TagRemovedInProgram
    BY <1>20 DEF TagRemovedInProgram, clock, cycle
  <1>21. CASE TagRemovedInCredit
    BY <1>21 DEF TagRemovedInCredit, clock, cycle
  <1>22. ASSUME NEW dt \in Elapsed, TickWaiting(dt)
         PROVE  CycleNeverOverruns'
    BY <1>22 DEF TickWaiting, cycle
  <1>23. ASSUME NEW dt \in Elapsed, TickCreditTimeout(dt)
         PROVE  CycleNeverOverruns'
    BY <1>23 DEF TickCreditTimeout, ResetCycle
  <1>24. ASSUME NEW dt \in Elapsed, TickRunning(dt)
         PROVE  CycleNeverOverruns'
    BY <1>24, <1>0 DEF TickRunning, TypeOK, CycleTypeOK
  <1>25. ASSUME NEW dt \in Elapsed, TickRenew(dt)
         PROVE  CycleNeverOverruns'
    BY <1>25, <1>0 DEF TickRenew, TypeOK, CycleTypeOK
  <1>26. ASSUME NEW dt \in Elapsed, TickExhausted(dt)
         PROVE  CycleNeverOverruns'
    BY <1>26 DEF TickExhausted, ResetCycle
  <1>27. ASSUME NEW dt \in Elapsed, TickStop(dt)
         PROVE  CycleNeverOverruns'
    BY <1>27 DEF TickStop, StopNow, ResetCycle
  <1>28. ASSUME NEW dt \in Elapsed, TickPaused(dt)
         PROVE  CycleNeverOverruns'
    BY <1>28 DEF TickPaused, Resume
  <1>29. CASE UNCHANGED vars
    BY <1>29 DEF vars, session, clock, cycle, card
  <1> QED
    BY <1>1, <1>2, <1>3, <1>4, <1>5, <1>6, <1>7, <1>8, <1>9, <1>10, <1>11, <1>12, <1>13,
       <1>14, <1>15, <1>16, <1>17, <1>18, <1>19, <1>20, <1>21, <1>22, <1>23, <1>24,
       <1>25, <1>26, <1>27, <1>28, <1>29
       DEF Next, Input, Payment, Choice, Command, Service, Removal, Time, Tick

\* A step that starts a cycle is a selection, an approved vend or a renewal, and
\* each charges the price it stores.
LEMMA PaidStep ==
    ASSUME TypeOK, GoodPurse(purse), [Next]_vars
    PROVE  CycleStarts => Held(purse.coins) - Held(purse'.coins) = price'
  <1>0. elapsed \in Nat /\ Held(purse.coins) \in Nat
    BY DEF TypeOK, CycleTypeOK, Purse, Held, Buckets
  <1> USE DEF CycleStarts, Active
  <1>1. ASSUME NEW tag \in OpenSources, Activity(tag)
        PROVE  CycleStarts => Held(purse.coins) - Held(purse'.coins) = price'
    BY <1>1, <1>0 DEF Activity, OpenState, Resting
  <1>2. CASE QrScanned
    BY <1>2, <1>0 DEF QrScanned, ResetCycle, Resting
  <1>3. ASSUME NEW tag \in CoinTags, NEW amount \in Amounts, CoinInserted(tag, amount)
        PROVE  CycleStarts => Held(purse.coins) - Held(purse'.coins) = price'
    BY <1>3, <1>0 DEF CoinInserted, OpenState, Resting
  <1>4. ASSUME NEW code \in QrCodes, NEW amount \in Amounts, QrCredited(code, amount)
        PROVE  CycleStarts => Held(purse.coins) - Held(purse'.coins) = price'
    BY <1>4, <1>0 DEF QrCredited, OpenState, Resting
  <1>5. ASSUME NEW amount \in Amounts, CardCredited(amount)
        PROVE  CycleStarts => Held(purse.coins) - Held(purse'.coins) = price'
    BY <1>5, <1>0 DEF CardCredited, OpenState, Resting
  <1>6. ASSUME NEW p \in Programs, NEW ok \in BOOLEAN, SelectByCard(p, ok)
        PROVE  CycleStarts => Held(purse.coins) - Held(purse'.coins) = price'
    BY <1>6, <1>0 DEF SelectByCard, clock, MaySelect
  <1>7. ASSUME NEW p \in Programs, SelectAndStart(p)
        PROVE  CycleStarts => Held(purse.coins) - Held(purse'.coins) = price'
    BY <1>7, <1>0, ChargedTakesTheCost, FsmAssumption
       DEF SelectAndStart, LoadProgram, StartCycle
  <1>8. ASSUME NEW p \in Programs, SelectUnaffordable(p)
        PROVE  CycleStarts => Held(purse.coins) - Held(purse'.coins) = price'
    BY <1>8, <1>0 DEF SelectUnaffordable, LoadProgram, MaySelect, clock
  <1>9. ASSUME NEW match \in BOOLEAN, NEW ok \in BOOLEAN, VendApproved(match, ok)
        PROVE  CycleStarts => Held(purse.coins) - Held(purse'.coins) = price'
    BY <1>9, <1>0, ChargedTakesTheCost DEF VendApproved, StartCycle, clock
  <1>10. CASE VendDenied
    BY <1>10, <1>0 DEF VendDenied, clock
  <1>11. CASE ProgramStopped
    BY <1>11, <1>0 DEF ProgramStopped, StopNow, Rest
  <1>12. CASE StopAfterCycle
    BY <1>12, <1>0 DEF StopAfterCycle, Resume
  <1>13. CASE PauseToggled
    BY <1>13, <1>0 DEF PauseToggled, Resume
  <1>14. ASSUME NEW p \in Programs, ProgramSwitched(p)
         PROVE  CycleStarts => Held(purse.coins) - Held(purse'.coins) = price'
    BY <1>14, <1>0 DEF ProgramSwitched, Resume
  <1>15. ASSUME NEW aux \in EndedAux, CreditEnded(aux)
         PROVE  CycleStarts => Held(purse.coins) - Held(purse'.coins) = price'
    BY <1>15, <1>0 DEF CreditEnded, Rest, clock
  <1>16. CASE SystemError
    BY <1>16, <1>0 DEF SystemError, clock
  <1>17. CASE SystemRun
    BY <1>17, <1>0 DEF SystemRun, clock
  <1>18. CASE LvglTestEntered
    BY <1>18, <1>0 DEF LvglTestEntered, clock
  <1>19. CASE LvglTestExited
    BY <1>19, <1>0 DEF LvglTestExited, clock
  <1>20. CASE TagRemovedInProgram
    BY <1>20, <1>0 DEF TagRemovedInProgram, clock
  <1>21. CASE TagRemovedInCredit
    BY <1>21, <1>0 DEF TagRemovedInCredit, clock
  <1>22. ASSUME NEW dt \in Elapsed, TickWaiting(dt)
         PROVE  CycleStarts => Held(purse.coins) - Held(purse'.coins) = price'
    BY <1>22, <1>0 DEF TickWaiting, clock
  <1>23. ASSUME NEW dt \in Elapsed, TickCreditTimeout(dt)
         PROVE  CycleStarts => Held(purse.coins) - Held(purse'.coins) = price'
    BY <1>23, <1>0 DEF TickCreditTimeout, Rest
  <1>24. ASSUME NEW dt \in Elapsed, TickRunning(dt)
         PROVE  CycleStarts => Held(purse.coins) - Held(purse'.coins) = price'
    BY <1>24, <1>0, FsmAssumption DEF TickRunning
  <1>25. ASSUME NEW dt \in Elapsed, TickRenew(dt)
         PROVE  CycleStarts => Held(purse.coins) - Held(purse'.coins) = price'
    BY <1>25, <1>0, ChargedTakesTheCost DEF TickRenew, MayRenew, TypeOK, CycleTypeOK
  <1>26. ASSUME NEW dt \in Elapsed, TickExhausted(dt)
         PROVE  CycleStarts => Held(purse.coins) - Held(purse'.coins) = price'
    BY <1>26, <1>0 DEF TickExhausted, Rest
  <1>27. ASSUME NEW dt \in Elapsed, TickStop(dt)
         PROVE  CycleStarts => Held(purse.coins) - Held(purse'.coins) = price'
    BY <1>27, <1>0 DEF TickStop, StopNow, Rest, CycleOver
  <1>28. ASSUME NEW dt \in Elapsed, TickPaused(dt)
         PROVE  CycleStarts => Held(purse.coins) - Held(purse'.coins) = price'
    BY <1>28, <1>0 DEF TickPaused, Resume
  <1>29. CASE UNCHANGED vars
    BY <1>29, <1>0 DEF vars, session, clock, cycle, card
  <1> QED
    BY <1>1, <1>2, <1>3, <1>4, <1>5, <1>6, <1>7, <1>8, <1>9, <1>10, <1>11, <1>12, <1>13,
       <1>14, <1>15, <1>16, <1>17, <1>18, <1>19, <1>20, <1>21, <1>22, <1>23, <1>24,
       <1>25, <1>26, <1>27, <1>28, <1>29
       DEF Next, Input, Payment, Choice, Command, Service, Removal, Time, Tick

\* Credit added to any bucket takes nothing from the coins.
LEMMA AddedCoinsStay ==
    ASSUME NEW q, GoodPurse(q), NEW s, NEW amount \in Nat
    PROVE  /\ AddCents(q, s, amount).coins["ecd"] \in Nat
           /\ AddCents(q, s, amount).coins["ecd"] >= q.coins["ecd"]
  <1> DEFINE b       == BucketOf(s)
             total   == q.cents[b] + amount
             credits == total \div CentsPerCredit
             room    == Available(q.coins)
             coins   == [q.coins EXCEPT ![b] = @ + Smaller(credits, room)]
  <1>1. /\ q.coins \in [Buckets -> Nat] /\ q.cents \in [Buckets -> Nat]
        /\ b \in Buckets /\ "ecd" \in Buckets
    BY DEF GoodPurse, Purse, BucketOf, Buckets
  <1>2. q.coins["ecd"] \in Nat /\ total \in Nat
    BY <1>1
  <1>3. credits \in Nat
    BY <1>2, DivisionType, CreditAssumption
  <1>4. room \in Nat
    BY <1>1, CreditAssumption DEF Available, Held, Buckets
  <1> HIDE DEF total, credits, room
  <1>5. Smaller(credits, room) \in Nat
    BY <1>3, <1>4 DEF Smaller
  <1>6. coins["ecd"] \in Nat /\ coins["ecd"] >= q.coins["ecd"]
    BY <1>1, <1>2, <1>5
  <1> HIDE DEF coins
  <1>7. AddCents(q, s, amount) = q \/ AddCents(q, s, amount).coins = coins
    BY DEF AddCents, Recalculated, total, credits, room, coins
  <1> QED BY <1>2, <1>6, <1>7

\* The step starts a cycle and takes its price.
CoinsBuyCycle ==
    /\ state' = "RUNNING" /\ elapsed' = 0
    /\ Held(purse.coins) - Held(purse'.coins) = price'

\* Only a charge takes coins.
LEMMA CoinsStep ==
    ASSUME 0 \notin EndedAux, TypeOK, GoodPurse(purse), [Next]_vars
    PROVE  purse'.coins["ecd"] < purse.coins["ecd"] => CoinsBuyCycle
  <1>0. purse.coins["ecd"] \in Nat
    BY DEF TypeOK, Purse, Buckets
  <1> USE DEF CoinsBuyCycle
  <1>1. ASSUME NEW tag \in OpenSources, Activity(tag)
        PROVE  purse'.coins["ecd"] < purse.coins["ecd"] => CoinsBuyCycle
    BY <1>1, <1>0 DEF Activity
  <1>2. CASE QrScanned
    BY <1>2, <1>0 DEF QrScanned
  <1>3. ASSUME NEW tag \in CoinTags, NEW amount \in Amounts, CoinInserted(tag, amount)
        PROVE  purse'.coins["ecd"] < purse.coins["ecd"] => CoinsBuyCycle
    BY <1>3, <1>0, FsmAssumption, AddedCoinsStay DEF CoinInserted, Sources
  <1>4. ASSUME NEW code \in QrCodes, NEW amount \in Amounts, QrCredited(code, amount)
        PROVE  purse'.coins["ecd"] < purse.coins["ecd"] => CoinsBuyCycle
    BY <1>4, <1>0, FsmAssumption, AddedCoinsStay DEF QrCredited, Sources
  <1>5. ASSUME NEW amount \in Amounts, CardCredited(amount)
        PROVE  purse'.coins["ecd"] < purse.coins["ecd"] => CoinsBuyCycle
    BY <1>5, <1>0, FsmAssumption, AddedCoinsStay DEF CardCredited, Sources
  <1>6. ASSUME NEW p \in Programs, NEW ok \in BOOLEAN, SelectByCard(p, ok)
        PROVE  purse'.coins["ecd"] < purse.coins["ecd"] => CoinsBuyCycle
    BY <1>6, <1>0 DEF SelectByCard
  <1>7. ASSUME NEW p \in Programs, SelectAndStart(p)
        PROVE  purse'.coins["ecd"] < purse.coins["ecd"] => CoinsBuyCycle
    BY <1>7, <1>0, ChargedTakesTheCost, FsmAssumption
       DEF SelectAndStart, LoadProgram, StartCycle
  <1>8. ASSUME NEW p \in Programs, SelectUnaffordable(p)
        PROVE  purse'.coins["ecd"] < purse.coins["ecd"] => CoinsBuyCycle
    BY <1>8, <1>0 DEF SelectUnaffordable
  <1>9. ASSUME NEW match \in BOOLEAN, NEW ok \in BOOLEAN, VendApproved(match, ok)
        PROVE  purse'.coins["ecd"] < purse.coins["ecd"] => CoinsBuyCycle
    BY <1>9, <1>0, ChargedTakesTheCost
       DEF VendApproved, StartCycle, TypeOK, CardTypeOK, Requests
  <1>10. CASE VendDenied
    BY <1>10, <1>0 DEF VendDenied
  <1>11. CASE ProgramStopped
    BY <1>11, <1>0, StopNowKeepsThePurse DEF ProgramStopped
  <1>12. CASE StopAfterCycle
    BY <1>12, <1>0 DEF StopAfterCycle
  <1>13. CASE PauseToggled
    BY <1>13, <1>0 DEF PauseToggled
  <1>14. ASSUME NEW p \in Programs, ProgramSwitched(p)
         PROVE  purse'.coins["ecd"] < purse.coins["ecd"] => CoinsBuyCycle
    BY <1>14, <1>0 DEF ProgramSwitched
  <1>15. ASSUME NEW aux \in EndedAux, CreditEnded(aux)
         PROVE  purse'.coins["ecd"] < purse.coins["ecd"] => CoinsBuyCycle
    BY <1>15, <1>0, DroppingIsGood, FsmAssumption DEF CreditEnded
  <1>16. CASE SystemError
    BY <1>16, <1>0 DEF SystemError
  <1>17. CASE SystemRun
    BY <1>17, <1>0 DEF SystemRun
  <1>18. CASE LvglTestEntered
    BY <1>18, <1>0 DEF LvglTestEntered
  <1>19. CASE LvglTestExited
    BY <1>19, <1>0 DEF LvglTestExited
  <1>20. CASE TagRemovedInProgram
    BY <1>20, <1>0, DroppingIsGood DEF TagRemovedInProgram
  <1>21. CASE TagRemovedInCredit
    BY <1>21, <1>0 DEF TagRemovedInCredit
  <1>22. ASSUME NEW dt \in Elapsed, TickWaiting(dt)
         PROVE  purse'.coins["ecd"] < purse.coins["ecd"] => CoinsBuyCycle
    BY <1>22, <1>0 DEF TickWaiting
  <1>23. ASSUME NEW dt \in Elapsed, TickCreditTimeout(dt)
         PROVE  purse'.coins["ecd"] < purse.coins["ecd"] => CoinsBuyCycle
    BY <1>23, <1>0, DroppingIsGood DEF TickCreditTimeout
  <1>24. ASSUME NEW dt \in Elapsed, TickRunning(dt)
         PROVE  purse'.coins["ecd"] < purse.coins["ecd"] => CoinsBuyCycle
    BY <1>24, <1>0 DEF TickRunning
  <1>25. ASSUME NEW dt \in Elapsed, TickRenew(dt)
         PROVE  purse'.coins["ecd"] < purse.coins["ecd"] => CoinsBuyCycle
    BY <1>25, <1>0, ChargedTakesTheCost
       DEF TickRenew, MayRenew, CycleOver, TypeOK, CycleTypeOK
  <1>26. ASSUME NEW dt \in Elapsed, TickExhausted(dt)
         PROVE  purse'.coins["ecd"] < purse.coins["ecd"] => CoinsBuyCycle
    BY <1>26, <1>0, ExhaustedKeepsThePurse DEF TickExhausted
  <1>27. ASSUME NEW dt \in Elapsed, TickStop(dt)
         PROVE  purse'.coins["ecd"] < purse.coins["ecd"] => CoinsBuyCycle
    BY <1>27, <1>0, StopNowKeepsThePurse DEF TickStop
  <1>28. ASSUME NEW dt \in Elapsed, TickPaused(dt)
         PROVE  purse'.coins["ecd"] < purse.coins["ecd"] => CoinsBuyCycle
    BY <1>28, <1>0 DEF TickPaused
  <1>29. CASE UNCHANGED vars
    BY <1>29, <1>0 DEF vars, session, clock, cycle, card
  <1> QED
    BY <1>1, <1>2, <1>3, <1>4, <1>5, <1>6, <1>7, <1>8, <1>9, <1>10, <1>11, <1>12, <1>13,
       <1>14, <1>15, <1>16, <1>17, <1>18, <1>19, <1>20, <1>21, <1>22, <1>23, <1>24,
       <1>25, <1>26, <1>27, <1>28, <1>29
       DEF Next, Input, Payment, Choice, Command, Service, Removal, Time, Tick

\* In a program to be stopped nothing charges: the renewal is refused.
LEMMA StopStep ==
    ASSUME TypeOK, GoodPurse(purse), [Next]_vars
    PROVE  stopAfter /\ state \in Active /\ state' \in Active =>
                Held(purse'.coins) = Held(purse.coins)
  <1> USE DEF Active
  <1>1. ASSUME NEW tag \in OpenSources, Activity(tag)
        PROVE  stopAfter /\ state \in Active /\ state' \in Active =>
                Held(purse'.coins) = Held(purse.coins)
    BY <1>1 DEF Activity
  <1>2. CASE QrScanned
    BY <1>2 DEF QrScanned
  <1>3. ASSUME NEW tag \in CoinTags, NEW amount \in Amounts, CoinInserted(tag, amount)
        PROVE  stopAfter /\ state \in Active /\ state' \in Active =>
                Held(purse'.coins) = Held(purse.coins)
    BY <1>3 DEF CoinInserted
  <1>4. ASSUME NEW code \in QrCodes, NEW amount \in Amounts, QrCredited(code, amount)
        PROVE  stopAfter /\ state \in Active /\ state' \in Active =>
                Held(purse'.coins) = Held(purse.coins)
    BY <1>4 DEF QrCredited
  <1>5. ASSUME NEW amount \in Amounts, CardCredited(amount)
        PROVE  stopAfter /\ state \in Active /\ state' \in Active =>
                Held(purse'.coins) = Held(purse.coins)
    BY <1>5 DEF CardCredited
  <1>6. ASSUME NEW p \in Programs, NEW ok \in BOOLEAN, SelectByCard(p, ok)
        PROVE  stopAfter /\ state \in Active /\ state' \in Active =>
                Held(purse'.coins) = Held(purse.coins)
    BY <1>6 DEF SelectByCard
  <1>7. ASSUME NEW p \in Programs, SelectAndStart(p)
        PROVE  stopAfter /\ state \in Active /\ state' \in Active =>
                Held(purse'.coins) = Held(purse.coins)
    BY <1>7 DEF SelectAndStart, LoadProgram, MaySelect
  <1>8. ASSUME NEW p \in Programs, SelectUnaffordable(p)
        PROVE  stopAfter /\ state \in Active /\ state' \in Active =>
                Held(purse'.coins) = Held(purse.coins)
    BY <1>8 DEF SelectUnaffordable
  <1>9. ASSUME NEW match \in BOOLEAN, NEW ok \in BOOLEAN, VendApproved(match, ok)
        PROVE  stopAfter /\ state \in Active /\ state' \in Active =>
                Held(purse'.coins) = Held(purse.coins)
    BY <1>9 DEF VendApproved
  <1>10. CASE VendDenied
    BY <1>10 DEF VendDenied
  <1>11. CASE ProgramStopped
    BY <1>11, StopNowKeepsThePurse DEF ProgramStopped
  <1>12. CASE StopAfterCycle
    BY <1>12 DEF StopAfterCycle
  <1>13. CASE PauseToggled
    BY <1>13 DEF PauseToggled
  <1>14. ASSUME NEW p \in Programs, ProgramSwitched(p)
         PROVE  stopAfter /\ state \in Active /\ state' \in Active =>
                Held(purse'.coins) = Held(purse.coins)
    BY <1>14 DEF ProgramSwitched
  <1>15. ASSUME NEW aux \in EndedAux, CreditEnded(aux)
         PROVE  stopAfter /\ state \in Active /\ state' \in Active =>
                Held(purse'.coins) = Held(purse.coins)
    BY <1>15 DEF CreditEnded, Rest
  <1>16. CASE SystemError
    BY <1>16 DEF SystemError
  <1>17. CASE SystemRun
    BY <1>17 DEF SystemRun
  <1>18. CASE LvglTestEntered
    BY <1>18 DEF LvglTestEntered
  <1>19. CASE LvglTestExited
    BY <1>19 DEF LvglTestExited
  <1>20. CASE TagRemovedInProgram
    BY <1>20 DEF TagRemovedInProgram, VirtualHidden
  <1>21. CASE TagRemovedInCredit
    BY <1>21 DEF TagRemovedInCredit
  <1>22. ASSUME NEW dt \in Elapsed, TickWaiting(dt)
         PROVE  stopAfter /\ state \in Active /\ state' \in Active =>
                Held(purse'.coins) = Held(purse.coins)
    BY <1>22 DEF TickWaiting
  <1>23. ASSUME NEW dt \in Elapsed, TickCreditTimeout(dt)
         PROVE  stopAfter /\ state \in Active /\ state' \in Active =>
                Held(purse'.coins) = Held(purse.coins)
    BY <1>23 DEF TickCreditTimeout, Rest
  <1>24. ASSUME NEW dt \in Elapsed, TickRunning(dt)
         PROVE  stopAfter /\ state \in Active /\ state' \in Active =>
                Held(purse'.coins) = Held(purse.coins)
    BY <1>24 DEF TickRunning
  <1>25. ASSUME NEW dt \in Elapsed, TickRenew(dt)
         PROVE  stopAfter /\ state \in Active /\ state' \in Active =>
                Held(purse'.coins) = Held(purse.coins)
    BY <1>25 DEF TickRenew, MayRenew
  <1>26. ASSUME NEW dt \in Elapsed, TickExhausted(dt)
         PROVE  stopAfter /\ state \in Active /\ state' \in Active =>
                Held(purse'.coins) = Held(purse.coins)
    BY <1>26, ExhaustedKeepsThePurse DEF TickExhausted
  <1>27. ASSUME NEW dt \in Elapsed, TickStop(dt)
         PROVE  stopAfter /\ state \in Active /\ state' \in Active =>
                Held(purse'.coins) = Held(purse.coins)
    BY <1>27, StopNowKeepsThePurse DEF TickStop
  <1>28. ASSUME NEW dt \in Elapsed, TickPaused(dt)
         PROVE  stopAfter /\ state \in Active /\ state' \in Active =>
                Held(purse'.coins) = Held(purse.coins)
    BY <1>28 DEF TickPaused
  <1>29. CASE UNCHANGED vars
    BY <1>29 DEF vars, session, clock, cycle, card
  <1> QED
    BY <1>1, <1>2, <1>3, <1>4, <1>5, <1>6, <1>7, <1>8, <1>9, <1>10, <1>11, <1>12, <1>13,
       <1>14, <1>15, <1>16, <1>17, <1>18, <1>19, <1>20, <1>21, <1>22, <1>23, <1>24,
       <1>25, <1>26, <1>27, <1>28, <1>29
       DEF Next, Input, Payment, Choice, Command, Service, Removal, Time, Tick

-----------------------------------------------------------------------------
(* Theorems *)

\* The inductive invariant: the totals and the cap need each other and the
\* types; the vend needs both, because only totals that follow the buckets make
\* the stored credit a promise.
IInv ==
    /\ TypeOK
    /\ CreditWithinCap
    /\ TotalsFollowBuckets
    /\ VendIsCovered
    /\ CustomerIsOfSession
    /\ CycleNeverOverruns

\* The invariant in the form the lemmas on the purse ask for.
LEMMA PurseIsGood == IInv => GoodPurse(purse)
  BY DEF IInv, GoodPurse, WithinCap, TotalsAgree, CreditWithinCap, TotalsFollowBuckets,
         TypeOK

\* The inductive invariant holds initially.
LEMMA IInvInit == Init => IInv
  <1> SUFFICES ASSUME Init PROVE IInv
    OBVIOUS
  <1>1. CreditWithinCap /\ TotalsFollowBuckets
    BY EmptyIsGood
       DEF Init, GoodPurse, WithinCap, TotalsAgree, CreditWithinCap, TotalsFollowBuckets
  <1>2. VendIsCovered /\ CustomerIsOfSession /\ CycleNeverOverruns
    BY DEF Init, VendIsCovered, CustomerIsOfSession, CycleNeverOverruns, Active
  <1> QED BY <1>1, <1>2, TypeInit DEF IInv

\* The inductive invariant is preserved by every step.
LEMMA IInvStep == IInv /\ [Next]_vars => IInv'
  <1> SUFFICES ASSUME IInv, [Next]_vars PROVE IInv'
    OBVIOUS
  <1>1. TypeOK /\ GoodPurse(purse)
    BY PurseIsGood DEF IInv
  <1>2. TypeOK'
    BY <1>1, TypeStep
  <1>3. CreditWithinCap' /\ TotalsFollowBuckets'
    BY <1>1, PurseStep
       DEF GoodPurse, WithinCap, TotalsAgree, CreditWithinCap, TotalsFollowBuckets
  <1>4. VendIsCovered'
    BY <1>1, VendStep DEF IInv
  <1>5. CustomerIsOfSession'
    BY <1>1, CustomerStep DEF IInv
  <1>6. CycleNeverOverruns'
    BY <1>1, <1>2, OverrunStep DEF IInv
  <1> QED BY <1>2, <1>3, <1>4, <1>5, <1>6 DEF IInv

\* IInv holds in every reachable state (fsm_handle_input_event, fsm_tick).
THEOREM Invariance == Spec => []IInv
  BY IInvInit, IInvStep, PTL DEF Spec

\* Every field of the context keeps its type: no counter, time or bucket ever
\* goes below zero (fsm_ctx_t).
THEOREM TypeCorrect == Spec => []TypeOK
  <1>1. IInv => TypeOK
    BY DEF IInv
  <1> QED BY <1>1, Invariance, PTL

\* The credit never exceeds the cap and no residue makes a credit, whatever
\* payments come (fsm_add_credit_from_cents_bucket).
THEOREM CapHolds == Spec => []CreditWithinCap
  <1>1. IInv => CreditWithinCap
    BY DEF IInv
  <1> QED BY <1>1, Invariance, PTL

\* The stored totals never promise credit the buckets do not hold
\* (fsm_recalc_credit_totals and the writers that bypass it).
THEOREM TotalsHold == Spec => []TotalsFollowBuckets
  <1>1. IInv => TotalsFollowBuckets
    BY DEF IInv
  <1> QED BY <1>1, Invariance, PTL

\* An approved vend never fails on the local charge (CARD_VEND_APPROVED).
THEOREM VendStaysCovered == Spec => []VendIsCovered
  <1>1. IInv => VendIsCovered
    BY DEF IInv
  <1> QED BY <1>1, Invariance, PTL

\* The customer code is always that of the session
\* (fsm_prepare_open_session, fsm_reset_runtime_locked).
THEOREM CustomerStaysOfSession == Spec => []CustomerIsOfSession
  <1>1. IInv => CustomerIsOfSession
    BY DEF IInv
  <1> QED BY <1>1, Invariance, PTL

\* The remaining time never wraps, for any table of programs and any sequence
\* of switches, pauses and renewals (fsm_tick, PROGRAM_SWITCH).
THEOREM NoOverrun == Spec => []CycleNeverOverruns
  <1>1. IInv => CycleNeverOverruns
    BY DEF IInv
  <1> QED BY <1>1, Invariance, PTL

\* Every cycle that starts is paid, exactly (fsm_try_charge_program_cycle).
THEOREM EveryCycleIsPaid == Spec => CyclesArePaid
  <1>1. IInv /\ [Next]_vars =>
            [CycleStarts => Held(purse.coins) - Held(purse'.coins) = price']_vars
    BY PurseIsGood, PaidStep DEF IInv
  <1> QED BY <1>1, Invariance, PTL DEF Spec, CyclesArePaid

\* Coins only ever buy cycles, when the only CREDIT_ENDED sent is the one that
\* drops the virtual credit (aux = 1, the only one a task publishes).
THEOREM CoinsAreSafe ==
    ASSUME 0 \notin EndedAux
    PROVE  Spec => CoinsOnlyBuyCycles
  <1>1. IInv /\ [Next]_vars =>
            [purse'.coins["ecd"] < purse.coins["ecd"] =>
                /\ state' = "RUNNING" /\ elapsed' = 0
                /\ Held(purse.coins) - Held(purse'.coins) = price']_vars
    BY PurseIsGood, CoinsStep DEF IInv, CoinsBuyCycle
  <1> QED BY <1>1, Invariance, PTL DEF Spec, CoinsOnlyBuyCycles

\* A confirmed stop keeps the program from charging again
\* (fsm_try_autorenew_running_program, PROGRAM_STOP with aux = 1).
THEOREM StopIsHonoured == Spec => StopRequestStopsCharging
  <1>1. IInv /\ [Next]_vars =>
            [stopAfter /\ state \in Active /\ state' \in Active =>
                Held(purse'.coins) = Held(purse.coins)]_vars
    BY PurseIsGood, StopStep DEF IInv
  <1> QED BY <1>1, Invariance, PTL DEF Spec, StopRequestStopsCharging

-----------------------------------------------------------------------------
(* The state machine implements ProgramLife: what FsmSupervisor and        *)
(* ProgramOutputs assume of it is true of it.                              *)

\* What a vend in progress will start is a program of the table.
PendingIsKnown == vendPending => pending.program \in Programs

\* While a program runs or is paused it is one of the table.
ProgramIsKnown == Life!ProgramIsKnown

\* Only a choice sets the fields of a vend, all others forget them.
LEMMA PendingStep ==
    ASSUME PendingIsKnown, [Next]_vars
    PROVE  PendingIsKnown'
  <1> USE DEF PendingIsKnown
  <1>1. ASSUME NEW p \in Programs, NEW ok \in BOOLEAN, SelectByCard(p, ok)
        PROVE  PendingIsKnown'
    BY <1>1 DEF SelectByCard
  <1>2. CASE vendPending' = FALSE
    BY <1>2
  <1>3. CASE UNCHANGED <<vendPending, pending>>
    BY <1>3
  <1>4. \/ \E p \in Programs, ok \in BOOLEAN : SelectByCard(p, ok)
        \/ vendPending' = FALSE
        \/ UNCHANGED <<vendPending, pending>>
    <2>1. ASSUME NEW tag \in OpenSources, Activity(tag)
          PROVE  UNCHANGED <<vendPending, pending>>
      BY <2>1 DEF Activity, card
    <2>2. ASSUME NEW amount \in Amounts,
                 \/ \E tag \in CoinTags : CoinInserted(tag, amount)
                 \/ \E code \in QrCodes : QrCredited(code, amount)
                 \/ CardCredited(amount)
          PROVE  UNCHANGED <<vendPending, pending>>
      BY <2>2 DEF CoinInserted, QrCredited, CardCredited, card
    <2>3. ASSUME NEW p \in Programs,
                 SelectAndStart(p) \/ SelectUnaffordable(p) \/ ProgramSwitched(p)
          PROVE  UNCHANGED <<vendPending, pending>>
      BY <2>3 DEF SelectAndStart, SelectUnaffordable, ProgramSwitched, LoadProgram, card
    <2>4. ASSUME (\E match, ok \in BOOLEAN : VendApproved(match, ok)) \/ VendDenied
          PROVE  vendPending' = FALSE
      BY <2>4 DEF VendApproved, VendDenied, ForgetVend
    <2>5. CASE ProgramStopped \/ StopAfterCycle \/ PauseToggled \/ QrScanned
      BY <2>5 DEF ProgramStopped, StopNow, StopAfterCycle, PauseToggled, QrScanned, card
    <2>6. ASSUME NEW aux \in EndedAux, CreditEnded(aux)
          PROVE  vendPending' = FALSE \/ UNCHANGED <<vendPending, pending>>
      BY <2>6 DEF CreditEnded, ForgetVend
    <2>7. CASE Service \/ Removal
      BY <2>7
         DEF Service, Removal, SystemError, SystemRun, LvglTestEntered, LvglTestExited,
             TagRemovedInProgram, TagRemovedInCredit, card
    <2>8. ASSUME NEW dt \in Elapsed, Tick(dt)
          PROVE  UNCHANGED <<vendPending, pending>>
      BY <2>8
         DEF Tick, TickWaiting, TickCreditTimeout, TickRunning, TickRenew, TickExhausted,
             TickStop, StopNow, TickPaused, card
    <2>9. CASE UNCHANGED vars
      BY <2>9 DEF vars, card
    <2> QED
      BY <2>1, <2>2, <2>3, <2>4, <2>5, <2>6, <2>7, <2>8, <2>9
         DEF Next, Input, Time, Payment, Choice, Command
  <1> QED BY <1>1, <1>2, <1>3, <1>4

-----------------------------------------------------------------------------

\* The end of a program takes it off the record.
LEMMA ResetForgetsProgram == ResetCycle => program' = NoProgram
  BY DEF ResetCycle

\* A program that stops ends in the sense of ProgramLife.
LEMMA StopIsEnd == state \in Active /\ StopNow => Life!Ended
  BY ResetForgetsProgram DEF StopNow, Rest, Active, Life!Ended, Life!Active, Life!Rest

\* Every step of the state machine is one of ProgramLife, or none.
LEMMA LifeStep ==
    ASSUME PendingIsKnown, [Next]_vars
    PROVE  [Life!LifeNext]_<<state, program>>
  <1> USE DEF Active, Resting, Rest, Life!Active, Life!Resting, Life!Rest
  <1>1. ASSUME NEW tag \in OpenSources, Activity(tag)
        PROVE  Life!SessionOpened \/ UNCHANGED <<state, program>>
    BY <1>1 DEF Activity, OpenState, cycle, Life!SessionOpened
  <1>2. CASE QrScanned
    <2>1. Life!SessionOpened \/ UNCHANGED <<state, program>>
      BY <1>2, ResetForgetsProgram DEF QrScanned, cycle, Life!SessionOpened
    <2> QED BY <2>1 DEF Life!LifeNext
  <1>3. ASSUME NEW amount \in Amounts,
               \/ \E tag \in CoinTags : CoinInserted(tag, amount)
               \/ \E code \in QrCodes : QrCredited(code, amount)
               \/ CardCredited(amount)
        PROVE  Life!SessionOpened \/ UNCHANGED <<state, program>>
    BY <1>3 DEF CoinInserted, QrCredited, CardCredited, OpenState, cycle, Life!SessionOpened
  <1>4. ASSUME NEW p \in Programs, NEW ok \in BOOLEAN, SelectByCard(p, ok)
        PROVE  UNCHANGED <<state, program>>
    BY <1>4 DEF SelectByCard, cycle
  <1>5. ASSUME NEW p \in Programs, SelectAndStart(p)
        PROVE  Life!Started(p)
    BY <1>5 DEF SelectAndStart, LoadProgram, MaySelect, StartCycle, Life!Started
  <1>6. ASSUME NEW p \in Programs, SelectUnaffordable(p)
        PROVE  Life!Loaded(p)
    BY <1>6 DEF SelectUnaffordable, LoadProgram, MaySelect, Life!Loaded
  <1>7. ASSUME NEW p \in Programs, ProgramSwitched(p)
        PROVE  Life!Switched(p)
    BY <1>7 DEF ProgramSwitched, Resume, Life!Switched
  <1>8. ASSUME NEW match \in BOOLEAN, NEW ok \in BOOLEAN, VendApproved(match, ok)
        PROVE  \/ \E p \in Programs : Life!Started(p) \/ Life!Loaded(p)
               \/ UNCHANGED <<state, program>>
    <2>1. pending.program \in Programs /\ state = "CREDIT"
      BY <1>8 DEF VendApproved, PendingIsKnown
    <2>2. \/ state' = "RUNNING" /\ program' = pending.program
          \/ state' = "CREDIT" /\ program' = pending.program
          \/ UNCHANGED <<state, program>>
      BY <1>8, <2>1 DEF VendApproved, StartCycle
    <2> QED BY <2>1, <2>2 DEF Life!Started, Life!Loaded
  <1>9. CASE VendDenied
    BY <1>9 DEF VendDenied, cycle
  <1>10. CASE ProgramStopped
    BY <1>10, StopIsEnd DEF ProgramStopped, Life!LifeNext
  <1>11. CASE StopAfterCycle \/ PauseToggled
    <2>1. Life!Paused \/ Life!Resumed \/ UNCHANGED <<state, program>>
      BY <1>11 DEF StopAfterCycle, PauseToggled, Resume, Life!Paused, Life!Resumed
    <2> QED BY <2>1 DEF Life!LifeNext
  <1>12. ASSUME NEW aux \in EndedAux, CreditEnded(aux)
         PROVE  Life!Ended \/ Life!SessionClosed \/ UNCHANGED <<state, program>>
    BY <1>12, ResetForgetsProgram DEF CreditEnded, cycle, Life!Ended, Life!SessionClosed
  <1>13. CASE Service
    <2>1. Life!Broken \/ Life!Restored \/ Life!TestEntered \/ Life!TestLeft
      BY <1>13
         DEF Service, SystemError, SystemRun, LvglTestEntered, LvglTestExited, cycle,
             Life!Broken, Life!Restored, Life!TestEntered, Life!TestLeft
    <2> QED BY <2>1 DEF Life!LifeNext
  <1>14. CASE Removal
    BY <1>14 DEF Removal, TagRemovedInProgram, TagRemovedInCredit, cycle
  <1>15. ASSUME NEW dt \in Elapsed, Tick(dt)
         PROVE  \/ Life!Ended \/ Life!SessionClosed \/ Life!Resumed
                \/ UNCHANGED <<state, program>>
    <2>1. CASE TickWaiting(dt) \/ TickRunning(dt) \/ TickRenew(dt)
      BY <2>1 DEF TickWaiting, TickRunning, TickRenew, cycle
    <2>2. CASE TickCreditTimeout(dt)
      BY <2>2, ResetForgetsProgram DEF TickCreditTimeout, Life!SessionClosed
    <2>3. CASE TickExhausted(dt)
      BY <2>3, ResetForgetsProgram DEF TickExhausted, CycleOver, Life!Ended
    <2>4. CASE TickStop(dt)
      BY <2>4, StopIsEnd DEF TickStop, CycleOver
    <2>5. CASE TickPaused(dt)
      BY <2>5 DEF TickPaused, Resume, Life!Resumed
    <2> QED BY <1>15, <2>1, <2>2, <2>3, <2>4, <2>5 DEF Tick
  <1>16. CASE UNCHANGED vars
    BY <1>16 DEF vars, cycle
  <1> QED
    BY <1>1, <1>2, <1>3, <1>4, <1>5, <1>6, <1>7, <1>8, <1>9, <1>10, <1>11, <1>12, <1>13,
       <1>14, <1>15, <1>16
       DEF Next, Input, Time, Payment, Choice, Command, Life!LifeNext

\* The state machine implements ProgramLife (fsm_handle_input_event, fsm_tick).
THEOREM FsmImplementsLife == Spec => ImplementsLife
  <1>1. Init => Life!LifeInit
    BY DEF Init, Life!LifeInit
  <1>2. Init => PendingIsKnown
    BY DEF Init, PendingIsKnown
  <1>3. PendingIsKnown /\ [Next]_vars => PendingIsKnown'
    BY PendingStep
  <1>4. PendingIsKnown /\ [Next]_vars => [Life!LifeNext]_<<state, program>>
    BY LifeStep
  <1> QED BY <1>1, <1>2, <1>3, <1>4, PTL DEF Spec, ImplementsLife, Life!LifeSpec, Life!life

\* A program that runs, started by credit or by the card reader, or switched to,
\* is always one of the table (tasks_find_running_program_entry relies on it).
THEOREM RunningProgramIsKnown == Spec => []ProgramIsKnown
  <1> USE DEF Life!States, Life!Active, Life!Resting, Life!Rest
  <1>1. Life!LifeInit => ProgramIsKnown
    BY FsmAssumption DEF Life!LifeInit, ProgramIsKnown, Life!ProgramIsKnown
  <1>2. ProgramIsKnown /\ [Life!LifeNext]_<<state, program>> => ProgramIsKnown'
    BY FsmAssumption
       DEF ProgramIsKnown, Life!ProgramIsKnown, Life!LifeNext, Life!Started, Life!Loaded,
           Life!Switched, Life!Paused, Life!Resumed, Life!Ended, Life!SessionOpened,
           Life!SessionClosed, Life!TestEntered, Life!TestLeft, Life!Broken, Life!Restored
  <1> QED
    BY <1>1, <1>2, FsmImplementsLife, PTL DEF ImplementsLife, Life!LifeSpec, Life!life

=============================================================================
