------------------------------- MODULE Credit -------------------------------
(***************************************************************************)
(* The purse of the machine (main/fsm.c): three buckets of whole credits   *)
(* (coins: ECD; NFC card and QR: VCD), the cents of each bucket that do    *)
(* not make a credit yet, and two totals the code stores beside them       *)
(* (vcd_coins and credit_cents) and recomputes only at some places.  The   *)
(* *_used counters are only reported, and left out.                        *)
(***************************************************************************)
EXTENDS Integers

CONSTANTS
    MaxCredit,       \* FSM_MAX_CREDIT_COINS (99): cap on the sum of the buckets
    CentsPerCredit   \* FSM_CENTS_PER_CREDIT (100)

ASSUME CreditAssumption ==
    /\ MaxCredit \in Nat
    /\ CentsPerCredit \in Nat \ {0}

Buckets == {"ecd", "card", "qr"}

Purse == [coins : [Buckets -> Nat], cents : [Buckets -> Nat], vcd : Nat, credit : Nat]

Smaller(a, b) == IF a <= b THEN a ELSE b

\* What the buckets really hold, whatever the stored totals say.
Held(coins) == coins["ecd"] + coins["card"] + coins["qr"]

\* fsm_recalc_credit_totals: both totals from the buckets.
Recalculated(coins, cents) ==
    [coins |-> coins, cents |-> cents,
     vcd |-> coins["card"] + coins["qr"], credit |-> Held(coins)]

EmptyPurse == Recalculated([b \in Buckets |-> 0], [b \in Buckets |-> 0])

\* The bucket a payment goes to depends only on its source.
BucketOf(source) ==
    CASE source = "QR"   -> "qr"
      [] source = "CARD" -> "card"
      [] OTHER           -> "ecd"

\* bug: the room is computed from the coins alone
AvailableByCoins(coins) == MaxCredit - coins["ecd"]

Available(coins) == IF Held(coins) >= MaxCredit THEN 0 ELSE MaxCredit - Held(coins)

\* bug: at the cap the credits that do not fit stay as cents
ResidueKept(total, room) ==
    total - Smaller(total \div CentsPerCredit, room) * CentsPerCredit

\* what is left of total cents when room credits are free
Residue(total, room) ==
    IF total \div CentsPerCredit > room THEN 0 ELSE total % CentsPerCredit

\* fsm_add_credit_from_cents: whole credits up to the cap; at the cap the
\* cents in excess, the residual ones included, are lost.
AddCents(p, source, amount) ==
    LET b       == BucketOf(source)
        total   == p.cents[b] + amount
        room    == Available(p.coins)
    IN  IF amount <= 0
        THEN p
        ELSE Recalculated(
                [p.coins EXCEPT ![b] = @ + Smaller(total \div CentsPerCredit, room)],
                [p.cents EXCEPT ![b] = Residue(total, room)])

\* fsm_try_charge_program_cycle: coins first, then the card, then the QR credit.
FromEcd(coins, cost)  == Smaller(coins["ecd"], cost)
FromCard(coins, cost) == Smaller(coins["card"], cost - FromEcd(coins, cost))
FromQr(coins, cost)   ==
    Smaller(coins["qr"], cost - FromEcd(coins, cost) - FromCard(coins, cost))

\* The stored total is compared before the buckets are.
CanCharge(p, cost) ==
    /\ cost > 0
    /\ p.credit >= cost
    /\ FromEcd(p.coins, cost) + FromCard(p.coins, cost) + FromQr(p.coins, cost) = cost

\* bug: the coins pay everything
ChargedToCoins(p, cost) ==
    Recalculated([p.coins EXCEPT !["ecd"] = @ - cost], p.cents)

\* bug: the QR credit is not taken
ChargedWithoutQr(p, cost) ==
    Recalculated(
        [p.coins EXCEPT !["ecd"] = @ - FromEcd(p.coins, cost),
                        !["card"] = @ - FromCard(p.coins, cost)],
        p.cents)

Charged(p, cost) ==
    Recalculated(
        [b \in Buckets |->
            p.coins[b] - CASE b = "ecd"  -> FromEcd(p.coins, cost)
                           [] b = "card" -> FromCard(p.coins, cost)
                           [] b = "qr"   -> FromQr(p.coins, cost)],
        p.cents)

\* CREDIT_ENDED with aux = 1: the virtual credit and its cents are gone.
WithoutVirtual(p) ==
    Recalculated([b \in Buckets |-> IF b = "ecd" THEN p.coins[b] ELSE 0],
                 [b \in Buckets |-> IF b = "ecd" THEN p.cents[b] ELSE 0])

\* bug: the timeout empties the whole purse
RetainedNothing(p) == EmptyPurse

\* Timeout of the program choice: the coins stay, everything else is zeroed.
RetainedEcd(p) ==
    Recalculated([b \in Buckets |-> IF b = "ecd" THEN p.coins[b] ELSE 0],
                 [b \in Buckets |-> 0])

\* bug: only one of the two totals is written
VirtualHalfHidden(p) == [p EXCEPT !.vcd = 0]

\* Tag removed during a program (main/tasks.c): the totals are written, the
\* buckets are not.
VirtualHidden(p) ==
    [coins |-> p.coins, cents |-> p.cents, vcd |-> 0, credit |-> p.coins["ecd"]]

=============================================================================
