------------------------------ MODULE CardSale ------------------------------
(***************************************************************************)
(* What a wash paid by card promises: it starts on money the reader holds, *)
(* that much and once, and while the card stays in the reader the session  *)
(* is not closed before the reader was told that the wash was delivered.   *)
(***************************************************************************)
EXTENDS Naturals

CONSTANT Amounts   \* cents a program may cost or a reader approve

VARIABLES
    card,    \* "out", "in", "pulled" during a session, or the reader "failed"
    held,    \* cents reserved on the card
    owed     \* cents of a wash delivered, and not yet settled with the reader

saleVars == <<card, held, owed>>

SaleInit == card = "out" /\ held = 0 /\ owed = 0

Enter == card = "out" /\ card' = "in" /\ UNCHANGED <<held, owed>>

Reserve == card = "in" /\ held = 0 /\ held' \in Amounts \ {0} /\ UNCHANGED <<card, owed>>

\* the wash costs what is reserved, and no other was paid from it; a reader
\* that fails at this moment has forgotten what it holds
Start ==
    /\ owed = 0
    /\ owed' \in Amounts \ {0}
    /\ card # "failed" => held = owed'
    /\ UNCHANGED <<card, held>>

\* the reader learns of the delivery
Settle == owed > 0 /\ held = owed /\ held' = 0 /\ owed' = 0 /\ UNCHANGED card

\* the session ends, and what was reserved for no wash is given back
Close == card = "in" /\ owed = 0 /\ card' = "out" /\ held' = 0 /\ UNCHANGED owed

Pull == card = "in" /\ card' = "pulled" /\ UNCHANGED <<held, owed>>

Fail == card # "failed" /\ card' = "failed" /\ held' = 0 /\ UNCHANGED owed

\* without the card, or with a failed reader, the wash may stay unsettled
Leave == card \in {"pulled", "failed"} /\ card' = "out" /\ held' = 0 /\ owed' = 0

SaleNext == Enter \/ Reserve \/ Start \/ Settle \/ Close \/ Pull \/ Fail \/ Leave

SaleSpec == SaleInit /\ [][SaleNext]_saleVars

=============================================================================
