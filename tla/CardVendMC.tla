----------------------------- MODULE CardVendMC ------------------------------
(***************************************************************************)
(* One program for the runs of a wash paid by card.                        *)
(***************************************************************************)
EXTENDS CardVend

Ones == [p \in Programs |-> 1]

=============================================================================
