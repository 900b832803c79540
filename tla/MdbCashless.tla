---------------------------- MODULE MdbCashless -----------------------------
(***************************************************************************)
(* The record components/mdb keeps of the card reader, and what the calls  *)
(* of mdb_cashless.c do to it: each operator takes the record and returns  *)
(* the record after the call.  An amount of 0 is none.                     *)
(*                                                                         *)
(* Left out: the identity of the reader and of the key, the texts, error   *)
(* counters and times, which nothing on the way of a payment reads, and    *)
(* the revaluation, which no task of the machine asks for.                 *)
(***************************************************************************)
EXTENDS Naturals

Polls == {"INACTIVE", "INIT_RESET", "INIT_SETUP", "INIT_EXPANSION", "INIT_ENABLE",
          "IDLE_POLLING", "ERROR"}

\* what a reader says, "NONE" for a response code cleared by the bus master
Responses == {"JUST_RESET", "BEGIN_SESSION", "SESSION_CANCEL", "VEND_APPROVED",
              "VEND_DENIED", "END_SESSION", "REQUEST_ID", "OUT_OF_SEQUENCE"}

Messages == [code : Responses, cents : Nat]

NoResult == [pending |-> FALSE, approved |-> FALSE, cents |-> 0]

Devices ==
    [poll : Polls, present : BOOLEAN,
     config : BOOLEAN, setup : BOOLEAN, expansion : BOOLEAN, \* config_read, vmc_setup_done, expansion_read
     open : BOOLEAN,                                         \* session_open
     session : {"IDLE", "OPEN", "VEND_REQUESTED", "VEND_APPROVED", "ENDING"},
     vend : {"IDLE", "PENDING", "WORKING", "APPROVED", "DENIED"},
     credit : Nat, request : Nat, approved : Nat,            \* credit_cents, request_, approved_price_cents
     result : [pending : BOOLEAN, approved : BOOLEAN, cents : Nat], \* vend_result_*
     sync : BOOLEAN, synced : Nat,                           \* credit_sync_pending, last_synced_credit_cents
     success : BOOLEAN, complete : BOOLEAN,                  \* vend_success_, session_complete_requested
     last : Responses \cup {"NONE"}]

\* mdb_cashless_zero_dynamic_state: all but the last response
Zeroed(d) ==
    [poll |-> "INACTIVE", present |-> FALSE, config |-> FALSE, setup |-> FALSE,
     expansion |-> FALSE, open |-> FALSE, session |-> "IDLE", vend |-> "IDLE",
     credit |-> 0, request |-> 0, approved |-> 0, result |-> NoResult,
     sync |-> FALSE, synced |-> 0, success |-> FALSE, complete |-> FALSE,
     last |-> d.last]

\* mdb_cashless_reset_device
ResetDevice == Zeroed([last |-> "NONE"])

\* mdb_cashless_get_active_device_index
ActiveDevice(d) == d.present /\ d.open

-----------------------------------------------------------------------------
(* What the reader says *)

\* mdb_cashless_parse_begin_session: a credit known already is not announced
\* again, and what an ended session left behind is dropped
Begun(d, cents) ==
    LET ending == d.session = "ENDING"
        told   == d.open /\ ~ending /\ d.synced = cents
    IN  [d EXCEPT !.open = TRUE, !.session = "OPEN",
                  !.complete = FALSE, !.success = FALSE,
                  !.credit = cents,
                  !.vend = IF ending THEN "IDLE" ELSE @,
                  !.request = IF ending THEN 0 ELSE @,
                  !.approved = IF ending THEN 0 ELSE @,
                  !.result = IF ending THEN NoResult ELSE @,
                  !.sync = IF told THEN @ ELSE cents > 0]

\* SESSION_CANCEL: a vend in progress is answered with a denial
Cancelled(d) ==
    LET asked == d.vend \in {"PENDING", "WORKING"}
                 \/ d.session \in {"VEND_REQUESTED", "VEND_APPROVED"}
    IN  [d EXCEPT !.open = FALSE, !.session = "ENDING",
                  !.complete = TRUE, !.success = FALSE,
                  !.vend = IF asked THEN "DENIED" ELSE "IDLE",
                  !.result = [NoResult EXCEPT !.pending = asked]]

Approved(d, cents) ==
    [d EXCEPT !.vend = "APPROVED", !.session = "VEND_APPROVED", !.approved = cents,
              !.result = [pending |-> TRUE, approved |-> TRUE, cents |-> cents]]

Denied(d) ==
    [d EXCEPT !.vend = "DENIED", !.session = "ENDING", !.complete = TRUE,
              !.result = [NoResult EXCEPT !.pending = TRUE]]

\* mdb_cashless_finalize_session_close: an answer not yet passed on stays
Finalized(d) ==
    [d EXCEPT !.open = FALSE, !.session = "IDLE", !.vend = "IDLE",
              !.request = 0, !.approved = 0, !.result.cents = 0,
              !.credit = 0, !.synced = 0, !.sync = FALSE,
              !.success = FALSE, !.complete = FALSE, !.last = "END_SESSION"]

OutOfSequence(d) == [d EXCEPT !.open = FALSE, !.session = "IDLE", !.vend = "IDLE"]

\* mdb_cashless_handle_poll_response: a repeated CANCEL or END is ignored
Parsed(d, msg) ==
    LET e == [d EXCEPT !.last = msg.code, !.present = TRUE]
    IN  IF msg.code \in {"SESSION_CANCEL", "END_SESSION"} /\ d.last = msg.code THEN e
        ELSE CASE msg.code = "JUST_RESET" -> Zeroed(e)
          [] msg.code = "BEGIN_SESSION"   -> Begun(e, msg.cents)
          [] msg.code = "SESSION_CANCEL"  -> Cancelled(e)
          [] msg.code = "VEND_APPROVED"   -> Approved(e, msg.cents)
          [] msg.code = "VEND_DENIED"     -> Denied(e)
          [] msg.code = "END_SESSION"     -> Finalized(e)
          [] msg.code = "REQUEST_ID"      -> [e EXCEPT !.expansion = TRUE]
          [] msg.code = "OUT_OF_SEQUENCE" -> OutOfSequence(e)

-----------------------------------------------------------------------------
(* What the FSM asks for *)

\* bug: the price is not written
PreparedVendUnpriced(d, cents) == [d EXCEPT !.vend = "PENDING", !.session = "VEND_REQUESTED"]

\* mdb_cashless_request_program_vend; the caller looks at ActiveDevice first
PreparedVend(d, cents) ==
    [d EXCEPT !.request = cents, !.vend = "PENDING", !.session = "VEND_REQUESTED"]

\* mdb_cashless_confirm_vend_success; likewise
PreparedSuccess(d, cents) == [d EXCEPT !.approved = cents, !.success = TRUE]

\* mdb_cashless_complete_active_session: nothing happens without a session
Completing(d) ==
    IF ActiveDevice(d) THEN [d EXCEPT !.complete = TRUE, !.session = "ENDING"] ELSE d

\* mdb_cashless_close_session_locally
ClosedLocally(d) == IF d.open \/ d.session = "ENDING" THEN Finalized(d) ELSE d

\* tasks_is_card_session_removed: present is about the reader, not the card
CardGone(d) ==
    /\ d.present
    /\ ~d.open \/ d.session = "ENDING" \/ d.last \in {"SESSION_CANCEL", "END_SESSION"}

=============================================================================
