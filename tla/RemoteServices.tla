---------------------------- MODULE RemoteServices ----------------------------
(***************************************************************************)
(* The tasks that talk to the remote server (components/http_services):    *)
(* they log in, keep the token they were given in one global without a     *)
(* lock, and post under whatever token it holds at that moment.  Each      *)
(* step is what a task does up to the next call that blocks.  The server   *)
(* is enabled throughout; the bodies of requests and answers, the login    *)
(* page of the web server and the transfer of files are left out.          *)
(***************************************************************************)
EXTENDS Naturals

CONSTANTS
    Tasks,     \* those that run, of the ones named below
    MaxFaults  \* bound on failures of the network and the server

AllTasks == {"http", "keepalive", "web", "fsm"}

ASSUME RemoteAssumption == Tasks \subseteq AllTasks /\ "http" \in Tasks /\ MaxFaults \in Nat

VARIABLES
    token,    \* g_auth_token: none, one the server takes, or another
    job,      \* what each task is doing
    faults,
    debits,   \* history: times the server has booked the payment in progress
    timeouts, \* history: its answers the client has not waited for
    excused   \* history: it met a fault, or its token was changed by others

rvars == <<token, job, faults, debits, timeouts, excused>>

Tokens == {"none", "good", "bad"}

\* what a task asks for: the http task reports a wash or looks a customer up,
\* the web server forwards a request or has a new configuration, the FSM task
\* checks the state of the service
Kinds(t) == CASE t = "http"      -> {"payment", "lookup"}
              [] t = "keepalive" -> {"keepalive"}
              [] t = "web"       -> {"proxy", "resync"}
              [] t = "fsm"       -> {"check"}

New(kind, at, tries) ==
    [kind |-> kind, at |-> at, auth |-> "none", tries |-> tries, resent |-> FALSE]

Idle == New("none", "idle", 0)

Jobs == [kind : (UNION {Kinds(t) : t \in AllTasks}) \cup {"none"},
         at : {"idle", "login", "storing", "post", "posting"},
         auth : Tokens,        \* the token in hand: to store, or sent
         tries : 0..1, resent : BOOLEAN]

RemoteInit ==
    /\ token = "none"
    /\ job = [t \in Tasks |-> Idle]
    /\ faults = 0 /\ debits = 0 /\ timeouts = 0 /\ excused = FALSE

Paying(t) == job[t].kind = "payment"

Goes(t, next) == job' = [job EXCEPT ![t] = next]

Over(t) == Goes(t, Idle)

Fault == faults < MaxFaults /\ faults' = faults + 1

\* something the payment in progress, if any, has not brought upon itself
Disturbs(cause) == excused' = (excused \/ (Paying("http") /\ cause))

-----------------------------------------------------------------------------
(* Login: http_services_login_if_needed and the callers before it *)

\* bug: a payment goes out under the token there is
TrustsTokenForPayment == {"keepalive", "check", "payment"}

\* requests that log in only when there is no token
TrustsToken == {"keepalive", "check"}

Begin(t, kind) ==
    /\ job[t].at = "idle"
    /\ IF kind \in TrustsToken /\ token # "none"
       THEN /\ Goes(t, IF kind = "check" THEN Idle ELSE New(kind, "post", 0))
            /\ UNCHANGED token
       ELSE /\ Goes(t, New(kind, "login", 0))
            /\ token' = IF kind = "resync" THEN "none" ELSE token
    /\ IF t = "http"
       THEN debits' = 0 /\ timeouts' = 0 /\ excused' = FALSE
       ELSE UNCHANGED <<debits, timeouts>> /\ Disturbs(token' # token)
    /\ UNCHANGED faults

\* the server no longer takes the tokens it has issued so far
Spoiled(auth) == IF auth = "good" THEN "bad" ELSE auth

SpoiledJob(t) == [job[t] EXCEPT !.auth = Spoiled(@)]

\* the server issues a token, and may revoke those it issued before
LoggedIn(t) ==
    LET issued == [job[t] EXCEPT !.at = "storing", !.auth = "good"] IN
    /\ job[t].at = "login"
    /\ \/ Goes(t, issued) /\ UNCHANGED <<token, faults, excused>>
       \/ /\ Fault
          /\ job' = [u \in Tasks |-> IF u = t THEN issued ELSE SpoiledJob(u)]
          /\ token' = Spoiled(token)
          /\ Disturbs(~Paying(t))
    /\ UNCHANGED <<debits, timeouts>>

\* no answer, an answer without a token, or 401 and 403
LoginFailed(t) ==
    /\ job[t].at = "login"
    /\ Fault
    /\ token' \in {token, "none"}
    /\ Over(t)
    /\ Disturbs(Paying(t) \/ token' # token)
    /\ UNCHANGED <<debits, timeouts>>

\* store_auth_token, and the end of http_services_sync_runtime_state
Stored(t) ==
    /\ job[t].at = "storing"
    /\ token' = job[t].auth
    /\ IF job[t].kind \in {"check", "resync"} THEN Over(t)
       ELSE Goes(t, [job[t] EXCEPT !.at = "post", !.auth = "none"])
    /\ Disturbs(~Paying(t))
    /\ UNCHANGED <<faults, debits, timeouts>>

-----------------------------------------------------------------------------
(* The request: remote_post and the callers after it *)

\* the header is made of the token: one that is being written may be read in
\* halves
Post(t) ==
    LET writers == {u \in Tasks \ {t} : job[u].at = "storing"} IN
    /\ job[t].at = "post"
    /\ \E read \in {token} \cup (IF writers = {} THEN {} ELSE {"good", "bad"}) :
         Goes(t, [job[t] EXCEPT !.at = "posting", !.auth = read])
    /\ Disturbs(Paying(t) /\ writers # {})
    /\ UNCHANGED <<token, faults, debits, timeouts>>

Booked(t) == debits' = IF Paying(t) THEN debits + 1 ELSE debits

Accepted(t) ==
    /\ job[t].at = "posting" /\ job[t].auth = "good"
    /\ Over(t)
    /\ Booked(t)
    /\ UNCHANGED <<token, faults, timeouts, excused>>

\* bug: 401 and 403 are an error like any other
EndOfRequest(t) == UNCHANGED token /\ Over(t)

\* 401 and 403: the token is forgotten, whoever has stored it meanwhile; a
\* lookup and a keepalive log in and try once again
TokenRefused(t) ==
    /\ token' = "none"
    /\ IF job[t].kind \in {"lookup", "keepalive"} /\ job[t].tries = 0
       THEN Goes(t, New(job[t].kind, "login", 1))
       ELSE Over(t)

Refused(t) ==
    /\ job[t].at = "posting" /\ job[t].auth # "good"
    /\ TokenRefused(t)
    /\ Disturbs(~Paying(t) /\ token # "none")
    /\ UNCHANGED <<faults, debits, timeouts>>

\* bug: what was not answered is posted again
PostedAgain(t) == Goes(t, [job[t] EXCEPT !.at = "post"])

\* no answer, or an error of the server: the caller gives up
GivenUp(t) == Over(t)

Unanswered(t) ==
    /\ job[t].at = "posting"
    /\ Fault
    /\ GivenUp(t)
    /\ IF job[t].auth = "good" THEN Booked(t) \/ UNCHANGED debits ELSE UNCHANGED debits
    /\ Disturbs(Paying(t))
    /\ UNCHANGED <<token, timeouts>>

\* ESP_ERR_HTTP_EAGAIN: remote_post sends the same request once more
TimedOut(t) ==
    /\ job[t].at = "posting" /\ ~job[t].resent
    /\ Fault
    /\ Goes(t, [job[t] EXCEPT !.resent = TRUE])
    /\ IF job[t].auth = "good" THEN Booked(t) \/ UNCHANGED debits ELSE UNCHANGED debits
    /\ timeouts' = IF Paying(t) THEN timeouts + 1 ELSE timeouts
    /\ UNCHANGED <<token, excused>>

-----------------------------------------------------------------------------

Step(t) ==
    \/ \E kind \in Kinds(t) : Begin(t, kind)
    \/ LoggedIn(t) \/ LoginFailed(t) \/ Stored(t)
    \/ Post(t) \/ Accepted(t) \/ Refused(t) \/ Unanswered(t) \/ TimedOut(t)

\* the tokens expire, or the server starts again
Expired ==
    /\ Fault
    /\ token' = Spoiled(token)
    /\ job' = [t \in Tasks |-> SpoiledJob(t)]
    /\ Disturbs(TRUE)
    /\ UNCHANGED <<debits, timeouts>>

RemoteNext == (\E t \in Tasks : Step(t)) \/ Expired

\* The timer wakes the keepalive task every ten seconds, and every request has
\* a timeout; nobody need report a wash or press a button.
RemoteSpec ==
    /\ RemoteInit
    /\ [][RemoteNext]_rvars
    /\ \A t \in Tasks :
         WF_rvars((job[t].at # "idle" \/ t = "keepalive") /\ Step(t))

-----------------------------------------------------------------------------

RemoteTypeOK ==
    /\ token \in Tokens
    /\ job \in [Tasks -> Jobs]
    /\ faults \in 0..MaxFaults /\ debits \in 0..2 /\ timeouts \in 0..1
    /\ excused \in BOOLEAN

\* A wash is booked once by the server, although the task logs in again, other
\* tasks retry and answers are lost; only a request repeated because its answer
\* came too late may be booked twice.
DebitedOnce == debits <= 1 + timeouts

\* A payment the server has not booked is lost to a failure, or to another task
\* that changed the token between the login of the payment and its request:
\* the task never sends it under a token that was bad when it began.
LostPaymentHasACause ==
    [][job["http"].kind = "payment" /\ job'["http"].at = "idle" =>
          debits' > 0 \/ excused']_rvars

\* However tasks clear and overwrite each other's tokens, one the server takes
\* is in the global again: no task keeps asking under a token that is bad.
TokenComesBack == token # "good" ~> token = "good"

=============================================================================
