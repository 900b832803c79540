---------------------------- MODULE RemoteProofs ----------------------------
(* The token the tasks share and the payments sent under it, for any number *)
(* of failures and whichever of the tasks run.                             *)
EXTENDS RemoteServices, TLAPS

JobKinds == {"none", "payment", "lookup", "keepalive", "proxy", "resync", "check"}

JobType == [kind : JobKinds, at : {"idle", "login", "storing", "post", "posting"},
            auth : Tokens, tries : 0..1, resent : BOOLEAN]

Types ==
    /\ token \in Tokens
    /\ job \in [Tasks -> JobType]
    /\ faults \in 0..MaxFaults
    /\ debits \in 0..2 /\ timeouts \in 0..1

\* only the http task pays, and what is no request asks for nothing
KindsFit ==
    \A t \in Tasks : /\ job[t].kind = "payment" => t = "http"
                     /\ job[t].at = "idle" => job[t].kind = "none"

\* nothing is booked before the request, and a late answer is counted once
BookedOnTheWay ==
    Paying("http") =>
        IF job["http"].at = "posting"
        THEN debits <= timeouts /\ timeouts = (IF job["http"].resent THEN 1 ELSE 0)
        ELSE debits = 0 /\ timeouts = 0 /\ ~job["http"].resent

\* a payment that nothing has disturbed has a token the server takes, from the
\* answer to its login to the one to its request
TokenInHand ==
    Paying("http") /\ ~excused =>
        /\ job["http"].at = "storing" => job["http"].auth = "good"
        /\ job["http"].at = "post"    => token = "good"
        /\ job["http"].at = "posting" => job["http"].auth = "good"

RemoteInv == Types /\ excused \in BOOLEAN /\ KindsFit /\ BookedOnTheWay /\ TokenInHand /\ DebitedOnce

-----------------------------------------------------------------------------

USE RemoteAssumption DEF Tokens

\* The types of the model, written out.
LEMMA TypesAreTypes == Types /\ excused \in BOOLEAN <=> RemoteTypeOK
<1>1. JobType = Jobs
  <2>1. (UNION {Kinds(t) : t \in AllTasks}) \cup {"none"} = JobKinds
    BY DEF Kinds, AllTasks, JobKinds
  <2> QED
    BY <2>1 DEF Jobs, JobType
<1> QED
  BY <1>1 DEF Types, RemoteTypeOK

LEMMA NewJob ==
  ASSUME NEW kind \in JobKinds, NEW at \in {"idle", "login", "post"}, NEW tries \in 0..1
  PROVE  /\ New(kind, at, tries) \in JobType
         /\ New(kind, at, tries).kind = kind /\ New(kind, at, tries).at = at
         /\ ~New(kind, at, tries).resent
  BY DEF New, JobType

LEMMA IdleIsAJob == Idle \in JobType /\ Idle.kind = "none" /\ Idle.at = "idle"
  BY NewJob DEF Idle, JobKinds

LEMMA RemoteInitInv == RemoteInit => RemoteInv
<1> SUFFICES ASSUME RemoteInit PROVE RemoteInv
  OBVIOUS
<1>1. \A t \in Tasks : job[t] = Idle
  BY DEF RemoteInit
<1>2. Types
  <2>1. job \in [Tasks -> JobType]
    BY IdleIsAJob DEF RemoteInit
  <2>2. 0 \in 0..MaxFaults
    OBVIOUS
  <2> QED
    BY <2>1, <2>2 DEF RemoteInit, Types
<1>3. KindsFit /\ ~Paying("http")
  BY <1>1, IdleIsAJob DEF KindsFit, Paying
<1> QED
  <2>1. excused \in BOOLEAN
    BY DEF RemoteInit
  <2>2. BookedOnTheWay /\ TokenInHand /\ DebitedOnce
    BY <1>3 DEF RemoteInit, BookedOnTheWay, TokenInHand, DebitedOnce
  <2> QED
    BY <1>2, <1>3, <2>1, <2>2 DEF RemoteInv

\* What a step of one task leaves of the invariant, when it is not the payment's:
\* the books are as they were, and the token is still there or the payment is
\* excused.
LEMMA OthersStep ==
  ASSUME RemoteInv, Types', KindsFit', excused' \in BOOLEAN,
         NEW t \in Tasks, job'["http"].kind = "payment" => Paying("http"),
         Paying("http") =>
            /\ job'["http"].at = job["http"].at /\ job'["http"].resent = job["http"].resent
            /\ UNCHANGED <<debits, timeouts>>
            /\ \/ excused'
               \/ /\ UNCHANGED excused
                  /\ job'["http"].auth = job["http"].auth
                  /\ job["http"].at = "post" => token' = token,
         DebitedOnce'
  PROVE  RemoteInv'
  BY DEF RemoteInv, Types, BookedOnTheWay, TokenInHand, Paying

\* A task that goes on to something else, and the others that stay.
LEMMA JobGoes ==
  ASSUME Types, KindsFit, NEW t \in Tasks, NEW next \in JobType, Goes(t, next),
         next.kind = "payment" => t = "http", next.at = "idle" => next.kind = "none"
  PROVE  /\ job' \in [Tasks -> JobType] /\ KindsFit'
         /\ job'[t] = next /\ \A u \in Tasks \ {t} : job'[u] = job[u]
<1>1. job' = [u \in Tasks |-> IF u = t THEN next ELSE job[u]]
  BY DEF Types, Goes
<1>2. job' \in [Tasks -> JobType] /\ job'[t] = next /\ \A u \in Tasks \ {t} : job'[u] = job[u]
  BY <1>1 DEF Types
<1>3. \A u \in Tasks : /\ job'[u].kind = "payment" => u = "http"
                       /\ job'[u].at = "idle" => job'[u].kind = "none"
  BY <1>2 DEF KindsFit
<1> QED
  BY <1>2, <1>3 DEF KindsFit

LEMMA KindOfTask ==
  ASSUME NEW t \in Tasks, NEW kind \in Kinds(t)
  PROVE  kind \in JobKinds /\ kind # "none" /\ (kind = "payment" => t = "http")
  BY DEF Kinds, JobKinds, AllTasks

LEMMA BeginInv ==
  ASSUME RemoteInv, NEW t \in Tasks, NEW kind \in Kinds(t), Begin(t, kind)
  PROVE  RemoteInv'
<1> DEFINE next == IF kind \in TrustsToken /\ token # "none"
                   THEN IF kind = "check" THEN Idle ELSE New(kind, "post", 0)
                   ELSE New(kind, "login", 0)
<1>1. /\ job[t].at = "idle" /\ Goes(t, next)
      /\ token' \in {token, "none"}
      /\ kind # "resync" => token' = token
      /\ faults' = faults
      /\ IF t = "http" THEN debits' = 0 /\ timeouts' = 0 /\ excused' = FALSE
         ELSE UNCHANGED <<debits, timeouts>> /\ Disturbs(token' # token)
  BY DEF Begin
<1>2. /\ next \in JobType
      /\ next.kind = "payment" => t = "http"
      /\ next.at = "idle" => next.kind = "none"
      /\ next.at \in {"idle", "login", "post"} /\ ~next.resent
      /\ next.kind = "payment" => next.at = "login"
  <2>1. kind \in JobKinds /\ kind # "none" /\ (kind = "payment" => t = "http")
    BY KindOfTask
  <2>2. /\ New(kind, "post", 0) \in JobType /\ New(kind, "login", 0) \in JobType
        /\ New(kind, "post", 0).at = "post" /\ New(kind, "login", 0).at = "login"
        /\ New(kind, "post", 0).kind = kind /\ New(kind, "login", 0).kind = kind
        /\ ~New(kind, "post", 0).resent /\ ~New(kind, "login", 0).resent
    BY <2>1, NewJob
  <2>3. ~Idle.resent
    BY DEF Idle, New
  <2> QED
    BY <2>1, <2>2, <2>3, IdleIsAJob DEF TrustsToken
<1> HIDE DEF next
<1>3. /\ job' \in [Tasks -> JobType] /\ KindsFit'
      /\ job'[t] = next /\ \A u \in Tasks \ {t} : job'[u] = job[u]
  BY <1>1, <1>2, JobGoes DEF RemoteInv, Types
<1>4. Types'
  BY <1>1, <1>3 DEF RemoteInv, Types
<1>b. excused' \in BOOLEAN
  BY <1>1 DEF Disturbs
<1>5. CASE t = "http"
  BY <1>1, <1>2, <1>3, <1>4, <1>b, <1>5
     DEF RemoteInv, BookedOnTheWay, TokenInHand, DebitedOnce, Paying
<1>6. CASE t # "http"
  <2>1. job'["http"] = job["http"]
    BY <1>3, <1>6
  <2>2. Paying("http") => excused' \/ (excused' = excused /\ token' = token)
    BY <1>1, <1>6 DEF Disturbs, RemoteInv
  <2> QED
    BY <1>1, <1>3, <1>4, <1>b, <1>6, <2>1, <2>2, OthersStep DEF RemoteInv, DebitedOnce, Paying
<1> QED
  BY <1>5, <1>6

\* The payment's own steps, by what they make of its job.
LEMMA LoggedInInv ==
  ASSUME RemoteInv, NEW t \in Tasks, LoggedIn(t)
  PROVE  RemoteInv'
<1> DEFINE issued == [job[t] EXCEPT !.at = "storing", !.auth = "good"]
<1>1. /\ job[t].at = "login"
      /\ \/ Goes(t, issued) /\ UNCHANGED <<token, faults, excused>>
         \/ /\ Fault
            /\ job' = [u \in Tasks |-> IF u = t THEN issued ELSE SpoiledJob(u)]
            /\ token' = Spoiled(token)
            /\ Disturbs(~Paying(t))
      /\ UNCHANGED <<debits, timeouts>>
  BY DEF LoggedIn
<1>2. /\ issued \in JobType /\ issued.kind = job[t].kind /\ issued.at = "storing"
      /\ issued.auth = "good" /\ issued.resent = job[t].resent
      /\ job[t].kind = "payment" => t = "http"
  BY DEF RemoteInv, Types, KindsFit, JobType
<1>3. \A u \in Tasks : /\ SpoiledJob(u) \in JobType
                       /\ SpoiledJob(u).kind = job[u].kind /\ SpoiledJob(u).at = job[u].at
                       /\ SpoiledJob(u).resent = job[u].resent
  BY DEF RemoteInv, Types, SpoiledJob, Spoiled, JobType
<1> HIDE DEF issued
<1>4. CASE Goes(t, issued) /\ UNCHANGED <<token, faults, excused>>
  <2>1. /\ job' \in [Tasks -> JobType] /\ KindsFit'
        /\ job'[t] = issued /\ \A u \in Tasks \ {t} : job'[u] = job[u]
    BY <1>2, <1>4, JobGoes DEF RemoteInv, Types
  <2>2. Types' /\ excused' \in BOOLEAN /\ DebitedOnce'
    BY <1>1, <1>4, <2>1 DEF RemoteInv, Types, DebitedOnce
  <2> QED
    BY <1>1, <1>2, <1>4, <2>1, <2>2
       DEF RemoteInv, BookedOnTheWay, TokenInHand, Paying
<1>5. CASE /\ Fault
           /\ job' = [u \in Tasks |-> IF u = t THEN issued ELSE SpoiledJob(u)]
           /\ token' = Spoiled(token)
           /\ Disturbs(~Paying(t))
  <2>1. /\ job' \in [Tasks -> JobType]
        /\ job'[t] = issued /\ \A u \in Tasks \ {t} : job'[u] = SpoiledJob(u)
    BY <1>2, <1>3, <1>5
  <2>2. KindsFit'
    BY <1>2, <1>3, <2>1 DEF RemoteInv, KindsFit
  <2>3. Types'
    BY <1>1, <1>5, <2>1 DEF RemoteInv, Types, Fault, Spoiled
  <2>4. excused' \in BOOLEAN /\ DebitedOnce'
    BY <1>1, <1>5 DEF Disturbs, RemoteInv, DebitedOnce
  <2>5. CASE t = "http"
    BY <1>1, <1>2, <2>1, <2>2, <2>3, <2>4, <2>5, <1>5
       DEF RemoteInv, BookedOnTheWay, TokenInHand, Paying, Disturbs
  <2>6. CASE t # "http"
    <3>1. Paying("http") => excused'
      BY <1>5, <2>6 DEF Disturbs, RemoteInv, KindsFit, Paying
    <3> QED
      BY <1>1, <1>3, <2>1, <2>2, <2>3, <2>4, <2>6, <3>1, OthersStep DEF Paying
  <2> QED
    BY <2>5, <2>6
<1> QED
  BY <1>1, <1>4, <1>5

LEMMA LoginFailedInv ==
  ASSUME RemoteInv, NEW t \in Tasks, LoginFailed(t)
  PROVE  RemoteInv'
<1>1. /\ Goes(t, Idle) /\ Fault /\ token' \in {token, "none"}
      /\ Disturbs(Paying(t) \/ token' # token)
      /\ UNCHANGED <<debits, timeouts>>
  BY DEF LoginFailed, Over
<1>2. /\ job' \in [Tasks -> JobType] /\ KindsFit'
      /\ job'[t] = Idle /\ \A u \in Tasks \ {t} : job'[u] = job[u]
  BY <1>1, IdleIsAJob, JobGoes DEF RemoteInv
<1>3. Types' /\ DebitedOnce'
  BY <1>1, <1>2 DEF RemoteInv, Types, Fault, DebitedOnce
<1>4. excused' \in BOOLEAN
  BY <1>1 DEF Disturbs
<1>5. CASE t = "http"
  BY <1>2, <1>3, <1>4, <1>5, IdleIsAJob
     DEF RemoteInv, BookedOnTheWay, TokenInHand, Paying
<1>6. CASE t # "http"
  <2>1. Paying("http") => excused' \/ (excused' = excused /\ token' = token)
    BY <1>1 DEF Disturbs, RemoteInv
  <2> QED
    BY <1>1, <1>2, <1>3, <1>4, <1>6, <2>1, OthersStep DEF Paying
<1> QED
  BY <1>5, <1>6

LEMMA StoredInv ==
  ASSUME RemoteInv, NEW t \in Tasks, Stored(t)
  PROVE  RemoteInv'
<1> DEFINE going  == [job[t] EXCEPT !.at = "post", !.auth = "none"]
           next == IF job[t].kind \in {"check", "resync"} THEN Idle ELSE going
<1>1. /\ job[t].at = "storing" /\ Goes(t, next) /\ token' = job[t].auth
      /\ Disturbs(~Paying(t))
      /\ UNCHANGED <<faults, debits, timeouts>>
  BY DEF Stored, Over
<1>2. /\ going \in JobType /\ going.kind = job[t].kind /\ going.at = "post"
      /\ going.resent = job[t].resent
      /\ job[t].auth \in Tokens
      /\ job[t].kind = "payment" => t = "http"
  BY DEF RemoteInv, Types, KindsFit, JobType
<1> HIDE DEF going
<1>3. /\ next \in JobType
      /\ next.kind = "payment" => t = "http"
      /\ next.at = "idle" => next.kind = "none"
      /\ job[t].kind = "payment" => next = going
      /\ next.kind = "payment" => job[t].kind = "payment"
  BY <1>2, IdleIsAJob
<1> HIDE DEF next
<1>4. /\ job' \in [Tasks -> JobType] /\ KindsFit'
      /\ job'[t] = next /\ \A u \in Tasks \ {t} : job'[u] = job[u]
  BY <1>1, <1>3, JobGoes DEF RemoteInv
<1>5. Types' /\ DebitedOnce'
  BY <1>1, <1>2, <1>4 DEF RemoteInv, Types, DebitedOnce
<1>6. excused' \in BOOLEAN
  BY <1>1 DEF Disturbs
<1>7. CASE t = "http"
  BY <1>1, <1>2, <1>3, <1>4, <1>5, <1>6, <1>7
     DEF RemoteInv, BookedOnTheWay, TokenInHand, Paying, Disturbs
<1>8. CASE t # "http"
  <2>1. Paying("http") => excused'
    BY <1>1, <1>8 DEF Disturbs, RemoteInv, KindsFit, Paying
  <2> QED
    BY <1>1, <1>4, <1>5, <1>6, <1>8, <2>1, OthersStep DEF Paying
<1> QED
  BY <1>7, <1>8

LEMMA PostInv ==
  ASSUME RemoteInv, NEW t \in Tasks, Post(t)
  PROVE  RemoteInv'
<1> DEFINE writers == {u \in Tasks \ {t} : job[u].at = "storing"}
<1>1. PICK read \in Tokens :
        /\ job[t].at = "post"
        /\ Goes(t, [job[t] EXCEPT !.at = "posting", !.auth = read])
        /\ writers = {} => read = token
        /\ Disturbs(Paying(t) /\ writers # {})
        /\ UNCHANGED <<token, faults, debits, timeouts>>
  BY DEF Post, RemoteInv, Types
<1> DEFINE next == [job[t] EXCEPT !.at = "posting", !.auth = read]
<1>2. /\ next \in JobType /\ next.kind = job[t].kind /\ next.at = "posting"
      /\ next.resent = job[t].resent /\ next.auth = read
      /\ job[t].kind = "payment" => t = "http"
      /\ Goes(t, next)
  BY <1>1 DEF RemoteInv, Types, KindsFit, JobType
<1> HIDE DEF next
<1>3. /\ job' \in [Tasks -> JobType] /\ KindsFit'
      /\ job'[t] = next /\ \A u \in Tasks \ {t} : job'[u] = job[u]
  BY <1>2, JobGoes DEF RemoteInv
<1>4. Types' /\ DebitedOnce'
  BY <1>1, <1>3 DEF RemoteInv, Types, DebitedOnce
<1>5. excused' \in BOOLEAN
  BY <1>1 DEF Disturbs
<1>6. CASE t = "http"
  <2>1. Paying("http") => excused' \/ (excused' = excused /\ read = token)
    BY <1>1, <1>6 DEF Disturbs, RemoteInv
  <2> QED
    BY <1>1, <1>2, <1>3, <1>4, <1>5, <1>6, <2>1
       DEF RemoteInv, BookedOnTheWay, TokenInHand, Paying
<1>7. CASE t # "http"
  <2>1. excused' = excused
    BY <1>1, <1>2, <1>7 DEF Disturbs, RemoteInv, Paying
  <2> QED
    BY <1>1, <1>3, <1>4, <1>5, <1>7, <2>1, OthersStep DEF Paying
<1> QED
  BY <1>6, <1>7

LEMMA AcceptedInv ==
  ASSUME RemoteInv, NEW t \in Tasks, Accepted(t)
  PROVE  RemoteInv'
<1>1. /\ job[t].at = "posting" /\ Goes(t, Idle) /\ Booked(t)
      /\ UNCHANGED <<token, faults, timeouts, excused>>
  BY DEF Accepted, Over
<1>2. /\ job' \in [Tasks -> JobType] /\ KindsFit'
      /\ job'[t] = Idle /\ \A u \in Tasks \ {t} : job'[u] = job[u]
  BY <1>1, IdleIsAJob, JobGoes DEF RemoteInv
<1>3. excused' \in BOOLEAN
  BY <1>1 DEF RemoteInv
<1>4. CASE Paying(t)
  <2>1. t = "http" /\ debits' = debits + 1 /\ debits <= timeouts
    BY <1>1, <1>4 DEF RemoteInv, KindsFit, Paying, BookedOnTheWay, Booked
  <2>2. Types' /\ DebitedOnce'
    BY <1>1, <1>2, <2>1 DEF RemoteInv, Types, DebitedOnce
  <2> QED
    BY <1>2, <1>3, <2>1, <2>2, IdleIsAJob
       DEF RemoteInv, BookedOnTheWay, TokenInHand, Paying
<1>5. CASE ~Paying(t)
  <2>1. Types' /\ DebitedOnce' /\ debits' = debits
    BY <1>1, <1>2, <1>5 DEF RemoteInv, Types, DebitedOnce, Booked
  <2>2. CASE t = "http"
    BY <1>2, <1>3, <2>1, <2>2, IdleIsAJob
       DEF RemoteInv, BookedOnTheWay, TokenInHand, Paying
  <2>3. CASE t # "http"
    BY <1>1, <1>2, <1>3, <2>1, <2>3, OthersStep DEF Paying
  <2> QED
    BY <2>2, <2>3
<1> QED
  BY <1>4, <1>5

LEMMA RefusedInv ==
  ASSUME RemoteInv, NEW t \in Tasks, Refused(t)
  PROVE  RemoteInv'
<1> DEFINE again == New(job[t].kind, "login", 1)
           next == IF job[t].kind \in {"lookup", "keepalive"} /\ job[t].tries = 0
                   THEN again ELSE Idle
<1>1. /\ job[t].at = "posting" /\ Goes(t, next) /\ token' = "none"
      /\ Disturbs(~Paying(t) /\ token # "none")
      /\ UNCHANGED <<faults, debits, timeouts>>
  BY DEF Refused, TokenRefused, Over
<1>2. again \in JobType /\ again.kind = job[t].kind /\ again.at = "login"
  <2>1. job[t].kind \in JobKinds
    BY DEF RemoteInv, Types, JobType
  <2> QED
    BY <2>1, NewJob
<1> HIDE DEF again
<1>3. next \in JobType /\ next.kind # "payment" /\ (next.at = "idle" => next.kind = "none")
  BY <1>2, IdleIsAJob
<1> HIDE DEF next
<1>4. /\ job' \in [Tasks -> JobType] /\ KindsFit'
      /\ job'[t] = next /\ \A u \in Tasks \ {t} : job'[u] = job[u]
  BY <1>1, <1>3, JobGoes DEF RemoteInv
<1>5. Types' /\ DebitedOnce'
  BY <1>1, <1>4 DEF RemoteInv, Types, DebitedOnce
<1>6. excused' \in BOOLEAN
  BY <1>1 DEF Disturbs
<1>7. CASE t = "http"
  BY <1>3, <1>4, <1>5, <1>6, <1>7 DEF RemoteInv, BookedOnTheWay, TokenInHand, Paying
<1>8. CASE t # "http"
  <2>1. Paying("http") => excused' \/ (excused' = excused /\ token' = token)
    BY <1>1, <1>8 DEF Disturbs, RemoteInv, KindsFit, Paying
  <2> QED
    BY <1>1, <1>4, <1>5, <1>6, <1>8, <2>1, OthersStep DEF Paying
<1> QED
  BY <1>7, <1>8

LEMMA UnansweredInv ==
  ASSUME RemoteInv, NEW t \in Tasks, Unanswered(t)
  PROVE  RemoteInv'
<1>1. /\ job[t].at = "posting" /\ Fault /\ Goes(t, Idle)
      /\ Booked(t) \/ UNCHANGED debits
      /\ Disturbs(Paying(t))
      /\ UNCHANGED <<token, timeouts>>
  BY DEF Unanswered, GivenUp, Over
<1>2. /\ job' \in [Tasks -> JobType] /\ KindsFit'
      /\ job'[t] = Idle /\ \A u \in Tasks \ {t} : job'[u] = job[u]
  BY <1>1, IdleIsAJob, JobGoes DEF RemoteInv
<1>3. excused' \in BOOLEAN
  BY <1>1 DEF Disturbs
<1>4. CASE Paying(t)
  <2>1. t = "http" /\ (debits' = debits \/ debits' = debits + 1) /\ debits <= timeouts
    BY <1>1, <1>4 DEF RemoteInv, KindsFit, Paying, BookedOnTheWay, Booked
  <2>2. Types' /\ DebitedOnce'
    BY <1>1, <1>2, <2>1 DEF RemoteInv, Types, Fault, DebitedOnce
  <2> QED
    BY <1>2, <1>3, <2>1, <2>2, IdleIsAJob
       DEF RemoteInv, BookedOnTheWay, TokenInHand, Paying
<1>5. CASE ~Paying(t)
  <2>1. Types' /\ DebitedOnce' /\ debits' = debits
    BY <1>1, <1>2, <1>5 DEF RemoteInv, Types, Fault, DebitedOnce, Booked
  <2>2. CASE t = "http"
    BY <1>2, <1>3, <2>1, <2>2, IdleIsAJob
       DEF RemoteInv, BookedOnTheWay, TokenInHand, Paying
  <2>3. CASE t # "http"
    <3>1. excused' = excused
      BY <1>1, <1>5 DEF Disturbs, RemoteInv
    <3> QED
      BY <1>1, <1>2, <1>3, <2>1, <2>3, <3>1, OthersStep DEF Paying
  <2> QED
    BY <2>2, <2>3
<1> QED
  BY <1>4, <1>5

LEMMA TimedOutInv ==
  ASSUME RemoteInv, NEW t \in Tasks, TimedOut(t)
  PROVE  RemoteInv'
<1> DEFINE next == [job[t] EXCEPT !.resent = TRUE]
<1>1. /\ job[t].at = "posting" /\ ~job[t].resent /\ Fault /\ Goes(t, next)
      /\ Booked(t) \/ UNCHANGED debits
      /\ timeouts' = IF Paying(t) THEN timeouts + 1 ELSE timeouts
      /\ UNCHANGED <<token, excused>>
  BY DEF TimedOut
<1>2. /\ next \in JobType /\ next.kind = job[t].kind /\ next.at = job[t].at
      /\ next.auth = job[t].auth /\ next.resent
      /\ job[t].kind = "payment" => t = "http"
      /\ job[t].at = "idle" => job[t].kind = "none"
  BY DEF RemoteInv, Types, KindsFit, JobType
<1> HIDE DEF next
<1>3. /\ job' \in [Tasks -> JobType] /\ KindsFit'
      /\ job'[t] = next /\ \A u \in Tasks \ {t} : job'[u] = job[u]
  BY <1>1, <1>2, JobGoes DEF RemoteInv
<1>4. excused' \in BOOLEAN
  BY <1>1 DEF RemoteInv
<1>5. CASE Paying(t)
  <2>1. /\ t = "http" /\ (debits' = debits \/ debits' = debits + 1)
        /\ debits <= timeouts /\ timeouts = 0 /\ timeouts' = 1
    BY <1>1, <1>5 DEF RemoteInv, KindsFit, Paying, BookedOnTheWay, Booked
  <2>2. Types' /\ DebitedOnce'
    BY <1>1, <1>3, <2>1 DEF RemoteInv, Types, Fault, DebitedOnce
  <2>3. debits' <= timeouts'
    BY <2>1 DEF RemoteInv, Types
  <2> QED
    BY <1>1, <1>2, <1>3, <1>4, <1>5, <2>1, <2>2, <2>3
       DEF RemoteInv, BookedOnTheWay, TokenInHand, Paying
<1>6. CASE ~Paying(t)
  <2>1. Types' /\ DebitedOnce' /\ UNCHANGED <<debits, timeouts>>
    BY <1>1, <1>3, <1>6 DEF RemoteInv, Types, Fault, DebitedOnce, Booked
  <2>2. CASE t = "http"
    BY <1>2, <1>3, <1>4, <1>6, <2>1, <2>2
       DEF RemoteInv, BookedOnTheWay, TokenInHand, Paying
  <2>3. CASE t # "http"
    BY <1>1, <1>3, <1>4, <2>1, <2>3, OthersStep DEF Paying
  <2> QED
    BY <2>2, <2>3
<1> QED
  BY <1>5, <1>6

LEMMA ExpiredInv ==
  ASSUME RemoteInv, Expired
  PROVE  RemoteInv'
<1>1. /\ Fault /\ token' = Spoiled(token) /\ job' = [t \in Tasks |-> SpoiledJob(t)]
      /\ Disturbs(TRUE) /\ UNCHANGED <<debits, timeouts>>
  BY DEF Expired
<1>2. \A u \in Tasks : /\ SpoiledJob(u) \in JobType
                       /\ SpoiledJob(u).kind = job[u].kind /\ SpoiledJob(u).at = job[u].at
                       /\ SpoiledJob(u).resent = job[u].resent
  BY DEF RemoteInv, Types, SpoiledJob, Spoiled, JobType
<1>3. job' \in [Tasks -> JobType] /\ \A u \in Tasks : job'[u] = SpoiledJob(u)
  BY <1>1, <1>2
<1>4. KindsFit'
  BY <1>2, <1>3 DEF RemoteInv, KindsFit
<1>5. Types'
  BY <1>1, <1>3 DEF RemoteInv, Types, Fault, Spoiled
<1>6. excused' \in BOOLEAN /\ DebitedOnce' /\ (Paying("http") => excused')
  BY <1>1 DEF Disturbs, RemoteInv, DebitedOnce
<1> QED
  BY <1>1, <1>2, <1>3, <1>4, <1>5, <1>6, OthersStep DEF Paying

\* The invariant is kept by every step of every task.
LEMMA RemoteStep == RemoteInv /\ [RemoteNext]_rvars => RemoteInv'
<1> SUFFICES ASSUME RemoteInv, [RemoteNext]_rvars PROVE RemoteInv'
  OBVIOUS
<1>1. CASE \E t \in Tasks : Step(t)
  <2> PICK t \in Tasks : Step(t)
    BY <1>1
  <2> QED
    BY BeginInv, LoggedInInv, LoginFailedInv, StoredInv, PostInv, AcceptedInv, RefusedInv,
       UnansweredInv, TimedOutInv DEF Step
<1>2. CASE Expired
  BY <1>2, ExpiredInv
<1>3. CASE UNCHANGED rvars
  BY <1>3 DEF rvars, RemoteInv, Types, KindsFit, BookedOnTheWay, TokenInHand, DebitedOnce,
              Paying
<1> QED
  BY <1>1, <1>2, <1>3 DEF RemoteNext

\* The inductive invariant of the tasks that talk to the server: what has been
\* booked at each point of a payment, and what its token is worth there.
THEOREM RemoteInvariance == RemoteSpec => []RemoteInv
  BY RemoteInitInv, RemoteStep, PTL DEF RemoteSpec

\* Token, tasks and counters keep their types.
THEOREM RemoteTypeCorrect == RemoteSpec => []RemoteTypeOK
<1>1. RemoteInv => RemoteTypeOK
  BY TypesAreTypes DEF RemoteInv
<1> QED
  BY <1>1, RemoteInvariance, PTL

\* A wash is booked once, but for a request repeated after a late answer, for
\* any number of failures, expiries and refusals (http_services_payment).
THEOREM NeverDebitedTwice == RemoteSpec => []DebitedOnce
<1>1. RemoteInv => DebitedOnce
  BY DEF RemoteInv
<1> QED
  BY <1>1, RemoteInvariance, PTL

\* The step that ends a payment has booked it, or finds it excused.
LEMMA PaymentEnds ==
  ASSUME RemoteInv, [RemoteNext]_rvars,
         job["http"].kind = "payment", job'["http"].at = "idle"
  PROVE  debits' > 0 \/ excused'
<1>1. Paying("http") /\ job["http"].at # "idle"
  BY DEF Paying, RemoteInv, KindsFit
<1>2. job' # job
  BY <1>1
<1>3. CASE Expired
  BY <1>1, <1>3 DEF Expired, Disturbs
<1>4. CASE \E t \in Tasks : Step(t)
  <2> PICK t \in Tasks : Step(t)
    BY <1>4
  <2>1. ASSUME NEW next, Goes(t, next)
        PROVE  t = "http" /\ job'["http"] = next
    <3>1. t # "http" => job'["http"] = job["http"]
      BY <2>1 DEF Goes, RemoteInv, Types
    <3> QED
      BY <1>1, <2>1, <3>1 DEF Goes, RemoteInv, Types
  <2>2. ~\E kind \in Kinds(t) : Begin(t, kind)
    <3> SUFFICES ASSUME NEW kind \in Kinds(t), Begin(t, kind) PROVE FALSE
      OBVIOUS
    <3>1. job[t].at = "idle" /\ \E next : Goes(t, next)
      BY DEF Begin
    <3> QED
      BY <1>1, <2>1, <3>1
  <2>3. ~LoggedIn(t)
    <3> SUFFICES ASSUME LoggedIn(t) PROVE FALSE
      OBVIOUS
    <3> DEFINE issued == [job[t] EXCEPT !.at = "storing", !.auth = "good"]
    <3>1. issued.at = "storing" /\ (t # "http" => SpoiledJob("http").at = job["http"].at)
      BY DEF RemoteInv, Types, JobType, SpoiledJob
    <3>2. CASE Goes(t, issued)
      BY <2>1, <3>1, <3>2
    <3>3. CASE job' = [u \in Tasks |-> IF u = t THEN issued ELSE SpoiledJob(u)]
      <4>1. job'["http"] = IF "http" = t THEN issued ELSE SpoiledJob("http")
        BY <3>3
      <4> QED
        BY <1>1, <3>1, <4>1
    <3> QED
      BY <3>2, <3>3 DEF LoggedIn
  <2>4. CASE LoginFailed(t)
    BY <1>1, <2>1, <2>4 DEF LoginFailed, Over, Disturbs
  <2>5. ~Stored(t)
    <3> SUFFICES ASSUME Stored(t) PROVE FALSE
      OBVIOUS
    <3> DEFINE going == [job[t] EXCEPT !.at = "post", !.auth = "none"]
    <3>1. going.at = "post"
      BY DEF RemoteInv, Types, JobType
    <3>2. Goes(t, IF job[t].kind \in {"check", "resync"} THEN Idle ELSE going)
      BY DEF Stored, Over
    <3> HIDE DEF going
    <3>3. t = "http" /\ job'["http"] = IF job[t].kind \in {"check", "resync"} THEN Idle ELSE going
      BY <2>1, <3>2
    <3> QED
      BY <3>1, <3>3
  <2>6. ~Post(t)
    <3> SUFFICES ASSUME Post(t) PROVE FALSE
      OBVIOUS
    <3>1. PICK read : Goes(t, [job[t] EXCEPT !.at = "posting", !.auth = read])
      BY DEF Post
    <3>2. [job[t] EXCEPT !.at = "posting", !.auth = read].at = "posting"
      BY DEF RemoteInv, Types, JobType
    <3> QED
      BY <2>1, <3>1, <3>2
  <2>7. CASE Accepted(t)
    <3>1. t = "http" /\ debits' = debits + 1
      BY <1>1, <2>1, <2>7 DEF Accepted, Over, Booked
    <3> QED
      BY <3>1 DEF RemoteInv, Types
  <2>8. CASE Refused(t)
    <3>1. t = "http" /\ job["http"].at = "posting" /\ job["http"].auth # "good"
      BY <2>1, <2>8 DEF Refused, TokenRefused, Over
    <3>2. excused
      BY <1>1, <3>1 DEF RemoteInv, TokenInHand
    <3> QED
      BY <2>8, <3>2 DEF Refused, Disturbs
  <2>9. CASE Unanswered(t)
    BY <1>1, <2>1, <2>9 DEF Unanswered, GivenUp, Over, Disturbs
  <2>10. ~TimedOut(t)
    <3> SUFFICES ASSUME TimedOut(t) PROVE FALSE
      OBVIOUS
    <3>1. [job[t] EXCEPT !.resent = TRUE].at = job[t].at
      BY DEF RemoteInv, Types, JobType
    <3> QED
      BY <1>1, <2>1, <3>1 DEF TimedOut
  <2> QED
    BY <2>2, <2>3, <2>4, <2>5, <2>6, <2>7, <2>8, <2>9, <2>10 DEF Step
<1> QED
  BY <1>2, <1>3, <1>4 DEF RemoteNext, rvars

\* A payment the server has not booked met a failure, or its token was changed by
\* another task after its login.
THEOREM NoPaymentLostForNothing == RemoteSpec => LostPaymentHasACause
<1>1. RemoteInv /\ [RemoteNext]_rvars =>
        [job["http"].kind = "payment" /\ job'["http"].at = "idle" =>
            debits' > 0 \/ excused']_rvars
  BY PaymentEnds
<1> QED
  BY <1>1, RemoteInvariance, PTL DEF RemoteSpec, LostPaymentHasACause

=============================================================================
