-------------------------- MODULE SupervisorProofs --------------------------
(* Theorems about FsmSupervisor: no coin acceptor is forgotten, for any      *)
(* number of failures, of attempts and of commands the mailbox holds.        *)
EXTENDS FsmSupervisor, TLAPS

\* the settings callers of cctalk_driver_set_state may see: the last command that
\* waits is that of the state set last
Follows(c) == c.commands # <<>> => c.commands[Len(c.commands)] = Command(c.logical)

Settings == {c \in [logical : LogicalStates, commands : Seq({"START", "STOP"}), slots : Nat] :
                Len(c.commands) <= CommandSlots /\ c.slots <= CommandSlots /\ Follows(c)}

Now == Setting(CommandSlots)

Retries == [timer : {"off", "armed", "due"}, attempts : 0..MaxAttempts,
            desired : LogicalStates]

Waiting == retry.timer # "off" /\ retry.desired = "ACTIVE"

\* an acceptor set to be on is on and nothing waits to be done, or it will be
\* verified, or out of service was asked for
AcceptorIsCared ==
    state # "OUT_OF_SERVICE" /\ watch = "watched" /\ logical = "ACTIVE" =>
        /\ retry.desired = "ACTIVE"
        /\ (enabled /\ commands = <<>>) \/ Waiting \/ requested # "NONE"

\* once the devices have followed the state, the acceptor is set to be on, or
\* the setting will be tried again
AcceptorIsSet ==
    phase \in {"verify", "event"} /\ state \in Resting \cup {"CREDIT"} /\ watch = "watched" =>
        \/ logical = "ACTIVE"
        \/ retry.desired = "ACTIVE" /\ retry.timer = "armed"

\* an acceptor set to be on that nobody verifies is on, unless what was asked of
\* it is on its way, or lost
StartWasHeard ==
    watch = "unwatched" /\ ~booting /\ logical = "ACTIVE" /\ commands = <<>> => enabled

FlagFollowsState == runtimeOos => state = "OUT_OF_SERVICE"

\* The inductive invariant.
SupervisorInv ==
    /\ SupervisorTypeOK /\ FlagFollowsState /\ Follows(Now)
    /\ AcceptorIsCared /\ AcceptorIsSet /\ StartWasHeard

-----------------------------------------------------------------------------

USE LifeAssumption, CcTalkAssumption, SupervisorAssumption
    DEF States, Active, Resting, Rest, life, cctalk, oos, turn, env

\* The types of the model, written out.
Types ==
    /\ state \in States /\ program \in Programs \cup {NoProgram}
    /\ phase \in {"event", "tick", "service", "devices", "verify"} /\ before \in States
    /\ Now \in Settings
    /\ requested \in Agents \cup {"NONE"} /\ focus \in Agents \cup {"NONE"}
    /\ retry \in Retries
    /\ faults \in 0..MaxFaults

Flags ==
    /\ enabled \in BOOLEAN /\ online \in BOOLEAN /\ link \in BOOLEAN
    /\ runtimeOos \in BOOLEAN /\ scanner \in BOOLEAN /\ rs485 \in BOOLEAN
    /\ booting \in BOOLEAN /\ watch \in Watches

\* The invariant in the parts its proof handles.
Cared == FlagFollowsState /\ AcceptorIsCared /\ AcceptorIsSet /\ StartWasHeard

LEMMA InvIs == SupervisorInv <=> Types /\ Flags /\ Cared
  BY DEF SupervisorInv, Cared, Types, Flags, SupervisorTypeOK, TurnTypeOK, CcTalkTypeOK, Now,
         Setting, Settings, Follows, Retries

LEMMA InvIsNext == Types' /\ Flags' /\ Cared' => SupervisorInv'
<1>1. Types /\ Flags /\ Cared => SupervisorInv
  BY InvIs
<1> QED
  BY <1>1, PTL

\* What a new setting is: the old one, or the one asked for with its command
\* behind the others.
LEMMA SetStateIs ==
  ASSUME NEW c \in Settings, NEW s \in LogicalStates
  PROVE  /\ SetState(c, s) \in Settings
         /\ SetState(c, s) = c \/ (SetState(c, s).logical = s /\ SetState(c, s).commands # <<>>)
<1>1. CASE Len(c.commands) < c.slots
  <2> DEFINE more == Append(c.commands, Command(s))
  <2>1. SetState(c, s) = [logical |-> s, commands |-> more, slots |-> c.slots]
    BY <1>1 DEF SetState, Settings
  <2>2. more \in Seq({"START", "STOP"}) /\ Len(more) = Len(c.commands) + 1
    BY DEF Settings, Command
  <2>3. more[Len(more)] = Command(s) /\ more # <<>>
    BY <2>2 DEF Settings
  <2>4. Len(more) <= CommandSlots
    BY <1>1, <2>2 DEF Settings
  <2> HIDE DEF more
  <2> QED
    BY <2>1, <2>2, <2>3, <2>4 DEF Settings, Follows
<1>2. CASE ~(Len(c.commands) < c.slots)
  BY <1>2 DEF SetState
<1> QED
  BY <1>1, <1>2

\* The setting published is the one everybody sees next.
LEMMA Published ==
  ASSUME NEW c \in Settings, Publish(c)
  PROVE  Now' \in Settings /\ logical' = c.logical /\ commands' = c.commands
  BY DEF Publish, Now, Setting, Settings, Follows

\* What a caller sees, whatever room the others have left it.
LEMMA RoomIsKnown ==
  ASSUME Types, NEW slots \in Room
  PROVE  /\ Setting(slots) \in Settings
         /\ FilledBy(slots) => faults' \in 0..MaxFaults
<1>1. Setting(slots) \in Settings
  BY DEF Types, Room, Now, Setting, Settings, Follows
<1>2. FilledBy(slots) => faults' \in 0..MaxFaults
  BY DEF Types, FilledBy, Fault
<1> QED
  BY <1>1, <1>2

LEMMA SupervisorInitInv == SupervisorInit => SupervisorInv
<1> SUFFICES ASSUME SupervisorInit PROVE SupervisorInv
  OBVIOUS
<1>1. Flags
  BY DEF SupervisorInit, CcTalkInit, Flags, Watches
<1>2. Types
  <2>1. Now \in Settings
    BY DEF SupervisorInit, CcTalkInit, Now, Setting, Settings, Follows, LogicalStates
  <2>2. retry \in Retries
    BY DEF SupervisorInit, NoRetry, Retries, LogicalStates
  <2>3. requested \in Agents \cup {"NONE"} /\ focus \in Agents \cup {"NONE"}
    BY DEF SupervisorInit, Agents
  <2> QED
    BY <2>1, <2>2, <2>3 DEF SupervisorInit, TurnInit, LifeInit, Types
<1>3. Cared
  BY DEF SupervisorInit, CcTalkInit, TurnInit, NoRetry, Cared, FlagFollowsState,
         AcceptorIsCared, AcceptorIsSet, StartWasHeard
<1> QED
  BY <1>1, <1>2, <1>3, InvIs

\* Neither events nor time lead out of service, or into an unknown state.
LEMMA LifeMoves ==
  ASSUME Types, (\E event \in Events : Handled(event)) \/ Ticked
  PROVE  /\ state' \in States /\ program' \in Programs \cup {NoProgram}
         /\ state = "OUT_OF_SERVICE" <=> state' = "OUT_OF_SERVICE"
  BY DEF Types, Events, Handled, Ticked, Started, Switched, Loaded, Paused, Resumed, Ended,
         SessionOpened, SessionClosed, TestEntered, TestLeft

\* The steps that leave the acceptor's setting alone keep what was cared for.
LEMMA EarlyStep ==
  ASSUME Types, Cared, Types', Flags', FlagFollowsState',
         phase' \in {"tick", "service", "devices"},
         UNCHANGED <<logical, commands, booting, enabled, watch>>,
         state' # "OUT_OF_SERVICE" => state # "OUT_OF_SERVICE",
         state' # "OUT_OF_SERVICE" => requested' = requested,
         retry'.desired = retry.desired,
         retry.timer # "off" => retry'.timer # "off"
  PROVE  SupervisorInv'
<1>1. AcceptorIsSet'
  BY DEF AcceptorIsSet
<1>2. AcceptorIsCared'
  BY DEF Cared, AcceptorIsCared, Waiting
<1>3. StartWasHeard'
  BY DEF Cared, StartWasHeard
<1>4. Cared'
  BY <1>1, <1>2, <1>3 DEF Cared
<1> QED
  BY <1>4, InvIsNext

LEMMA TakeEventInv == SupervisorInv /\ TakeEvent => SupervisorInv'
<1> SUFFICES ASSUME SupervisorInv, TakeEvent PROVE SupervisorInv'
  OBVIOUS
<1>1. /\ phase' = "tick" /\ \E event \in Events : Handled(event)
      /\ UNCHANGED <<cctalk, before, oos, retry, env, watch>>
  BY DEF TakeEvent, Phase
<1>2. Types /\ Flags /\ Cared
  BY InvIs
<1>3. /\ state' \in States /\ program' \in Programs \cup {NoProgram}
      /\ state = "OUT_OF_SERVICE" <=> state' = "OUT_OF_SERVICE"
  BY <1>1, <1>2, LifeMoves
<1>4. Types'
  BY <1>1, <1>2, <1>3 DEF Types, Now, Setting
<1>5. Flags'
  BY <1>1, <1>2 DEF Flags
<1>6. FlagFollowsState'
  BY <1>1, <1>2, <1>3 DEF Cared, FlagFollowsState
<1> QED
  BY <1>1, <1>2, <1>3, <1>4, <1>5, <1>6, EarlyStep

LEMMA TakeTickInv == SupervisorInv /\ TakeTick => SupervisorInv'
<1> SUFFICES ASSUME SupervisorInv, NEW timers \in {"armed", "due"}, Elapse(timers)
             PROVE  SupervisorInv'
  BY DEF TakeTick
<1>1. /\ phase' = "service" /\ Ticked
      /\ retry' = IF retry.timer = "armed" THEN [retry EXCEPT !.timer = timers] ELSE retry
      /\ UNCHANGED <<cctalk, before, oos, env, watch>>
  BY DEF Elapse, Phase
<1>2. Types /\ Flags /\ Cared
  BY InvIs
<1>3. /\ state' \in States /\ program' \in Programs \cup {NoProgram}
      /\ state = "OUT_OF_SERVICE" <=> state' = "OUT_OF_SERVICE"
  BY <1>1, <1>2, LifeMoves
<1>4. /\ retry' \in Retries /\ retry'.desired = retry.desired
      /\ retry.timer # "off" => retry'.timer # "off"
  BY <1>1, <1>2 DEF Types, Retries
<1>5. Types'
  BY <1>1, <1>2, <1>3, <1>4 DEF Types, Now, Setting
<1>6. Flags'
  BY <1>1, <1>2 DEF Flags
<1>7. FlagFollowsState'
  BY <1>1, <1>2, <1>3 DEF Cared, FlagFollowsState
<1> QED
  BY <1>1, <1>2, <1>3, <1>4, <1>5, <1>6, <1>7, EarlyStep

LEMMA HealthIsAnAgent == \A agent \in Agents \cup {"NONE"} : HealthCheck(agent) \in Agents \cup {"NONE"}
  BY DEF HealthCheck, Agents

LEMMA ServiceInv == SupervisorInv /\ Service => SupervisorInv'
<1> SUFFICES ASSUME SupervisorInv, Service PROVE SupervisorInv'
  OBVIOUS
<1>1. Types /\ Flags /\ Cared
  BY InvIs
<1>2. CASE RequestTaken
  <2>1. /\ phase' = "devices" /\ state' = "OUT_OF_SERVICE" /\ program' = program
        /\ focus' = requested /\ requested' = "NONE" /\ runtimeOos' = TRUE
        /\ UNCHANGED <<cctalk, before, retry, env, watch>>
    BY <1>2 DEF RequestTaken, Phase, Broken
  <2>2. Types'
    BY <1>1, <2>1 DEF Types, Now, Setting
  <2>3. Flags'
    BY <1>1, <2>1 DEF Flags
  <2>4. FlagFollowsState'
    BY <2>1 DEF FlagFollowsState
  <2> QED
    BY <1>1, <2>1, <2>2, <2>3, <2>4, EarlyStep
<1>3. CASE RetryOutOfService /\ HealthCheck(RetriedAgent) = "NONE"
  <2>1. PICK slots \in Room : Publish(SetState(Setting(slots), "ACTIVE")) /\ FilledBy(slots)
    BY <1>3 DEF RetryOutOfService
  <2>2. /\ phase' = "devices" /\ state' = "IDLE" /\ program' = program
        /\ focus' = "NONE" /\ requested' = "NONE" /\ runtimeOos' = FALSE /\ Unwatched
        /\ UNCHANGED <<booting, enabled, online, link, before, retry, scanner, rs485>>
    BY <1>3 DEF RetryOutOfService, Phase, Restored
  <2>3. Now' \in Settings /\ faults' \in 0..MaxFaults
    <3>1. Setting(slots) \in Settings /\ faults' \in 0..MaxFaults
      BY <1>1, <2>1, RoomIsKnown
    <3>2. SetState(Setting(slots), "ACTIVE") \in Settings
      BY <3>1, SetStateIs DEF LogicalStates
    <3> QED
      BY <2>1, <3>1, <3>2, Published
  <2>4. Types'
    BY <1>1, <2>2, <2>3 DEF Types
  <2>5. watch' \in {"unwatched", "lost"} /\ (watch' = "unwatched" => commands' # <<>>)
    BY <2>2 DEF Unwatched
  <2>6. Flags'
    BY <1>1, <2>2, <2>5 DEF Flags, Watches
  <2>7. Cared'
    BY <2>2, <2>5 DEF Cared, FlagFollowsState, AcceptorIsCared, AcceptorIsSet, StartWasHeard
  <2> QED
    BY <2>4, <2>6, <2>7, InvIsNext
<1>4. CASE RetryOutOfService /\ HealthCheck(RetriedAgent) # "NONE"
  <2>1. /\ phase' = "devices" /\ runtimeOos' = TRUE /\ state = "OUT_OF_SERVICE"
        /\ UNCHANGED <<life, requested, focus, logical, commands, faults, watch>>
        /\ UNCHANGED <<booting, enabled, online, link, before, retry, scanner, rs485>>
    BY <1>4 DEF RetryOutOfService, Phase
  <2>2. Types'
    BY <1>1, <2>1 DEF Types, Now, Setting
  <2>3. Flags'
    BY <1>1, <2>1 DEF Flags
  <2>4. FlagFollowsState'
    BY <2>1 DEF FlagFollowsState
  <2> QED
    BY <1>1, <2>1, <2>2, <2>3, <2>4, EarlyStep
<1>5. CASE CheckHealth
  <2>1. /\ phase' = "devices" /\ runtimeOos' = FALSE /\ state # "OUT_OF_SERVICE"
        /\ UNCHANGED <<cctalk, before, requested, retry, env, watch>>
    BY <1>5 DEF CheckHealth, Phase
  <2>2. /\ state' \in States /\ program' \in Programs \cup {NoProgram}
        /\ focus' \in Agents \cup {"NONE"}
    BY <1>1, <1>5, HealthIsAnAgent DEF CheckHealth, Broken, Types
  <2>3. Types'
    BY <1>1, <2>1, <2>2 DEF Types, Now, Setting
  <2>4. Flags'
    BY <1>1, <2>1 DEF Flags
  <2>5. FlagFollowsState'
    BY <2>1 DEF FlagFollowsState
  <2> QED
    BY <1>1, <2>1, <2>3, <2>4, <2>5, EarlyStep
<1>6. CASE ServiceNotDue
  <2>1. /\ phase' = "devices" /\ runtimeOos' = (state = "OUT_OF_SERVICE")
        /\ UNCHANGED <<life, cctalk, before, requested, focus, retry, env, watch>>
    BY <1>6 DEF ServiceNotDue, Phase
  <2>2. Types'
    BY <1>1, <2>1 DEF Types, Now, Setting
  <2>3. Flags'
    BY <1>1, <2>1 DEF Flags
  <2>4. FlagFollowsState'
    BY <2>1 DEF FlagFollowsState
  <2> QED
    BY <1>1, <2>1, <2>2, <2>3, <2>4, EarlyStep
<1> QED
  BY <1>2, <1>3, <1>4, <1>5, <1>6 DEF Service

\* The devices follow the state: what is asked of the acceptor is kept in mind.
LEMMA SetDevicesInv == SupervisorInv /\ SetDevices => SupervisorInv'
<1> SUFFICES ASSUME SupervisorInv, SetDevices PROVE SupervisorInv'
  OBVIOUS
<1>1. Types /\ Flags /\ Cared
  BY InvIs
<1>2. PICK slots \in Room : SetAcceptor(Setting(slots)) /\ FilledBy(slots)
  BY DEF SetDevices
<1> DEFINE c == Setting(slots)
<1>3. /\ phase' = "verify"
      /\ UNCHANGED <<life, booting, enabled, online, link, before, oos, scanner, rs485>>
  BY DEF SetDevices, Phase
<1>4. /\ c \in Settings /\ faults' \in 0..MaxFaults
      /\ c.logical = logical /\ c.commands = commands
  BY <1>1, <1>2, RoomIsKnown DEF Setting
<1> HIDE DEF c
<1>5. FlagFollowsState'
  BY <1>1, <1>3 DEF Cared, FlagFollowsState
<1>6. ASSUME Now' \in Settings, retry' \in Retries, watch' \in Watches,
             AcceptorIsCared', AcceptorIsSet', StartWasHeard'
      PROVE  SupervisorInv'
  <2>1. Types'
    BY <1>1, <1>3, <1>4, <1>6 DEF Types
  <2>2. Flags'
    BY <1>1, <1>3, <1>6 DEF Flags
  <2> QED
    BY <1>5, <1>6, <2>1, <2>2, InvIsNext DEF Cared
<1>7. CASE state = "OUT_OF_SERVICE"
  <2> DEFINE set == IF logical = "SUSPENDED" THEN SetState(c, "ACTIVE") ELSE c
  <2>1. Publish(set) /\ UNCHANGED <<retry, watch>>
    BY <1>2, <1>7 DEF SetAcceptor, c
  <2>2. set \in Settings /\ (set = c \/ set.commands # <<>>)
    BY <1>4, SetStateIs DEF LogicalStates
  <2> HIDE DEF set
  <2>3. Now' \in Settings /\ (commands' # <<>> \/ (commands' = commands /\ logical' = logical))
    BY <1>4, <2>1, <2>2, Published
  <2>4. AcceptorIsCared' /\ AcceptorIsSet'
    BY <1>3, <1>7 DEF AcceptorIsCared, AcceptorIsSet
  <2>5. StartWasHeard'
    BY <1>1, <1>3, <2>1, <2>3 DEF Cared, StartWasHeard
  <2> QED
    BY <1>1, <1>6, <2>1, <2>3, <2>4, <2>5 DEF Types, Flags
<1>8. CASE state # "OUT_OF_SERVICE" /\ logical # Desired
  <2> DEFINE set == SetState(c, Desired)
             again == ProgramLeft /\ set.logical = "SUSPENDED"
             new == IF again THEN SetState(set, "ACTIVE") ELSE set
  <2>1. /\ Publish(new)
        /\ retry' = [retry EXCEPT !.timer = "armed", !.desired = Desired]
        /\ IF set.logical = "ACTIVE" /\ Desired = "SUSPENDED"
           THEN Unwatched
           ELSE watch' = "watched"
    BY <1>2, <1>8 DEF SetAcceptor, c
  <2>2. Desired \in {"ACTIVE", "SUSPENDED"} /\ (Desired = "SUSPENDED" <=> state \in Active)
    BY DEF Desired
  <2>3. set \in Settings
    BY <1>4, <2>2, SetStateIs DEF LogicalStates
  <2>4. new \in Settings /\ (Desired = "SUSPENDED" => new = set)
    <3>1. SetState(set, "ACTIVE") \in Settings
      BY <2>3, SetStateIs DEF LogicalStates
    <3>2. Desired = "SUSPENDED" => ~again
      BY <2>2 DEF ProgramLeft
    <3> QED
      BY <2>3, <3>1, <3>2
  <2> HIDE DEF set, new
  <2>5. Now' \in Settings /\ logical' = new.logical
    BY <2>1, <2>4, Published
  <2>6. /\ retry' \in Retries /\ retry'.timer = "armed" /\ retry'.desired = Desired
    BY <1>1, <2>1, <2>2 DEF Types, Retries, LogicalStates
  <2>7. /\ watch' \in Watches
        /\ watch' = "unwatched" => commands' # <<>>
        /\ Desired = "ACTIVE" => watch' = "watched"
    BY <2>1 DEF Unwatched, Watches
  <2>8. StartWasHeard'
    BY <2>7 DEF StartWasHeard
  <2>9. CASE Desired = "ACTIVE"
    BY <1>6, <2>5, <2>6, <2>7, <2>8, <2>9 DEF AcceptorIsCared, AcceptorIsSet, Waiting
  <2>10. CASE Desired = "SUSPENDED"
    <3>1. watch' # "watched" \/ logical' # "ACTIVE"
      BY <2>1, <2>4, <2>5, <2>10 DEF Unwatched
    <3>2. state' \in Active
      BY <1>3, <2>2, <2>10
    <3>3. AcceptorIsCared' /\ AcceptorIsSet'
      BY <3>1, <3>2 DEF AcceptorIsCared, AcceptorIsSet
    <3> QED
      BY <1>6, <2>5, <2>6, <2>7, <2>8, <3>3
  <2> QED
    BY <2>2, <2>9, <2>10
<1>9. CASE state # "OUT_OF_SERVICE" /\ logical = Desired
  <2>1. UNCHANGED <<logical, commands, retry, watch>>
    BY <1>2, <1>9 DEF SetAcceptor, c
  <2>2. AcceptorIsCared' /\ StartWasHeard'
    BY <1>1, <1>3, <2>1 DEF Cared, AcceptorIsCared, StartWasHeard, Waiting
  <2>3. AcceptorIsSet'
    BY <1>3, <1>9, <2>1 DEF AcceptorIsSet, Desired
  <2> QED
    BY <1>1, <1>6, <2>1, <2>2, <2>3 DEF Types, Flags, Now, Setting
<1> QED
  BY <1>7, <1>8, <1>9

\* A verification that is over.
LEMMA VerificationIsOver ==
  ASSUME Types, retry' = [retry EXCEPT !.timer = "off", !.attempts = 0]
  PROVE  retry' \in Retries /\ retry'.desired = retry.desired
<1>1. /\ retry' = [timer |-> "off", attempts |-> 0, desired |-> retry.desired]
      /\ retry.desired \in LogicalStates
  BY DEF Types, Retries
<1>2. 0 \in 0..MaxAttempts
  OBVIOUS
<1> QED
  BY <1>1, <1>2 DEF Retries

LEMMA VerifyInv == SupervisorInv /\ Verify => SupervisorInv'
<1> SUFFICES ASSUME SupervisorInv, Verify PROVE SupervisorInv'
  OBVIOUS
<1>1. Types /\ Flags /\ Cared /\ phase = "verify"
  BY InvIs DEF Verify, Phase
<1>2. PICK slots \in Room :
        /\ IF retry.timer = "due"
           THEN VerifyPassed(Setting(slots)) \/ VerifyFailed(Setting(slots))
           ELSE NothingDue(Setting(slots))
        /\ FilledBy(slots)
  BY DEF Verify
<1> DEFINE c == Setting(slots)
<1>3. /\ phase' = "event" /\ before' = state
      /\ UNCHANGED <<life, booting, enabled, online, link, runtimeOos, focus, scanner, rs485>>
  BY DEF Verify, Phase
<1>4. /\ c \in Settings /\ faults' \in 0..MaxFaults
      /\ c.logical = logical /\ c.commands = commands
  BY <1>1, <1>2, RoomIsKnown DEF Setting
<1> HIDE DEF c
<1>5. FlagFollowsState'
  BY <1>1, <1>3 DEF Cared, FlagFollowsState
<1>6. ASSUME Now' \in Settings, retry' \in Retries, watch' \in Watches,
             requested' \in Agents \cup {"NONE"},
             AcceptorIsCared', AcceptorIsSet', StartWasHeard'
      PROVE  SupervisorInv'
  <2>1. Types'
    BY <1>1, <1>3, <1>4, <1>6 DEF Types
  <2>2. Flags'
    BY <1>1, <1>3, <1>6 DEF Flags
  <2> QED
    BY <1>5, <1>6, <2>1, <2>2, InvIsNext DEF Cared
<1>7. \A d \in Settings :
        Publish(Entering(d)) =>
          /\ Now' \in Settings
          /\ state # "OUT_OF_SERVICE" => logical' = d.logical /\ commands' = d.commands
          /\ commands' # <<>> \/ (logical' = d.logical /\ commands' = d.commands)
          /\ d.commands # <<>> => commands' # <<>>
  <2> SUFFICES ASSUME NEW d \in Settings, Publish(Entering(d))
               PROVE  /\ Now' \in Settings
                      /\ state # "OUT_OF_SERVICE" => logical' = d.logical /\ commands' = d.commands
                      /\ commands' # <<>> \/ (logical' = d.logical /\ commands' = d.commands)
                      /\ d.commands # <<>> => commands' # <<>>
    OBVIOUS
  <2>1. /\ SetState(d, "OOS") \in Settings
        /\ SetState(d, "OOS") = d \/ SetState(d, "OOS").commands # <<>>
    BY SetStateIs DEF LogicalStates
  <2>2. /\ Entering(d) \in Settings
        /\ Entering(d) = d \/ Entering(d).commands # <<>>
        /\ state # "OUT_OF_SERVICE" => Entering(d) = d
    BY <2>1 DEF Entering
  <2>3. Now' \in Settings /\ logical' = Entering(d).logical /\ commands' = Entering(d).commands
    BY <2>2, Published
  <2> QED
    BY <2>2, <2>3
<1>8. retry.attempts \in 0..MaxAttempts /\ retry.desired \in LogicalStates
  BY <1>1 DEF Types, Retries
<1>9. CASE retry.timer # "due"
  <2>1. Publish(Entering(c)) /\ UNCHANGED <<requested, retry, watch>>
    BY <1>2, <1>9 DEF NothingDue, c
  <2>2. /\ Now' \in Settings
        /\ state # "OUT_OF_SERVICE" => logical' = logical /\ commands' = commands
        /\ commands' # <<>> \/ (logical' = logical /\ commands' = commands)
    BY <1>4, <1>7, <2>1
  <2>3. AcceptorIsCared' /\ AcceptorIsSet'
    BY <1>1, <1>3, <2>1, <2>2 DEF Cared, AcceptorIsCared, AcceptorIsSet, Waiting
  <2>4. StartWasHeard'
    BY <1>1, <1>3, <2>1, <2>2 DEF Cared, StartWasHeard
  <2> QED
    BY <1>1, <1>6, <2>1, <2>2, <2>3, <2>4 DEF Types, Flags
<1>10. CASE retry.timer = "due" /\ VerifyPassed(c)
  <2>1. /\ Verified(retry.desired) \/ runtimeOos
        /\ retry' = [retry EXCEPT !.timer = "off", !.attempts = 0]
        /\ watch' = IF watch = "watched" /\ commands # <<>> THEN "unwatched" ELSE watch
        /\ Publish(Entering(c)) /\ requested' = requested
    BY <1>10 DEF VerifyPassed
  <2>2. /\ Now' \in Settings
        /\ state # "OUT_OF_SERVICE" => logical' = logical /\ commands' = commands
        /\ commands' # <<>> \/ (logical' = logical /\ commands' = commands)
        /\ commands # <<>> => commands' # <<>>
    BY <1>4, <1>7, <2>1
  <2>3. retry' \in Retries /\ retry'.desired = retry.desired
    BY <1>1, <2>1, VerificationIsOver
  <2>4. ASSUME state # "OUT_OF_SERVICE", retry.desired = "ACTIVE"
        PROVE  enabled
    BY <1>1, <2>1, <2>4 DEF Verified, Cared, FlagFollowsState
  <2>5. AcceptorIsCared'
    BY <1>1, <1>3, <2>1, <2>2, <2>3, <2>4 DEF Cared, AcceptorIsCared
  <2>6. AcceptorIsSet'
    BY <1>1, <1>3, <1>10, <2>1, <2>2 DEF Cared, AcceptorIsSet
  <2>7. StartWasHeard'
    BY <1>1, <1>3, <2>1, <2>2 DEF Cared, StartWasHeard
  <2>8. watch' \in Watches
    BY <1>1, <2>1 DEF Flags, Watches
  <2> QED
    BY <1>1, <1>6, <2>1, <2>2, <2>3, <2>5, <2>6, <2>7, <2>8 DEF Types
<1>11. CASE retry.timer = "due" /\ VerifyFailed(c)
  <2> DEFINE asked == AskAgain(c)
  <2>1. Publish(Entering(asked)) /\ watch' = watch
    BY <1>11 DEF VerifyFailed
  <2>2. /\ asked \in Settings
        /\ asked = c \/ (asked.logical = retry.desired /\ asked.commands # <<>>)
    BY <1>4, <1>8, SetStateIs DEF AskAgain
  <2> HIDE DEF asked
  <2>3. /\ Now' \in Settings
        /\ state # "OUT_OF_SERVICE" => logical' = asked.logical
        /\ commands' # <<>> \/ (logical' = asked.logical /\ commands' = asked.commands)
    BY <1>7, <2>1, <2>2
  <2>4. /\ retry' \in Retries /\ retry'.desired = retry.desired
        /\ requested' \in {requested, "CCTALK"}
        /\ requested' = "CCTALK" \/ (retry'.timer = "armed" /\ requested' = requested)
    <3>1. Attempts \in 0..MaxAttempts
      BY <1>8 DEF Attempts
    <3>2. CASE GivenUp
      <4>1. /\ retry' = [retry EXCEPT !.timer = "off", !.attempts = 0]
            /\ requested' = "CCTALK"
        BY <1>11, <3>2 DEF VerifyFailed, GiveUp
      <4> QED
        BY <1>1, <4>1, VerificationIsOver
    <3>3. CASE ~GivenUp
      BY <1>1, <1>11, <3>1, <3>3 DEF VerifyFailed, Types, Retries
    <3> QED
      BY <3>2, <3>3
  <2>5. state # "OUT_OF_SERVICE" /\ watch = "watched" /\ logical = "ACTIVE"
          => retry.desired = "ACTIVE"
    BY <1>1 DEF Cared, AcceptorIsCared
  <2>6. state # "OUT_OF_SERVICE" /\ watch = "watched" /\ logical' = "ACTIVE"
          => retry.desired = "ACTIVE"
    BY <1>4, <2>2, <2>3, <2>5
  <2>7. AcceptorIsCared'
    BY <1>3, <2>1, <2>4, <2>6 DEF AcceptorIsCared, Waiting
  <2>8. AcceptorIsSet'
    <3> SUFFICES ASSUME state \in Resting \cup {"CREDIT"}, watch = "watched"
                 PROVE  logical' = "ACTIVE"
      BY <1>3, <2>1 DEF AcceptorIsSet
    <3>1. logical = "ACTIVE" /\ retry.desired = "ACTIVE"
      BY <1>1, <1>11, <2>5 DEF Cared, AcceptorIsSet
    <3> QED
      BY <1>4, <2>2, <2>3, <3>1
  <2>9. StartWasHeard'
    BY <1>1, <1>3, <1>4, <2>1, <2>2, <2>3 DEF Cared, StartWasHeard
  <2> QED
    BY <1>1, <1>6, <2>1, <2>3, <2>4, <2>7, <2>8, <2>9 DEF Types, Flags, Agents
<1> QED
  BY <1>2, <1>9, <1>10, <1>11 DEF c

\* The first command leaves, and the last is still that of the state set last.
LEMMA LeavesMailbox ==
  ASSUME Types, commands # <<>>, commands' = Tail(commands), logical' = logical
  PROVE  /\ Now' \in Settings
         /\ commands' = <<>> => Head(commands) = Command(logical)
<1>1. /\ commands \in Seq({"START", "STOP"}) /\ Len(commands) <= CommandSlots
      /\ commands[Len(commands)] = Command(logical) /\ logical \in LogicalStates
  BY DEF Types, Now, Setting, Settings, Follows
<1>2. /\ commands' \in Seq({"START", "STOP"}) /\ Len(commands') = Len(commands) - 1
      /\ \A i \in 1..Len(commands') : commands'[i] = commands[i + 1]
      /\ Len(commands) > 0
  BY <1>1
<1>3. commands' # <<>> => commands'[Len(commands')] = commands[Len(commands)]
  <2> DEFINE rest == commands'
  <2>1. rest \in Seq({"START", "STOP"}) /\ Len(rest) = Len(commands) - 1
    BY <1>2
  <2> HIDE DEF rest
  <2>2. rest # <<>> => Len(rest) \in 1..Len(rest)
    BY <2>1
  <2> QED
    BY <1>1, <1>2, <2>1, <2>2 DEF rest
<1>4. commands' = <<>> => Head(commands) = commands[Len(commands)]
  <2>1. commands' = <<>> => Len(commands) = 1
    <3>1. commands' = <<>> => Len(commands') = 0
      BY <1>2
    <3>2. Len(commands) \in Nat
      BY <1>1
    <3> QED
      BY <1>2, <3>1, <3>2
  <2>2. Head(commands) = commands[1]
    BY <1>1
  <2> QED
    BY <2>1, <2>2
<1> QED
  BY <1>1, <1>2, <1>3, <1>4 DEF Now, Setting, Settings, Follows

\* The steps of the acceptor's side that leave the loop alone.
LEMMA OutsideStep ==
  ASSUME Types, Flags, Cared, Now' \in Settings, faults' \in 0..MaxFaults,
         UNCHANGED <<life, turn, runtimeOos, focus, retry, logical>>,
         requested' \in {requested, "MDB"},
         enabled' \in BOOLEAN, online' \in BOOLEAN, link' \in BOOLEAN, booting' \in BOOLEAN,
         scanner' \in BOOLEAN, rs485' \in BOOLEAN, watch' \in Watches,
         watch' = "watched" => watch = "watched",
         commands = <<>> => commands' = <<>> /\ (enabled => enabled'),
         StartWasHeard'
  PROVE  SupervisorInv'
<1>1. Types'
  BY DEF Types, Agents
<1>2. Flags'
  BY DEF Flags
<1>3. Cared'
  BY DEF Cared, FlagFollowsState, AcceptorIsCared, AcceptorIsSet, Waiting
<1> QED
  BY <1>1, <1>2, <1>3, InvIsNext

LEMMA AcceptorTaskInv == SupervisorInv /\ AcceptorTask => SupervisorInv'
<1> SUFFICES ASSUME SupervisorInv, AcceptorTask PROVE SupervisorInv'
  OBVIOUS
<1>1. Types /\ Flags /\ Cared
  BY InvIs
<1>2. UNCHANGED <<life, turn, oos, retry, env, logical, booting, link>>
  BY DEF AcceptorTask, CcTalkTask, StartTaken, StopTaken, Polled
<1>3. CASE commands # <<>>
  <2>1. /\ commands' = Tail(commands) /\ Followed(Head(commands) = "STOP" \/ link)
        /\ StartTaken \/ StopTaken
    BY <1>3 DEF AcceptorTask, CcTalkTask, StartTaken, StopTaken, Take, Polled
  <2>2. Now' \in Settings /\ (commands' = <<>> => Head(commands) = Command(logical))
    BY <1>1, <1>2, <1>3, <2>1, LeavesMailbox
  <2>3. enabled' \in BOOLEAN /\ online' \in BOOLEAN
    BY <1>1, <2>1 DEF StartTaken, StopTaken, AcceptorStarted, Flags
  <2>4. watch' \in Watches /\ (watch' = "watched" => watch = "watched")
    BY <2>1 DEF Followed, Watches
  <2>5. StartWasHeard'
    <3> SUFFICES ASSUME watch' = "unwatched", logical = "ACTIVE", commands' = <<>>
                 PROVE  enabled'
      BY <1>2 DEF StartWasHeard
    <3>1. Head(commands) = "START"
      BY <2>2 DEF Command
    <3>2. link /\ StartTaken
      BY <2>1, <3>1 DEF Followed, StopTaken, Take
    <3> QED
      BY <3>2 DEF StartTaken, AcceptorStarted
  <2> QED
    BY <1>1, <1>2, <1>3, <2>2, <2>3, <2>4, <2>5, OutsideStep DEF Types, Flags
<1>4. CASE commands = <<>>
  <2>1. UNCHANGED <<commands, enabled, watch>> /\ online' = link
    BY <1>4 DEF AcceptorTask, CcTalkTask, StartTaken, StopTaken, Take, Polled
  <2>2. StartWasHeard' /\ Now' \in Settings
    BY <1>1, <1>2, <2>1 DEF Cared, StartWasHeard, Types, Now, Setting
  <2> QED
    BY <1>1, <1>2, <1>4, <2>1, <2>2, OutsideStep DEF Types, Flags
<1> QED
  BY <1>3, <1>4

LEMMA BootTaskInv == SupervisorInv /\ BootTask => SupervisorInv'
<1> SUFFICES ASSUME SupervisorInv, BootTask PROVE SupervisorInv'
  OBVIOUS
<1>1. Types /\ Flags /\ Cared
  BY InvIs
<1>2. /\ UNCHANGED <<life, turn, oos, retry, env, logical, commands, link>>
      /\ booting' = FALSE /\ AcceptorStarted /\ Followed(link)
  BY DEF BootTask, BootStart
<1>3. enabled' = (enabled \/ link) /\ online' = (online \/ link)
  BY <1>2 DEF AcceptorStarted
<1>4. enabled' \in BOOLEAN /\ online' \in BOOLEAN /\ Now' \in Settings
  BY <1>1, <1>2, <1>3 DEF Flags, Types, Now, Setting
<1>5. watch' \in Watches /\ (watch' = "watched" => watch = "watched")
  BY <1>2 DEF Followed, Watches
<1>6. StartWasHeard'
  BY <1>2, <1>3 DEF Followed, StartWasHeard
<1> QED
  BY <1>1, <1>2, <1>3, <1>4, <1>5, <1>6, OutsideStep DEF Types, Flags

\* A command that grew too old is lost, and known to be: it will be verified, or
\* is counted as lost.
LEMMA CommandExpiresInv == SupervisorInv /\ CommandExpires => SupervisorInv'
<1> SUFFICES ASSUME SupervisorInv, CommandExpires PROVE SupervisorInv'
  OBVIOUS
<1>1. Types /\ Flags /\ Cared
  BY InvIs
<1>2. /\ UNCHANGED <<life, turn, oos, retry, scanner, rs485, logical, booting, enabled, online,
                     link>>
      /\ commands # <<>> /\ commands' = Tail(commands) /\ Followed(FALSE) /\ Fault
  BY DEF CommandExpires, Expired
<1>3. Now' \in Settings
  BY <1>1, <1>2, LeavesMailbox
<1>4. faults' \in 0..MaxFaults
  BY <1>1, <1>2 DEF Fault, Types
<1>5. watch' \in {"watched", "lost"} /\ (watch' = "watched" => watch = "watched")
  BY <1>2 DEF Followed
<1>6. StartWasHeard'
  BY <1>5 DEF StartWasHeard
<1> QED
  BY <1>1, <1>2, <1>3, <1>4, <1>5, <1>6, OutsideStep DEF Flags, Watches

\* Requests and failures take nothing of what was asked for away.
LEMMA OutsideInv == SupervisorInv /\ (OtherRequest \/ EnvironmentStep) => SupervisorInv'
<1> SUFFICES ASSUME SupervisorInv, OtherRequest \/ EnvironmentStep PROVE SupervisorInv'
  OBVIOUS
<1>1. Types /\ Flags /\ Cared
  BY InvIs
<1>2. /\ UNCHANGED <<life, turn, runtimeOos, focus, retry, watch, logical, commands, booting,
                     enabled, online>>
      /\ requested' \in {requested, "MDB"}
  BY DEF OtherRequest, EnvironmentStep, Environment, LinkChanged
<1>3. faults' = faults \/ Fault
  BY DEF OtherRequest, EnvironmentStep, Environment
<1>4. Now' \in Settings /\ faults' \in 0..MaxFaults
  BY <1>1, <1>2, <1>3 DEF Types, Now, Setting, Fault
<1>5. link' \in BOOLEAN /\ scanner' \in BOOLEAN /\ rs485' \in BOOLEAN
  BY <1>1 DEF OtherRequest, EnvironmentStep, Environment, LinkChanged, Flags
<1>6. StartWasHeard'
  BY <1>1, <1>2 DEF Cared, StartWasHeard
<1> QED
  BY <1>1, <1>2, <1>4, <1>5, <1>6, OutsideStep DEF Flags

\* The inductive invariant of the loop and the acceptor's task: what was asked of
\* the acceptor is under way, will be verified, was given up aloud, or is one of
\* the settings nobody verifies, on their way, arrived or lost.
THEOREM SupervisorInvariance == SupervisorSpec => []SupervisorInv
<1>1. SupervisorInv /\ [SupervisorNext]_svars => SupervisorInv'
  <2> SUFFICES ASSUME SupervisorInv, [SupervisorNext]_svars PROVE SupervisorInv'
    OBVIOUS
  <2>1. CASE UNCHANGED svars
    BY <2>1 DEF svars, SupervisorInv, SupervisorTypeOK, TurnTypeOK, CcTalkTypeOK, Follows, Now,
                Setting, FlagFollowsState, AcceptorIsCared, AcceptorIsSet, StartWasHeard, Waiting
  <2> QED
    BY <2>1, TakeEventInv, TakeTickInv, ServiceInv, SetDevicesInv, VerifyInv, AcceptorTaskInv,
       BootTaskInv, CommandExpiresInv, OutsideInv DEF SupervisorNext, Turn
<1> QED
  BY <1>1, SupervisorInitInv, PTL DEF SupervisorSpec

\* Loop, acceptor and environment keep their types; the mailbox never holds more
\* commands than it has room for (cctalk_driver_set_state).
THEOREM SupervisorTypeCorrect == SupervisorSpec => []SupervisorTypeOK
<1>1. SupervisorInv => SupervisorTypeOK
  BY DEF SupervisorInv
<1> QED
  BY <1>1, SupervisorInvariance, PTL

\* When the machine takes payments, the acceptor is on, or what was asked of it
\* will be verified, or out of service was asked for; but for a START that nobody
\* verifies (at boot, at the end of out of service, verified too early, or its
\* verification replaced), which leaves the acceptor off only on its way or lost
\* (fsm_task, the retries of the ccTalk state).
THEOREM NoAcceptorForgotten == SupervisorSpec => []AcceptorIsLookedAfter
<1>1. SupervisorInv => AcceptorIsLookedAfter
  <2> SUFFICES ASSUME SupervisorInv PROVE AcceptorIsLookedAfter
    OBVIOUS
  <2>1. Cared /\ watch \in Watches
    BY InvIs DEF Flags
  <2>2. CASE watch = "watched"
    BY <2>1, <2>2 DEF Cared, AcceptorIsCared, AcceptorIsSet, Waiting, AcceptorIsLookedAfter
  <2>3. CASE watch = "unwatched"
    BY <2>1, <2>3 DEF Cared, StartWasHeard, AcceptorIsLookedAfter
  <2>4. CASE watch = "lost"
    BY <2>4 DEF AcceptorIsLookedAfter
  <2> QED
    BY <2>1, <2>2, <2>3, <2>4 DEF Watches
<1> QED
  BY <1>1, SupervisorInvariance, PTL

=============================================================================
