------------------------ MODULE CommandPathProofs ------------------------
(***************************************************************************)
(* Theorems about CommandPath for every set of configs and every bound:    *)
(* its types, what can part the desired config from its configId, and that *)
(* no reassert goes without a push or a fault of its own.                  *)
(***************************************************************************)
EXTENDS CommandPath, FiniteSetTheorems, TLAPS

MaybeConfig == Configs \cup {Null}
MaybeId == Nat \cup {Null}
MaybeAnswer == Nat \cup {NoId, Null}
MaybeBool == BOOLEAN \cup {Null}

Calls == [pc : {"idle", "first", "second", "answered"},
          cfg : MaybeConfig, result : MaybeAnswer]

Polls == [pc : {"idle", "health", "healthy", "config", "configured", "reassert"},
          id : MaybeAnswer, applied : MaybeBool, cfg : MaybeConfig]

Messages == [to : {"observed", "register"}, id : Nat, cfg : MaybeConfig]

\* TypeOK with the types that keep it.
Types ==
  /\ unit \in [cfg : MaybeConfig, id : Nat, applied : BOOLEAN]
  /\ entry \in [desired : MaybeConfig, desiredId : MaybeId, unitId : MaybeId,
                applied : MaybeBool, reported : MaybeConfig]
  /\ history \in [keyed : MaybeConfig, reasserts : Nat]
  /\ call \in [Callers -> Calls]
  /\ poll \in Polls
  /\ mail \subseteq Messages
  /\ budget \in [pushes : Nat, events : Nat]
  /\ (poll.pc = "reassert") = (call[Reassert].pc # "idle")

LEMMA CallerNames ==
  /\ Configs \subseteq Callers
  /\ Reassert \in Callers
  /\ Reassert \notin Configs
BY NamesAssumption DEF Callers

LEMMA TypesImplyTypeOK == Types => TypeOK
BY NamesAssumption
DEF Types, TypeOK, MaybeConfig, MaybeId, MaybeAnswer, MaybeBool, Calls, Polls

LEMMA IdOrTypes ==
  ASSUME NEW id \in MaybeAnswer, NEW old \in MaybeId
  PROVE  /\ IdOr(id, old) \in MaybeId
         /\ id # NoId => IdOr(id, old) = id
         /\ id = NoId => IdOr(id, old) = old
BY NamesAssumption DEF IdOr, MaybeId, MaybeAnswer

-----------------------------------------------------------------------------
(* Types. *)

LEMMA InitTypes == Init => Types
<1> SUFFICES ASSUME Init PROVE Types
  OBVIOUS
<1>1. MaxPushes \in Nat /\ MaxEvents \in Nat
  BY BoundsAssumption
<1> QED BY <1>1, CallerNames
  DEF Init, Types, Idle, NoPoll, MaybeConfig, MaybeId, MaybeAnswer, MaybeBool, Calls, Polls

\* The unit numbers what it accepts, and an event uses up the budget.
LEMMA AcceptTypes ==
  ASSUME Types, NEW c \in MaybeConfig, Accept(c)
  PROVE  /\ unit' \in [cfg : MaybeConfig, id : Nat, applied : BOOLEAN]
         /\ unit'.id = unit.id + 1
BY DEF Types, Accept

LEMMA EventTypes ==
  ASSUME Types, Event
  PROVE  /\ budget' \in [pushes : Nat, events : Nat]
         /\ budget'.pushes = budget.pushes
         /\ budget'.events = budget.events - 1
BY DEF Types, Event

\* What an attempt does to the unit, and what it may answer.
LEMMA AttemptTypes ==
  ASSUME Types, NEW k \in Callers, NEW answer, Attempt(call[k].cfg, answer)
  PROVE  /\ unit' \in [cfg : MaybeConfig, id : Nat, applied : BOOLEAN]
         /\ unit'.id >= unit.id
         /\ answer \in MaybeAnswer
         /\ answer \notin {NoId, Null} => answer = unit'.id
<1>1. call[k].cfg \in MaybeConfig
  BY DEF Types, Calls
<1>2. unit.id \in Nat
  BY DEF Types
<1>3. CASE Accept(call[k].cfg) /\ answer \in Answers
  BY <1>1, <1>2, <1>3, AcceptTypes DEF Answers, MaybeAnswer
<1>4. CASE UNCHANGED unit /\ answer = Null
  BY <1>2, <1>4 DEF Types, MaybeAnswer
<1> QED BY <1>3, <1>4 DEF Attempt

\* A caller's record is replaced by one that is idle if the old one was.
LEMMA CallTypes ==
  ASSUME Types, NEW k \in Callers, NEW c \in Calls,
         call' = [call EXCEPT ![k] = c],
         (c.pc = "idle") = (call[k].pc = "idle")
  PROVE  /\ call' \in [Callers -> Calls]
         /\ (call'[Reassert].pc # "idle") = (call[Reassert].pc # "idle")
BY CallerNames DEF Types

LEMMA FirstAttemptTypes ==
  ASSUME Types, NEW k \in Callers, FirstAttempt(k)
  PROVE  Types'
<1>1. PICK answer \in Answers :
        /\ Attempt(call[k].cfg, answer)
        /\ IF answer \in {NoId, Null} THEN Event ELSE UNCHANGED budget
        /\ call' = [call EXCEPT ![k] = [@ EXCEPT !.pc = "second", !.result = answer]]
  BY DEF FirstAttempt
<1>2. unit' \in [cfg : MaybeConfig, id : Nat, applied : BOOLEAN] /\ answer \in MaybeAnswer
  BY <1>1, AttemptTypes
<1>3. budget' \in [pushes : Nat, events : Nat]
  BY <1>1, EventTypes DEF Types
<1> DEFINE c == [call[k] EXCEPT !.pc = "second", !.result = answer]
<1>4. call[k] \in Calls /\ call[k].pc = "first"
  BY DEF Types, FirstAttempt
<1>5. c \in Calls /\ call' = [call EXCEPT ![k] = c]
  <2>1. c \in Calls
    BY <1>2, <1>4 DEF Calls
  <2>2. call' = [call EXCEPT ![k] = c]
    BY <1>1
  <2> QED BY <2>1, <2>2
<1>6. /\ call' \in [Callers -> Calls]
      /\ (call'[Reassert].pc # "idle") = (call[Reassert].pc # "idle")
  <2>1. c.pc # "idle"
    BY <1>4 DEF Calls
  <2> HIDE DEF c
  <2> QED BY <1>4, <1>5, <2>1, CallTypes
<1> QED BY <1>2, <1>3, <1>6 DEF Types, FirstAttempt

LEMMA SecondAttemptTypes ==
  ASSUME Types, NEW k \in Callers, SecondAttempt(k)
  PROVE  Types'
<1>1. PICK answer \in Answers :
        /\ Attempt(call[k].cfg, answer)
        /\ IF answer \in {NoId, Null} /\ call[k].result \notin {NoId, Null}
           THEN Event ELSE UNCHANGED budget
        /\ call' = [call EXCEPT ![k] =
                      [@ EXCEPT !.pc = "answered",
                                !.result = IF answer = Null THEN call[k].result ELSE answer]]
  BY DEF SecondAttempt
<1>2. unit' \in [cfg : MaybeConfig, id : Nat, applied : BOOLEAN] /\ answer \in MaybeAnswer
  BY <1>1, AttemptTypes
<1>3. budget' \in [pushes : Nat, events : Nat]
  BY <1>1, EventTypes DEF Types
<1> DEFINE c == [call[k] EXCEPT !.pc = "answered", !.result = IF answer = Null THEN call[k].result ELSE answer]
<1>4. call[k] \in Calls /\ call[k].pc = "second"
  BY DEF Types, SecondAttempt
<1>5. c \in Calls /\ call' = [call EXCEPT ![k] = c]
  <2>1. c \in Calls
    BY <1>2, <1>4 DEF Calls
  <2>2. call' = [call EXCEPT ![k] = c]
    BY <1>1
  <2> QED BY <2>1, <2>2
<1>6. /\ call' \in [Callers -> Calls]
      /\ (call'[Reassert].pc # "idle") = (call[Reassert].pc # "idle")
  <2>1. c.pc # "idle"
    BY <1>4 DEF Calls
  <2> HIDE DEF c
  <2> QED BY <1>4, <1>5, <2>1, CallTypes
<1> QED BY <1>2, <1>3, <1>6 DEF Types, SecondAttempt

LEMMA IdleTypes ==
  /\ Idle \in Calls /\ Idle.pc = "idle"
  /\ NoPoll \in Polls /\ NoPoll.pc = "idle"
BY DEF Idle, NoPoll, Calls, Polls, MaybeConfig, MaybeId, MaybeAnswer, MaybeBool

\* A push or reassert that starts.
LEMMA StartedTypes ==
  ASSUME NEW c \in MaybeConfig
  PROVE  /\ [Idle EXCEPT !.pc = "first", !.cfg = c] \in Calls
         /\ [Idle EXCEPT !.pc = "first", !.cfg = c].pc = "first"
         /\ [Idle EXCEPT !.pc = "first", !.cfg = c].result = Null
BY DEF Idle, Calls, MaybeConfig, MaybeAnswer

\* A push that starts or ends leaves the poll and the reassert as they are.
LEMMA PushTypes ==
  ASSUME Types, NEW k \in Configs, NEW c \in Calls, call' = [call EXCEPT ![k] = c]
  PROVE  /\ call' \in [Callers -> Calls]
         /\ call'[Reassert] = call[Reassert]
BY CallerNames DEF Types

LEMMA CallStepTypes ==
  ASSUME Types, NEW k \in Callers, CallStep(k)
  PROVE  Types'
<1>1. CASE FinishPush(k)
  <2>1. call[k] \in Calls
    BY DEF Types
  <2>2. /\ call' \in [Callers -> Calls]
        /\ call'[Reassert] = call[Reassert]
    BY <1>1, IdleTypes, PushTypes DEF FinishPush
  <2>3. /\ entry' \in [desired : MaybeConfig, desiredId : MaybeId, unitId : MaybeId,
                       applied : MaybeBool, reported : MaybeConfig]
        /\ history' \in [keyed : MaybeConfig, reasserts : Nat]
    <3>1. /\ IdOr(call[k].result, entry.desiredId) \in MaybeId
          /\ IdOr(call[k].result, entry.unitId) \in MaybeId
      BY <2>1, IdOrTypes DEF Types, Calls
    <3> QED BY <1>1, <2>1, <3>1 DEF FinishPush, Keyed, Types, Calls, MaybeBool
  <2> QED BY <1>1, <2>2, <2>3 DEF FinishPush, Types
<1>2. CASE FailCall(k)
  <2>1. CASE k \in Configs
    <3>1. /\ call' \in [Callers -> Calls]
          /\ call'[Reassert] = call[Reassert]
      BY <1>2, <2>1, IdleTypes, PushTypes DEF FailCall
    <3> QED BY <1>2, <2>1, <3>1, CallerNames DEF FailCall, Types
  <2>2. CASE k = Reassert
    BY <1>2, <2>2, IdleTypes DEF FailCall, Types
  <2> QED BY <2>1, <2>2 DEF Callers
<1> QED BY <1>1, <1>2, FirstAttemptTypes, SecondAttemptTypes DEF CallStep

\* What ends a poll or turns it into a reassert.
LEMMA ReassertTypes ==
  ASSUME Types, poll.pc # "reassert", NEW e, e.desired \in MaybeConfig, MaybeReassert(e)
  PROVE  /\ call' \in [Callers -> Calls]
         /\ poll' \in Polls
         /\ history' \in [keyed : MaybeConfig, reasserts : Nat]
         /\ (poll'.pc = "reassert") = (call'[Reassert].pc # "idle")
<1>1. CASE Missed(e)
  <2>1. /\ poll' = [NoPoll EXCEPT !.pc = "reassert"]
        /\ call' = [call EXCEPT ![Reassert] = [Idle EXCEPT !.pc = "first", !.cfg = e.desired]]
        /\ history' = [history EXCEPT !.reasserts = @ + 1]
    BY <1>1 DEF MaybeReassert
  <2>2. /\ call' \in [Callers -> Calls]
        /\ call'[Reassert].pc = "first"
    BY <2>1, StartedTypes, CallerNames DEF Types
  <2>3. poll' \in Polls /\ poll'.pc = "reassert"
    BY <2>1 DEF NoPoll, Polls, MaybeId, MaybeAnswer, MaybeBool, MaybeConfig
  <2>4. history' \in [keyed : MaybeConfig, reasserts : Nat]
    BY <2>1 DEF Types
  <2> QED BY <2>2, <2>3, <2>4
<1>2. CASE ~Missed(e)
  BY <1>2, IdleTypes DEF MaybeReassert, Types
<1> QED BY <1>1, <1>2

LEMMA PollStepTypes ==
  ASSUME Types, PollStep
  PROVE  Types'
<1>0. poll \in Polls /\ entry.desired \in MaybeConfig
  BY DEF Types
<1>1. CASE UnitAnswersHealth
  BY <1>1 DEF UnitAnswersHealth, Types, Polls, MaybeId, MaybeAnswer, MaybeBool, MaybeConfig
<1>2. CASE UnitAnswersConfig
  BY <1>2 DEF UnitAnswersConfig, Types, Polls, MaybeId, MaybeAnswer, MaybeBool, MaybeConfig
<1>3. CASE HealthArrives
  <2>1. poll' \in Polls /\ poll'.pc = "config"
    BY <1>3 DEF HealthArrives, NoPoll, Polls, MaybeId, MaybeAnswer, MaybeBool, MaybeConfig
  <2>2. entry' \in [desired : MaybeConfig, desiredId : MaybeId, unitId : MaybeId,
                    applied : MaybeBool, reported : MaybeConfig]
    <3>1. IdOr(poll.id, Null) \in MaybeId
      BY <1>0, IdOrTypes DEF Polls, MaybeId
    <3> QED BY <1>0, <1>3, <3>1 DEF HealthArrives, Types, Polls
  <2> QED BY <1>3, <2>1, <2>2 DEF HealthArrives, Types
<1>4. CASE ConfigArrives
  <2>1. entry' \in [desired : MaybeConfig, desiredId : MaybeId, unitId : MaybeId,
                    applied : MaybeBool, reported : MaybeConfig]
    <3>1. IdOr(poll.id, entry.unitId) \in MaybeId
      BY <1>0, IdOrTypes DEF Types, Polls
    <3> QED BY <1>0, <1>4, <3>1 DEF ConfigArrives, Types, Polls
  <2>2. poll.pc # "reassert" /\ entry'.desired \in MaybeConfig /\ MaybeReassert(entry')
    BY <1>4, <2>1 DEF ConfigArrives
  <2>3. /\ call' \in [Callers -> Calls]
        /\ poll' \in Polls
        /\ history' \in [keyed : MaybeConfig, reasserts : Nat]
        /\ (poll'.pc = "reassert") = (call'[Reassert].pc # "idle")
    BY <2>2, ReassertTypes
  <2> QED BY <1>4, <2>1, <2>3 DEF ConfigArrives, Types
<1>5. CASE HealthFails
  BY <1>5, EventTypes, IdleTypes DEF HealthFails, Types
<1>6. CASE ConfigFails
  <2>1. /\ call' \in [Callers -> Calls]
        /\ poll' \in Polls
        /\ history' \in [keyed : MaybeConfig, reasserts : Nat]
        /\ (poll'.pc = "reassert") = (call'[Reassert].pc # "idle")
    BY <1>0, <1>6, ReassertTypes DEF ConfigFails
  <2> QED BY <1>6, <2>1, EventTypes DEF ConfigFails, Types
<1>7. CASE FinishReassert
  <2>1. call[Reassert] \in Calls
    BY CallerNames DEF Types
  <2>2. call' \in [Callers -> Calls] /\ call'[Reassert].pc = "idle"
    BY <1>7, IdleTypes, CallerNames DEF FinishReassert, Types
  <2>3. /\ entry' \in [desired : MaybeConfig, desiredId : MaybeId, unitId : MaybeId,
                       applied : MaybeBool, reported : MaybeConfig]
        /\ history' \in [keyed : MaybeConfig, reasserts : Nat]
    <3>1. /\ IdOr(call[Reassert].result, entry.desiredId) \in MaybeId
          /\ IdOr(call[Reassert].result, entry.unitId) \in MaybeId
      BY <2>1, IdOrTypes DEF Types, Calls
    <3> QED BY <1>7, <2>1, <3>1 DEF FinishReassert, Keyed, Types, Calls, MaybeBool
  <2> QED BY <1>7, <2>2, <2>3, IdleTypes DEF FinishReassert, Types
<1>8. CASE UnitAnswersBlank
  <2>1. poll' \in Polls /\ poll'.pc # "reassert" /\ poll.pc # "reassert"
    BY <1>8 DEF UnitAnswersBlank, NoPoll, Polls, MaybeAnswer, MaybeBool, MaybeConfig
  <2> QED BY <1>8, <2>1, EventTypes DEF UnitAnswersBlank, Types
<1> QED BY <1>1, <1>2, <1>3, <1>4, <1>5, <1>6, <1>7, <1>8 DEF PollStep

LEMMA NextTypes == Types /\ [Next]_vars => Types'
<1> SUFFICES ASSUME Types, [Next]_vars PROVE Types'
  OBVIOUS
<1>1. CASE Reboot
  BY <1>1, EventTypes DEF Reboot, Types, MaybeConfig
<1>2. ASSUME NEW c \in Configs, RemotePress(c)
      PROVE  Types'
  <2>1. c \in MaybeConfig
    BY DEF MaybeConfig
  <2>2. unit' \in [cfg : MaybeConfig, id : Nat, applied : BOOLEAN]
    BY <1>2, <2>1, AcceptTypes DEF RemotePress
  <2>3. mail' \subseteq Messages
    BY <1>2, <2>1 DEF RemotePress, Types, Messages
  <2> QED BY <1>2, <2>2, <2>3, EventTypes DEF RemotePress, Types
<1>3. CASE SendRegister
  BY <1>3 DEF SendRegister, Types, Messages, MaybeConfig
<1>4. ASSUME NEW m \in mail, ReceiveMail(m)
      PROVE  Types'
  <2>1. m \in Messages
    BY DEF Types
  <2>2. entry' \in [desired : MaybeConfig, desiredId : MaybeId, unitId : MaybeId,
                    applied : MaybeBool, reported : MaybeConfig]
    BY <1>4, <2>1 DEF ReceiveMail, Observed, Registered, Types, Messages, MaybeId, MaybeAnswer, MaybeBool
  <2> QED BY <1>4, <2>2 DEF ReceiveMail, Types
<1>5. ASSUME NEW m \in mail, LoseMail(m)
      PROVE  Types'
  BY <1>5, EventTypes DEF LoseMail, Types
<1>6. ASSUME NEW c \in Configs, StartPush(c)
      PROVE  Types'
  <2>1. [Idle EXCEPT !.pc = "first", !.cfg = c] \in Calls
    BY StartedTypes DEF MaybeConfig
  <2>2. call' = [call EXCEPT ![c] = [Idle EXCEPT !.pc = "first", !.cfg = c]]
    BY <1>6 DEF StartPush
  <2>3. call' \in [Callers -> Calls] /\ call'[Reassert] = call[Reassert]
    BY <2>1, <2>2, PushTypes
  <2>4. budget' \in [pushes : Nat, events : Nat]
    BY <1>6 DEF StartPush, Types
  <2> QED BY <1>6, <2>3, <2>4 DEF StartPush, Types
<1>7. ASSUME NEW k \in Callers, CallStep(k)
      PROVE  Types'
  BY <1>7, CallStepTypes
<1>8. CASE StartPoll
  BY <1>8 DEF StartPoll, NoPoll, Types, Polls, MaybeId, MaybeAnswer, MaybeBool, MaybeConfig
<1>9. CASE PollStep
  BY <1>9, PollStepTypes
<1>10. CASE UNCHANGED vars
  BY <1>10 DEF vars, Types
<1> QED BY <1>1, <1>2, <1>3, <1>4, <1>5, <1>6, <1>7, <1>8, <1>9, <1>10 DEF Next

-----------------------------------------------------------------------------
(* Reasserts and their causes. A cause is a push or an event; each pays for *)
(* one reassert. What has a cause but no reassert yet is a push in progress *)
(* or a view of the unit, present or to come, that is behind.               *)

Active == {c \in Configs : call[c].pc # "idle"}

\* A reassert that may still bring the desired configId up to date.
Retrying ==
  \/ call[Reassert].pc = "first"
  \/ call[Reassert].pc # "idle" /\ call[Reassert].result \notin {NoId, Null}

\* Some poll will find the unit behind the desired configId: the unit lost its
\* numbering since a reassert's answer or since the last push, or the answer of
\* a poll under way is older than the last push, or blank.
Behind ==
  \/ /\ call[Reassert].pc # "idle" /\ call[Reassert].result \notin {NoId, Null}
     /\ unit.id < call[Reassert].result
  \/ ~Retrying /\ entry.desiredId # Null /\ unit.id < entry.desiredId
  \/ /\ poll.pc = "configured"
     /\ \/ poll.id = NoId
        \/ poll.id # Null /\ entry.desiredId # Null /\ poll.id < entry.desiredId

Debt == IF Behind THEN 1 ELSE 0

Used == (MaxPushes - budget.pushes) + (MaxEvents - budget.events)

Counted ==
  /\ IsFiniteSet(Active)
  /\ history.reasserts + Cardinality(Active) + Debt <= Used

LEMMA CountTypes ==
  ASSUME Types, Counted
  PROVE  Cardinality(Active) \in Nat /\ Used \in Int /\ history.reasserts \in Nat
BY FS_CardinalityType, BoundsAssumption DEF Types, Counted, Used

LEMMA InitCounted == Init => Counted
<1> SUFFICES ASSUME Init PROVE Counted
  OBVIOUS
<1>1. Active = {}
  BY CallerNames DEF Init, Active, Idle
<1>2. IsFiniteSet(Active) /\ Cardinality(Active) = 0
  BY <1>1, FS_EmptySet
<1>3. ~Behind
  BY CallerNames DEF Init, Behind, Retrying, Idle, NoPoll
<1>4. Used = 0 /\ history.reasserts = 0
  BY BoundsAssumption DEF Init, Used
<1> QED BY <1>2, <1>3, <1>4 DEF Counted, Debt

\* A step that starts no reassert and either uses an event or leaves nobody
\* behind who was not.
LEMMA QuietCounted ==
  ASSUME Types, Counted, Active' = Active, history'.reasserts = history.reasserts,
         Used' = Used + 1 \/ (Used' = Used /\ (Behind' => Behind))
  PROVE  Counted'
<1>1. /\ Cardinality(Active) \in Nat /\ Used \in Int /\ history.reasserts \in Nat
      /\ history.reasserts + Cardinality(Active) + Debt <= Used
      /\ IsFiniteSet(Active')
  BY CountTypes DEF Counted
<1>2. Debt \in {0, 1} /\ Debt' \in {0, 1}
  BY DEF Debt
<1>3. Used' = Used => Debt' <= Debt \/ Used' = Used + 1
  BY <1>1 DEF Debt
<1> HIDE DEF Debt, Used, Active
<1>4. history'.reasserts + Cardinality(Active') + Debt' <= Used'
  BY <1>1, <1>2, <1>3
<1> QED BY <1>1, <1>4 DEF Counted

\* A push that ends gives its cause up.
LEMMA EndedCounted ==
  ASSUME Types, Counted, NEW k \in Active, Active' = Active \ {k},
         history'.reasserts = history.reasserts, Used' = Used
  PROVE  Counted'
<1>1. /\ Cardinality(Active) \in Nat /\ Used \in Int /\ history.reasserts \in Nat
      /\ history.reasserts + Cardinality(Active) + Debt <= Used
  BY CountTypes DEF Counted
<1>2. IsFiniteSet(Active') /\ Cardinality(Active') = Cardinality(Active) - 1
  BY FS_RemoveElement DEF Counted
<1>3. Debt \in {0, 1} /\ Debt' \in {0, 1}
  BY DEF Debt
<1> HIDE DEF Debt, Used, Active
<1>4. history'.reasserts + Cardinality(Active') + Debt' <= Used'
  BY <1>1, <1>2, <1>3
<1> QED BY <1>2, <1>4 DEF Counted

\* A reassert that starts pays with the view that was behind, or with an event.
LEMMA ReassertCounted ==
  ASSUME Types, Counted, Active' = Active, ~Behind',
         history'.reasserts = history.reasserts + 1,
         Used' = Used + 1 \/ (Used' = Used /\ Behind)
  PROVE  Counted'
<1>1. /\ Cardinality(Active) \in Nat /\ Used \in Int /\ history.reasserts \in Nat
      /\ history.reasserts + Cardinality(Active) + Debt <= Used
      /\ IsFiniteSet(Active')
  BY CountTypes DEF Counted
<1>2. Debt \in {0, 1} /\ (Behind => Debt = 1) /\ Debt' = 0
  BY DEF Debt
<1> HIDE DEF Debt, Used, Active
<1>3. history'.reasserts + Cardinality(Active') + Debt' <= Used'
  BY <1>1, <1>2
<1> QED BY <1>1, <1>3 DEF Counted

LEMMA EventUsed ==
  ASSUME Types, Event
  PROVE  Used' = Used + 1
BY EventTypes, BoundsAssumption DEF Types, Used

\* While call and poll stay, a unit that goes on numbering falls behind nothing.
LEMMA SameCallsCounted ==
  ASSUME Types, Counted, call' = call, history' = history,
         \/ Event
         \/ /\ UNCHANGED <<budget, poll>>
            /\ entry'.desiredId = entry.desiredId /\ unit' = unit
  PROVE  Counted'
<1>1. Active' = Active
  BY DEF Active
<1>2. CASE Event
  BY <1>1, <1>2, EventUsed, QuietCounted
<1>3. CASE /\ UNCHANGED <<budget, poll>>
           /\ entry'.desiredId = entry.desiredId /\ unit' = unit
  <2>1. Used' = Used /\ Behind' = Behind
    BY <1>3 DEF Used, Behind, Retrying
  <2> QED BY <1>1, <2>1, QuietCounted
<1> QED BY <1>2, <1>3

LEMMA FirstAttemptCounted ==
  ASSUME Types, Counted, NEW k \in Callers, FirstAttempt(k)
  PROVE  Counted'
<1>1. PICK answer \in Answers :
        /\ Attempt(call[k].cfg, answer)
        /\ IF answer \in {NoId, Null} THEN Event ELSE UNCHANGED budget
        /\ call' = [call EXCEPT ![k] = [@ EXCEPT !.pc = "second", !.result = answer]]
  BY DEF FirstAttempt
<1>2. /\ unit.id \in Nat /\ unit'.id \in Nat /\ unit'.id >= unit.id
      /\ answer \notin {NoId, Null} => answer = unit'.id
  BY <1>1, AttemptTypes DEF Types
<1>3. /\ call[k] \in Calls /\ call[k].pc = "first"
      /\ call'[k].pc = "second"
      /\ call'[k].result = answer
      /\ \A x \in Callers \ {k} : call'[x] = call[x]
  BY <1>1 DEF FirstAttempt, Types, Calls
<1>4. Active' = Active
  BY <1>3, CallerNames DEF Active
<1>5. /\ history' = history /\ poll' = poll /\ entry' = entry
      /\ entry.desiredId \in MaybeId
  BY DEF FirstAttempt, Types
<1>6. CASE Event
  BY <1>4, <1>5, <1>6, EventUsed, QuietCounted
<1>7. CASE UNCHANGED budget /\ answer \notin {NoId, Null}
  <2>1. Used' = Used
    BY <1>7 DEF Used
  <2>2. CASE k = Reassert
    <3>1. ~(call'[k].result \notin {NoId, Null} /\ unit'.id < call'[k].result)
      BY <1>2, <1>3, <1>7
    <3>2. ~Retrying' /\ entry.desiredId # Null /\ unit'.id < entry.desiredId
          => ~Retrying /\ unit.id < entry.desiredId
      BY <1>2, <1>3, <1>5, <1>7, <2>2 DEF Retrying, MaybeId
    <3> QED BY <1>4, <1>5, <2>1, <2>2, <3>1, <3>2, QuietCounted DEF Behind
  <2>3. CASE k # Reassert
    <3>1. call'[Reassert] = call[Reassert] /\ call[Reassert].result \in MaybeAnswer
      BY <1>3, <2>3, CallerNames DEF Types, Calls
    <3>2. Retrying' = Retrying
      BY <3>1 DEF Retrying
    <3>3. Behind' => Behind
      BY <1>2, <1>5, <3>1, <3>2 DEF Behind, MaybeId, MaybeAnswer
    <3> QED BY <1>4, <1>5, <2>1, <3>3, QuietCounted
  <2> QED BY <2>2, <2>3
<1> QED BY <1>1, <1>6, <1>7

LEMMA SecondAttemptCounted ==
  ASSUME Types, Counted, NEW k \in Callers, SecondAttempt(k)
  PROVE  Counted'
<1>1. PICK answer \in Answers :
        /\ Attempt(call[k].cfg, answer)
        /\ IF answer \in {NoId, Null} /\ call[k].result \notin {NoId, Null}
           THEN Event ELSE UNCHANGED budget
        /\ call' = [call EXCEPT ![k] = [@ EXCEPT !.pc = "answered", !.result = IF answer = Null THEN call[k].result ELSE answer]]
  BY DEF SecondAttempt
<1>2. /\ unit.id \in Nat /\ unit'.id \in Nat /\ unit'.id >= unit.id
      /\ answer \notin {NoId, Null} => answer = unit'.id
  BY <1>1, AttemptTypes DEF Types
<1>3. /\ call[k] \in Calls /\ call[k].pc = "second"
      /\ call'[k].pc = "answered"
      /\ call'[k].result = IF answer = Null THEN call[k].result ELSE answer
      /\ \A x \in Callers \ {k} : call'[x] = call[x]
  BY <1>1 DEF SecondAttempt, Types, Calls
<1>4. Active' = Active
  BY <1>3, CallerNames DEF Active
<1>5. /\ history' = history /\ poll' = poll /\ entry' = entry
      /\ entry.desiredId \in MaybeId
  BY DEF SecondAttempt, Types
<1>6. CASE Event
  BY <1>4, <1>5, <1>6, EventUsed, QuietCounted
<1>7. CASE UNCHANGED budget /\ ~(answer \in {NoId, Null} /\ call[k].result \notin {NoId, Null})
  <2>1. Used' = Used
    BY <1>7 DEF Used
  <2>2. CASE k = Reassert
    <3>1. ~(call'[k].result \notin {NoId, Null} /\ unit'.id < call'[k].result)
      BY <1>2, <1>3, <1>7
    <3>2. ~Retrying' /\ entry.desiredId # Null /\ unit'.id < entry.desiredId
          => ~Retrying /\ unit.id < entry.desiredId
      BY <1>2, <1>3, <1>5, <1>7, <2>2 DEF Retrying, MaybeId
    <3> QED BY <1>4, <1>5, <2>1, <2>2, <3>1, <3>2, QuietCounted DEF Behind
  <2>3. CASE k # Reassert
    <3>1. call'[Reassert] = call[Reassert] /\ call[Reassert].result \in MaybeAnswer
      BY <1>3, <2>3, CallerNames DEF Types, Calls
    <3>2. Retrying' = Retrying
      BY <3>1 DEF Retrying
    <3>3. Behind' => Behind
      BY <1>2, <1>5, <3>1, <3>2 DEF Behind, MaybeId, MaybeAnswer
    <3> QED BY <1>4, <1>5, <2>1, <3>3, QuietCounted
  <2> QED BY <2>2, <2>3
<1> QED BY <1>1, <1>6, <1>7

LEMMA CallStepCounted ==
  ASSUME Types, Counted, NEW k \in Callers, CallStep(k)
  PROVE  Counted'
<1>1. ASSUME k \in Configs, call[k].pc # "idle", call' = [call EXCEPT ![k] = Idle],
             history'.reasserts = history.reasserts, UNCHANGED budget
      PROVE  Counted'
  <2>1. k \in Active /\ Active' = Active \ {k}
    BY <1>1, IdleTypes, CallerNames DEF Active, Types
  <2>2. Used' = Used
    BY <1>1 DEF Used
  <2> QED BY <1>1, <2>1, <2>2, EndedCounted
<1>2. CASE FinishPush(k)
  BY <1>1, <1>2 DEF FinishPush, Keyed, Succeeded, Types
<1>3. CASE FailCall(k) /\ k \in Configs
  BY <1>1, <1>3 DEF FailCall
<1>4. CASE FailCall(k) /\ k = Reassert
  <2>1. /\ call[k].pc = "answered" /\ call[k].result = Null
        /\ call'[k] = Idle /\ poll' = NoPoll
        /\ UNCHANGED <<unit, entry, history, budget>>
        /\ \A x \in Configs : call'[x] = call[x]
    BY <1>4, CallerNames DEF FailCall, Types
  <2>2. Active' = Active /\ Used' = Used
    BY <2>1 DEF Active, Used
  <2>3. Behind' => Behind
    BY <1>4, <2>1, IdleTypes DEF Behind, Retrying, NoPoll
  <2> QED BY <2>1, <2>2, <2>3, QuietCounted
<1> QED
  BY <1>2, <1>3, <1>4, FirstAttemptCounted, SecondAttemptCounted DEF CallStep, Callers

\* A poll that ends, and the reassert it may start.
LEMMA MaybeReassertCounted ==
  ASSUME Types, Counted, poll.pc \in {"config", "configured"},
         MaybeReassert(entry'), unit' = unit,
         entry'.desired = entry.desired, entry'.desiredId = entry.desiredId,
         \/ Event
         \/ /\ UNCHANGED budget
            /\ poll.pc = "configured" /\ entry'.unitId = IdOr(poll.id, entry.unitId)
  PROVE  Counted'
<1>1. call[Reassert].pc = "idle" /\ ~Retrying
  BY DEF Types, Retrying
<1>2. Event => Used' = Used + 1
  BY EventUsed
<1>3. UNCHANGED budget => Used' = Used
  BY DEF Used
<1>4. CASE Missed(entry')
  <2>1. /\ poll' = [NoPoll EXCEPT !.pc = "reassert"]
        /\ call' = [call EXCEPT ![Reassert] =
                      [Idle EXCEPT !.pc = "first", !.cfg = (entry').desired]]
        /\ history' = [history EXCEPT !.reasserts = @ + 1]
    BY <1>4 DEF MaybeReassert
  <2>2. /\ call'[Reassert].pc = "first" /\ call'[Reassert].result = Null
        /\ \A x \in Configs : call'[x] = call[x]
    <3>1. entry.desired \in MaybeConfig
      BY DEF Types
    <3> QED BY <2>1, <3>1, StartedTypes, CallerNames DEF Types
  <2>3. Active' = Active
    BY <2>2 DEF Active
  <2>4. ~Behind'
    BY <2>1, <2>2 DEF Behind, Retrying, NoPoll
  <2>5. history'.reasserts = history.reasserts + 1
    BY <2>1 DEF Types
  <2>6. poll.pc = "configured" /\ entry'.unitId = IdOr(poll.id, entry.unitId) => Behind
    BY <1>4 DEF Missed, Behind, IdOr
  <2> QED BY <1>2, <1>3, <2>3, <2>4, <2>5, <2>6, ReassertCounted
<1>5. CASE ~Missed(entry')
  <2>1. poll' = NoPoll /\ call' = call /\ history' = history
    BY <1>5 DEF MaybeReassert
  <2>2. Active' = Active
    BY <2>1 DEF Active
  <2>3. Behind' => Behind
    BY <1>1, <2>1 DEF Behind, Retrying, NoPoll
  <2> QED BY <1>2, <1>3, <2>1, <2>2, <2>3, QuietCounted
<1> QED BY <1>4, <1>5

LEMMA PollStepCounted ==
  ASSUME Types, Counted, PollStep
  PROVE  Counted'
<1>1. ASSUME UNCHANGED <<unit, call, history, budget>>,
             entry'.desiredId = entry.desiredId, poll'.pc # "configured"
      PROVE  Counted'
  <2>1. Active' = Active /\ Used' = Used
    BY <1>1 DEF Active, Used
  <2>2. Behind' => Behind
    BY <1>1 DEF Behind, Retrying
  <2> QED BY <1>1, <2>1, <2>2, QuietCounted
<1>2. CASE UnitAnswersHealth
  BY <1>1, <1>2 DEF UnitAnswersHealth
<1>3. CASE UnitAnswersConfig
  <2>1. Active' = Active /\ Used' = Used
    BY <1>3 DEF UnitAnswersConfig, Active, Used
  <2>2. ~Retrying
    BY <1>3 DEF UnitAnswersConfig, Types, Retrying
  <2>3. unit.id # NoId
    BY NamesAssumption DEF Types
  <2>4. Behind' => Behind
    BY <1>3, <2>2, <2>3 DEF UnitAnswersConfig, Behind, Retrying
  <2> QED BY <1>3, <2>1, <2>4, QuietCounted DEF UnitAnswersConfig
<1>4. CASE HealthArrives
  BY <1>1, <1>4 DEF HealthArrives, NoPoll, Types
<1>5. CASE HealthFails
  BY <1>5, SameCallsCounted DEF HealthFails
<1>6. CASE ConfigArrives
  <2>1. /\ entry'.desired = entry.desired /\ entry'.desiredId = entry.desiredId
        /\ entry'.unitId = IdOr(poll.id, entry.unitId)
    BY <1>6 DEF ConfigArrives, Types
  <2> QED BY <1>6, <2>1, MaybeReassertCounted DEF ConfigArrives
<1>7. CASE ConfigFails
  <2>1. MaybeReassert(entry')
    BY <1>7 DEF ConfigFails, MaybeReassert, Missed
  <2> QED BY <1>7, <2>1, MaybeReassertCounted DEF ConfigFails
<1>8. CASE FinishReassert
  <2>1. /\ call[Reassert].pc = "answered" /\ call[Reassert].result # Null
        /\ call'[Reassert].pc = "idle" /\ poll' = NoPoll
        /\ UNCHANGED <<unit, budget>>
        /\ entry'.desiredId = IdOr(call[Reassert].result, entry.desiredId)
        /\ history'.reasserts = history.reasserts
        /\ \A x \in Configs : call'[x] = call[x]
    BY <1>8, IdleTypes, CallerNames DEF FinishReassert, Keyed, Succeeded, Types
  <2>2. Active' = Active /\ Used' = Used
    BY <2>1 DEF Active, Used
  <2>3. Behind' => Behind
    BY <2>1 DEF Behind, Retrying, NoPoll, IdOr
  <2> QED BY <2>1, <2>2, <2>3, QuietCounted
<1>9. CASE UnitAnswersBlank
  BY <1>9, SameCallsCounted DEF UnitAnswersBlank
<1> QED BY <1>2, <1>3, <1>4, <1>5, <1>6, <1>7, <1>8, <1>9 DEF PollStep

LEMMA NextCounted == Types /\ Counted /\ [Next]_vars => Counted'
<1> SUFFICES ASSUME Types, Counted, [Next]_vars PROVE Counted'
  OBVIOUS
<1>1. CASE Reboot
  BY <1>1, SameCallsCounted DEF Reboot
<1>2. ASSUME NEW c, RemotePress(c)
      PROVE  Counted'
  BY <1>2, SameCallsCounted DEF RemotePress
<1>3. CASE SendRegister
  BY <1>3, SameCallsCounted DEF SendRegister
<1>4. ASSUME NEW m, ReceiveMail(m)
      PROVE  Counted'
  BY <1>4, SameCallsCounted DEF ReceiveMail, Observed, Registered, Types
<1>5. ASSUME NEW m, LoseMail(m)
      PROVE  Counted'
  BY <1>5, SameCallsCounted DEF LoseMail
<1>6. ASSUME NEW c \in Configs, StartPush(c)
      PROVE  Counted'
  <2>1. /\ call'[Reassert] = call[Reassert]
        /\ Active' = Active \cup {c} /\ c \notin Active
    <3>1. [Idle EXCEPT !.pc = "first", !.cfg = c].pc = "first"
      BY StartedTypes DEF MaybeConfig
    <3> QED BY <1>6, <3>1, CallerNames DEF StartPush, Active, Types
  <2>2. IsFiniteSet(Active') /\ Cardinality(Active') = Cardinality(Active) + 1
    BY <2>1, FS_AddElement DEF Counted
  <2>3. Used' = Used + 1
    BY <1>6, BoundsAssumption DEF StartPush, Types, Used
  <2>4. Debt' = Debt /\ Debt \in {0, 1} /\ history' = history
    BY <1>6, <2>1 DEF StartPush, Debt, Behind, Retrying
  <2>5. /\ Cardinality(Active) \in Nat /\ Used \in Int /\ history.reasserts \in Nat
        /\ history.reasserts + Cardinality(Active) + Debt <= Used
    BY CountTypes DEF Counted
  <2> HIDE DEF Debt, Used, Active
  <2>6. history'.reasserts + Cardinality(Active') + Debt' <= Used'
    BY <2>2, <2>3, <2>4, <2>5
  <2> QED BY <2>2, <2>6 DEF Counted
<1>7. ASSUME NEW k \in Callers, CallStep(k)
      PROVE  Counted'
  BY <1>7, CallStepCounted
<1>8. CASE StartPoll
  <2>1. Active' = Active /\ Used' = Used
    BY <1>8 DEF StartPoll, Active, Used
  <2>2. Behind' => Behind
    BY <1>8 DEF StartPoll, NoPoll, Behind, Retrying
  <2> QED BY <1>8, <2>1, <2>2, QuietCounted DEF StartPoll
<1>9. CASE PollStep
  BY <1>9, PollStepCounted
<1>10. CASE UNCHANGED vars
  BY <1>10, SameCallsCounted DEF vars
<1> QED BY <1>1, <1>2, <1>3, <1>4, <1>5, <1>6, <1>7, <1>8, <1>9, <1>10 DEF Next

-----------------------------------------------------------------------------

\* The unit, its entry, the calls and the poll are always of their types, and
\* the poll waits for a reassert exactly while there is one (pollOne).
THEOREM CommandTypes == Spec => []TypeOK
BY InitTypes, NextTypes, TypesImplyTypeOK, PTL DEF Spec

\* Polls do not reassert forever: each reassert is paid for by a push or by a
\* fault, however answers, reboots and pushes interleave (maybeReassert).
THEOREM ReassertsHaveCauses == Spec => []ReassertsAreCaused
<1>1. Types /\ Counted => ReassertsAreCaused
  <2> SUFFICES ASSUME Types, Counted PROVE ReassertsAreCaused
    OBVIOUS
  <2>1. /\ Cardinality(Active) \in Nat /\ Used \in Int /\ history.reasserts \in Nat
        /\ history.reasserts + Cardinality(Active) + Debt <= Used
    BY CountTypes DEF Counted
  <2>2. Debt \in {0, 1}
    BY DEF Debt
  <2> HIDE DEF Debt, Used, Active
  <2>3. history.reasserts <= Used
    BY <2>1, <2>2
  <2> QED BY <2>3 DEF ReassertsAreCaused, Used
<1> QED BY <1>1, InitTypes, NextTypes, InitCounted, NextCounted, PTL DEF Spec

\* The desired config and its configId come apart only by the answer of a
\* reassert of a config that was replaced meanwhile, or by a push whose answer
\* names no configId (applyDeviceConfig keys them in one write, if there is one to
\* write; maybeReassert writes the configId alone).
THEOREM UnkeyingIsAccounted == Spec => OnlyTwoWaysUnkey
<1> DEFINE Step == DesiredIsKeyed /\ ~DesiredIsKeyed'
                     => \/ Ends(Reassert) /\ call[Reassert].cfg # entry.desired
                        \/ \E c \in Configs : Ends(c) /\ call[c].result = NoId
<1>1. Types /\ [Next]_vars => [Step]_vars
  <2> SUFFICES ASSUME Types, Next, DesiredIsKeyed, ~DesiredIsKeyed'
               PROVE  \/ Ends(Reassert) /\ call[Reassert].cfg # entry.desired
                      \/ \E c \in Configs : Ends(c) /\ call[c].result = NoId
    OBVIOUS
  <2>1. history'.keyed # history.keyed \/ entry'.desired # entry.desired
    BY DEF DesiredIsKeyed
  <2>2. ASSUME NEW k, FinishPush(k)
        PROVE  k \in Configs /\ Ends(k) /\ call[k].result = NoId
    <3>1. k \in Configs /\ k \in Callers /\ Succeeded(k)
          /\ call' = [call EXCEPT ![k] = Idle]
      BY <2>2, CallerNames DEF FinishPush
    <3>2. Ends(k)
      BY <3>1, IdleTypes DEF Ends, Succeeded, Types
    <3>3. call[k].result = NoId
      BY <2>2 DEF FinishPush, Keyed, DesiredIsKeyed, Types
    <3> QED BY <3>1, <3>2, <3>3
  <2>3. CASE FinishReassert
    <3>1. Ends(Reassert)
      BY <2>3, IdleTypes, CallerNames DEF FinishReassert, Succeeded, Ends, Types
    <3>2. call[Reassert].cfg # entry.desired
      BY <2>3 DEF FinishReassert, Keyed, DesiredIsKeyed, Types
    <3> QED BY <3>1, <3>2
  <2>4. CASE PollStep /\ ~FinishReassert
    BY <2>1, <2>4 DEF PollStep, UnitAnswersHealth, UnitAnswersBlank, HealthArrives,
       HealthFails, UnitAnswersConfig, ConfigArrives, ConfigFails, MaybeReassert, Types
  <2>5. ASSUME NEW k, CallStep(k)
        PROVE  FinishPush(k)
    BY <2>1, <2>5 DEF CallStep, FirstAttempt, SecondAttempt, FailCall
  <2>6. ASSUME NEW m, ReceiveMail(m)
        PROVE  FALSE
    BY <2>1, <2>6 DEF ReceiveMail, Observed, Registered, Types
  <2> QED BY <2>1, <2>2, <2>3, <2>4, <2>5, <2>6
      DEF Next, Reboot, RemotePress, SendRegister, LoseMail, StartPush, StartPoll
<1> QED BY <1>1, InitTypes, NextTypes, PTL DEF Spec, OnlyTwoWaysUnkey
=============================================================================
