---------------------------- MODULE CommandPath ----------------------------
(***************************************************************************)
(* How the bridge's intent for one unit meets the unit: applyDeviceConfig  *)
(* (control.js) and its doubled POST /config (deviceClient.js callTwice),  *)
(* the poll and its reassert (reconcile.js), and the unit's own pushes to  *)
(* POST /observed and POST /register (server.js).  Every call to the unit  *)
(* takes effect there at one moment and reaches the bridge at a later one. *)
(*                                                                         *)
(* The unit is external: it numbers each config it accepts, shows its last *)
(* number in its answers and messages and may restart its numbering with a *)
(* reboot; a 2xx of a push means that it has accepted.  An attempt that    *)
(* timed out has reached the unit or never will.                           *)
(* Whether the entry is the right one for this unit is Registry's matter;  *)
(* here the entry stays and keeps its ip.  Resend and identify are left    *)
(* out: they change no intent.                                             *)
(***************************************************************************)
EXTENDS Integers, FiniteSets

CONSTANTS
  Configs,   \* validated configs; a request of the UI's or the scheduler's is
             \* named by the config it pushes
  Reassert,  \* the poll's own push
  Null,      \* no value
  NoId,      \* an answer without a configId
  MaxPushes, \* bound: pushes started
  MaxEvents  \* bound: remote presses, reboots of the unit, and calls and
             \* messages that fail, get lost or lack their contents,
             \* taken together

ASSUME NamesAssumption ==
  /\ Reassert # Null /\ {Reassert, Null} \cap Configs = {}
  /\ NoId # Null /\ NoId \notin Nat
ASSUME BoundsAssumption == {MaxPushes, MaxEvents} \subseteq Nat

VARIABLES
  unit,   \* the unit: the config it runs, its configId, whether it applied one
  entry,  \* the registry's entry for it
  history,\* keyed, the config whose push was answered with desiredConfigId;
          \* reasserts, how many the polls have started
  call,   \* each caller's POST /config
  poll,   \* where the poll is, and the answer on its way
  mail,   \* the unit's own pushes on their way to the bridge
  budget  \* what the bounds have left

vars == <<unit, entry, history, call, poll, mail, budget>>

Callers == Configs \cup {Reassert}

Idle == [pc |-> "idle", cfg |-> Null, result |-> Null]

NoPoll == [pc |-> "idle", id |-> Null, applied |-> Null, cfg |-> Null]

-----------------------------------------------------------------------------
(* The unit. *)

Accept(c) == unit' = [cfg |-> c, id |-> unit.id + 1, applied |-> TRUE]

Event ==
  /\ budget.events > 0
  /\ budget' = [budget EXCEPT !.events = @ - 1]

Answers == {unit.id + 1, NoId, Null}

\* A call's attempt: the unit accepts and answers, accepts with the answer
\* lost, or never sees it. Null stands for the error callTwice catches; a 2xx
\* whose body is empty or no JSON is a success without a configId.
Attempt(c, answer) ==
  \/ Accept(c) /\ answer \in Answers
  \/ UNCHANGED unit /\ answer = Null

\* An absent configId leaves the old one.
IdOr(id, old) == IF id = NoId THEN old ELSE id

\* Firmware is inert on boot; it may or may not keep its numbering.
Reboot ==
  /\ Event
  /\ \E id \in {0, unit.id} : unit' = [cfg |-> Null, id |-> id, applied |-> FALSE]
  /\ UNCHANGED <<entry, history, call, poll, mail>>

\* A remote press, captured by the unit and pushed to /observed.
RemotePress(c) ==
  /\ Event
  /\ Accept(c)
  /\ mail' = mail \cup {[to |-> "observed", id |-> unit.id + 1, cfg |-> c]}
  /\ UNCHANGED <<entry, history, call, poll>>

\* Units register every few minutes, with their current configId.
SendRegister ==
  /\ mail = {}
  /\ mail' = {[to |-> "register", id |-> unit.id, cfg |-> Null]}
  /\ UNCHANGED <<unit, entry, history, call, poll, budget>>

-----------------------------------------------------------------------------
(* The bridge. *)

\* The unit runs a config the bridge did not push, or has just booted.
Init ==
  /\ unit \in [cfg : {Null}, id : {0}, applied : BOOLEAN]
  /\ entry = [desired |-> Null, desiredId |-> Null, unitId |-> Null,
              applied |-> Null, reported |-> Null]
  /\ history = [keyed |-> Null, reasserts |-> 0]
  /\ call = [k \in Callers |-> Idle]
  /\ poll = NoPoll
  /\ mail = {}
  /\ budget = [pushes |-> MaxPushes, events |-> MaxEvents]

Observed(m) ==
  /\ m.to = "observed"
  /\ entry' = [entry EXCEPT !.reported = m.cfg, !.unitId = m.id, !.applied = TRUE]

Registered(m) ==
  /\ m.to = "register"
  /\ entry' = [entry EXCEPT !.unitId = m.id]

ReceiveMail(m) ==
  /\ m \in mail
  /\ Observed(m) \/ Registered(m)
  /\ mail' = mail \ {m}
  /\ UNCHANGED <<unit, history, call, poll, budget>>

LoseMail(m) ==
  /\ m \in mail
  /\ Event
  /\ mail' = mail \ {m}
  /\ UNCHANGED <<unit, entry, history, call, poll>>

\* Variant: the intent is recorded before the unit has answered.
StartPushRecords(c) ==
  /\ call[c].pc = "idle" /\ budget.pushes > 0
  /\ call' = [call EXCEPT ![c] = [Idle EXCEPT !.pc = "first", !.cfg = c]]
  /\ entry' = [entry EXCEPT !.desired = c]
  /\ budget' = [budget EXCEPT !.pushes = @ - 1]
  /\ UNCHANGED <<unit, history, poll, mail>>

StartPush(c) ==
  /\ call[c].pc = "idle" /\ budget.pushes > 0
  /\ call' = [call EXCEPT ![c] = [Idle EXCEPT !.pc = "first", !.cfg = c]]
  /\ budget' = [budget EXCEPT !.pushes = @ - 1]
  /\ UNCHANGED <<unit, entry, history, poll, mail>>

\* callTwice: the second attempt is made whatever the first one brought, and
\* only an answer of its own replaces the first one's, also an answer without a
\* configId. (A call that goes wrong twice counts as one event.)
FirstAttempt(k) ==
  /\ call[k].pc = "first"
  /\ \E answer \in Answers :
       /\ Attempt(call[k].cfg, answer)
       /\ IF answer \in {NoId, Null} THEN Event ELSE UNCHANGED budget
       /\ call' = [call EXCEPT ![k] = [@ EXCEPT !.pc = "second", !.result = answer]]
  /\ UNCHANGED <<entry, history, poll, mail>>

SecondAttempt(k) ==
  /\ call[k].pc = "second"
  /\ \E answer \in Answers :
       /\ Attempt(call[k].cfg, answer)
       /\ IF answer \in {NoId, Null} /\ call[k].result \notin {NoId, Null}
          THEN Event ELSE UNCHANGED budget
       /\ call' = [call EXCEPT ![k] =
                     [@ EXCEPT !.pc = "answered",
                               !.result = IF answer = Null THEN call[k].result ELSE answer]]
  /\ UNCHANGED <<entry, history, poll, mail>>

Succeeded(k) == call[k].pc = "answered" /\ call[k].result # Null

\* The config of k's push goes with the configId it was answered with, if any.
Keyed(k) ==
  history' = IF call[k].result = NoId THEN history
             ELSE [history EXCEPT !.keyed = call[k].cfg]

\* applyDeviceConfig records the config and the configId it was assigned.
FinishPush(k) ==
  /\ k \in Configs /\ Succeeded(k)
  /\ entry' = [entry EXCEPT !.desired = call[k].cfg,
                            !.desiredId = IdOr(call[k].result, @),
                            !.unitId = IdOr(call[k].result, @), !.applied = TRUE]
  /\ Keyed(k)
  /\ call' = [call EXCEPT ![k] = Idle]
  /\ UNCHANGED <<unit, poll, mail, budget>>

\* maybeReassert records the configId only.
FinishReassert ==
  /\ Succeeded(Reassert)
  /\ entry' = [entry EXCEPT !.desiredId = IdOr(call[Reassert].result, @),
                            !.unitId = IdOr(call[Reassert].result, @), !.applied = TRUE]
  /\ Keyed(Reassert)
  /\ call' = [call EXCEPT ![Reassert] = Idle]
  /\ poll' = NoPoll
  /\ UNCHANGED <<unit, mail, budget>>

\* Variant: a failed reassert does not end its poll.
FailCallOnly(k) ==
  /\ call[k].pc = "answered" /\ call[k].result = Null
  /\ call' = [call EXCEPT ![k] = Idle]
  /\ UNCHANGED <<unit, entry, history, poll, mail, budget>>

FailCall(k) ==
  /\ call[k].pc = "answered" /\ call[k].result = Null
  /\ call' = [call EXCEPT ![k] = Idle]
  /\ poll' = IF k = Reassert THEN NoPoll ELSE poll
  /\ UNCHANGED <<unit, entry, history, mail, budget>>

\* A tick starts a poll when the last one is over (`ticking`).
StartPoll ==
  /\ poll.pc = "idle"
  /\ poll' = [NoPoll EXCEPT !.pc = "health"]
  /\ UNCHANGED <<unit, entry, history, call, mail, budget>>

\* The unit answers a poll's request with what it has now.
UnitAnswersHealth ==
  /\ poll.pc = "health"
  /\ poll' = [pc |-> "healthy", id |-> unit.id, applied |-> unit.applied, cfg |-> Null]
  /\ UNCHANGED <<unit, entry, history, call, mail, budget>>

UnitAnswersConfig ==
  /\ poll.pc = "config"
  /\ poll' = [pc |-> "configured", id |-> unit.id, applied |-> unit.applied,
              cfg |-> unit.cfg]
  /\ UNCHANGED <<unit, entry, history, call, mail, budget>>

\* A 2xx whose body is empty or no JSON: the poll learns nothing but the contact.
UnitAnswersBlank ==
  /\ poll.pc \in {"health", "config"}
  /\ Event
  /\ poll' = [NoPoll EXCEPT !.pc = IF poll.pc = "health" THEN "healthy" ELSE "configured",
                            !.id = NoId]
  /\ UNCHANGED <<unit, entry, history, call, mail>>

\* What /health does not tell is unknown from then on.
HealthArrives ==
  /\ poll.pc = "healthy"
  /\ entry' = [entry EXCEPT !.unitId = IdOr(poll.id, Null), !.applied = poll.applied]
  /\ poll' = [NoPoll EXCEPT !.pc = "config"]
  /\ UNCHANGED <<unit, history, call, mail, budget>>

\* Variant: a unit at the desired configId is pushed to as well.
MissedOrCurrent(e) ==
  /\ e.desired # Null /\ e.desiredId # Null
  /\ e.unitId # Null /\ e.unitId <= e.desiredId

\* A running unit behind the desired configId gets the desired config again.
Missed(e) ==
  /\ e.desired # Null /\ e.desiredId # Null
  /\ e.unitId # Null /\ e.unitId < e.desiredId

MaybeReassert(e) ==
  /\ poll' = IF Missed(e) THEN [NoPoll EXCEPT !.pc = "reassert"] ELSE NoPoll
  /\ call' = IF Missed(e)
             THEN [call EXCEPT ![Reassert] = [Idle EXCEPT !.pc = "first", !.cfg = e.desired]]
             ELSE call
  /\ history' = IF Missed(e) THEN [history EXCEPT !.reasserts = @ + 1] ELSE history

\* What GET /config does not tell stays as it is, but for the config itself.
ConfigArrives ==
  /\ poll.pc = "configured"
  /\ entry' = [entry EXCEPT !.unitId = IdOr(poll.id, @),
                            !.applied = IF poll.id = NoId THEN @ ELSE poll.applied,
                            !.reported = poll.cfg]
  /\ MaybeReassert(entry')
  /\ UNCHANGED <<unit, mail, budget>>

\* Variant: `ticking` stays set when a poll fails.
HealthFailsTicking ==
  /\ poll.pc = "health"
  /\ Event
  /\ poll' = [NoPoll EXCEPT !.pc = "failed"]
  /\ UNCHANGED <<unit, entry, history, call, mail>>

HealthFails ==
  /\ poll.pc = "health"
  /\ Event
  /\ poll' = NoPoll
  /\ UNCHANGED <<unit, entry, history, call, mail>>

ConfigFails ==
  /\ poll.pc = "config"
  /\ Event
  /\ MaybeReassert(entry)
  /\ UNCHANGED <<unit, entry, mail>>

CallStep(k) ==
  \/ FirstAttempt(k) \/ SecondAttempt(k)
  \/ FinishPush(k)
  \/ FailCall(k)

PollStep ==
  \/ UnitAnswersHealth \/ HealthArrives \/ HealthFails
  \/ UnitAnswersBlank
  \/ UnitAnswersConfig \/ ConfigArrives \/ ConfigFails
  \/ FinishReassert

Next ==
  \/ Reboot
  \/ \E c \in Configs : RemotePress(c)
  \/ SendRegister
  \/ \E m \in mail : ReceiveMail(m) \/ LoseMail(m)
  \/ \E c \in Configs : StartPush(c)
  \/ \E k \in Callers : CallStep(k)
  \/ StartPoll
  \/ PollStep

\* Every call to a unit ends (its timeout aborts it), every message arrives or
\* is lost, and the interval timer starts a poll after the last one.
Fairness ==
  /\ \A k \in Callers : WF_vars(CallStep(k))
  /\ WF_vars(\E m \in mail : ReceiveMail(m))
  /\ WF_vars(StartPoll)
  /\ WF_vars(PollStep)

Spec == Init /\ [][Next]_vars /\ Fairness

-----------------------------------------------------------------------------
(* Properties. *)

TypeOK ==
  /\ unit \in [cfg : Configs \cup {Null}, id : Nat, applied : BOOLEAN]
  /\ entry.desired \in Configs \cup {Null}
  /\ entry.reported \in Configs \cup {Null}
  /\ entry.applied \in BOOLEAN \cup {Null}
  /\ {entry.desiredId, entry.unitId} \subseteq Nat \cup {Null}
  /\ history \in [keyed : Configs \cup {Null}, reasserts : Nat]
  /\ \A k \in Callers :
       /\ call[k].pc \in {"idle", "first", "second", "answered"}
       /\ call[k].cfg \in Configs \cup {Null}
       /\ call[k].result \in Nat \cup {NoId, Null}
  /\ poll.pc \in {"idle", "health", "healthy", "config", "configured", "reassert"}
  /\ (poll.pc = "reassert") = (call[Reassert].pc # "idle")

\* control.js: the desired config is kept "keyed to the configId the unit
\* assigned", so that inSync compares the right push with the unit.
DesiredIsKeyed == history.keyed = entry.desired

Ends(k) == call[k].pc = "answered" /\ call'[k].pc = "idle"

\* Two things unkey the desired config, no others: the answer of a reassert of a
\* config that a push replaced while the reassert was in flight, and a push whose
\* last answer names no configId. Concurrent pushes, lost answers, failed attempts
\* and reasserts answered without a configId never do.
OnlyTwoWaysUnkey ==
  [][ DesiredIsKeyed /\ ~DesiredIsKeyed'
        => \/ Ends(Reassert) /\ call[Reassert].cfg # entry.desired
           \/ \E c \in Configs : Ends(c) /\ call[c].result = NoId ]_vars

\* README.md "Reconciliation": the bridge does not re-assert on reboot, so no
\* poll starts a reassert that knows its unit, inert since a reboot, to report
\* applied:false (maybeReassert compares configIds only).
NoReassertOnReboot ==
  [][ call[Reassert].pc = "idle" /\ call'[Reassert].pc # "idle"
        => unit.applied \/ entry'.applied # FALSE ]_vars

\* Once pushes, presses, reboots and failures are over the entry comes to show
\* what the unit runs and stays so: no late answer or message leaves a stale
\* view behind for good (pollOne, /observed as best effort).
ViewConverges ==
  <>[](/\ entry.unitId = unit.id
       /\ entry.applied = unit.applied
       /\ entry.reported = unit.cfg)

\* Every reassert has a cause of its own, a push or a fault that put the bridge's
\* view of the unit behind: one stale answer is not followed by a reassert at
\* every poll, and a reassert does not bring about the next (maybeReassert).
ReassertsAreCaused ==
  history.reasserts <= (MaxPushes - budget.pushes) + (MaxEvents - budget.events)
=============================================================================
