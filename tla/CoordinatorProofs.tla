-------------------------- MODULE CoordinatorProofs --------------------------
(***************************************************************************)
(* Proofs about Coordinator, for any set of ports, any outcomes of polls   *)
(* and installs and any bounds.                                            *)
(***************************************************************************)
EXTENDS Coordinator, TLAPS

USE CoordinatorAssumption

\* The parts of TypeOK, named so that a step cites the ones it needs
SwitchType ==
    /\ link \in [Ports -> LinkStates]
    /\ admin \in [Ports -> BOOLEAN]
    /\ traps \subseteq [port: Ports, state: LinkStates]
    /\ changes \in 0 .. MaxChanges
ShownType ==
    /\ shownLink \in [Ports -> LinkStates \union {Unknown}]
    /\ shownAdmin \in [Ports -> BOOLEAN]
ScheduleType ==
    /\ refresh \in Refreshes
    /\ timer \in BOOLEAN
    /\ cool \in BOOLEAN
    /\ atEnd \in BOOLEAN
    /\ interval \in BOOLEAN
    /\ install \in {"idle", "running"}
    /\ lapse \in {"none", "auth", "install"}
RestType ==
    /\ call \in Calls
    /\ failures \in 0 .. MaxFailures

\* TypeOK is the conjunction of its named parts.
LEMMA TypeParts ==
    TypeOK <=> SwitchType /\ ShownType /\ ScheduleType /\ RestType
BY DEF TypeOK, SwitchType, ShownType, ScheduleType, RestType

\* The record of a refresh that is not running is a refresh record.
LEMMA IdleRefreshType ==
    /\ IdleRefresh \in Refreshes
    /\ IdleRefresh.pc = "idle"
BY DEF IdleRefresh, Refreshes, NoAdmin, NoLink

\* Starting a refresh makes it run and leaves nothing else scheduled.
LEMMA BeginEffect ==
    ASSUME NEW by \in {"timer", "request"}, Begin(by)
    PROVE  /\ refresh' \in Refreshes
           /\ refresh'.pc = "poe"
           /\ timer' = FALSE /\ cool' = FALSE /\ atEnd' = FALSE
           /\ lapse' = "none"
<1>1. refresh' = [IdleRefresh EXCEPT !.pc = "poe", !.by = by]
  BY DEF Begin
<1>2. refresh' \in Refreshes /\ refresh'.pc = "poe"
  BY <1>1, IdleRefreshType DEF Refreshes
<1>3. QED
  BY <1>2 DEF Begin

\* What a request may do to the schedule: queue, drop, or start a refresh.
LEMMA RequestEffect ==
    ASSUME Request
    PROVE  \/ cool /\ atEnd' /\ UNCHANGED <<refresh, timer, cool, lapse>>
           \/ ~cool /\ Refreshing /\ UNCHANGED scheduling
           \/ /\ refresh' \in Refreshes
              /\ refresh'.pc = "poe"
              /\ timer' = FALSE /\ cool' = FALSE /\ atEnd' = FALSE
              /\ lapse' = "none"
BY BeginEffect DEF Request

\* A request keeps the schedule well typed.
LEMMA RequestType ==
    ASSUME ScheduleType, Request, interval' \in BOOLEAN,
           install' \in {"idle", "running"}
    PROVE  ScheduleType'
BY RequestEffect DEF ScheduleType, Request, Begin, scheduling

\* So does the end of a refresh.
LEMMA EndType ==
    ASSUME ScheduleType, NEW rearm \in BOOLEAN, End(rearm),
           UNCHANGED <<interval, install>>
    PROVE  ScheduleType'
BY IdleRefreshType DEF ScheduleType, End

\* A running refresh that goes on reading is still running, and well typed.
LEMMA RefreshGoesOn ==
    ASSUME ScheduleType, SwitchType, PoeFresh \/ PoeStalled \/ LinkRead
                                       \/ LinkUnreadable
    PROVE  refresh' \in Refreshes /\ refresh'.pc # "idle" /\ Refreshing
<1> USE DEF ScheduleType, Refreshes, Refreshing
<1>1. CASE PoeFresh
  BY <1>1 DEF PoeFresh, SwitchType
<1>2. CASE PoeStalled
  BY <1>2 DEF PoeStalled
<1>3. CASE LinkRead
  BY <1>3 DEF LinkRead, SwitchType
<1>4. CASE LinkUnreadable
  BY <1>4 DEF LinkUnreadable, NoLink
<1>5. QED
  BY <1>1, <1>2, <1>3, <1>4

-----------------------------------------------------------------------------
\* A step that takes one change stays within the bound.
LEMMA ChangeType ==
    ASSUME SwitchType, Change
    PROVE  changes' \in 0 .. MaxChanges
BY DEF SwitchType, Change

\* A step that takes one failure stays within the bound.
LEMMA FailsType ==
    ASSUME RestType, Fails
    PROVE  failures' \in 0 .. MaxFailures
BY DEF RestType, Fails

\* Every step keeps the state well typed.
LEMMA TypeStep == TypeOK /\ [Next]_vars => TypeOK'
<1> SUFFICES ASSUME TypeOK, [Next]_vars
             PROVE  SwitchType' /\ ShownType' /\ ScheduleType' /\ RestType'
  BY TypeParts, PTL DEF TypeOK, SwitchType, ShownType, ScheduleType, RestType
<1>0. SwitchType /\ ShownType /\ ScheduleType /\ RestType
  BY TypeParts
<1> USE DEF switch, shown, scheduling
<1>1. ASSUME NEW p \in Ports, LinkChanges(p)
      PROVE  SwitchType' /\ ShownType' /\ ScheduleType' /\ RestType'
  <2>1. PICK s \in LinkStates :
           /\ link' = [link EXCEPT ![p] = s]
           /\ traps' = traps \union {[port |-> p, state |-> s]}
    BY <1>1 DEF LinkChanges
  <2>2. SwitchType'
    BY <1>0, <1>1, <2>1, ChangeType DEF LinkChanges, SwitchType
  <2>3. ShownType' /\ ScheduleType' /\ RestType'
    BY <1>0, <1>1 DEF LinkChanges, ShownType, ScheduleType, RestType
  <2>4. QED
    BY <2>2, <2>3
<1>2. ASSUME NEW p \in Ports, AdminChanges(p)
      PROVE  SwitchType' /\ ShownType' /\ ScheduleType' /\ RestType'
  <2>1. admin' \in [Ports -> BOOLEAN]
    BY <1>0, <1>2 DEF AdminChanges, SwitchType
  <2>2. SwitchType'
    BY <1>0, <1>2, <2>1, ChangeType DEF AdminChanges, SwitchType
  <2>3. ShownType' /\ ScheduleType' /\ RestType'
    BY <1>0, <1>2 DEF AdminChanges, ShownType, ScheduleType, RestType
  <2>4. QED
    BY <2>2, <2>3
<1>3. CASE TimerFires
  <2>1. ScheduleType'
    BY <1>0, <1>3, BeginEffect DEF TimerFires, ScheduleType
  <2>2. SwitchType' /\ ShownType' /\ RestType'
    BY <1>0, <1>3 DEF TimerFires, SwitchType, ShownType, RestType
  <2>3. QED
    BY <2>1, <2>2
<1>4. CASE CooldownEnds
  <2>1. ScheduleType'
    BY <1>0, <1>4, BeginEffect DEF CooldownEnds, ScheduleType
  <2>2. SwitchType' /\ ShownType' /\ RestType'
    BY <1>0, <1>4 DEF CooldownEnds, SwitchType, ShownType, RestType
  <2>3. QED
    BY <2>1, <2>2
<1>5. CASE PollStep
  <2>1. CASE PoeFresh \/ PoeStalled \/ LinkRead \/ LinkUnreadable
    <3>1. ScheduleType'
      BY <1>0, <2>1, RefreshGoesOn
      DEF PoeFresh, PoeStalled, LinkRead, LinkUnreadable, ScheduleType
    <3>2. UNCHANGED <<switch, shown, call>>
      BY <2>1 DEF PoeFresh, PoeStalled, LinkRead, LinkUnreadable
    <3>3. failures' \in 0 .. MaxFailures
      BY <1>0, <2>1, FailsType
      DEF PoeFresh, PoeStalled, LinkRead, LinkUnreadable, RestType
    <3>4. SwitchType' /\ ShownType' /\ RestType'
      BY <1>0, <3>2, <3>3 DEF SwitchType, ShownType, RestType
    <3>5. QED
      BY <3>1, <3>4
  <2>2. CASE PoeDown \/ PoeAuthFails
    <3>1. ScheduleType'
      BY <1>0, <2>2, EndType DEF PoeDown, PoeAuthFails
    <3>2. SwitchType' /\ ShownType'
      BY <1>0, <2>2 DEF PoeDown, PoeAuthFails, SwitchType, ShownType
    <3>3. RestType'
      BY <1>0, <2>2, FailsType DEF PoeDown, PoeAuthFails, End, RestType
    <3>4. QED
      BY <3>1, <3>2, <3>3
  <2>3. CASE Store
    <3>1. ScheduleType'
      BY <1>0, <2>3, EndType DEF Store
    <3>2. ShownType'
      BY <1>0, <2>3 DEF Store, ShownType, ScheduleType, Refreshes
    <3>3. SwitchType' /\ RestType'
      BY <1>0, <2>3 DEF Store, End, SwitchType, RestType
    <3>4. QED
      BY <3>1, <3>2, <3>3
  <2>4. QED
    BY <1>5, <2>1, <2>2, <2>3 DEF PollStep
<1>6. ASSUME NEW t \in traps, TrapArrives(t)
      PROVE  SwitchType' /\ ShownType' /\ ScheduleType' /\ RestType'
  <2>0. t.port \in Ports /\ t.state \in LinkStates
    BY <1>0 DEF SwitchType
  <2>1. SwitchType'
    BY <1>0, <1>6 DEF TrapArrives, SwitchType
  <2>2. ShownType'
    BY <1>0, <1>6, <2>0 DEF TrapArrives, ShownType
  <2>3. ScheduleType'
    BY <1>0, <1>6, RequestType DEF TrapArrives, ScheduleType
  <2>4. RestType'
    BY <1>0, <1>6, <2>0 DEF TrapArrives, RestType
  <2>5. QED
    BY <2>1, <2>2, <2>3, <2>4
<1>7. CASE RefreshWanted
  <2>1. ScheduleType'
    BY <1>0, <1>7, RequestType DEF RefreshWanted, ScheduleType
  <2>2. SwitchType' /\ ShownType' /\ RestType'
    BY <1>0, <1>7 DEF RefreshWanted, SwitchType, ShownType, RestType
  <2>3. QED
    BY <2>1, <2>2
<1>8. ASSUME NEW p \in Ports, NEW on \in BOOLEAN, CallLands(p, on)
      PROVE  SwitchType' /\ ShownType' /\ ScheduleType' /\ RestType'
  <2>1. admin' \in [Ports -> BOOLEAN]
    BY <1>0, <1>8 DEF CallLands, SwitchType
  <2>2. SwitchType'
    BY <1>0, <1>8, <2>1, ChangeType DEF CallLands, SwitchType
  <2>3. RestType'
    BY <1>0, <1>8 DEF CallLands, RestType, Calls
  <2>4. ShownType' /\ ScheduleType'
    BY <1>0, <1>8 DEF CallLands, ShownType, ScheduleType
  <2>5. QED
    BY <2>2, <2>3, <2>4
<1>9. CASE CallReturns
  <2>1. call.port \in Ports /\ call.on \in BOOLEAN
    BY <1>0, <1>9 DEF CallReturns, RestType, Calls, NoCall
  <2>2. ShownType'
    BY <1>0, <1>9, <2>1 DEF CallReturns, ShownType
  <2>3. ScheduleType'
    BY <1>0, <1>9, RequestType DEF CallReturns, ScheduleType
  <2>4. SwitchType' /\ RestType'
    BY <1>0, <1>9 DEF CallReturns, SwitchType, RestType, Calls
  <2>5. QED
    BY <2>2, <2>3, <2>4
<1>10. CASE InstallStart
  <2>1. ScheduleType'
    BY <1>0, <1>10 DEF InstallStart, ScheduleType
  <2>2. SwitchType' /\ ShownType' /\ RestType'
    BY <1>0, <1>10 DEF InstallStart, SwitchType, ShownType, RestType
  <2>3. QED
    BY <2>1, <2>2
<1>11. CASE InstallOk
  <2>1. ScheduleType'
    BY <1>0, <1>11, RequestType DEF InstallOk
  <2>2. SwitchType' /\ ShownType' /\ RestType'
    BY <1>0, <1>11 DEF InstallOk, SwitchType, ShownType, RestType
  <2>3. QED
    BY <2>1, <2>2
<1>12. CASE InstallFails
  <2>1. ScheduleType'
    BY <1>0, <1>12 DEF InstallFails, ScheduleType
  <2>2. SwitchType' /\ ShownType' /\ RestType'
    BY <1>0, <1>12 DEF InstallFails, SwitchType, ShownType, RestType
  <2>3. QED
    BY <2>1, <2>2
<1>13. CASE UNCHANGED vars
  BY <1>0, <1>13 DEF vars, SwitchType, ShownType, ScheduleType, RestType
<1>14. QED
  BY <1>1, <1>2, <1>3, <1>4, <1>5, <1>6, <1>7, <1>8, <1>9, <1>10, <1>11,
     <1>12, <1>13 DEF Next

\* The initial states are well typed.
LEMMA TypeInit == Init => TypeOK
<1> SUFFICES ASSUME Init PROVE TypeOK
  OBVIOUS
<1>1. SwitchType /\ ShownType
  BY DEF Init, SwitchType, ShownType
<1>2. ScheduleType
  BY IdleRefreshType DEF Init, ScheduleType
<1>3. RestType
  BY DEF Init, RestType, Calls
<1>4. QED
  BY <1>1, <1>2, <1>3, TypeParts

(***************************************************************************)
(* Every reachable state is well typed: the poll, the debouncer and the    *)
(* shown data of Coordinator stay within the sets TypeOK names.            *)
(***************************************************************************)
THEOREM TypeCorrect == Spec => []TypeOK
<1>1. QED
  BY TypeInit, TypeStep, PTL DEF Spec

-----------------------------------------------------------------------------
(***************************************************************************)
(* The inductive invariant.  PollingStaysArmed alone is not inductive: the *)
(* end of a refresh arms the next one only when polling is not suspended,  *)
(* which NoScheduledPollInInstall ties to an install that runs, and a      *)
(* queued request is only worth something while the debouncer cools down,  *)
(* which is OneRefreshAtATime.                                             *)
(***************************************************************************)
Chain == PollingStaysArmed /\ NoScheduledPollInInstall /\ OneRefreshAtATime

\* A request keeps the chain, also the one an install ends with.
LEMMA RequestKeepsChain ==
    ASSUME ScheduleType, Chain, Request,
           \/ UNCHANGED <<interval, install>>
           \/ install = "running" /\ install' = "idle" /\ interval' = TRUE
    PROVE  Chain'
<1> USE DEF Chain, PollingStaysArmed, NoScheduledPollInInstall,
            OneRefreshAtATime, Refreshing
<1>1. CASE cool /\ atEnd' /\ UNCHANGED <<refresh, timer, cool, lapse>>
  BY <1>1 DEF ScheduleType
<1>2. CASE ~cool /\ Refreshing /\ UNCHANGED scheduling
  BY <1>2 DEF scheduling
<1>3. CASE /\ refresh'.pc = "poe"
           /\ timer' = FALSE /\ cool' = FALSE /\ atEnd' = FALSE
  BY <1>3
<1>4. QED
  BY <1>1, <1>2, <1>3, RequestEffect

\* The end of a refresh keeps it: rearmed, suspended by an install, or lapsed.
LEMMA EndKeepsChain ==
    ASSUME ScheduleType, Chain, Refreshing, NEW rearm \in BOOLEAN, End(rearm),
           UNCHANGED <<interval, install>>
    PROVE  Chain'
BY IdleRefreshType
DEF End, Chain, PollingStaysArmed, NoScheduledPollInInstall, OneRefreshAtATime,
    Refreshing, ScheduleType

\* Every step keeps the chain.
LEMMA ChainStep == TypeOK /\ Chain /\ [Next]_vars => Chain'
<1> SUFFICES ASSUME TypeOK, Chain, [Next]_vars
             PROVE  Chain'
  OBVIOUS
<1>0. SwitchType /\ ScheduleType
  BY TypeParts
<1>1. ASSUME UNCHANGED <<scheduling, interval, install>>
      PROVE  Chain'
  BY <1>1 DEF scheduling, Chain, PollingStaysArmed, NoScheduledPollInInstall,
              OneRefreshAtATime, Refreshing
<1>2. ASSUME NEW by \in {"timer", "request"}, Begin(by),
             UNCHANGED <<interval, install>>
      PROVE  Chain'
  BY <1>2, BeginEffect
  DEF Chain, PollingStaysArmed, NoScheduledPollInInstall, OneRefreshAtATime,
      Refreshing
<1>3. CASE CooldownEnds
  <2>1. CASE atEnd /\ Begin("request")
    BY <1>2, <1>3, <2>1 DEF CooldownEnds
  <2>2. CASE /\ ~atEnd /\ cool' = FALSE
             /\ UNCHANGED <<refresh, timer, atEnd, lapse>>
    BY <1>3, <2>2
    DEF CooldownEnds, Chain, PollingStaysArmed, NoScheduledPollInInstall,
        OneRefreshAtATime, Refreshing
  <2>3. QED
    BY <1>3, <2>1, <2>2 DEF CooldownEnds
<1>4. CASE PollStep
  <2>1. CASE PoeFresh \/ PoeStalled \/ LinkRead \/ LinkUnreadable
    <3>1. Refreshing /\ Refreshing'
      BY <1>0, <2>1, RefreshGoesOn DEF Refreshing
    <3>2. UNCHANGED <<timer, cool, atEnd, lapse, interval, install>>
      BY <2>1 DEF PoeFresh, PoeStalled, LinkRead, LinkUnreadable
    <3>3. QED
      BY <3>1, <3>2
      DEF Chain, PollingStaysArmed, NoScheduledPollInInstall, OneRefreshAtATime
  <2>2. CASE PoeDown
    BY <1>0, <2>2, EndKeepsChain DEF PoeDown, Refreshing
  <2>3. CASE PoeAuthFails
    BY <1>0, <2>3, EndKeepsChain DEF PoeAuthFails, Refreshing
  <2>4. CASE Store
    BY <1>0, <2>4, EndKeepsChain DEF Store, Refreshing
  <2>5. QED
    BY <1>4, <2>1, <2>2, <2>3, <2>4 DEF PollStep
<1>5. ASSUME NEW t \in traps, TrapArrives(t)
      PROVE  Chain'
  BY <1>0, <1>1, <1>5, RequestKeepsChain DEF TrapArrives
<1>6. CASE RefreshWanted \/ CallReturns \/ InstallOk
  BY <1>0, <1>6, RequestKeepsChain DEF RefreshWanted, CallReturns, InstallOk
<1>7. CASE InstallStart
  BY <1>7
  DEF InstallStart, Chain, PollingStaysArmed, NoScheduledPollInInstall,
      OneRefreshAtATime, Refreshing
<1>8. CASE InstallFails
  BY <1>8
  DEF InstallFails, Chain, PollingStaysArmed, NoScheduledPollInInstall,
      OneRefreshAtATime, Refreshing
<1>9. ASSUME NEW p \in Ports, LinkChanges(p) \/ AdminChanges(p)
      PROVE  Chain'
  BY <1>1, <1>9 DEF LinkChanges, AdminChanges
<1>10. ASSUME NEW p \in Ports, NEW on \in BOOLEAN, CallLands(p, on)
       PROVE  Chain'
  BY <1>1, <1>10 DEF CallLands
<1>11. CASE TimerFires
  BY <1>2, <1>11 DEF TimerFires
<1>12. CASE UNCHANGED vars
  BY <1>1, <1>12 DEF vars
<1>13. QED
  BY <1>3, <1>4, <1>5, <1>6, <1>7, <1>8, <1>9, <1>10, <1>11, <1>12 DEF Next

\* The chain holds in every reachable state.
LEMMA ChainHolds == Spec => []Chain
<1>1. Init => Chain
  BY IdleRefreshType
  DEF Init, Chain, PollingStaysArmed, NoScheduledPollInInstall,
      OneRefreshAtATime, Refreshing
<1>2. QED
  BY <1>1, ChainStep, TypeCorrect, PTL DEF Spec

(***************************************************************************)
(* Polling never stops by itself: some refresh is running, scheduled or    *)
(* owed, an install has suspended polling, or the chain was ended by a     *)
(* rejected password or a failed install (DataUpdateCoordinator as         *)
(* async_install and apply_link_trap use it).                              *)
(***************************************************************************)
THEOREM PollingArmed == Spec => []PollingStaysArmed
<1>1. Chain => PollingStaysArmed
  BY DEF Chain
<1>2. QED
  BY <1>1, ChainHolds, PTL

(***************************************************************************)
(* No poll is scheduled while async_install has polling suspended, not by  *)
(* a poll that was in flight when the install began either.                *)
(***************************************************************************)
THEOREM InstallIsUnscheduled == Spec => []NoScheduledPollInInstall
<1>1. Chain => NoScheduledPollInInstall
  BY DEF Chain
<1>2. QED
  BY <1>1, ChainHolds, PTL

(***************************************************************************)
(* A refresh in progress leaves no timer and no cooldown behind that would *)
(* start a second one beside it.                                           *)
(***************************************************************************)
THEOREM RefreshesAreAlone == Spec => []OneRefreshAtATime
<1>1. Chain => OneRefreshAtATime
  BY DEF Chain
<1>2. QED
  BY <1>1, ChainHolds, PTL
=============================================================================
