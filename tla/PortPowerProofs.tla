--------------------------- MODULE PortPowerProofs ---------------------------
(***************************************************************************)
(* Proofs about PortPower, for any set of ports, with and without a native *)
(* reset, an SNMP fallback and late requests.                              *)
(***************************************************************************)
EXTENDS PortPower, TLAPS

USE PortPowerAssumption

\* The parts of TypeOK, named so that a step cites the ones it needs
ToggleType ==
    /\ toggle \in [pc: TogglePcs, port: Ports \union {NoPort}, on: BOOLEAN,
                   landed: BOOLEAN]
    /\ toggle.pc # "idle" => toggle.port \in Ports
CycleType ==
    /\ cycle \in [pc: CyclePcs, path: Paths, port: Ports \union {NoPort},
                  attempt: 0 .. RestoreAttempts - 1, landed: BOOLEAN]
    /\ cycle.pc # "idle" => cycle.port \in Ports
PowerType ==
    /\ admin \in [Ports -> BOOLEAN]
    /\ writer \in [Ports -> {"user", "cycle"}]
    /\ faults \in [Ports -> Faults]
LateType == late \subseteq Writes

\* TypeOK is the conjunction of its named parts.
LEMMA TypeParts == TypeOK <=> ToggleType /\ CycleType /\ PowerType /\ LateType
BY DEF TypeOK, ToggleType, CycleType, PowerType, LateType

\* The writes of the two tasks are writes to ports of the switch.
LEMMA WriteTypes ==
    /\ ToggleType /\ toggle.pc # "idle" => ToggleWrite \in Writes
    /\ CycleType /\ cycle.pc # "idle" => CycleWrite \in Writes
BY DEF ToggleType, CycleType, ToggleWrite, CycleWrite, Writes

\* Executing a write keeps the power state well typed.
LEMMA ExecuteType ==
    ASSUME PowerType, NEW w \in Writes, NEW f \in Faults, Execute(w, f)
    PROVE  PowerType'
BY DEF PowerType, Execute, Writes

\* The fault records a write starts with are fault records.
LEMMA NoFaultsType == NoFaults \in Faults /\ LostOff \in Faults
BY DEF NoFaults, LostOff, Faults, RestoreAttempts

\* Giving up on a write leaves only writes in the switch's queue.
LEMMA GiveUpType ==
    ASSUME LateType, NEW w \in Writes, NEW l, GiveUp(l, w)
    PROVE  LateType'
BY DEF LateType, GiveUp

\* Blaming a well-typed fault keeps the power state well typed.
LEMMA BlameType ==
    ASSUME PowerType, CycleType, cycle.pc # "idle", NEW f \in Faults, Blame(f),
           UNCHANGED <<admin, writer>>
    PROVE  PowerType'
BY DEF PowerType, CycleType, Blame

\* A task that has no request out is well typed.
LEMMA IdleTypes ==
    /\ toggle' = IdleToggle => ToggleType'
    /\ cycle' = IdleCycle => CycleType'
<1>1. toggle' = IdleToggle => ToggleType'
  BY DEF ToggleType, IdleToggle, TogglePcs
<1>2. cycle' = IdleCycle => CycleType'
  BY DEF CycleType, IdleCycle, CyclePcs, Paths, RestoreAttempts
<1>3. QED
  BY <1>1, <1>2

\* A failed path ends the press or starts a well-typed SNMP cycle.
LEMMA PathFailedType ==
    ASSUME CycleType, cycle.pc # "idle", cycle' = PathFailed
    PROVE  CycleType'
<1>1. CASE cycle.path = "web" /\ Snmp
  BY <1>1 DEF CycleType, PathFailed, CyclePcs, Paths, RestoreAttempts
<1>2. CASE ~(cycle.path = "web" /\ Snmp)
  BY <1>2, IdleTypes DEF PathFailed
<1>3. QED
  BY <1>1, <1>2

\* The faults a press may blame are fault records.
LEMMA FaultTypes ==
    ASSUME NEW f \in Faults
    PROVE  /\ [f EXCEPT !.offLost = TRUE] \in Faults
           /\ [f EXCEPT !.cut = TRUE] \in Faults
           /\ OneMoreRestore(f) \in Faults
<1>1. [f EXCEPT !.offLost = TRUE] \in Faults
  BY DEF Faults
<1>2. [f EXCEPT !.cut = TRUE] \in Faults
  BY DEF Faults
<1>3. OneMoreRestore(f) \in Faults
  BY DEF Faults, OneMoreRestore, RestoreAttempts
<1>4. QED
  BY <1>1, <1>2, <1>3

\* The port a press works on has a fault record.
LEMMA CycleFaults ==
    PowerType /\ CycleType /\ cycle.pc # "idle" =>
        faults[cycle.port] \in Faults
BY DEF PowerType, CycleType

\* The model's state is well typed: every task works on a port of the switch.
THEOREM TypeCorrect == Spec => []TypeOK
<1>1. Init => TypeOK
  BY NoFaultsType DEF Init, TypeOK, IdleToggle, IdleCycle, TogglePcs, CyclePcs,
         Paths, RestoreAttempts
<1>2. TypeOK /\ [Next]_vars => TypeOK'
  <2> SUFFICES ASSUME TypeOK, [Next]_vars
               PROVE ToggleType' /\ CycleType' /\ PowerType' /\ LateType'
    BY TypeParts, PTL
  <2>0. ToggleType /\ CycleType /\ PowerType /\ LateType
    BY TypeParts
  <2>1. ASSUME NEW p \in Ports, NEW on \in BOOLEAN, ToggleStart(p, on)
        PROVE ToggleType' /\ CycleType' /\ PowerType' /\ LateType'
    BY <2>0, <2>1 DEF ToggleStart, ToggleType, CycleType, PowerType, LateType,
                      TogglePcs
  <2>2. CASE ToggleLand
    BY <2>0, <2>2, WriteTypes, ExecuteType, NoFaultsType
       DEF ToggleLand, ToggleType, CycleType, LateType
  <2>3. CASE ToggleOk
    BY <2>0, <2>3, IdleTypes DEF ToggleOk, CycleType, PowerType, LateType
  <2>4. CASE ToggleFail
    <3>1. LateType'
      BY <2>0, <2>4, WriteTypes, GiveUpType DEF ToggleFail
    <3>2. ToggleType'
      BY <2>0, <2>4, IdleTypes DEF ToggleFail, ToggleType, TogglePcs
    <3>3. QED
      BY <2>0, <2>4, <3>1, <3>2 DEF ToggleFail, CycleType, PowerType
  <2>5. ASSUME NEW p \in Ports, CycleStart(p)
        PROVE ToggleType' /\ CycleType' /\ PowerType' /\ LateType'
    BY <2>0, <2>5 DEF CycleStart, ToggleType, CycleType, PowerType, LateType,
                      CyclePcs, Paths, RestoreAttempts
  <2>6. CASE CycleLand
    <3>1. PowerType'
      BY <2>0, <2>6, WriteTypes, ExecuteType, NoFaultsType
         DEF CycleLand, InFlight
    <3>2. QED
      BY <2>0, <2>6, <3>1 DEF CycleLand, ToggleType, CycleType, LateType
  <2>7. CASE CycleOk
    <3>1. CycleType'
      BY <2>0, <2>7, IdleTypes DEF CycleOk, CycleType, CyclePcs, InFlight
    <3>2. QED
      BY <2>0, <2>7, <3>1 DEF CycleOk, ToggleType, PowerType, LateType
  <2>8. CASE CycleSlept \/ CycleCancelledAsleep
    BY <2>0, <2>8 DEF CycleSlept, CycleCancelledAsleep, ToggleType, CycleType,
                      PowerType, LateType, CyclePcs
  <2>9. CASE CycleOffFails
    <3>1. LateType'
      BY <2>0, <2>9, WriteTypes, GiveUpType DEF CycleOffFails, Abandon
    <3>2. CycleType'
      BY <2>0, <2>9, PathFailedType DEF CycleOffFails
    <3>3. PowerType'
      BY <2>0, <2>9, CycleFaults, FaultTypes, BlameType DEF CycleOffFails
    <3>4. QED
      BY <2>0, <2>9, <3>1, <3>2, <3>3 DEF CycleOffFails, ToggleType
  <2>10. CASE CycleOnFails
    <3>1. LateType'
      BY <2>0, <2>10, WriteTypes, GiveUpType DEF CycleOnFails, Abandon
    <3>2. CASE cycle.attempt = RestoreAttempts - 1
      <4>1. CycleType'
        BY <2>0, <2>10, <3>2, PathFailedType DEF CycleOnFails
      <4>2. QED
        BY <2>0, <2>10, <3>1, <4>1, CycleFaults, FaultTypes, BlameType
           DEF CycleOnFails, ToggleType
    <3>3. CASE cycle.attempt # RestoreAttempts - 1
      <4>0. cycle.attempt + 1 \in 0 .. RestoreAttempts - 1
        BY <2>0, <3>3 DEF CycleType, RestoreAttempts
      <4>1. CycleType'
        BY <2>0, <2>10, <3>3, <4>0 DEF CycleOnFails, CycleType, CyclePcs
      <4>2. QED
        BY <2>0, <2>10, <3>1, <4>1, CycleFaults, FaultTypes, BlameType
           DEF CycleOnFails, ToggleType
    <3>4. QED
      BY <3>2, <3>3
  <2>11. CASE CycleCancelled
    <3>1. LateType'
      BY <2>0, <2>11, WriteTypes, GiveUpType DEF CycleCancelled, Abandon
    <3>2. QED
      BY <2>0, <2>11, <3>1, IdleTypes, CycleFaults, FaultTypes, BlameType
         DEF CycleCancelled, DropCycle, ToggleType
  <2>12. CASE Crash
    <3>1. LateType'
      BY <2>0, <2>12, WriteTypes, GiveUpType
         DEF Crash, Abandon, GiveUp, LateType
    <3>2. QED
      BY <2>0, <2>12, <3>1, IdleTypes, CycleFaults, FaultTypes, BlameType
         DEF Crash, DropCycle
  <2>13. ASSUME NEW w \in late, LateLand(w)
         PROVE ToggleType' /\ CycleType' /\ PowerType' /\ LateType'
    <3>1. w \in Writes
      BY <2>0 DEF LateType
    <3>3. PowerType'
      BY <2>0, <2>13, <3>1, NoFaultsType, ExecuteType DEF LateLand
    <3>4. QED
      BY <2>0, <2>13, <3>3 DEF LateLand, ToggleType, CycleType, LateType
  <2>14. CASE UNCHANGED vars
    BY <2>0, <2>14 DEF vars, ToggleType, CycleType, PowerType, LateType
  <2>15. QED
    BY <2>1, <2>2, <2>3, <2>4, <2>5, <2>6, <2>7, <2>8, <2>9, <2>10, <2>11,
       <2>12, <2>13, <2>14 DEF Next, ToggleStep, CycleStep
<1>3. QED
  BY <1>1, <1>2, PTL DEF Spec

-----------------------------------------------------------------------------
(***************************************************************************)
(* The inductive invariant: a dark port is explained, and while a press    *)
(* still owes the restore the failures counted are its attempts.           *)
(***************************************************************************)
IInv == TypeOK /\ DarkOnlyWhenExplained /\ RestoresCounted

\* What a dark port needs to be explained, for one port
Explained(p) ==
    DarkByCycle(p) =>
        \/ Restoring(p)
        \/ faults[p].restores = RestoreAttempts
        \/ faults[p].offLost
        \/ faults[p].cut

\* The two conjuncts of IInv that are not typing, in the form the steps use.
LEMMA IInvParts ==
    IInv <=> TypeOK /\ (\A p \in Ports : Explained(p)) /\ RestoresCounted
BY DEF IInv, DarkOnlyWhenExplained, Explained

\* A write the switch executes leaves every other port as it was.
LEMMA ExecuteOther ==
    ASSUME PowerType, NEW w \in Writes, NEW f \in Faults, Execute(w, f),
           NEW p \in Ports
    PROVE  /\ p = w.port => /\ admin'[p] = w.on
                            /\ writer'[p] = w.by
                            /\ faults'[p] = f
           /\ p # w.port => /\ admin'[p] = admin[p]
                            /\ writer'[p] = writer[p]
                            /\ faults'[p] = faults[p]
BY DEF PowerType, Execute, Writes

\* A step that leaves the press and the ports alone preserves the invariant.
LEMMA Untouched ==
    ASSUME IInv, UNCHANGED <<admin, cycle, writer, faults>>
    PROVE  (\A p \in Ports : Explained(p))' /\ RestoresCounted'
<1>1. (\A p \in Ports : Explained(p)) /\ RestoresCounted
  BY IInvParts
<1>2. ASSUME NEW p \in Ports PROVE Explained(p)'
  BY <1>1 DEF Explained, DarkByCycle, Restoring
<1>3. RestoresCounted'
  BY <1>1 DEF RestoresCounted, DarkByCycle, Restoring
<1>4. QED
  BY <1>2, <1>3

(***************************************************************************)
(* A blamed fault is recorded for the press's own port and only there.     *)
(***************************************************************************)
LEMMA BlameOther ==
    ASSUME PowerType, CycleType, cycle.pc # "idle", NEW f \in Faults, Blame(f),
           NEW p \in Ports
    PROVE  /\ p # cycle.port => faults'[p] = faults[p]
           /\ ~DarkByCycle(p) => faults'[p] = faults[p]
           /\ ~Restoring(p) => faults'[p] = faults[p]
           /\ p = cycle.port /\ DarkByCycle(p) /\ Restoring(p) =>
                 faults'[p] = f
BY DEF PowerType, CycleType, Blame, Restoring

\* Blaming a fault keeps every explained port explained, whatever the press
\* does next, when the fault itself explains the press's port.
LEMMA BlameExplains ==
    ASSUME IInv, cycle.pc # "idle", NEW f \in Faults, Blame(f),
           UNCHANGED <<admin, writer>>,
           f.offLost \/ f.cut \/ f.restores = RestoreAttempts
    PROVE  (\A p \in Ports : Explained(p))'
<1>1. PowerType /\ CycleType /\ \A p \in Ports : Explained(p)
  BY IInvParts, TypeParts
<1>2. ASSUME NEW p \in Ports PROVE Explained(p)'
  <2>1. CASE DarkByCycle(p) /\ Restoring(p)
    <3>1. faults'[p] = f
      BY <1>1, <2>1, BlameOther DEF Restoring
    <3>2. QED
      BY <3>1 DEF Explained
  <2>2. CASE ~Restoring(p)
    <3>1. faults'[p] = faults[p]
      BY <1>1, <2>2, BlameOther
    <3>2. QED
      BY <1>1, <2>2, <3>1 DEF Explained, DarkByCycle
  <2>3. CASE ~DarkByCycle(p)
    BY <2>3 DEF Explained, DarkByCycle
  <2>4. QED
    BY <2>1, <2>2, <2>3
<1>3. QED
  BY <1>2

\* Every step preserves what explains dark ports and counts the restores.
LEMMA DarkStep ==
    ASSUME IInv, [Next]_vars
    PROVE  (\A p \in Ports : Explained(p))' /\ RestoresCounted'
<1>0. /\ ToggleType /\ CycleType /\ PowerType /\ LateType
      /\ \A p \in Ports : Explained(p)
      /\ RestoresCounted
  BY IInvParts, TypeParts
<1>1. ASSUME NEW p \in Ports, NEW on \in BOOLEAN, ToggleStart(p, on)
      PROVE (\A q \in Ports : Explained(q))' /\ RestoresCounted'
  BY <1>1, Untouched DEF ToggleStart
<1>2. CASE ToggleOk \/ ToggleFail
  BY <1>2, Untouched DEF ToggleOk, ToggleFail
<1>3. CASE ToggleLand
  <2>1. ToggleWrite \in Writes
    BY <1>0, <1>3, WriteTypes DEF ToggleLand
  <2>2. ASSUME NEW p \in Ports PROVE Explained(p)'
    BY <1>0, <1>3, <2>1, ExecuteOther, NoFaultsType
       DEF ToggleLand, ToggleWrite, Explained, DarkByCycle, Restoring
  <2>3. RestoresCounted'
    <3>1. CASE cycle.port \in Ports
      BY <1>0, <1>3, <2>1, <3>1, ExecuteOther, NoFaultsType
         DEF ToggleLand, ToggleWrite, RestoresCounted, DarkByCycle, Restoring
    <3>2. CASE cycle.port \notin Ports
      BY <1>0, <1>3, <3>2
         DEF ToggleLand, CycleType, RestoresCounted, Restoring
    <3>3. QED
      BY <3>1, <3>2
  <2>4. QED
    BY <2>2, <2>3
<1>4. ASSUME NEW p \in Ports, CycleStart(p)
      PROVE (\A q \in Ports : Explained(q))' /\ RestoresCounted'
  <2>1. ASSUME NEW q \in Ports PROVE Explained(q)'
    BY <1>0, <1>4 DEF CycleStart, Explained, DarkByCycle, Restoring
  <2>2. RestoresCounted'
    BY <1>0, <1>4 DEF CycleStart, RestoresCounted, Restoring
  <2>3. QED
    BY <2>1, <2>2
<1>5. CASE CycleLand
  <2>1. CycleWrite \in Writes /\ cycle.port \in Ports
    BY <1>0, <1>5, WriteTypes DEF CycleLand, InFlight, CycleType
  <2>2. ASSUME NEW p \in Ports PROVE Explained(p)'
    <3>1. CASE p = cycle.port
      BY <1>0, <1>5, <2>1, <3>1, ExecuteOther, NoFaultsType
         DEF CycleLand, CycleWrite, CycleType, Explained, DarkByCycle,
             Restoring
    <3>2. CASE p # cycle.port
      BY <1>0, <1>5, <2>1, <3>2, ExecuteOther, NoFaultsType
         DEF CycleLand, CycleWrite, CycleType, Explained, DarkByCycle,
             Restoring
    <3>3. QED
      BY <3>1, <3>2
  <2>3. RestoresCounted'
    <3>1. /\ cycle'.port = cycle.port
          /\ cycle'.pc = cycle.pc
          /\ cycle'.attempt = cycle.attempt
      BY <1>0, <1>5 DEF CycleLand, CycleType
    <3>2. CASE cycle.pc = "off"
      <4>1. faults'[cycle.port] = NoFaults /\ cycle.attempt = 0
        BY <1>0, <1>5, <2>1, <3>2, ExecuteOther, NoFaultsType
           DEF CycleLand, CycleWrite, RestoresCounted
      <4>2. QED
        BY <3>1, <3>2, <4>1 DEF RestoresCounted, NoFaults
    <3>3. CASE cycle.pc # "off"
      <4>1. admin'[cycle.port] = TRUE
        BY <1>0, <1>5, <2>1, <3>3, ExecuteOther, NoFaultsType
           DEF CycleLand, CycleWrite
      <4>2. QED
        BY <1>0, <3>1, <4>1 DEF RestoresCounted, DarkByCycle
    <3>4. QED
      BY <3>2, <3>3
  <2>4. QED
    BY <2>2, <2>3
<1>6. CASE CycleOk
  <2>1. CASE cycle.pc = "off"
    <3>1. /\ cycle'.pc = "sleep"
          /\ cycle'.port = cycle.port
          /\ cycle'.attempt = cycle.attempt
      BY <1>0, <1>6, <2>1 DEF CycleOk, CycleType
    <3>2. ASSUME NEW p \in Ports PROVE Explained(p)'
      BY <1>0, <1>6, <2>1, <3>1
         DEF CycleOk, Explained, DarkByCycle, Restoring
    <3>3. RestoresCounted'
      BY <1>0, <1>6, <2>1, <3>1
         DEF CycleOk, RestoresCounted, DarkByCycle, Restoring
    <3>4. QED
      BY <3>2, <3>3
  <2>2. CASE cycle.pc # "off"
    <3>1. cycle' = IdleCycle
      BY <1>6, <2>2 DEF CycleOk
    <3>2. ASSUME NEW p \in Ports PROVE Explained(p)'
      <4>1. Restoring(p) => cycle.port = p /\ cycle.pc = "on"
        BY <1>6, <2>2 DEF CycleOk, Restoring, InFlight
      <4>2. Restoring(p) /\ DarkByCycle(p) => faults[p].offLost
        BY <1>0, <1>6, <4>1 DEF CycleOk, RestoresCounted
      <4>3. QED
        BY <1>0, <1>6, <4>2 DEF CycleOk, Explained, DarkByCycle
    <3>3. RestoresCounted'
      BY <3>1 DEF RestoresCounted, Restoring, IdleCycle
    <3>4. QED
      BY <3>2, <3>3
  <2>3. QED
    BY <2>1, <2>2
<1>7. CASE CycleSlept \/ CycleCancelledAsleep
  <2>1. /\ cycle.pc \in {"sleep", "wait"}
        /\ cycle'.pc = "on"
        /\ cycle'.port = cycle.port
        /\ cycle'.attempt = cycle.attempt
        /\ cycle'.landed = FALSE
    BY <1>0, <1>7 DEF CycleSlept, CycleCancelledAsleep, CycleType
  <2>2. ASSUME NEW p \in Ports PROVE Explained(p)'
    BY <1>0, <1>7, <2>1 DEF CycleSlept, CycleCancelledAsleep, Explained,
                            DarkByCycle, Restoring
  <2>3. RestoresCounted'
    BY <1>0, <1>7, <2>1 DEF CycleSlept, CycleCancelledAsleep, RestoresCounted,
                            DarkByCycle, Restoring
  <2>4. QED
    BY <2>2, <2>3
<1>8. CASE CycleOffFails
  <2> DEFINE f == [faults[cycle.port] EXCEPT !.offLost = TRUE]
  <2>1. f \in Faults /\ f.offLost
    BY <1>0, <1>8, CycleFaults, FaultTypes DEF CycleOffFails, Faults
  <2>2. (\A p \in Ports : Explained(p))'
    <3> HIDE DEF f
    <3>1. Blame(f) /\ UNCHANGED <<admin, writer>> /\ cycle.pc # "idle"
      BY <1>8 DEF CycleOffFails, f
    <3>2. QED
      BY <2>1, <3>1, BlameExplains
  <2>3. RestoresCounted'
    BY <1>8 DEF CycleOffFails, PathFailed, IdleCycle, RestoresCounted,
                Restoring
  <2>4. QED
    BY <2>2, <2>3
<1>9. CASE CycleOnFails
  <2> DEFINE f == OneMoreRestore(faults[cycle.port])
  <2>0. /\ Blame(f) /\ UNCHANGED <<admin, writer>> /\ cycle.pc = "on"
        /\ cycle.port \in Ports
    BY <1>0, <1>9 DEF CycleOnFails, CycleType
  <2>1. /\ f \in Faults
        /\ f.offLost = faults[cycle.port].offLost
        /\ faults[cycle.port].restores < RestoreAttempts =>
              f.restores = faults[cycle.port].restores + 1
        /\ faults[cycle.port].restores \in 0 .. RestoreAttempts
    BY <1>0, <2>0, CycleFaults, FaultTypes DEF OneMoreRestore, Faults
  <2> HIDE DEF f
  <2>2. DarkByCycle(cycle.port) => faults'[cycle.port] = f
    BY <1>0, <2>0, <2>1, BlameOther DEF Restoring
  <2>3. CASE cycle.attempt = RestoreAttempts - 1
    <3>1. DarkByCycle(cycle.port) =>
             f.offLost \/ f.restores = RestoreAttempts
      BY <1>0, <2>0, <2>1, <2>3
         DEF RestoresCounted, Restoring, RestoreAttempts
    <3>2. ASSUME NEW p \in Ports PROVE Explained(p)'
      <4>1. CASE p = cycle.port
        BY <2>0, <2>2, <3>1, <4>1 DEF Explained, DarkByCycle
      <4>2. CASE p # cycle.port
        <5>1. faults'[p] = faults[p]
          BY <1>0, <2>0, <2>1, <4>2, BlameOther
        <5>2. QED
          BY <1>0, <2>0, <4>2, <5>1 DEF Explained, DarkByCycle, Restoring
      <4>3. QED
        BY <4>1, <4>2
    <3>3. RestoresCounted'
      BY <1>9, <2>3 DEF CycleOnFails, PathFailed, IdleCycle, RestoresCounted,
                        Restoring
    <3>4. QED
      BY <3>2, <3>3
  <2>4. CASE cycle.attempt # RestoreAttempts - 1
    <3>1. /\ cycle'.pc = "wait"
          /\ cycle'.port = cycle.port
          /\ cycle'.attempt = cycle.attempt + 1
          /\ cycle.attempt \in 0 .. 1
      BY <1>0, <1>9, <2>4 DEF CycleOnFails, CycleType, RestoreAttempts
    <3>2. ASSUME NEW p \in Ports PROVE Explained(p)'
      <4>1. CASE p = cycle.port
        BY <3>1, <4>1 DEF Explained, Restoring
      <4>2. CASE p # cycle.port
        <5>1. faults'[p] = faults[p]
          BY <1>0, <2>0, <2>1, <4>2, BlameOther
        <5>2. QED
          BY <1>0, <2>0, <4>2, <5>1 DEF Explained, DarkByCycle, Restoring
      <4>3. QED
        BY <4>1, <4>2
    <3>3. RestoresCounted'
      <4>1. DarkByCycle(cycle.port) =>
               f.offLost \/ f.restores = cycle.attempt + 1
        BY <1>0, <2>0, <2>1, <3>1
           DEF RestoresCounted, Restoring, RestoreAttempts
      <4>2. QED
        BY <2>0, <2>2, <3>1, <4>1 DEF RestoresCounted, DarkByCycle
    <3>4. QED
      BY <3>2, <3>3
  <2>5. QED
    BY <2>3, <2>4
<1>10. CASE CycleCancelled \/ Crash
  <2> DEFINE f == [faults[cycle.port] EXCEPT !.cut = TRUE]
  <2>1. /\ cycle.pc # "idle"
        /\ Blame(f)
        /\ UNCHANGED <<admin, writer>>
        /\ cycle' = IdleCycle
    BY <1>10 DEF CycleCancelled, Crash, DropCycle
  <2>2. f \in Faults /\ f.cut
    BY <1>0, <2>1, CycleFaults, FaultTypes DEF Faults
  <2> HIDE DEF f
  <2>3. (\A p \in Ports : Explained(p))'
    BY <2>1, <2>2, BlameExplains
  <2>4. RestoresCounted'
    BY <2>1 DEF IdleCycle, RestoresCounted, Restoring
  <2>5. QED
    BY <2>3, <2>4
<1>11. ASSUME NEW w \in late, LateLand(w)
       PROVE (\A p \in Ports : Explained(p))' /\ RestoresCounted'
  <2> DEFINE f == IF w.by = "cycle" /\ ~w.on THEN LostOff ELSE NoFaults
  <2>1. w \in Writes /\ Execute(w, f) /\ cycle' = cycle
    BY <1>0, <1>11 DEF LateLand, LateType
  <2>2. f \in Faults /\ (w.by = "cycle" /\ ~w.on => f.offLost)
    BY NoFaultsType DEF LostOff
  <2> HIDE DEF f
  <2>3. ASSUME NEW p \in Ports PROVE Explained(p)'
    <3>1. CASE p = w.port
      BY <1>0, <2>1, <2>2, <3>1, ExecuteOther DEF Explained, DarkByCycle
    <3>2. CASE p # w.port
      BY <1>0, <2>1, <2>2, <3>2, ExecuteOther
         DEF Explained, DarkByCycle, Restoring
    <3>3. QED
      BY <3>1, <3>2
  <2>4. RestoresCounted'
    <3>1. CASE Restoring(cycle.port)
      <4>1. cycle.port \in Ports
        BY <1>0, <3>1 DEF Restoring, CycleType
      <4>2. CASE cycle.port = w.port
        BY <1>0, <2>1, <2>2, <4>1, <4>2, ExecuteOther
           DEF RestoresCounted, DarkByCycle
      <4>3. CASE cycle.port # w.port
        BY <1>0, <2>1, <2>2, <4>1, <4>3, ExecuteOther
           DEF RestoresCounted, DarkByCycle, Restoring
      <4>4. QED
        BY <4>2, <4>3
    <3>2. CASE ~Restoring(cycle.port)
      BY <1>0, <2>1, <3>2 DEF RestoresCounted, Restoring
    <3>3. QED
      BY <3>1, <3>2
  <2>5. QED
    BY <2>3, <2>4
<1>12. CASE UNCHANGED vars
  BY <1>12, Untouched DEF vars
<1>13. QED
  BY <1>1, <1>2, <1>3, <1>4, <1>5, <1>6, <1>7, <1>8, <1>9, <1>10, <1>11,
     <1>12 DEF Next, ToggleStep, CycleStep

\* Every reachable state satisfies both parts of the invariant.
LEMMA DarkHolds == Spec => [](DarkOnlyWhenExplained /\ RestoresCounted)
<1>1. Init => DarkOnlyWhenExplained /\ RestoresCounted
  BY DEF Init, DarkOnlyWhenExplained, RestoresCounted, DarkByCycle, Restoring,
         IdleCycle
<1>2. TypeOK /\ TypeOK' /\ DarkOnlyWhenExplained /\ RestoresCounted
         /\ [Next]_vars
         => DarkOnlyWhenExplained' /\ RestoresCounted'
  BY DarkStep DEF IInv, DarkOnlyWhenExplained, Explained
<1>3. QED
  BY <1>1, <1>2, TypeCorrect, PTL DEF Spec

(***************************************************************************)
(* Whatever the number of ports and of late requests, with and without the *)
(* native reset and the SNMP fallback: a power cycle of the integration    *)
(* leaves a port dark only when three restores failed, its OFF was         *)
(* executed behind an error, or its task was stopped.                      *)
(***************************************************************************)
THEOREM DarkExplained == Spec => []DarkOnlyWhenExplained
BY DarkHolds, PTL

(***************************************************************************)
(* The attempt number of the restore loops counts the failures since the   *)
(* port went down: giving up at the third attempt means three failures.    *)
(***************************************************************************)
THEOREM RestoresAreCounted == Spec => []RestoresCounted
BY DarkHolds, PTL
=============================================================================
