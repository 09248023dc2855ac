------------------------------ MODULE PortPower ------------------------------
(***************************************************************************)
(* PoE power of the switch's ports as the integration drives it: the PoE   *)
(* switch entities (turn on / turn off), the power-cycle buttons, the two  *)
(* power-cycle loops (web UI and SNMP), the SNMP fallback of a refused web *)
(* write, and everything that may go wrong between Home Assistant and the  *)
(* switch: refused writes, lost answers, late requests, cancelled tasks    *)
(* and a Home Assistant that stops.                                        *)
(*                                                                         *)
(* Both platforms set PARALLEL_UPDATES = 1, so at most one switch-entity   *)
(* call and one button press of a switch run at a time, but those two run  *)
(* concurrently.                                                           *)
(***************************************************************************)
EXTENDS Naturals, FiniteSets

CONSTANTS
    Ports,   \* the PoE ports of the switch
    NoPort,  \* not a port: an idle task works on none
    Native,  \* the web UI has a PoE reset of its own (the JSON CGI models)
    Snmp,    \* a community is configured: failed web writes go over SNMP
    MaxLate  \* bound: abandoned requests the switch still holds at a time

ASSUME PortPowerAssumption ==
    /\ NoPort \notin Ports
    /\ Native \in BOOLEAN
    /\ Snmp \in BOOLEAN
    /\ MaxLate \in Nat

VARIABLES
    admin,    \* admin[p]: PoE is enabled on p, at the switch
    toggle,   \* the switch platform's running call
    cycle,    \* the button platform's running press
    late,     \* writes whose sender gave up and the switch may still execute
    writer,   \* history: who made the last write the switch executed on p
    faults    \* history: what went wrong since a cycle took p down

vars == <<admin, toggle, cycle, late, writer, faults>>

Paths == {"web", "snmp"}

\* range(3) of the restore loops
RestoreAttempts == 3

TogglePcs == {"idle", "web", "snmp"}

(***************************************************************************)
(* reset: the native PoE reset is in flight.  off, on: that write is in    *)
(* flight.  sleep: the port is held down.  wait: the second between two    *)
(* restore attempts.                                                       *)
(***************************************************************************)
CyclePcs == {"idle", "reset", "off", "sleep", "on", "wait"}
InFlight == {"reset", "off", "on"}

Writes == [port: Ports, on: BOOLEAN, by: {"user", "cycle"}]

(***************************************************************************)
(* restores: restores that failed.  offLost: the OFF was executed and its  *)
(* sender saw an error.  cut: the task was stopped before the restore.     *)
(***************************************************************************)
Faults == [restores: 0 .. RestoreAttempts, offLost: BOOLEAN, cut: BOOLEAN]
NoFaults == [restores |-> 0, offLost |-> FALSE, cut |-> FALSE]
LostOff == [restores |-> 0, offLost |-> TRUE, cut |-> FALSE]

TypeOK ==
    /\ admin \in [Ports -> BOOLEAN]
    /\ toggle \in [pc: TogglePcs, port: Ports \union {NoPort}, on: BOOLEAN,
                   landed: BOOLEAN]
    /\ toggle.pc # "idle" => toggle.port \in Ports
    /\ cycle \in [pc: CyclePcs, path: Paths, port: Ports \union {NoPort},
                  attempt: 0 .. RestoreAttempts - 1, landed: BOOLEAN]
    /\ cycle.pc # "idle" => cycle.port \in Ports
    /\ late \subseteq Writes
    /\ writer \in [Ports -> {"user", "cycle"}]
    /\ faults \in [Ports -> Faults]

IdleToggle == [pc |-> "idle", port |-> NoPort, on |-> FALSE, landed |-> FALSE]
IdleCycle == [pc |-> "idle", path |-> "web", port |-> NoPort, attempt |-> 0,
              landed |-> FALSE]

Init ==
    /\ admin \in [Ports -> BOOLEAN]
    /\ toggle = IdleToggle
    /\ cycle = IdleCycle
    /\ late = {}
    /\ writer = [p \in Ports |-> "user"]
    /\ faults = [p \in Ports |-> NoFaults]

-----------------------------------------------------------------------------
\* The switch executes a write; f is what is known to have gone wrong with it
Execute(w, f) ==
    /\ admin' = [admin EXCEPT ![w.port] = w.on]
    /\ writer' = [writer EXCEPT ![w.port] = w.by]
    /\ faults' = [faults EXCEPT ![w.port] = f]

(***************************************************************************)
(* A sender that gives up on a write the switch has not executed: the      *)
(* request is gone, or it still sits in the switch's queue.                *)
(***************************************************************************)
GiveUp(landed, w) ==
    \/ UNCHANGED late
    \/ /\ ~landed
       /\ Cardinality(late) < MaxLate
       /\ late' = late \union {w}

\* p is off, and it was a power cycle that turned it off
DarkByCycle(p) == ~admin[p] /\ writer[p] = "cycle"

\* A press has taken p down and still owes it the restore
Restoring(p) ==
    /\ cycle.port = p
    /\ \/ cycle.pc \in {"sleep", "on", "wait"}
       \/ cycle.pc = "off" /\ cycle.landed

\* History: a port the press holds down meets fault f
Blame(f) ==
    faults' = IF DarkByCycle(cycle.port) /\ Restoring(cycle.port)
                THEN [faults EXCEPT ![cycle.port] = f]
                ELSE faults

(***************************************************************************)
(* The PoE switch entity                                                   *)
(***************************************************************************)
ToggleWrite == [port |-> toggle.port, on |-> toggle.on, by |-> "user"]

\* async_turn_on / async_turn_off: the web write goes out
ToggleStart(p, on) ==
    /\ toggle.pc = "idle"
    /\ toggle' = [pc |-> "web", port |-> p, on |-> on, landed |-> FALSE]
    /\ UNCHANGED <<admin, cycle, late, writer, faults>>

\* The switch executes the write
ToggleLand ==
    /\ toggle.pc # "idle"
    /\ ~toggle.landed
    /\ toggle' = [toggle EXCEPT !.landed = TRUE]
    /\ Execute(ToggleWrite, NoFaults)
    /\ UNCHANGED <<cycle, late>>

\* The switch's answer arrives and the service call returns
ToggleOk ==
    /\ toggle.pc # "idle"
    /\ toggle.landed
    /\ toggle' = IdleToggle
    /\ UNCHANGED <<admin, cycle, late, writer, faults>>

(***************************************************************************)
(* The write was refused or its answer did not come.  A NetgearError of    *)
(* the web UI is retried over SNMP when a community is configured; a       *)
(* failure there makes the service call fail.                              *)
(***************************************************************************)
ToggleFail ==
    /\ toggle.pc # "idle"
    /\ GiveUp(toggle.landed, ToggleWrite)
    /\ toggle' = IF toggle.pc = "web" /\ Snmp
                   THEN [toggle EXCEPT !.pc = "snmp", !.landed = FALSE]
                   ELSE IdleToggle
    /\ UNCHANGED <<admin, cycle, writer, faults>>

-----------------------------------------------------------------------------
(***************************************************************************)
(* The power-cycle button                                                  *)
(***************************************************************************)
CycleWrite == [port |-> cycle.port, on |-> cycle.pc # "off", by |-> "cycle"]

\* The press stops waiting for the write it has in flight, if any
Abandon == GiveUp(cycle.pc \notin InFlight \/ cycle.landed, CycleWrite)

\* async_press: the native reset, or the OFF of the emulated power cycle
CycleStart(p) ==
    /\ cycle.pc = "idle"
    /\ cycle' = [pc |-> IF Native THEN "reset" ELSE "off", path |-> "web",
                 port |-> p, attempt |-> 0, landed |-> FALSE]
    /\ UNCHANGED <<admin, toggle, late, writer, faults>>

(***************************************************************************)
(* The switch executes the write.  The native reset posts state = 1, so    *)
(* the port is enabled after it.                                           *)
(***************************************************************************)
CycleLand ==
    /\ cycle.pc \in InFlight
    /\ ~cycle.landed
    /\ cycle' = [cycle EXCEPT !.landed = TRUE]
    /\ Execute(CycleWrite, NoFaults)
    /\ UNCHANGED <<toggle, late>>

\* The answer arrives: hold the port down, or the press is complete
CycleOk ==
    /\ cycle.pc \in InFlight
    /\ cycle.landed
    /\ cycle' = IF cycle.pc = "off"
                  THEN [cycle EXCEPT !.pc = "sleep", !.landed = FALSE]
                  ELSE IdleCycle
    /\ UNCHANGED <<admin, toggle, late, writer, faults>>

\* asyncio.sleep(3), or asyncio.sleep(1) between attempts, returns
CycleSlept ==
    /\ cycle.pc \in {"sleep", "wait"}
    /\ cycle' = [cycle EXCEPT !.pc = "on", !.landed = FALSE]
    /\ UNCHANGED <<admin, toggle, late, writer, faults>>

\* Mutant: the SNMP cycle inherits the attempts the web cycle has used up
PathFailedUsedUp ==
    IF cycle.path = "web" /\ Snmp
      THEN [cycle EXCEPT !.pc = "off", !.path = "snmp", !.landed = FALSE]
      ELSE IdleCycle

(***************************************************************************)
(* The error leaves the power-cycle loop: the button repeats the whole     *)
(* cycle over SNMP when the web UI failed and a community is configured.   *)
(***************************************************************************)
PathFailed ==
    IF cycle.path = "web" /\ Snmp
      THEN [pc |-> "off", path |-> "snmp", port |-> cycle.port, attempt |-> 0,
            landed |-> FALSE]
      ELSE IdleCycle

\* The native reset, or the OFF, fails: outside the try of the loop
CycleOffFails ==
    /\ cycle.pc \in {"reset", "off"}
    /\ Abandon
    /\ cycle' = PathFailed
    /\ Blame([faults[cycle.port] EXCEPT !.offLost = TRUE])
    /\ UNCHANGED <<admin, toggle, writer>>

OneMoreRestore(f) ==
    IF f.restores < RestoreAttempts THEN [f EXCEPT !.restores = @ + 1] ELSE f

\* Mutant: gives up at the second failure
RestoreGivesUpEarly ==
    /\ cycle.pc = "on"
    /\ Abandon
    /\ cycle' = IF cycle.attempt = RestoreAttempts - 2
                  THEN PathFailed
                  ELSE [cycle EXCEPT !.pc = "wait", !.attempt = @ + 1,
                                     !.landed = FALSE]
    /\ Blame(OneMoreRestore(faults[cycle.port]))
    /\ UNCHANGED <<admin, toggle, writer>>

\* Mutant: one attempt too many
RestoreGivesUpLate ==
    /\ cycle.pc = "on"
    /\ Abandon
    /\ cycle' = IF cycle.attempt = RestoreAttempts
                  THEN PathFailed
                  ELSE [cycle EXCEPT !.pc = "wait", !.attempt = @ + 1,
                                     !.landed = FALSE]
    /\ Blame(OneMoreRestore(faults[cycle.port]))
    /\ UNCHANGED <<admin, toggle, writer>>

\* Mutant: retries without counting
RestoreRetriesForever ==
    /\ cycle.pc = "on"
    /\ Abandon
    /\ cycle' = [cycle EXCEPT !.pc = "wait", !.landed = FALSE]
    /\ Blame(OneMoreRestore(faults[cycle.port]))
    /\ UNCHANGED <<admin, toggle, writer>>

\* A restore fails: the third failure is raised, the others are retried
CycleOnFails ==
    /\ cycle.pc = "on"
    /\ Abandon
    /\ cycle' = IF cycle.attempt = RestoreAttempts - 1
                  THEN PathFailed
                  ELSE [cycle EXCEPT !.pc = "wait", !.attempt = @ + 1,
                                     !.landed = FALSE]
    /\ Blame(OneMoreRestore(faults[cycle.port]))
    /\ UNCHANGED <<admin, toggle, writer>>

\* Mutant: no finally clause around the sleep
CancelledWithoutRestore ==
    /\ cycle.pc = "sleep"
    /\ cycle' = IdleCycle
    /\ UNCHANGED <<admin, toggle, late, writer, faults>>

(***************************************************************************)
(* The press is cancelled.  In the sleep the finally clause still restores *)
(* the power; anywhere else CancelledError, which no handler of the loop   *)
(* or the button catches, ends the press.                                  *)
(***************************************************************************)
CycleCancelledAsleep ==
    /\ cycle.pc = "sleep"
    /\ cycle' = [cycle EXCEPT !.pc = "on", !.landed = FALSE]
    /\ UNCHANGED <<admin, toggle, late, writer, faults>>

\* The press is over wherever it was
DropCycle ==
    /\ cycle' = IdleCycle
    /\ Blame([faults[cycle.port] EXCEPT !.cut = TRUE])

CycleCancelled ==
    /\ cycle.pc \in {"reset", "off", "on", "wait"}
    /\ DropCycle
    /\ Abandon
    /\ UNCHANGED <<admin, toggle, writer>>

\* The Home Assistant process dies during a press: nothing of it survives
Crash ==
    /\ cycle.pc # "idle"
    /\ DropCycle
    /\ toggle' = IdleToggle
    /\ Abandon \/ GiveUp(toggle.pc = "idle" \/ toggle.landed, ToggleWrite)
    /\ UNCHANGED <<admin, writer>>

-----------------------------------------------------------------------------
\* The switch executes a write nobody waits for any more
LateLand(w) ==
    /\ late' = late \ {w}
    /\ Execute(w, IF w.by = "cycle" /\ ~w.on THEN LostOff ELSE NoFaults)
    /\ UNCHANGED <<toggle, cycle>>

ToggleStep == ToggleLand \/ ToggleOk \/ ToggleFail
CycleStep ==
    \/ CycleLand
    \/ CycleOk
    \/ CycleSlept
    \/ CycleOffFails
    \/ CycleOnFails

Next ==
    \/ \E p \in Ports, on \in BOOLEAN : ToggleStart(p, on)
    \/ ToggleStep
    \/ \E p \in Ports : CycleStart(p)
    \/ CycleStep
    \/ CycleCancelledAsleep
    \/ CycleCancelled
    \/ Crash
    \/ \E w \in late : LateLand(w)

Spec == Init /\ [][Next]_vars

(***************************************************************************)
(* Every request ends (the HTTP client and the SNMP command have           *)
(* timeouts) and every sleep returns.  Users, cancellations, crashes and   *)
(* late requests are not owed anything.                                    *)
(***************************************************************************)
FairSpec == Spec /\ WF_vars(CycleStep)

-----------------------------------------------------------------------------
(***************************************************************************)
(* Properties                                                              *)
(***************************************************************************)
(***************************************************************************)
(* A power cycle leaves a port without power only when three restores in a *)
(* row failed, when its OFF was executed although the sender got an error, *)
(* or when its task was stopped: every other path through the loops, the   *)
(* fallback, the cancellation and the concurrent switch entity powers the  *)
(* port again.                                                             *)
(***************************************************************************)
DarkOnlyWhenExplained ==
    \A p \in Ports :
        DarkByCycle(p) =>
            \/ Restoring(p)
            \/ faults[p].restores = RestoreAttempts
            \/ faults[p].offLost
            \/ faults[p].cut

(***************************************************************************)
(* The loop's attempt number is the number of restores that failed since   *)
(* the port went down, even when the web cycle was followed by the SNMP    *)
(* one, so giving up at the third attempt means three failures; and a port *)
(* is never dark once its restore was executed, short of a late OFF.  It   *)
(* is what DarkOnlyWhenExplained needs to be inductive.                    *)
(***************************************************************************)
RestoresCounted ==
    /\ cycle.pc \in {"idle", "reset", "off", "sleep"} => cycle.attempt = 0
    /\ Restoring(cycle.port) /\ DarkByCycle(cycle.port) =>
           \/ /\ faults[cycle.port].restores = cycle.attempt
              /\ ~(cycle.pc = "on" /\ cycle.landed)
           \/ faults[cycle.port].offLost

(***************************************************************************)
(* What the comments on the restore loops promise: a transient error can't *)
(* leave the device unpowered.  Once its press is over and was not         *)
(* interrupted, a port a power cycle left dark has seen every one of the   *)
(* restore attempts fail, not just one request.                            *)
(***************************************************************************)
NoDarkFromOneFailure ==
    \A p \in Ports :
        DarkByCycle(p) =>
            \/ cycle.port = p
            \/ faults[p].restores = RestoreAttempts
            \/ faults[p].cut

(***************************************************************************)
(* A press holds the button platform's only slot, so each one has to end,  *)
(* however many of its requests fail and in whichever order the web and    *)
(* the SNMP loop fail.                                                     *)
(***************************************************************************)
PressEnds == cycle.pc # "idle" ~> cycle.pc = "idle"

(***************************************************************************)
(* Once the OFF is confirmed, power comes back even if the press is        *)
(* cancelled while it sleeps, unless the user switched the port, three     *)
(* restores failed, a late OFF arrived or the task was stopped later.      *)
(***************************************************************************)
ConfirmedOffIsRestored ==
    \A p \in Ports :
        (cycle.pc = "sleep" /\ cycle.port = p) ~>
            \/ admin[p]
            \/ writer[p] = "user"
            \/ faults[p].restores = RestoreAttempts
            \/ faults[p].offLost
            \/ faults[p].cut
=============================================================================
