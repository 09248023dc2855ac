----------------------------- MODULE Coordinator -----------------------------
(***************************************************************************)
(* When the integration polls a switch, and what its entities show between *)
(* polls: the coordinator's refresh, the timer and the request debouncer   *)
(* that start one, link traps and optimistic writes that change the shown  *)
(* data in between, and a firmware install that suspends polling.          *)
(*                                                                         *)
(* Everything runs on one event loop; a step here is what runs between two *)
(* awaits.  The timer, the debouncer and the storing of a refresh's result *)
(* belong to Home Assistant's DataUpdateCoordinator and Debouncer, modelled *)
(* from how the integration uses them.                                     *)
(***************************************************************************)
EXTENDS Naturals

CONSTANTS
    Ports,           \* PoE ports with a link sensor
    PollOutcomes,    \* how the PoE read of a poll may end
    InstallOutcomes, \* how a firmware install may end
    MaxChanges,      \* bound: changes of the switch's state
    MaxFailures      \* bound: polls that do not bring fresh data

(***************************************************************************)
(* fresh: PoE data over SNMP or the web UI.  stalled: the PoE read failed  *)
(* and the switch still answers an identity read.  down: neither answers.  *)
(* auth: the switch rejects the password.                                  *)
(***************************************************************************)
ASSUME CoordinatorAssumption ==
    /\ PollOutcomes \subseteq {"fresh", "stalled", "down", "auth"}
    /\ InstallOutcomes \subseteq {"ok", "failed"}
    /\ MaxChanges \in Nat
    /\ MaxFailures \in Nat

VARIABLES
    link, admin,           \* the switch: link state, PoE enabled
    traps,                 \* linkUp / linkDown traps on their way
    shownLink, shownAdmin, \* coordinator.data: link, ports[p].admin_enabled
    call,                  \* the PoE switch call waiting for its answer
    refresh,               \* the refresh in progress: it holds the lock
    timer,                 \* a scheduled refresh is queued
    cool, atEnd,           \* debouncer: cooling down, run again at its end
    interval,              \* update_interval is set
    install,               \* the firmware install
    lapse,                 \* history: what ended the chain of refreshes
    changes, failures      \* how much of the bounds is used

switch == <<link, admin, traps, changes>>
shown == <<shownLink, shownAdmin>>
scheduling == <<refresh, timer, cool, atEnd, lapse>>
vars == <<switch, shown, call, scheduling, interval, install, failures>>

LinkStates == {"up", "down"}
\* A port without an entry in data.link
Unknown == "unknown"

NoCall == [pc |-> "idle"]
Calls == [pc: {"sent"}, port: Ports, on: BOOLEAN] \union {NoCall}

(***************************************************************************)
(* poe, link: waiting for that read.  store: link is read, ifAlias is not. *)
(* keep: the poll stalled and carries on with the data already shown.      *)
(***************************************************************************)
Refreshes ==
    [pc: {"idle", "poe", "link", "store"}, by: {"timer", "request"},
     keep: BOOLEAN, admin: [Ports -> BOOLEAN],
     link: [Ports -> LinkStates \union {Unknown}]]

TypeOK ==
    /\ link \in [Ports -> LinkStates]
    /\ admin \in [Ports -> BOOLEAN]
    /\ traps \subseteq [port: Ports, state: LinkStates]
    /\ shownLink \in [Ports -> LinkStates \union {Unknown}]
    /\ shownAdmin \in [Ports -> BOOLEAN]
    /\ call \in Calls
    /\ refresh \in Refreshes
    /\ timer \in BOOLEAN
    /\ cool \in BOOLEAN
    /\ atEnd \in BOOLEAN
    /\ interval \in BOOLEAN
    /\ install \in {"idle", "running"}
    /\ lapse \in {"none", "auth", "install"}
    /\ changes \in 0 .. MaxChanges
    /\ failures \in 0 .. MaxFailures

\* Mutant: a hung agent leaves no entry at all, instead of an unknown state
NoLinkMissing == [p \in {} |-> Unknown]

\* data.link with no entry for any port, which is what a hung agent leaves
NoLink == [p \in Ports |-> Unknown]
NoAdmin == [p \in Ports |-> FALSE]
IdleRefresh == [pc |-> "idle", by |-> "timer", keep |-> FALSE,
                admin |-> NoAdmin, link |-> NoLink]

\* After setup: the first refresh is stored and the entities are listening
Init ==
    /\ link \in [Ports -> LinkStates]
    /\ admin \in [Ports -> BOOLEAN]
    /\ traps = {}
    /\ shownLink = link
    /\ shownAdmin = admin
    /\ call = NoCall
    /\ refresh = IdleRefresh
    /\ timer = TRUE
    /\ cool = FALSE
    /\ atEnd = FALSE
    /\ interval = TRUE
    /\ install = "idle"
    /\ lapse = "none"
    /\ changes = 0
    /\ failures = 0

Refreshing == refresh.pc # "idle"

-----------------------------------------------------------------------------
(***************************************************************************)
(* The switch                                                              *)
(***************************************************************************)
Change == changes < MaxChanges /\ changes' = changes + 1

\* A cable is plugged or pulled; the trap may be lost or arrive out of order
LinkChanges(p) ==
    /\ Change
    /\ \E s \in LinkStates \ {link[p]} :
          /\ link' = [link EXCEPT ![p] = s]
          /\ traps' = traps \union {[port |-> p, state |-> s]}
    /\ UNCHANGED <<admin, shown, call, scheduling, interval, install,
                   failures>>

\* Somebody else changes the port's PoE setting, in the switch's own web UI
AdminChanges(p) ==
    /\ Change
    /\ admin' = [admin EXCEPT ![p] = ~@]
    /\ UNCHANGED <<link, traps, shown, call, scheduling, interval, install,
                   failures>>

-----------------------------------------------------------------------------
(***************************************************************************)
(* Starting and ending a refresh                                           *)
(***************************************************************************)
\* A refresh takes the lock, unschedules the timer, resets the debouncer
Begin(by) ==
    /\ refresh' = [IdleRefresh EXCEPT !.pc = "poe", !.by = by]
    /\ timer' = FALSE
    /\ cool' = FALSE
    /\ atEnd' = FALSE
    /\ lapse' = "none"

(***************************************************************************)
(* async_request_refresh: at once, at the end of the cooldown, or not at   *)
(* all while a refresh is in progress ("any call is good").                *)
(***************************************************************************)
Request ==
    \/ cool /\ atEnd' = TRUE /\ UNCHANGED <<refresh, timer, cool, lapse>>
    \/ ~cool /\ Refreshing /\ UNCHANGED scheduling
    \/ ~cool /\ ~Refreshing /\ Begin("request")

\* A refresh ends: schedule the next one, start the debouncer's cooldown
End(rearm) ==
    /\ refresh' = IdleRefresh
    /\ timer' = (rearm /\ interval)
    /\ cool' = (refresh.by = "request")
    /\ lapse' = IF rearm THEN lapse ELSE "auth"
    /\ UNCHANGED atEnd

TimerFires ==
    /\ timer
    /\ Begin("timer")
    /\ UNCHANGED <<switch, shown, call, interval, install, failures>>

CooldownEnds ==
    /\ cool
    /\ \/ atEnd /\ Begin("request")
       \/ ~atEnd /\ cool' = FALSE /\ UNCHANGED <<refresh, timer, atEnd, lapse>>
    /\ UNCHANGED <<switch, shown, call, interval, install, failures>>

-----------------------------------------------------------------------------
(***************************************************************************)
(* The poll: _async_update_data                                            *)
(***************************************************************************)
Fails == failures < MaxFailures /\ failures' = failures + 1

\* PoE data arrives, read from the switch at this moment
PoeFresh ==
    /\ refresh.pc = "poe"
    /\ "fresh" \in PollOutcomes
    /\ refresh' = [refresh EXCEPT !.pc = "link", !.admin = admin]
    /\ UNCHANGED <<switch, shown, call, timer, cool, atEnd, lapse, interval,
                   install, failures>>

\* The PoE read hangs on a reachable switch: data = self.data
PoeStalled ==
    /\ refresh.pc = "poe"
    /\ "stalled" \in PollOutcomes
    /\ Fails
    /\ refresh' = [refresh EXCEPT !.pc = "link", !.keep = TRUE]
    /\ UNCHANGED <<switch, shown, call, timer, cool, atEnd, lapse, interval,
                   install>>

\* Neither read answers: UpdateFailed, tried again at the next interval
PoeDown ==
    /\ refresh.pc = "poe"
    /\ "down" \in PollOutcomes
    /\ Fails
    /\ End(TRUE)
    /\ UNCHANGED <<switch, shown, call, interval, install>>

\* ConfigEntryAuthFailed: ask the user, schedule nothing
PoeAuthFails ==
    /\ refresh.pc = "poe"
    /\ "auth" \in PollOutcomes
    /\ Fails
    /\ End(FALSE)
    /\ UNCHANGED <<switch, shown, call, interval, install>>

\* ifOperStatus is read; async_get_port_info goes on to read ifAlias
LinkRead ==
    /\ refresh.pc = "link"
    /\ refresh' = [refresh EXCEPT !.pc = "store", !.link = link]
    /\ UNCHANGED <<switch, shown, call, timer, cool, atEnd, lapse, interval,
                   install, failures>>

\* The SNMP agent hangs: async_get_port_info returns empty dicts
LinkUnreadable ==
    /\ refresh.pc = "link"
    /\ Fails
    /\ refresh' = [refresh EXCEPT !.pc = "store", !.link = NoLink]
    /\ UNCHANGED <<switch, shown, call, timer, cool, atEnd, lapse, interval,
                   install>>

\* Mutant: the links of the poll are left to the traps
StoreNoLink ==
    /\ refresh.pc = "store"
    /\ shownAdmin' = IF refresh.keep THEN shownAdmin ELSE refresh.admin
    /\ End(TRUE)
    /\ UNCHANGED <<switch, shownLink, call, interval, install, failures>>

(***************************************************************************)
(* The names arrive and the poll returns without another await: its data   *)
(* replaces coordinator.data.  A stalled poll returns the object already   *)
(* shown, with the new link states in it.                                  *)
(***************************************************************************)
Store ==
    /\ refresh.pc = "store"
    /\ shownLink' = refresh.link
    /\ shownAdmin' = IF refresh.keep THEN shownAdmin ELSE refresh.admin
    /\ End(TRUE)
    /\ UNCHANGED <<switch, call, interval, install, failures>>

PollStep ==
    \/ PoeFresh
    \/ PoeStalled
    \/ PoeDown
    \/ PoeAuthFails
    \/ LinkRead
    \/ LinkUnreadable
    \/ Store

-----------------------------------------------------------------------------
(***************************************************************************)
(* What changes the shown data between polls                               *)
(***************************************************************************)
\* apply_link_trap: nothing new, or show it and ask for a refresh
TrapArrives(t) ==
    /\ traps' = traps \ {t}
    /\ \/ /\ shownLink[t.port] = t.state
          /\ UNCHANGED <<shownLink, scheduling>>
       \/ /\ shownLink[t.port] # t.state
          /\ shownLink' = [shownLink EXCEPT ![t.port] = t.state]
          /\ Request
    /\ UNCHANGED <<link, admin, shownAdmin, call, interval, install, changes,
                   failures>>

\* A poePortChange event of the trap bridge, or a finished power cycle
RefreshWanted ==
    /\ Request
    /\ UNCHANGED <<switch, shown, call, interval, install, failures>>

\* The switch executes a turn_on or turn_off; its answer is on its way
CallLands(p, on) ==
    /\ call = NoCall
    /\ Change
    /\ admin' = [admin EXCEPT ![p] = on]
    /\ call' = [pc |-> "sent", port |-> p, on |-> on]
    /\ UNCHANGED <<link, traps, shown, scheduling, interval, install,
                   failures>>

\* The answer arrives: show the new setting at once and ask for a refresh
CallReturns ==
    /\ call.pc = "sent"
    /\ call' = NoCall
    /\ shownAdmin' = [shownAdmin EXCEPT ![call.port] = call.on]
    /\ Request
    /\ UNCHANGED <<switch, shownLink, interval, install, failures>>

-----------------------------------------------------------------------------
(***************************************************************************)
(* The firmware install                                                    *)
(***************************************************************************)
\* Mutant: the refresh already queued is left queued
InstallStartQueued ==
    /\ install = "idle"
    /\ install' = "running"
    /\ interval' = FALSE
    /\ UNCHANGED <<switch, shown, call, refresh, timer, cool, atEnd, lapse,
                   failures>>

\* Suspend polling: no interval, and the refresh already queued is dropped
InstallStart ==
    /\ install = "idle"
    /\ install' = "running"
    /\ interval' = FALSE
    /\ timer' = FALSE
    /\ UNCHANGED <<switch, shown, call, refresh, cool, atEnd, lapse, failures>>

\* Mutant: the interval is restored and nothing asks for a refresh
InstallOkSilent ==
    /\ install = "running"
    /\ "ok" \in InstallOutcomes
    /\ install' = "idle"
    /\ interval' = TRUE
    /\ UNCHANGED <<switch, shown, call, scheduling, failures>>

\* Mutant: the next poll is scheduled instead of asked for
InstallOkSchedules ==
    /\ install = "running"
    /\ "ok" \in InstallOutcomes
    /\ install' = "idle"
    /\ interval' = TRUE
    /\ timer' = TRUE
    /\ UNCHANGED <<switch, shown, call, refresh, cool, atEnd, lapse, failures>>

\* The finally clause restores the interval; success also asks for a refresh
InstallOk ==
    /\ install = "running"
    /\ "ok" \in InstallOutcomes
    /\ install' = "idle"
    /\ interval' = TRUE
    /\ Request
    /\ UNCHANGED <<switch, shown, call, failures>>

\* On failure HomeAssistantError leaves before the refresh is asked for
InstallFails ==
    /\ install = "running"
    /\ "failed" \in InstallOutcomes
    /\ install' = "idle"
    /\ interval' = TRUE
    /\ lapse' = IF timer \/ Refreshing \/ atEnd THEN lapse ELSE "install"
    /\ UNCHANGED <<switch, shown, call, refresh, timer, cool, atEnd, failures>>

-----------------------------------------------------------------------------
Next ==
    \/ \E p \in Ports : LinkChanges(p) \/ AdminChanges(p)
    \/ TimerFires
    \/ CooldownEnds
    \/ PollStep
    \/ \E t \in traps : TrapArrives(t)
    \/ RefreshWanted
    \/ \E p \in Ports, on \in BOOLEAN : CallLands(p, on)
    \/ CallReturns
    \/ InstallStart
    \/ InstallOk
    \/ InstallFails

Spec == Init /\ [][Next]_vars

(***************************************************************************)
(* The event loop runs timers that are due and every request of a poll or  *)
(* an install ends, at the latest in a timeout.  Users and the network are *)
(* owed nothing: traps may never arrive, calls may never be made.          *)
(***************************************************************************)
Fairness ==
    /\ WF_vars(TimerFires)
    /\ WF_vars(CooldownEnds)
    /\ WF_vars(PollStep)
    /\ WF_vars(CallReturns)
    /\ WF_vars(InstallOk \/ InstallFails)

FairSpec == Spec /\ Fairness

-----------------------------------------------------------------------------
(***************************************************************************)
(* Properties                                                              *)
(***************************************************************************)
(***************************************************************************)
(* The polling loop is a chain in which each refresh arms the next one.    *)
(* No interleaving of traps, calls, installs and dropped requests breaks   *)
(* it but the two that do in the code: a rejected password, and an install *)
(* that failed, of which FailedInstallResumes speaks.                      *)
(***************************************************************************)
PollingStaysArmed ==
    \/ timer
    \/ Refreshing
    \/ cool /\ atEnd
    \/ install = "running"
    \/ lapse # "none"

(***************************************************************************)
(* "A failed install must not leave the switch unpolled forever"           *)
(* (test_update.py:309), and the finally clause's "resume polling"         *)
(* (update.py:166): unless an install is running there is always another   *)
(* poll.  (The clause only restores the interval; the refresh that would   *)
(* schedule the next one is asked for on success alone.)                   *)
(***************************************************************************)
FailedInstallResumes == []<>(install = "running" \/ Refreshing)

(***************************************************************************)
(* An install leaves no scheduled poll behind, not even when a poll that   *)
(* was in flight as it started ends during the install.                    *)
(***************************************************************************)
NoScheduledPollInInstall ==
    /\ interval <=> install = "idle"
    /\ timer => install = "idle"

(***************************************************************************)
(* One refresh at a time, and each has one cause: a refresh in progress    *)
(* leaves no timer and no cooldown behind to start a second one.           *)
(***************************************************************************)
OneRefreshAtATime ==
    /\ Refreshing => ~timer /\ ~cool
    /\ atEnd => cool

(***************************************************************************)
(* When the switch stops changing and answers again, the entities show its *)
(* state for good: no lost, late or reordered trap, no optimistic write    *)
(* and no dropped refresh request leaves a wrong state behind for ever,    *)
(* unless polling itself has lapsed.                                       *)
(***************************************************************************)
Converges ==
    <>[](lapse # "none" \/ (shownLink = link /\ shownAdmin = admin))
=============================================================================
