------------------------------- MODULE PollData -------------------------------
(***************************************************************************)
(* What a poll brings: which of the four reads it makes (PoE over SNMP,    *)
(* PoE over the web UI, port names over SNMP, port names over the web UI), *)
(* where each port's alias comes from, when the web UI's name page is      *)
(* left alone, and when a PoE controller counts as stalled.                *)
(*                                                                         *)
(* A name is the number of the renaming that gave it, so newer names are   *)
(* larger; 0 is the empty description.                                     *)
(***************************************************************************)
EXTENDS Naturals

CONSTANTS
    Ports,       \* the PoE ports
    Snmps,       \* whether a community is configured: one value, or both
    Drivers,     \* which of "json" and "base" are in use
    Missing,     \* the alias of a port that is not in coordinator.data.ports
    Threshold,   \* POE_STALL_THRESHOLD
    NamesEvery,  \* polls between two reads of the name page (20 in the code)
    MaxNames,    \* bound: names ever given on the switch
    MaxFailures  \* bound: reads that fail

ASSUME PollDataAssumption ==
    /\ Snmps \subseteq BOOLEAN
    /\ Drivers \subseteq {"json", "base"}
    /\ Missing \notin Nat
    /\ Threshold \in Nat \ {0}
    /\ NamesEvery \in Nat \ {0}
    /\ MaxNames \in Nat \ {0}
    /\ MaxFailures \in Nat

VARIABLES
    snmp, driver,  \* this entry: has a link monitor; its web driver
    name,            \* the switch: each port's description
    hasData, alias,  \* coordinator.data: present; alias of each port in it
    cache, loaded,   \* the driver: _port_names, _port_names_loaded
    count,           \* the driver: _poll_count modulo NamesEvery
    webNames,        \* the driver: web_port_names_enabled
    poll,            \* the poll in progress
    write,           \* a PoE write's read of the PoE page (JSON only)
    rename,          \* the set_port_name action in progress
    stalls, stalled, \* the coordinator: _poe_stall_count, poe_stalled
    streak,          \* history: stalled polls since one that was not
    lastName, failures \* how much of the bounds is used

config == <<snmp, driver>>
api == <<cache, loaded, count, webNames>>
shown == <<hasData, alias>>
stall == <<stalls, stalled, streak>>
vars == <<config, name, shown, api, poll, write, rename, stall, lastName,
          failures>>

Names == 0 .. MaxNames
Unnamed == 0
NoNames == [p \in Ports |-> Unnamed]

(***************************************************************************)
(* snmp, web: that PoE read is next.  fetched: the name page's answer is   *)
(* on its way.  reach: the identity read of a failed poll is next.  info:  *)
(* the SNMP read of link and names is next.  store: its answer is on its   *)
(* way.  lapsed: the password was rejected, so no further poll is due.     *)
(* from: where the poll's PoE data comes from.                             *)
(***************************************************************************)
PollPcs == {"idle", "snmp", "web", "fetched", "reach", "info", "store",
            "lapsed"}
Polls == [pc: PollPcs,
          from: {"snmp", "web", "stall"}, read: [Ports -> Names],
          alias: [Ports -> Names]]
IdlePoll == [pc |-> "idle", from |-> "snmp", read |-> NoNames,
             alias |-> NoNames]
IdleWrite == [pc |-> "idle", read |-> NoNames]
IdleRename == [pc |-> "idle"]
Renames == [pc: {"sent"}, port: Ports, to: Names] \union {IdleRename}

TypeOK ==
    /\ snmp \in Snmps
    /\ driver \in Drivers
    /\ name \in [Ports -> Names]
    /\ hasData \in BOOLEAN
    /\ alias \in [Ports -> Names \union {Missing}]
    /\ cache \in [Ports -> Names]
    /\ loaded \in BOOLEAN
    /\ count \in 0 .. NamesEvery - 1
    /\ webNames \in BOOLEAN
    /\ poll \in Polls
    /\ write \in [pc: {"idle", "fetched"}, read: [Ports -> Names]]
    /\ rename \in Renames
    /\ stalls \in 0 .. Threshold
    /\ stalled \in BOOLEAN
    /\ streak \in 0 .. Threshold
    /\ lastName \in Names
    /\ failures \in 0 .. MaxFailures

\* A new coordinator and a new driver, before the first poll
Init ==
    /\ snmp \in Snmps
    /\ driver \in Drivers
    /\ name \in [Ports -> {Unnamed, 1}]
    /\ hasData = FALSE
    /\ alias = [p \in Ports |-> Missing]
    /\ cache = NoNames
    /\ loaded = FALSE
    /\ count = 0
    /\ webNames = TRUE
    /\ poll = IdlePoll
    /\ write = IdleWrite
    /\ rename = IdleRename
    /\ stalls = 0
    /\ stalled = FALSE
    /\ streak = 0
    /\ lastName = 1
    /\ failures = 0

Fails == failures < MaxFailures /\ failures' = failures + 1

-----------------------------------------------------------------------------
(***************************************************************************)
(* The web drivers' cache of port names                                    *)
(***************************************************************************)
NeverFetched == IF driver = "json" THEN cache = NoNames ELSE ~loaded

FetchDue == webNames /\ (NeverFetched \/ count = 0)

\* Mutant: the count wraps one poll late
NextCountLate == (count + 1) % (NamesEvery + 1)
NextCount == (count + 1) % NamesEvery

\* The name page's answer replaces the cache; JSON keeps it when none is named
CacheNames(names) ==
    /\ cache' = IF driver = "json" /\ names = NoNames THEN cache ELSE names
    /\ loaded' = TRUE

-----------------------------------------------------------------------------
(***************************************************************************)
(* Stall detection                                                         *)
(***************************************************************************)
\* Mutant: the flag is cleared and the count is not
ResetFlagOnly ==
    /\ stalled' = FALSE
    /\ streak' = 0
    /\ UNCHANGED stalls

ResetStall ==
    /\ stalls' = 0
    /\ stalled' = FALSE
    /\ streak' = 0

\* _poe_stall_count is counted no further than the threshold
CountStall ==
    /\ stalls' = IF stalls = Threshold THEN Threshold ELSE stalls + 1
    /\ stalled' = (stalled \/ stalls + 1 = Threshold)
    /\ streak' = IF streak = Threshold THEN Threshold ELSE streak + 1

-----------------------------------------------------------------------------
(***************************************************************************)
(* The poll: _async_update_data                                            *)
(***************************************************************************)
PollBegins ==
    /\ poll' = [IdlePoll EXCEPT !.pc = IF snmp THEN "snmp" ELSE "web"]
    /\ UNCHANGED <<config, name, shown, api, write, rename, stall, lastName,
                   failures>>

PollStart == poll.pc = "idle" /\ PollBegins

\* A trap, a write or the new password starts the poll nothing is due for
PollWanted == poll.pc = "lapsed" /\ PollBegins

\* async_get_poe_data answers; the names come next
SnmpPoe ==
    /\ poll.pc = "snmp"
    /\ poll' = [poll EXCEPT !.pc = "info", !.from = "snmp"]
    /\ UNCHANGED <<config, name, shown, api, write, rename, stall, lastName,
                   failures>>

\* No PoE over SNMP: the web UI is asked
SnmpPoeFails ==
    /\ poll.pc = "snmp"
    /\ Fails
    /\ poll' = [poll EXCEPT !.pc = "web"]
    /\ UNCHANGED <<config, name, shown, api, write, rename, stall, lastName>>

\* With a link monitor, _apply_link_info comes next; without, the poll is over
AfterWeb == IF snmp THEN "info" ELSE "store"

\* The PoE page answers and so will the name page, if it is due
WebFetch ==
    /\ poll.pc = "web"
    /\ FetchDue
    /\ poll' = [poll EXCEPT !.pc = "fetched", !.read = name]
    /\ UNCHANGED <<config, name, shown, api, write, rename, stall, lastName,
                   failures>>

\* Either the name page is not due, or it fails: the cache feeds the aliases
WebNoFetch ==
    /\ poll.pc = "web"
    /\ \/ ~FetchDue /\ UNCHANGED failures
       \/ FetchDue /\ Fails
    /\ count' = NextCount
    /\ poll' = [poll EXCEPT !.pc = AfterWeb, !.from = "web", !.alias = cache]
    /\ UNCHANGED <<config, name, shown, cache, loaded, webNames, write,
                   rename, stall, lastName>>

\* The name page's answer arrives
WebFetched ==
    /\ poll.pc = "fetched"
    /\ CacheNames(poll.read)
    /\ count' = NextCount
    /\ poll' = [poll EXCEPT !.pc = AfterWeb, !.from = "web", !.alias = cache',
                            !.read = NoNames]
    /\ UNCHANGED <<config, name, shown, webNames, write, rename, stall,
                   lastName, failures>>

\* The PoE page fails; ask the switch for its identity
WebFails ==
    /\ poll.pc = "web"
    /\ Fails
    /\ poll' = [poll EXCEPT !.pc = "reach"]
    /\ UNCHANGED <<config, name, shown, api, write, rename, stall, lastName>>

\* A coordinator that never had data is set up anew, and so is its driver
Retry ==
    IF hasData
      THEN UNCHANGED api
      ELSE /\ cache' = NoNames
           /\ loaded' = FALSE
           /\ count' = 0
           /\ webNames' = TRUE

\* The password is rejected: ConfigEntryAuthFailed
WebAuthFails ==
    /\ poll.pc = "web"
    /\ Fails
    /\ poll' = [IdlePoll EXCEPT !.pc = "lapsed"]
    /\ IF hasData
         THEN UNCHANGED stall
         ELSE ResetStall
    /\ Retry
    /\ UNCHANGED <<config, name, shown, write, rename, lastName>>

\* The switch is reachable, so its PoE read is stalled; keep the data there is
Stalls ==
    /\ poll.pc = "reach"
    /\ CountStall
    /\ poll' = [poll EXCEPT !.pc = AfterWeb, !.from = "stall"]
    /\ UNCHANGED <<config, name, shown, api, write, rename, lastName,
                   failures>>

\* It is not: UpdateFailed
Unreachable ==
    /\ poll.pc = "reach"
    /\ Fails
    /\ ResetStall
    /\ poll' = IdlePoll
    /\ Retry
    /\ UNCHANGED <<config, name, shown, write, rename, lastName>>

\* async_get_port_info reads ifAlias, or answers with no names at all
InfoRead ==
    /\ poll.pc = "info"
    /\ poll' = [poll EXCEPT !.pc = "store", !.read = name]
    /\ UNCHANGED <<config, name, shown, api, write, rename, stall, lastName,
                   failures>>

InfoQuiet ==
    /\ poll.pc = "info"
    /\ Fails
    /\ poll' = [poll EXCEPT !.pc = "store", !.read = NoNames]
    /\ UNCHANGED <<config, name, shown, api, write, rename, stall, lastName>>

NoneRead == poll.read = NoNames

\* The first poll over SNMP brought no names: make the web read instead
StoreFirst ==
    /\ poll.pc = "store"
    /\ poll.from = "snmp"
    /\ NoneRead
    /\ ~hasData
    /\ poll' = [poll EXCEPT !.pc = "web"]
    /\ UNCHANGED <<config, name, shown, api, write, rename, stall, lastName,
                   failures>>

\* Mutant: a port that has an alias keeps it
OverlayUnnamed(old) ==
    [p \in Ports |-> IF old[p] # Unnamed THEN old[p] ELSE poll.read[p]]

\* A name SNMP brought, else the alias there was
Overlay(old) ==
    [p \in Ports |-> IF poll.read[p] # Unnamed THEN poll.read[p] ELSE old[p]]

\* _async_snmp_poe_data: a port without earlier data is unnamed
StoreSnmp ==
    /\ poll.pc = "store"
    /\ poll.from = "snmp"
    /\ ~NoneRead \/ hasData
    /\ alias' = Overlay([p \in Ports |-> IF alias[p] = Missing THEN Unnamed
                                                               ELSE alias[p]])
    /\ hasData' = TRUE
    /\ ResetStall
    /\ poll' = IdlePoll
    /\ UNCHANGED <<config, name, api, write, rename, lastName, failures>>

\* _apply_link_info stops and restarts the reads of the web UI's name page
SwitchNamePage == webNames' = IF snmp THEN NoneRead ELSE webNames

StoreWeb ==
    /\ poll.pc = "store"
    /\ poll.from = "web"
    /\ alias' = Overlay(poll.alias)
    /\ hasData' = TRUE
    /\ SwitchNamePage
    /\ ResetStall
    /\ poll' = IdlePoll
    /\ UNCHANGED <<config, name, cache, loaded, count, write, rename,
                   lastName, failures>>

\* A stalled poll overlays the names on the data already shown
StoreStalled ==
    /\ poll.pc = "store"
    /\ poll.from = "stall"
    /\ alias' = [p \in Ports |-> IF alias[p] = Missing THEN Missing
                                                       ELSE Overlay(alias)[p]]
    /\ hasData' = TRUE
    /\ SwitchNamePage
    /\ poll' = IdlePoll
    /\ UNCHANGED <<config, name, cache, loaded, count, write, rename, stall,
                   lastName, failures>>

PollStep ==
    \/ PollStart
    \/ SnmpPoe
    \/ SnmpPoeFails
    \/ WebFetch
    \/ WebNoFetch
    \/ WebFetched
    \/ WebFails
    \/ WebAuthFails
    \/ Stalls
    \/ Unreachable
    \/ InfoRead
    \/ InfoQuiet
    \/ StoreFirst
    \/ StoreSnmp
    \/ StoreWeb
    \/ StoreStalled

-----------------------------------------------------------------------------
(***************************************************************************)
(* A JSON PoE write reads the PoE page first, with the same async_get_data *)
(***************************************************************************)
WriteReads ==
    /\ driver = "json"
    /\ hasData
    /\ write.pc = "idle"
    /\ IF FetchDue
         THEN write' = [pc |-> "fetched", read |-> name] /\ UNCHANGED count
         ELSE count' = NextCount /\ UNCHANGED write
    /\ UNCHANGED <<config, name, shown, cache, loaded, webNames, poll,
                   rename, stall, lastName, failures>>

WriteFetched ==
    /\ write.pc = "fetched"
    /\ CacheNames(write.read)
    /\ count' = NextCount
    /\ write' = IdleWrite
    /\ UNCHANGED <<config, name, shown, webNames, poll, rename, stall,
                   lastName, failures>>

-----------------------------------------------------------------------------
(***************************************************************************)
(* Renaming a port                                                         *)
(***************************************************************************)
\* The switch has a new description for p, or none
Describe(p, to) ==
    /\ to = Unnamed \/ to = lastName + 1
    /\ to \in Names
    /\ to # name[p]
    /\ name' = [name EXCEPT ![p] = to]
    /\ lastName' = IF to = Unnamed THEN lastName ELSE to

\* Somebody else renames a port, in the switch's own web UI
SwitchRenames(p, to) ==
    /\ Describe(p, to)
    /\ UNCHANGED <<config, shown, api, poll, write, rename, stall, failures>>

\* set_port_name: the switch executes the form post
RenameLands(p, to) ==
    /\ hasData
    /\ rename = IdleRename
    /\ Describe(p, to)
    /\ rename' = [pc |-> "sent", port |-> p, to |-> to]
    /\ UNCHANGED <<config, shown, api, poll, write, stall, failures>>

\* Its answer arrives: the driver's cache and the entity's alias follow
RenameReturns ==
    /\ rename.pc = "sent"
    /\ rename' = IdleRename
    /\ cache' = [cache EXCEPT ![rename.port] = rename.to]
    /\ alias' = IF alias[rename.port] = Missing
                  THEN alias
                  ELSE [alias EXCEPT ![rename.port] = rename.to]
    /\ UNCHANGED <<config, name, hasData, loaded, count, webNames, poll,
                   write, stall, lastName, failures>>

\* The answer is lost: the action fails although the port is renamed
RenameFails ==
    /\ rename.pc = "sent"
    /\ Fails
    /\ rename' = IdleRename
    /\ UNCHANGED <<config, name, shown, api, poll, write, stall, lastName>>

-----------------------------------------------------------------------------
Next ==
    \/ PollStep
    \/ PollWanted
    \/ WriteReads
    \/ WriteFetched
    \/ \E p \in Ports, to \in Names :
          SwitchRenames(p, to) \/ RenameLands(p, to)
    \/ RenameReturns
    \/ RenameFails

Spec == Init /\ [][Next]_vars

(***************************************************************************)
(* The coordinator keeps polling as long as the password is accepted       *)
(* (Coordinator's PollingStaysArmed) and every request ends; nobody has to *)
(* ask for the poll that is not due.                                       *)
(***************************************************************************)
FairSpec ==
    /\ Spec
    /\ WF_vars(PollStep)
    /\ WF_vars(WriteFetched)
    /\ WF_vars(RenameReturns)

-----------------------------------------------------------------------------
(***************************************************************************)
(* Properties                                                              *)
(***************************************************************************)
(***************************************************************************)
(* The stall sensor is on exactly when Threshold polls stalled with none   *)
(* in between that read PoE, over either path, or found the switch gone;   *)
(* whichever way those polls took through SNMP, web and set-up retries.    *)
(***************************************************************************)
StallFlagEarned == stalled <=> streak = Threshold

(***************************************************************************)
(* _apply_link_info: a hung agent "leaves each port on the web CGI name    *)
(* the API already set rather than blanking it" (__init__.py:190-192), for *)
(* the names "stay cached on the API", "so the fallback is in place before *)
(* it is ever needed" (202-204).  While the reads of the name page are off *)
(* no poll takes away a name the port has and is shown with.  (SNMP's      *)
(* names turn the reads off even if the page was never read.)              *)
(***************************************************************************)
NamesNotBlanked ==
    [][\A p \in Ports :
           ~webNames /\ poll.pc = "store" /\ alias[p] = name[p]
               /\ name[p] # Unnamed => alias'[p] # Unnamed]_vars

(***************************************************************************)
(* Once the switch is left alone and answers, every port that has a name   *)
(* is shown with it, through failed name pages, stale caches, renames that *)
(* overtake a fetch, lost answers and a switch that was stalled at start,  *)
(* unless polling has ended for a rejected password.                       *)
(***************************************************************************)
NamesConverge ==
    \A p \in Ports :
        <>[](poll.pc = "lapsed" \/ (name[p] # Unnamed => alias[p] = name[p]))
=============================================================================
