--------------------------- MODULE EntryLifecycle ---------------------------
(***************************************************************************)
(* How config entries are set up and unloaded, and what they hold in the   *)
(* meantime: the driver's web session at the switch, the SNMP trap port    *)
(* that all entries share, the subscription to a trap bridge.  Home        *)
(* Assistant runs the set-ups of different entries side by side, those of  *)
(* one entry after each other; each entry has a switch of its own, which   *)
(* grants a few sessions and forgets those nobody uses.                    *)
(*                                                                         *)
(* No name is also one of ConfigEntries, so that one module can extend     *)
(* both: there the entries come to be that are set up here.                *)
(***************************************************************************)
EXTENDS Naturals

CONSTANTS
    Entries,  \* the config entries
    NoEntry,  \* not an entry: the trap port is free
    Modes,    \* the trap modes they may have: functions on Entries
    Legacy,   \* the entries whose driver does not log out, see Close
    Slots,    \* web sessions a switch keeps at a time
    Lossy     \* answers to logins and logouts may be lost

ASSUME EntryLifecycleAssumption ==
    /\ NoEntry \notin Entries
    /\ Modes \subseteq [Entries -> {"local", "mqtt", "disabled"}]
    /\ Legacy \subseteq Entries
    /\ Slots \in Nat \ {0}
    /\ Lossy \in BOOLEAN

VARIABLES
    mode,   \* mode[e]: resolve_trap_mode
    pc,     \* pc[e]: where its set-up is
    asked,  \* the entries whose password the user is asked for
    port,   \* the entry whose receiver listens on UDP 162
    subs,   \* the entries that have subscribed over MQTT
    stale,  \* the entries whose password the switch no longer takes
    held,   \* the entries whose driver owns a session of their switch
    ours,   \* ours[e]: sessions the switch keeps for the integration
    theirs, \* theirs[e]: sessions it keeps for others
    lost,   \* history: how many came to be nobody's or others', up to Slots
    unlucky \* history: the entries that are asked because of a Mishap

lifecycleVars == <<mode, pc, asked, port, subs, stale, held, ours, theirs,
                   lost, unlucky>>
traps == <<port, subs>>
sessions == <<held, ours, theirs, lost>>
prompts == <<asked, unlucky>>

(***************************************************************************)
(* idle: to be set up.  info, refresh, traps, forward: the first read, the *)
(* first poll, the trap receiver and the platforms are next.  drop: the    *)
(* driver is closed after a failed read.  retry: to be set up again later. *)
(* failed: not until the user has acted.  close, stop: unloading; the      *)
(* driver, then the receiver are next.  stuck: unloading was refused.      *)
(* off: disabled.                                                          *)
(***************************************************************************)
Pcs == {"idle", "info", "refresh", "traps", "forward", "drop", "retry",
        "failed", "loaded", "close", "stop", "stuck", "off"}

LifecycleTypeOK ==
    /\ mode \in Modes
    /\ pc \in [Entries -> Pcs]
    /\ asked \subseteq Entries
    /\ \A e \in Entries : pc[e] = "failed" => e \in asked
    /\ port \in Entries \union {NoEntry}
    /\ port # NoEntry => mode[port] = "local"
    /\ subs \subseteq {e \in Entries : mode[e] = "mqtt"}
    /\ stale \subseteq Entries
    /\ held \subseteq Entries
    /\ {ours, theirs, lost} \subseteq [Entries -> 0 .. Slots]
    /\ \A e \in Entries : ours[e] + theirs[e] <= Slots
    /\ \A e \in held : ours[e] > 0
    /\ unlucky \subseteq asked

\* Home Assistant has started; the switches know nobody
LifecycleInit ==
    /\ mode \in Modes
    /\ pc = [e \in Entries |-> "idle"]
    /\ asked = {}
    /\ port = NoEntry
    /\ subs = {}
    /\ stale = {}
    /\ held = {}
    /\ ours = [e \in Entries |-> 0]
    /\ theirs = [e \in Entries |-> 0]
    /\ lost = [e \in Entries |-> 0]
    /\ unlucky = {}

Goto(e, at) == pc' = [pc EXCEPT ![e] = at]

-----------------------------------------------------------------------------
(***************************************************************************)
(* Sessions                                                                *)
(***************************************************************************)
\* The switch of e grants a login with the entry's password
Free(e) == ours[e] + theirs[e] < Slots
Granted(e) == e \notin stale /\ Free(e)

Opened(e) == ours' = [ours EXCEPT ![e] = @ + 1]
Ended(e) == ours' = [ours EXCEPT ![e] = @ - 1]
More(n) == IF n < Slots THEN n + 1 ELSE n
Lost(e) == lost' = [lost EXCEPT ![e] = More(@)]

\* The driver logs in
LogsIn(e) ==
    /\ e \notin held
    /\ Granted(e)
    /\ Opened(e)
    /\ held' = held \union {e}
    /\ UNCHANGED <<theirs, lost>>

\* It does, but does not learn of the session it is granted
LogsInUnawares(e) ==
    /\ e \notin held
    /\ Granted(e)
    /\ Opened(e)
    /\ Lost(e)
    /\ UNCHANGED <<held, theirs>>

\* The driver's session, if it has one, is nobody's from now on
Abandoned(e) ==
    /\ held' = held \ {e}
    /\ IF e \in held THEN Lost(e) ELSE UNCHANGED lost
    /\ UNCHANGED <<ours, theirs>>

\* The switch ends the driver's session, if it has one
DriverLosesIt(e) ==
    /\ held' = held \ {e}
    /\ IF e \in held THEN Ended(e) ELSE UNCHANGED ours
    /\ UNCHANGED <<theirs, lost>>

\* Mutant: the driver goes on with the session it has ended
CloseHolding(e) ==
    \/ e \in held \ Legacy /\ Ended(e) /\ UNCHANGED <<held, theirs, lost>>
    \/ (e \notin held \ Legacy \/ Lossy) /\ Abandoned(e)

(***************************************************************************)
(* api.async_close: a driver that holds a session logs out.  The legacy    *)
(* driver just forgets it, and so do the others if the switch does not     *)
(* hear the request.                                                       *)
(***************************************************************************)
Close(e) ==
    \/ e \in held \ Legacy /\ DriverLosesIt(e)
    \/ (e \notin held \ Legacy \/ Lossy) /\ Abandoned(e)

\* A request that needs a session, with the login if there is none, succeeds
Answered(e) ==
    \/ e \in held /\ UNCHANGED sessions
    \/ LogsIn(e)

(***************************************************************************)
(* NetgearAuthError though the password may be right and a slot free: the  *)
(* session was dropped twice within one request, or the switch did not     *)
(* grant one in five polls and may do so later, or it answered oddly.      *)
(***************************************************************************)
Mishap(e) ==
    /\ \/ DriverLosesIt(e)
       \/ LogsInUnawares(e)
    /\ unlucky' = unlucky \union {e}

(***************************************************************************)
(* NetgearAuthError, and the user is asked for the password: the login is  *)
(* refused because it is wrong or no slot is free, which the drivers       *)
(* cannot tell apart, or a mishap looks the same.                          *)
(***************************************************************************)
Refused(e) ==
    /\ \/ e \notin held /\ ~Granted(e) /\ UNCHANGED <<sessions, unlucky>>
       \/ Mishap(e)
    /\ asked' = asked \union {e}

-----------------------------------------------------------------------------
(***************************************************************************)
(* async_setup_entry                                                       *)
(***************************************************************************)
\* async_detect_api: a new driver, which knows of no session of an older one
Detected(e) ==
    /\ pc[e] \in {"idle", "retry"}
    /\ Abandoned(e)
    /\ Goto(e, "info")
    /\ UNCHANGED <<mode, prompts, traps, stale>>

NotDetected(e) ==
    /\ pc[e] \in {"idle", "retry"}
    /\ Goto(e, "retry")
    /\ UNCHANGED <<mode, prompts, sessions, traps, stale>>

\* async_get_info logs in and reads
InfoRead(e) ==
    /\ pc[e] = "info"
    /\ Answered(e)
    /\ Goto(e, "refresh")
    /\ UNCHANGED <<mode, prompts, traps, stale>>

\* Home Assistant does not try again; there is no session left to close
InfoRefused(e) ==
    /\ pc[e] = "info"
    /\ Refused(e)
    /\ Goto(e, "failed")
    /\ UNCHANGED <<mode, traps, stale>>

\* No answer: to the login, which the switch may have granted, or the read
InfoFails(e) ==
    /\ pc[e] = "info"
    /\ \/ UNCHANGED sessions
       \/ Lossy /\ LogsInUnawares(e)
       \/ LogsIn(e)
    /\ Goto(e, "drop")
    /\ UNCHANGED <<mode, prompts, traps, stale>>

\* Mutant: the driver is dropped without closing it
DroppedOpen(e) ==
    /\ pc[e] = "drop"
    /\ held' = held \ {e}
    /\ Goto(e, "retry")
    /\ UNCHANGED <<mode, prompts, ours, theirs, lost, traps, stale>>

Dropped(e) ==
    /\ pc[e] = "drop"
    /\ Close(e)
    /\ Goto(e, "retry")
    /\ UNCHANGED <<mode, prompts, traps, stale>>

\* The first poll, over SNMP or the web
Refreshed(e) ==
    /\ pc[e] = "refresh"
    /\ UNCHANGED sessions \/ LogsIn(e)
    /\ Goto(e, "traps")
    /\ UNCHANGED <<mode, prompts, traps, stale>>

\* It fails, and the driver is dropped without being closed
RefreshFails(e) ==
    /\ pc[e] = "refresh"
    /\ Abandoned(e) \/ LogsInUnawares(e)
    /\ Goto(e, "retry")
    /\ UNCHANGED <<mode, prompts, traps, stale>>

RefreshRefused(e) ==
    /\ pc[e] = "refresh"
    /\ Refused(e)
    /\ Goto(e, "failed")
    /\ UNCHANGED <<mode, traps, stale>>

\* Mutant: without the trap port, the set-up is put off
BindOrRetry(e) ==
    /\ pc[e] = "traps"
    /\ mode[e] = "local"
    /\ IF port = NoEntry
         THEN port' = e /\ Goto(e, "forward") /\ UNCHANGED sessions
         ELSE Close(e) /\ Goto(e, "retry") /\ UNCHANGED port
    /\ UNCHANGED <<mode, prompts, subs, stale>>

(***************************************************************************)
(* _async_setup_traps: when the port cannot be bound, another entry's      *)
(* receiver has it or the process must not, the entry polls only.          *)
(***************************************************************************)
Bind(e) ==
    /\ pc[e] = "traps"
    /\ mode[e] = "local"
    /\ \/ port = NoEntry /\ port' = e
       \/ UNCHANGED port
    /\ Goto(e, "forward")
    /\ UNCHANGED <<mode, prompts, sessions, subs, stale>>

\* async_setup_mqtt_traps: without a broker, the entry polls only
Subscribe(e) ==
    /\ pc[e] = "traps"
    /\ mode[e] = "mqtt"
    /\ subs' = subs \union {e} \/ UNCHANGED subs
    /\ Goto(e, "forward")
    /\ UNCHANGED <<mode, prompts, sessions, port, stale>>

NoTraps(e) ==
    /\ pc[e] = "traps"
    /\ mode[e] = "disabled"
    /\ Goto(e, "forward")
    /\ UNCHANGED <<mode, prompts, sessions, traps, stale>>

\* async_forward_entry_setups
Loaded(e) ==
    /\ pc[e] = "forward"
    /\ Goto(e, "loaded")
    /\ UNCHANGED <<mode, prompts, sessions, traps, stale>>

(***************************************************************************)
(* A poll or a call of the loaded entry, or a poll that a trap asks for    *)
(* between the closing of the driver and that of the receiver: the driver  *)
(* logs in, also the closed one.                                           *)
(***************************************************************************)
Poll(e) ==
    /\ \/ pc[e] \in {"loaded", "stuck"}
       \/ pc[e] = "stop" /\ (port = e \/ e \in subs)
    /\ \/ LogsIn(e) /\ UNCHANGED prompts
       \/ Lossy /\ LogsInUnawares(e) /\ UNCHANGED prompts
       \/ Refused(e)
    /\ UNCHANGED <<mode, pc, traps, stale>>

-----------------------------------------------------------------------------
(***************************************************************************)
(* async_unload_entry, for a reload or because the entry is disabled       *)
(***************************************************************************)
\* async_unload_platforms; if it refuses, everything stays as it is
Unload(e) ==
    /\ pc[e] = "loaded"
    /\ Goto(e, "close") \/ Goto(e, "stuck")
    /\ UNCHANGED <<mode, prompts, sessions, traps, stale>>

\* Mutant: a logout that fails ends the unloading
CloseApiOrRaise(e) ==
    /\ pc[e] = "close"
    /\ Close(e)
    /\ Goto(e, IF lost' = lost THEN "stop" ELSE "off")
    /\ UNCHANGED <<mode, prompts, traps, stale>>

CloseApi(e) ==
    /\ pc[e] = "close"
    /\ Close(e)
    /\ Goto(e, "stop")
    /\ UNCHANGED <<mode, prompts, traps, stale>>

(***************************************************************************)
(* A trap while the logout is in flight: the poll it asks for finds the    *)
(* session gone and logs in anew, and the end of the logout makes the      *)
(* driver forget that session.                                             *)
(***************************************************************************)
LateTrap(e) ==
    /\ pc[e] = "close"
    /\ port = e \/ e \in subs
    /\ e \in held \ (Legacy \union stale)
    /\ held' = held \ {e}
    /\ Lost(e)
    /\ Goto(e, "stop")
    /\ UNCHANGED <<mode, prompts, ours, theirs, traps, stale>>

\* async_stop, or the unsubscribe function
Unloaded(e) ==
    /\ pc[e] = "stop"
    /\ port' = IF port = e THEN NoEntry ELSE port
    /\ subs' = subs \ {e}
    /\ Goto(e, "idle") \/ Goto(e, "off")
    /\ UNCHANGED <<mode, prompts, sessions, stale>>

Enable(e) ==
    /\ pc[e] = "off"
    /\ Goto(e, "idle")
    /\ UNCHANGED <<mode, prompts, sessions, traps, stale>>

(***************************************************************************)
(* async_step_reauth_confirm: the password is tried with a driver of its   *)
(* own, which is closed, stored, and the entry reloaded.                   *)
(***************************************************************************)
Reauth(e) ==
    /\ e \in asked
    /\ Free(e)
    /\ \/ e \notin Legacy /\ UNCHANGED sessions
       \/ (e \in Legacy \/ Lossy) /\ Opened(e) /\ Lost(e)
          /\ UNCHANGED <<held, theirs>>
    /\ stale' = stale \ {e}
    /\ asked' = asked \ {e}
    /\ unlucky' = unlucky \ {e}
    /\ \/ pc[e] = "loaded" /\ (Goto(e, "close") \/ Goto(e, "stuck"))
       \/ pc[e] \in {"failed", "retry"} /\ Goto(e, "idle")
       \/ pc[e] \in {"stuck", "off"} /\ UNCHANGED pc
    /\ UNCHANGED <<mode, traps>>

-----------------------------------------------------------------------------
(***************************************************************************)
(* Home Assistant stops, which unloads nothing, and starts again           *)
(***************************************************************************)
HassRestart ==
    /\ pc' = [e \in Entries |-> IF pc[e] = "off" THEN "off" ELSE "idle"]
    /\ asked' = {}
    /\ unlucky' = {}
    /\ held' = {}
    /\ lost' = [e \in Entries |->
                   IF e \in held THEN More(lost[e]) ELSE lost[e]]
    /\ port' = NoEntry
    /\ subs' = {}
    /\ UNCHANGED <<mode, stale, ours, theirs>>

\* A user logs in to the web UI
WebLogin(e) ==
    /\ Free(e)
    /\ theirs' = [theirs EXCEPT ![e] = @ + 1]
    /\ Lost(e)
    /\ UNCHANGED <<mode, pc, prompts, held, ours, traps, stale>>

\* The switch forgets a session: a user's, an abandoned one, the driver's
Expire(e) ==
    /\ \/ /\ theirs[e] > 0
          /\ theirs' = [theirs EXCEPT ![e] = @ - 1]
          /\ UNCHANGED <<held, ours, lost>>
       \/ /\ ours[e] > (IF e \in held THEN 1 ELSE 0)
          /\ Ended(e)
          /\ UNCHANGED <<held, theirs, lost>>
       \/ e \in held /\ DriverLosesIt(e)
    /\ UNCHANGED <<mode, pc, prompts, traps, stale>>

\* The password is changed at the switch
NewPassword(e) ==
    /\ stale' = stale \union {e}
    /\ UNCHANGED <<mode, pc, prompts, sessions, traps>>

-----------------------------------------------------------------------------
SetUp(e) ==
    \/ Detected(e) \/ NotDetected(e)
    \/ InfoRead(e) \/ InfoRefused(e) \/ InfoFails(e) \/ Dropped(e)
    \/ Refreshed(e) \/ RefreshFails(e) \/ RefreshRefused(e)
    \/ Bind(e) \/ Subscribe(e) \/ NoTraps(e)
    \/ Loaded(e) \/ Poll(e)

TakeDown(e) == Unload(e) \/ CloseApi(e) \/ LateTrap(e) \/ Unloaded(e)

Environment(e) ==
    Enable(e) \/ Reauth(e) \/ WebLogin(e) \/ Expire(e) \/ NewPassword(e)

LifecycleNext ==
    \/ \E e \in Entries : SetUp(e) \/ TakeDown(e) \/ Environment(e)
    \/ HassRestart

LifecycleSpec == LifecycleInit /\ [][LifecycleNext]_lifecycleVars

(***************************************************************************)
(* What is under way goes on, and Home Assistant retries.  A switch that   *)
(* is asked again and again answers now and then.  Users owe nothing.      *)
(***************************************************************************)
UnderWay(e) ==
    \/ Detected(e) \/ Dropped(e)
    \/ Bind(e) \/ Subscribe(e) \/ NoTraps(e) \/ Loaded(e)
    \/ CloseApi(e) \/ Unloaded(e)

LifecycleFairSpec ==
    /\ LifecycleSpec
    /\ \A e \in Entries :
           /\ WF_lifecycleVars(UnderWay(e))
           /\ SF_lifecycleVars(InfoRead(e) \/ InfoRefused(e))
           /\ SF_lifecycleVars(Refreshed(e) \/ RefreshRefused(e))

-----------------------------------------------------------------------------
(***************************************************************************)
(* Properties                                                              *)
(***************************************************************************)
\* The entry is not set up, nor on its way up or down
Down(e) == pc[e] \in {"idle", "retry", "failed", "off"}

(***************************************************************************)
(* An entry that is not set up, for whatever reason, keeps neither the     *)
(* trap port from the others nor a subscription, also when the set-up      *)
(* failed half way or the logout did.                                      *)
(***************************************************************************)
NothingLeftBehind ==
    \A e \in Entries : Down(e) => port # e /\ e \notin subs

(***************************************************************************)
(* A user is asked for a password that is still right only after a mishap, *)
(* or when the switch's slots have been lost one by one: to logins and     *)
(* logouts without an answer, failed first polls, restarts, closed legacy  *)
(* drivers, traps during a logout and logins of users.  Attempts that end  *)
(* well, and those that fail otherwise, cost no slot.  (That the user is   *)
(* then told of a rejected password, and that sessions are left behind at  *)
(* all, is not what is promised: PromptIsAboutPassword, SlotFreed and      *)
(* HoldsOneSession.)                                                       *)
(***************************************************************************)
PromptExplained ==
    \A e \in asked \ stale : lost[e] = Slots \/ e \in unlucky

(***************************************************************************)
(* An entry always gets loaded, unless the user has to act: it is          *)
(* disabled, could not be unloaded, or asks for its password; or unless    *)
(* Home Assistant is restarted for ever.  Another entry that has the trap  *)
(* port does not stand in the way.                                         *)
(***************************************************************************)
SetupLoads ==
    <>[][~HassRestart]_lifecycleVars =>
        \A e \in Entries :
            []<>(pc[e] \in {"loaded", "off", "stuck", "failed"})

(***************************************************************************)
(* "The switch rejected the password. Please update it." (strings.json:40) *)
(* Violated: __init__.py:107 and :435 ask for it after any                 *)
(* NetgearAuthError, and those come of full slots and of mishaps, too.     *)
(***************************************************************************)
PromptIsAboutPassword == asked \subseteq stale

(***************************************************************************)
(* "... logs out of the switch as it unloads so it does not hold a session *)
(* slot" (README.md:173).  Violated by the legacy driver, which does not.  *)
(***************************************************************************)
SlotFreed == \A e \in Entries : pc[e] = "off" => ours[e] = 0

(***************************************************************************)
(* "The integration holds one session" (README.md:220), whose slots are    *)
(* few.  Violated when the first poll fails, by the driver that is dropped *)
(* open, though every answer arrives and every driver can log out.         *)
(***************************************************************************)
HoldsOneSession == \A e \in Entries : ours[e] <= 1
=============================================================================
