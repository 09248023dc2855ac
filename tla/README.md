# netgear_poe in TLA+

Specifications of the Home Assistant integration `netgear_poe`
(`src/custom_components/netgear_poe/`), model-checked with TLC and, in part,
proved with TLAPS. Paths below are relative to that directory unless they
start with `README.md` or `tests/`, which are the repository's own.

1. [The system](#1-the-system)
2. [Modules](#2-modules)
3. [Runs](#3-runs)
4. [Fairness](#4-fairness)
5. [Proofs](#5-proofs)
6. [Where code and documentation part](#6-where-code-and-documentation-part)
7. [What is not modelled](#7-what-is-not-modelled)
8. [Plan](#8-plan)

## 1. The system

One Home Assistant event loop runs, per configured switch, a driver, an
optional SNMP link monitor, a coordinator and the entities. A step of a model
is what the event loop runs between two awaits, or what the switch does by
itself.

| Component | State | Operations | Talks to |
|---|---|---|---|
| Drivers: `api.py` (JSON CGI), `api_json_v2.py` (aj4 dialect), `api_legacy.py` (xui), `api_base_ui.py` (classic and S350) | session (`_xsid_header`, `_cookie`, `_logged_in`), `_login_lock`, xsrf token, name cache and poll count, port-edit and VLAN locks | PoE read and write, power cycle, names, speed, VLANs, firmware, reboot, logout | the switch over HTTP; every task of the entry shares one driver |
| SNMP link monitor: `snmp.py` | known rows and their age per column, `poe_supported`, `_power_oid`, `_power_skip` | PoE read, link and name read, PoE write, power cycle | the agent over UDP |
| Coordinator: `__init__.py` | `data`, stall count and flag, `update_interval`; timer and debouncer in Home Assistant | poll, link trap, name-page switch | driver, monitor, entities |
| Entities: `switch.py`, `button.py`, `update.py`, `entity.py` | optimistic state, installed version, install progress | turn on/off, power cycle, reboot, port services, firmware install | coordinator, driver, monitor |
| Traps: `trap_receiver.py`, `mqtt_traps.py` | socket on UDP 162 or subscription | link up/down, PoE change | coordinator |
| Set-up: `__init__.py` | what an entry holds: driver, receiver, platforms | set-up, unload, reload | driver, receiver, Home Assistant |
| Discovery: `config_flow.py`, `nsdp.py`, `__init__.py` | config entries, open flows, the scan loop | scan, SSDP, add, confirm, reauthenticate, reconfigure | the network, users, set-up |

What is hard about it:

- **concurrency**: the switch and the button platforms each run one action at
  a time (`PARALLEL_UPDATES = 1`) but run beside each other, beside polls,
  beside traps and beside an install;
- **requests without an answer**: the switch may execute a request whose
  sender saw an error, at once or later; a lost connection is how a reboot
  normally ends;
- **state that must be undone**: a port held down during a power cycle,
  polling suspended for an install, a slot set to boot;
- **forms posted whole**: a VLAN map, a port's row, the S350's PoE table carry
  every other cell at the value it was read with;
- **identity**: a discovered switch is its MAC, one added by hand the host that
  was typed, and addresses change under both;
- **caches**: port names, SNMP rows, the session, each refreshed on its own
  schedule and switched off by another component;
- **few session slots** at the switch, with an idle timeout of minutes.

Correct means: nobody's device is left without power without a reason that is
known (PoE control); the entry is polled until somebody has to be asked, and
shows the switch's state in the end (coordinator, poll data, SNMP reader); a
switch can always boot a whole image (firmware); requests end, and end in an
authentication error only for a reason (sessions); changing one setting changes
no other (port settings); a switch is set up once and stays reachable
(discovery); an entry that is not loaded holds nothing (set-up).

## 2. Modules

| Module | Models | Checked by | Proved in |
|---|---|---|---|
| `PortPower` | turn on/off, power cycle over web and SNMP, the fallback between them | `MCPortPower` | `PortPowerProofs` |
| `Coordinator` | refresh, timer, debouncer, traps, optimistic writes, install suspending polling | `MCCoordinator` | `CoordinatorProofs` |
| `PollData` | which reads a poll makes, port names and their caches, stall detection | `MCPollData` | `PollDataProofs` |
| `SnmpReader` | rows kept per column, PSE support, vendor power tables | `MCSnmpReader` | `SnmpReaderProofs` |
| `Session` | login, lock, re-login, tokens, the reboot button, logout | `MCSession` | `SessionProofs` |
| `PortSettings` | VLAN map, port page and PoE page as forms posted whole | `MCPortSettings` | `PortSettingsProofs` |
| `ConfigEntries` | NSDP scan, SSDP, discovered flows, entries and their hosts | `MCConfigEntries` | `EntryProofs` |
| `EntryLifecycle` | set-up, unload, reauthentication; sessions, trap port, subscriptions | `MCEntryLifecycle` | `EntryProofs` |
| `FirmwareInstall` | the four drivers' installs and the switch's two flash slots | `MCFirmwareInstall` | `FirmwareInstallProofs` |
| `FirmwareUpgrade` | abstract: what an install promises | refined by `FirmwareInstall` | `FirmwareInstallProofs` |

The modules meet at named assumptions rather than by composing state:
`PollData` and `SnmpReader` are fair to the poll because `Coordinator` shows
that polling stays armed; `PortPower`, `PortSettings` and `Session` treat a
request that ends in a timeout as one the switch may have executed;
`EntryLifecycle` counts the sessions whose use `Session` details, and begins
where an entry of `ConfigEntries` is set up.

### PortPower

`admin` is the switch's PoE setting per port. `toggle` is the switch platform's
running `_async_set_enabled` (`switch.py:293-315`), `cycle` the button
platform's `async_press` (`button.py:90-110`) with the restore loop it runs
(`api_base_ui.py:590-605`, `api_legacy.py:586-601`, `snmp.py:417-434`; the JSON
drivers have a native reset, constant `Native`). A write is *sent*, *executed*
(`ToggleLand`, `CycleLand`) and *answered*, so its answer may be lost after
execution; `GiveUp` may leave it in `late`, to be executed at any time. `faults`
and `writer` are history: why a port that a cycle left dark is dark.
`CycleCancelledAsleep` runs the `finally` clause; `CycleCancelled` is a
cancellation anywhere else; `Crash` forgets both tasks.

The write of the S350 posts the table of all ports; here it is the write of one
(its table is in `PortSettings`).

### Coordinator

`refresh` is the poll in progress (`_async_update_data`, one action per await),
`timer`, `cool` and `atEnd` are Home Assistant's scheduled refresh and
debouncer, modelled from how the integration relies on them: a refresh takes
the lock, unschedules the timer and cancels the cooldown; a request during a
refresh is dropped, during a cooldown postponed; the end of a refresh schedules
the next one while `update_interval` is set. `TrapArrives` is
`apply_link_trap`, `CallReturns` the optimistic write, `InstallStart` and
`InstallFails` the suspension in `update.py:142-171`. `lapse` is history: why
no further refresh is due.

### PollData

A name is the number of the renaming that gave it. `api` holds the driver's
cache (`_port_names`, `_poll_count`, `web_port_names_enabled`; the classic
driver's `_port_names_loaded`), `alias` what `coordinator.data` shows, `poll`
the poll between two awaits, `write` the name-page fetch a JSON PoE write does
on the way, `rename` the service call. `streak` is history: stalled polls in a
row. The S350 never has names over the web and the legacy driver keeps no cache;
both are left out.

### SnmpReader

`rows[col]` and `reads[col]` are `_rows` and `_reads`; `has[col]` is what the
agent would answer; `hangs` the vendor tables it never answers for. `Answers`
and `Raises` are the two ways out of `_read` (`snmp.py:219-248`): a GET of known
rows, or a fresh read, which is a walk for `oper` and `alias` and a GET of
candidate rows otherwise. Only the presence of rows is modelled.

### Session

A session is the number of the login that got it; `live` are those in the
switch's slots. `queue` is `_login_lock`: its holder, then the waiters, woken in
order. `task[t]` is a poll, service call or press between two awaits. `Request`
is `_authed_request` or `_request`: JSON drivers take the lock to look at the
header, the others look first; `RejectedOnce` is the one retry; `EmptyTable` the
answer of an evicted session that is not recognised as a rejection
(`api.py:462-473`, `api_legacy.py:388-400`). `LoginRefused` is every way a login
ends in `NetgearAuthError`: full slots, an odd answer, and five polls without a
session, which the switch may grant afterwards (`api.py:387-416`,
`api_legacy.py:306-313`); `LoginFails` is a login whose answers are lost. `token`
is the session whose current xsrf token an aj4 body was built with, none once it
is rotated (`AcceptedRotating`). `losses` and `refused` are history.

### FirmwareInstall

`slots`, `booted`, `next`, `writing`, `queued`, `rebooting` are the switch;
`install` is `async_install_firmware` at its next request. The JSON switch picks
the slot itself, the others are told; the S350 buffers the image and writes it
later, which its driver watches (`FlashPoll…`). `FirmwareUpgrade` says what
whoever depends on the switch needs of any number of installs, finished or cut
short: a restart at any moment finds a complete image, the version changes only
by a restart, and never back. Whoever cannot keep the image to be booted whole
has to say so by `kept`. The refinement maps `boots` to the image in the slot to
be booted and `kept` to `BootImageKept`, which says where the drivers do keep
it: where the driver names the slot, and for as long as the old firmware is to
be booted, in a first install for good.

### PortSettings

A cell is a field of a port; `OnPage` are the cells of the page a behaviour is
about, `FormOf(x)` those a post of `x` carries along: the whole VLAN map
(`api.py:678-726`, `api_legacy.py` likewise), the port's row on the JSON pages,
the whole PoE table on the S350 (`api_base_ui.py:1041-1080`), nothing else on
the legacy and classic ones. `call[c]` runs from `ReadForm` over `Land` (the
switch applies the post, or ignores it) to `VerifyOk`; `Locks` says which pages
have a lock, and `queue` is it. A VLAN member that the switch learned by itself
is `Dynamic`, shown as a member by the legacy driver and posted as a non-member
by all (`Posted`). The legacy driver posts differences only (`Diff`) and a
rename's second post, whose failure it suppresses, is `device`. `GiveUp` may
leave a body in `late`. `stale` and `promise` are history: the cells that were
changed behind a form, and what a verified call vouched for.

### ConfigEntries

A switch stands for its MAC; `addr` is where it is now. `scan` is
`_async_run_discovery` (`__init__.py:328-381`) with the MACs that were configured
as it began and what it `Heard`; `Offer` and `Ssdp` end in `Handle`, which is
`_async_handle_discovery` (`config_flow.py:142-159`) with its three ways out.
A flow keeps the address it was made with until `Confirm`. `AddByHand` and
`Reconfigure` use what was typed, an address or one of `Names`, as unique id and
as host (`config_flow.py:96-98`); `At` resolves a name to the address its switch
has now, while `Handle` compares hosts as they are spelled. `Restart` forgets
flows and scans. `moved` and `blind` are history: addresses that changed hands,
and entries made by hand beside a discovered one.

### EntryLifecycle

`pc[e]` walks through `async_setup_entry` (`__init__.py:411-483`) and
`async_unload_entry` (`:487-499`) an await at a time. `ours[e]` counts the
sessions the switch keeps for the integration, `theirs[e]` those of others, and
`held` are the entries whose driver owns one of `ours`: a session that outlives
its driver (`Abandoned`), or that a driver was granted without learning of it
(`LogsInUnawares`), stays in `ours` until the switch forgets it. `Close` is the
driver's `async_close`, which a legacy driver answers by forgetting;
`RefreshFails` drops a driver that is not closed. `Poll` is a poll or call of a
loaded entry, and also one that a trap asks for between the closing of the
driver and that of the receiver: the closed driver logs in again. `LateTrap` is
a trap while the logout is in flight; the logout's end makes the driver forget
the session the trap's poll has just got. A login is granted while there is a
slot and the password is right (`Granted`). `Refused` is any `NetgearAuthError`:
a login that is not granted, or a `Mishap`, two sessions lost within one request
or a login that the switch was too slow to grant; the drivers cannot tell them
apart, and the user is asked for the password after each (`__init__.py:107`,
`:435`). `port` is the one receiver that can listen on UDP 162. `HassRestart`
unloads nothing, as Home Assistant does not when it stops, and may happen at any
time. `lost` and `unlucky` are history: how many slots came to be nobody's or
others', and the entries that are asked for the password because of a mishap.
The names that `ConfigEntries` has, too, are longer here (`LifecycleSpec`, ...),
so that `EntryProofs` can extend both.

## 3. Runs

Every run explores its whole state space or ends at the violation it is there to
show. A component has one run for the properties that hold; three of them have
another, whose violation shows what the code does instead of what a comment, a
test or the documentation says (section 6).

| Run | Shows | Bounds |
|---|---|---|
| `power` | a port a cycle left dark has an explanation (`DarkOnlyWhenExplained`); the restore loop's counter means what it should (`RestoresCounted`); every press ends; a confirmed OFF is restored | 2 ports, 1 late request |
| `power_dark` | *violation*: one lost answer to the OFF leaves a port dark | 1 port |
| `coordinator` | polling stays armed but for a rejected password and a failed install, no poll is scheduled in an install, one refresh at a time, entities converge | 2 ports, 2 changes at the switch, 2 failed reads |
| `coordinator_install` | *violation*: after a failed install nothing is scheduled | 2 ports, every poll brings data |
| `poll_data` | the stall flag is on exactly after `Threshold` stalled polls in a row; named ports are shown with their names in the end | 1 port, JSON and classic, with and without SNMP, 2 names, 4 failures, `Threshold` 2 as in the code, name page every 2nd poll |
| `snmp_reader` | hung or slow vendor tables are not written off and are found; an agent that settles is read completely, but for a known row that vanished | 2 ports, 1 timeout, 1 row that appears or vanishes, re-walk after 2 reads, back-off 2 |
| `session` | no authentication error without a login that was not granted or two losses, and logins bounded by losses, but for the aj4 dialect; every request ends, on all drivers | 2 tasks; all drivers; 2 slots, 1 loss, 1 unanswered request or login that goes wrong, 1 press, unload |
| `firmware` | the slot to be booted is complete from the last check to the restart and the entity shows what runs, but for repeated installs on the S350; installs end; they implement `FirmwareUpgrade` through crash and power cut | all drivers; 3 installs, 2 power cuts, flash loop of 4 polls with a grace of 2 |
| `settings` | a call changes its own cell, those changed behind it and dynamic members only; a confirmed setting holds; every call ends | aj4 and legacy, every page, 2 ports, 2 calls, another user at one port, 1 late request |
| `settings_others` | *violation*: setting one port changes another | JSON and S350, 2 ports, 2 calls |
| `entries` | two entries lead to one switch only for a reason; no supported switch stays out of sight; switches that announce themselves are followed | 2 switches of 4 kinds, one with a name, 3 addresses, 1 move, 1 restart |
| `lifecycle` | an entry that is down keeps neither port nor subscription; a right password is asked for only after a mishap or when every slot was lost; set-up succeeds in the end or waits for the user | 2 entries, one legacy, that compete for the trap port or use MQTT and no traps; 1 slot each, lost answers, any number of restarts |

Why the bounds suffice. Two ports are one to be worked on and one to be left
alone; no loop goes over ports. The counters of the code that matter are small
(`POE_STALL_THRESHOLD` is 2, three restores, one retry); those that are large
(20 polls, 120 reads, 20 reads, 3 of the polling budgets of an install) are
constants of the models and only their wrap-around matters, which comes round
several times in each run because polls are unbounded. Failures and changes
are bounded in number, not in place: one or two cover every position and every
pair. Two tasks suffice to have one that holds the lock and one that waits, and
one that finds what the other has left. `MaxSessions` is large enough never to
refuse a login that a slot would allow. The aj4 and legacy drivers stand for all
but the S350 in `settings`: the JSON driver's behaviours are aj4's without the
speed call, the classic driver's are legacy's without the second post. Two
switches and a spare address are what it takes to exchange addresses or to
confuse two switches, and to type one by name and the other not. Two entries
compete for the trap port; one slot is enough, since each has a switch of its
own, and makes losing it losing all. That the last of several slots is what
counts is left to `PromptsExplained`, which holds for any number. Three installs
are one that is cut short behind the activation, one that meets what it left,
and one that meets what both left; the S350's grace of two polls leaves it two
more to see a write end.

`CHECK_DEADLOCK FALSE` is said where the system stops: an entry that is
unloaded, installs that are used up, a network on which nothing is found.

The runs check no symmetry because they check liveness.

Each property is also checked against a deliberately broken variant of a
definition it depends on (comments "Mutant:" in the modules): a restore loop
that gives up early, a debouncer that keeps cooling, a retry without a login, a
boot slot that is not verified, a form posted without its lock, an address that
is not updated, a driver that is dropped open, a running slot that counts as the
one to overwrite. The runs that end in a violation need none: there the code is
the variant.

## 4. Fairness

Requests end: the HTTP client has a total timeout of 15 s, SNMP commands 5 s
with one retry, and sleeps return. So every model is fair to the next step of a
task that has begun (`CycleStep`, `PollStep`, `TaskStep`, `InstallStep`,
`ReadStep`), weakly, and never to a *particular* outcome: which of success,
error and timeout it is stays free, within the bound on failures. The event
loop runs timers that are due (`TimerFires`, `CooldownEnds`) and wakes the first
waiter of a released lock (part of `TaskStep`). `PollData` and `SnmpReader` are
fair to the start of a poll on the strength of `PollingStaysArmed`.

`ConfigEntries` is weakly fair to the scan loop (`ScanStart`, `ScanEnds`,
`Skip`: a loop that sleeps and goes on) and to announcements (`Ssdp`, which
switches repeat), and strongly to `Heard` and `Offer`: a scan may miss a switch
and a probe of a web UI may fail, but a switch that is there does not miss every
burst of every scan. `EntryLifecycle` is weakly fair to what is under way and
strongly to `InfoRead \/ InfoRefused` and to `Refreshed`: Home Assistant retries
a set-up for ever, and a switch that is asked again and again answers now and
then. `SetupLoads` also supposes that Home Assistant is not restarted for ever.

Nothing is owed by users, the network (traps, late requests), the switch (it may
write flash for ever, or never reboot), crashes and cancellations.

## 5. Proofs

For any number of ports, tasks, entries, switches and slots, and any value of
the bounds:

- **Types.** `TypeCorrect` in every proof module (and `LifecycleTypeCorrect` in
  `EntryProofs`, which has two components): every reachable state satisfies
  `TypeOK`, which in `EntryProofs` and `SessionProofs` says more than types
  (unique ids are unique, a driver that owns a session owns one the switch keeps,
  the lock's queue is no longer than there are tasks, a press of the reboot
  button costs the sessions at most once). Helpers (`Execute`, `GiveUp`,
  `PathFailed`, `Request`, `Answers`, `Handle`, `Close`, ...) have a lemma each.
- **`PortPowerProofs!DarkExplained`, `RestoresAreCounted`.**
  `DarkOnlyWhenExplained` is not inductive: that giving up at the third attempt
  means three failed restores depends on the loop's counter, across the change
  from the web cycle to the SNMP one. `RestoresCounted` says so and their
  conjunction is inductive.
- **`CoordinatorProofs!PollingArmed`, `InstallIsUnscheduled`,
  `RefreshesAreAlone`.** The inductive invariant `Chain` is the conjunction of
  the three properties: that a refresh re-arms the timer when it ends is only
  known together with what the interval says, and that none is lost when it
  begins only together with what else is scheduled.
- **`SnmpReaderProofs!NoTableWrittenOffCorrect`.** A probe asks one table after
  the other and the record of it is a flag, so the inductive invariant
  `WrittenOffInv` adds `ProbeHonest` (an unfailed probe at its second table has
  seen the first empty) and `Truthful` (the ports the probe asks for, gathered
  from cached and fresh reads, are all of the agent's).
- **`PortSettingsProofs!WritesArePreserving`, `ConfirmedSettingsHold`.** A post
  is harmless when its body agrees with the switch but where it was changed
  behind the call (`BodyOk`). That is inductive only with mutual exclusion: a
  call that has read a form of a locked page is the first in line (`HasTurn`),
  and a call's place in its program fits the page (`InPlace`); `StaleOk` says
  that nothing is vouched for that was changed behind a form.
- **`EntryProofs!DuplicatesAreExplained`.** For two entries neither of which was
  added by name: an address that never changed hands has belonged to one switch
  all the time, so whatever a scan, a flow or an entry remembers of it is true
  (`Knows`, `Remembered`). `Apart` says that two switches do not share an
  address, and `FlowsExplained` that a flow and an entry meet at one only for
  the reasons two entries do: without it, confirming a flow would break the
  property.
- **`EntryProofs!NothingLeft`, `PromptsExplained`.** `Places` says
  at which stages of set-up and unload an entry may have the trap port or a
  subscription, `Counted` that every used slot is lost or the driver's own; a
  login that is refused for want of a slot although the password is right
  therefore finds every slot lost. Every other prompt is a mishap's.
- **`SessionProofs!AuthErrorsExplained`**, for the action property
  `NoSpuriousAuthError`. The inductive invariant says of every task under way
  what it must have seen (`Explained`): whoever finds the session in use gone,
  or is on its second attempt, has lost one or seen a login refused, which the
  switch may do with slots free, too (`LostOne`); on
  the second attempt with a session that is gone again, two (`LostTwo`). All
  ways through the login lock are first reduced to `Moves`, a description of
  where a task may go, so that the interleavings of other tasks, the reboot
  button and the unload need one lemma each. The aj4 dialect is exempt: its
  stale tokens are section 6's.
- **`SessionProofs!TypeCorrect`, `LoginLockIsKept`, `LoginsAreBounded`.**
  `LockOk` is the login lock's discipline: its queue holds every task that has
  or wants it once, and only the first may be logging in; `OneLogin` and
  `NobodyForgotten` follow, which no run checks by themselves. `Counts` ties
  every reboot under way to a press of its own. `LoginsBounded` says nothing of
  logins that are still to come, so it is not inductive: `Budget` bounds the
  granted and the `Due` ones together. A task owes the switch a login while it
  logs in, is going to, or has a request out with a session that is gone
  (`Owes`); while the session in use is gone, every task may come to owe one;
  while there is none and nobody gets one, one task will. That a login pays for
  the one who makes it and not for those who wait behind it, who find the
  session it got, is where `LockOk` is needed. Every step is `Calm` (what is due
  grows by no more than the requests that fail) or `Lossy` (a loss, worth one
  login per task; the logout's is kept back while it is in flight). The aj4
  dialect is exempt here, too.
- **`PollDataProofs!StallFlagIsEarned`.** The flag follows the count only with
  the count itself tied to the run of stalled polls (`StallCounted`), through the
  paths that reset both or neither.
- **`FirmwareInstallProofs!RebootsAreSafe`, `EntityIsRight`**, over any number
  of installs by any driver, but for what follows a first install on the S350
  (`WriteIsWatched`, section 6). Inductive is `SafeInv`: whoever has seen the
  image stored knows that the switch writes no more, since a write left over from
  an earlier install keeps it from accepting an image and so does a reboot under
  way. On the S350, whose driver looks at the slot only, that rests on `OnceInv`:
  in a first install nothing is under way once a slot holds the new version.
- **`FirmwareInstallProofs!InstallKeepsPromise`**: any number of installs by any
  driver implement `FirmwareUpgrade`. It rests on all of the inductive invariant
  `IInv`, on `RollInv` above all, which says where the old firmware is: an
  install that began before a power cut may overwrite the booted slot, but never
  with the old firmware in it, so while that is to be booted, its slot is not
  the one that is written. `WholeInv` says the same of the new image in a first
  install, and `StagedInv` that whatever is set to boot is the new image or a
  part of it. So each step of the switch or the install maps to a step of the
  promise or a stutter.

Assumptions are those the modules state about their constants (`...Assumption`
in each module), which every run evaluates. Where a driver is left out, the
property says so.

Model-checked only: liveness, which needs fairness and `ENABLED` and is out of
the prover's reach (`PressEnds`, `ConfirmedOffIsRestored`, `Converges`,
`NamesConverge`, `RequestEnds`, `CallsEnd`, `SwitchFound`, `SetupLoads`,
`PortsFound`, `WattsFound`, `InstallEnds`). Every invariant and every action
property of a passing run has its theorem.

## 6. Where code and documentation part

Each of these is a property that states what is said and that TLC refutes with
the configuration named: `tlc -config PortPowerDark.cfg MCPortPower`. The first
four disagreements are the runs `power_dark`, `coordinator_install` and
`settings_others`; the others are reproduced in the same way.

| Configuration | Property | Where | The code | What is said |
|---|---|---|---|---|
| `PortPowerDark` | `NoDarkFromOneFailure` | `api_base_ui.py:592`, `api_legacy.py:588`, `snmp.py:423` | the OFF of a power cycle is outside the `try` whose `finally` restores power; executed but not answered, it leaves the port off | "so a transient error can't leave the device unpowered" (`api_base_ui.py:596`) |
| `CoordinatorInstall` | `FailedInstallResumes` | `update.py:166` | a failed install restores the interval and schedules nothing | "must not leave the switch unpolled forever" (`tests/test_update.py:309`) |
| `PortSettingsOthers` | `OthersUntouched` | `api.py:698` | members of a VLAN that the switch learned dynamically are posted as "not a member" | "leaving every other port's membership ... untouched" (`README.md:144`) |
| `PortSettingsOthers` with `Drivers = {"s350"}` | `OthersUntouched` | `api_base_ui.py:1191` | the PoE table is read and posted whole without a lock; the switch platform runs one call at a time, but the button platform runs beside it | "no other port can change" (`api_base_ui.py:1048`) |
| `PollDataBlank` | `NamesNotBlanked` | `__init__.py:205` | names over SNMP switch the name page off, also one that was never read, so there is nothing to fall back to when the agent hangs | "rather than blanking it", "so the fallback is in place before it is ever needed" (`__init__.py:190-204`) |
| `SnmpReaderRows` | `VanishedRowsReRead` | `snmp.py:236` | rows that vanished from a column read by candidates are asked for on every read | "cached rows that vanished force a re-read" (`snmp.py:255`) |
| `SessionToken` | `ReloginSuffices` | `api_json_v2.py:71` | an aj4 body keeps the token from before a re-login, so its retry is rejected, too | "Request with automatic (re)login" (`api.py:444`) |
| `FirmwareRollback` | `RollbackOnEveryBackend` | `api.py:951` | the version is looked for in either slot; a JSON switch that wrote over the running one is rebooted | "refuses to proceed unless the new image actually landed in the inactive slot", "on every backend" (`README.md:100-108`) |
| `FirmwareFlash` | `FlashedBeforeReboot` | `api_base_ui.py:1307` | the S350's flash loop takes the version left by an earlier install for the end of a write that has not begun | "either finished, or it never began" (`api_base_ui.py:1306`) |
| `FirmwareSlot` | `OverwritesSafeSlot` | `api.py:231` | the slot that is not running is overwritten also when an earlier install has set it to boot | "The slot that is safe to overwrite" (`api.py:230`) |
| `ConfigEntriesNamed` | `ManualIsSkipped` | `config_flow.py:150` | a typed host is compared as it is spelled, so a host name never matches an address | "Also skip if the same host was already added manually" (`config_flow.py:148`); `README.md:165-166` asks for the host name |
| `ConfigEntriesHidden` | `ProsAreOffered` | `config_flow.py:150` | an entry with a stale address hides the switch that has that address now | "offered outright" (`README.md:190-191`) |
| `EntryPrompt` | `PromptIsAboutPassword` | `__init__.py:107`, `:435` | every `NetgearAuthError` asks for the password: full slots, a session lost twice, a slow login | "The switch rejected the password" (`strings.json:40`) |
| `EntryLogout` | `SlotFreed` | `api_legacy.py:872` | the legacy driver forgets its session without logging out | "so it does not hold a session slot" (`README.md:173`) |
| `EntryDropped` | `HoldsOneSession` | `__init__.py:457` | a driver whose first poll fails is dropped with its session | "The integration holds one session" (`README.md:220`) |

More were met while modelling; they are in the models' behaviour and have no
property of their own.

Polling, firmware, reboot, SNMP:

- A reboot command that is rejected for an expired session is reported as a
  success (`api.py:902`), although the session was to be established first.
- `update.py:136` says polling is suspended for the duration of an install. It
  is no longer *scheduled*; a poll in progress goes on, and traps, writes and a
  running cooldown still start polls.
- A trap that arrives between a poll's link read and its end is undone by the
  poll, and the refresh it asked for is dropped (`__init__.py:145`); the next
  poll repairs it. `README.md:71-73` says link sensors update instantly.
- A port that got its description after the last read of the name page loses the
  shown name when SNMP goes quiet, until the page is read again
  (`__init__.py:198`).
- A name page read before a rename and cached after it hides the new name for up
  to 20 polls (`api.py:539`).
- A poll whose password is rejected leaves the stall count alone
  (`__init__.py:107`), so stalled polls around it count as consecutive.
- The error that says the switch stopped writing is raised inside the `try` whose
  handler swallows it (`api_base_ui.py:1311-1324`), and the loop goes on.
- Two JSON tasks that lose the same session both log in (`api.py:450`) and strand
  one; `README.md:220` says the integration holds one session.
- A trap or a request during unloading logs in again after the logout, or before
  its end (`__init__.py:493`), and leaves a session behind.
- The classic driver counts a reboot request that ends in an HTTP error as a
  success, too.

Port settings:

- The second post of a legacy rename may fail silently (`api_legacy.py:487`), so
  "both spellings of the name" need not "stay in step" (`api_legacy.py:472`).
- The locks are the integration's own: a change somebody makes at the switch
  between the read and the post is undone, and a request that the switch applies
  after its sender gave up brings back an old map. `ConfirmedHolds` ends there.
- PoE writes of the JSON drivers echo the row's other settings without a lock.

Discovery and set-up:

- An entry added by hand is not compared with discovered entries and flows
  (`config_flow.py:96`), and `discovery_confirm` does not look again for entries
  made since the flow began, so a switch can be set up twice.
- The NSDP scan passes over configured MACs (`__init__.py:351`), so the entry of
  a switch that moved keeps its old host, which the code for SSDP would correct.
- An open flow keeps the address it was made with.
- "Reconfigure" compares the typed host with the unique id
  (`config_flow.py:234`): for a discovered entry, whose id is a MAC, it always
  aborts, and an entry added by hand can only be given the host it has.
- Reauthentication does not check that it is the same switch that answers.
- Stopping Home Assistant unloads nothing, so every session is left to its
  timeout then.

## 7. What is not modelled

- **Registration of the trap destination** (`api.py`, `api_legacy.py`,
  `_async_register_bridge_destination`): one request whose failure is logged.
  **Filters of trap payloads**: decoding. A local receiver accepts the traps of
  any switch that knows the community.
- **Exceptions nobody expects** between binding the trap port and loading the
  platforms, or in the second of the two MQTT subscriptions: they would leave
  the first resource behind, but nothing in the code raises them by itself.
- **Release lookup, ZIP handling, upload bodies, progress**: formatting and I/O
  without state.
- **The S350's own reboot and the session of its upload requests**: the
  `Session` model has the classic driver's.
- **Parsing of HTML, XML and JSON, RSA, password obfuscation**: pure decoding
  without state; what a parse failure leads to is modelled as a failed request.
- **Sensors, diagnostics, constants**: stateless views.
- **Home Assistant, aiohttp, pysnmp, the switches**: external; what the code
  relies on is modelled, and marked so.

## 8. Plan

| | Module | What for |
|---|---|---|
| done | `PortPower`, `Coordinator`, `PollData`, `FirmwareInstall`, `Session`, `SnmpReader` | the behaviours where order and failure matter most |
| done | `PortSettings`, `ConfigEntries`, `EntryLifecycle` | lost updates, identity and addresses, resources over an entry's life |
| next | pure operators | `resolve_release`, `_resolve_slot`, the upload's tick, each against a reference definition |
| done | proofs of every invariant and action property | section 5 |
| done | properties for the disagreements | section 6 |
