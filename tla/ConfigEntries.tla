---------------------------- MODULE ConfigEntries ----------------------------
(***************************************************************************)
(* How switches become config entries: the NSDP scan that repeats in the   *)
(* background, SSDP announcements, entries added by hand, and the open     *)
(* "discovered" flows in between.  A discovered entry is identified by the *)
(* switch's MAC, one added by hand by the host that was typed, an address  *)
(* or a name; addresses change; a scan listens for half a minute and then  *)
(* offers what it heard.                                                   *)
(*                                                                         *)
(* A switch stands for its MAC.                                            *)
(***************************************************************************)
EXTENDS Naturals, FiniteSets

CONSTANTS
    Switches,    \* the Netgear switches on the network
    Hosts,       \* the addresses
    Names,       \* host names, as users may type instead
    Owner,       \* Owner[x]: the switch that the name x stands for
    NoHost,      \* not an address: the switch has not been heard
    Homes,       \* what there may be at the start, see Init
    MaxMoves,    \* bound: changes of address
    MaxRestarts  \* bound: restarts of Home Assistant

(***************************************************************************)
(* pro: answers NSDP on the Pro ports, and perhaps on the Plus ports, too. *)
(* plus: on the Plus ports only, and can be driven.  other: the same, but  *)
(* cannot be driven.  upnp: announces itself over SSDP, knows no NSDP.     *)
(***************************************************************************)
Kinds == {"pro", "plus", "upnp", "other"}

ASSUME ConfigEntriesAssumption ==
    /\ NoHost \notin Hosts
    /\ Switches \intersect Hosts = {}
    /\ Names \intersect (Switches \union Hosts) = {}
    /\ Owner \in [Names -> Switches]
    /\ Homes \subseteq [kind: [Switches -> Kinds],
                        addr: [Switches -> Hosts], yaml: BOOLEAN]
    /\ \A n \in Homes : \A s, t \in Switches :
           n.addr[s] = n.addr[t] => s = t
    /\ {MaxMoves, MaxRestarts} \subseteq Nat

VARIABLES
    kind,     \* kind[s]
    addr,     \* addr[s]: the address it has now
    entries,  \* the config entries
    flows,    \* the "discovered" flows waiting for a password
    scan,     \* the scan loop
    yaml,     \* the integration is listed in configuration.yaml
    started,  \* _DISCOVERY_STARTED: the scan loop runs
    moved,    \* history: addresses that changed hands
    blind,    \* history: added by hand though discovered, see AddByHand
    moves, restarts  \* how much of the bounds is used

vars == <<kind, addr, entries, flows, scan, yaml, started, moved, blind, moves,
          restarts>>
network == <<kind, addr, moved, moves>>
process == <<yaml, started, restarts>>

Supported(s) == kind[s] # "other"
Nsdp(s) == kind[s] # "upnp"

\* A discovered entry, or one bound to the host that was typed for it
Typed == Hosts \union Names
EntryRecords ==
    [uid: Switches, host: Hosts] \union {[uid |-> x, host |-> x] : x \in Typed}

\* The address that a host resolves to: names follow their switches
At(x) == IF x \in Names THEN addr[Owner[x]] ELSE x
Flows == [mac: Switches, host: Hosts]

(***************************************************************************)
(* sleep: until the next scan.  listen: requests are out.  offer: what was *)
(* found is gone through.  configured: the MACs with an entry as the scan  *)
(* began.  found, pro: what each switch answered, and on which ports. *)
(***************************************************************************)
Scans == [pc: {"sleep", "listen", "offer"}, configured: SUBSET Switches,
          found: [Switches -> Hosts \union {NoHost}], pro: SUBSET Switches]
Asleep == [pc |-> "sleep", configured |-> {},
           found |-> [s \in Switches |-> NoHost], pro |-> {}]

(***************************************************************************)
(* Unique ids are unique, a switch waits in one flow at most and only      *)
(* while it has no entry, and an entry added by hand stays bound to the    *)
(* host that was typed (EntryRecords): not even "reconfigure" changes it.  *)
(***************************************************************************)
TypeOK ==
    /\ kind \in [Switches -> Kinds]
    /\ addr \in [Switches -> Hosts]
    /\ entries \subseteq EntryRecords
    /\ \A e, f \in entries : e.uid = f.uid => e = f
    /\ flows \subseteq Flows
    /\ \A f, g \in flows : f.mac = g.mac => f = g
    /\ \A f \in flows, e \in entries : f.mac # e.uid
    /\ scan \in Scans
    /\ yaml \in BOOLEAN
    /\ started \in BOOLEAN
    /\ moved \subseteq Hosts
    /\ blind \subseteq Typed
    /\ moves \in 0 .. MaxMoves
    /\ restarts \in 0 .. MaxRestarts

\* Home Assistant has started, with nothing configured
Init ==
    /\ \E n \in Homes : kind = n.kind /\ addr = n.addr /\ yaml = n.yaml
    /\ entries = {}
    /\ flows = {}
    /\ scan = Asleep
    /\ started = yaml
    /\ moved = {}
    /\ blind = {}
    /\ moves = 0
    /\ restarts = 0

-----------------------------------------------------------------------------
\* A switch the drivers can log in to has the address
Answers(h) == \E s \in Switches : addr[s] = h /\ Supported(s)

Configured(uid) == \E e \in entries : e.uid = uid
Waiting(s) == \E f \in flows : f.mac = s

\* Mutant: the entry's address is not updated
HandleNoUpdate(s, h) ==
    \/ /\ Waiting(s) \/ Configured(s) \/ \E e \in entries : e.host = h
       /\ UNCHANGED <<entries, flows>>
    \/ /\ ~Waiting(s)
       /\ ~Configured(s)
       /\ \A e \in entries : e.host # h
       /\ flows' = flows \union {[mac |-> s, host |-> h]}
       /\ UNCHANGED entries

\* Mutant: hosts that were added by hand are not looked at
HandleAnyHost(s, h) ==
    \/ /\ Waiting(s)
       /\ UNCHANGED <<entries, flows>>
    \/ /\ ~Waiting(s)
       /\ Configured(s)
       /\ entries' = {IF e.uid = s THEN [e EXCEPT !.host = h] ELSE e :
                        e \in entries}
       /\ UNCHANGED flows
    \/ /\ ~Waiting(s)
       /\ ~Configured(s)
       /\ flows' = flows \union {[mac |-> s, host |-> h]}
       /\ UNCHANGED entries

(***************************************************************************)
(* _async_handle_discovery of switch s at host h: a second flow for it is  *)
(* aborted; an entry with its MAC gets the new address; an entry with the  *)
(* same host hides it; else it is offered.  Hosts are compared as they are *)
(* spelled, and h is an address: an entry added by name never compares.    *)
(***************************************************************************)
Handle(s, h) ==
    \/ /\ Waiting(s)
       /\ UNCHANGED <<entries, flows>>
    \/ /\ ~Waiting(s)
       /\ Configured(s)
       /\ entries' = {IF e.uid = s THEN [e EXCEPT !.host = h] ELSE e :
                        e \in entries}
       /\ UNCHANGED flows
    \/ /\ ~Waiting(s)
       /\ ~Configured(s)
       /\ \E e \in entries : e.host = h
       /\ UNCHANGED <<entries, flows>>
    \/ /\ ~Waiting(s)
       /\ ~Configured(s)
       /\ \A e \in entries : e.host # h
       /\ flows' = flows \union {[mac |-> s, host |-> h]}
       /\ UNCHANGED entries

-----------------------------------------------------------------------------
(***************************************************************************)
(* The NSDP scan                                                           *)
(***************************************************************************)
ScanStart ==
    /\ started
    /\ scan.pc = "sleep"
    /\ scan' = [Asleep EXCEPT !.pc = "listen",
                              !.configured = {s \in Switches : Configured(s)}]
    /\ UNCHANGED <<network, entries, flows, process, blind>>

\* The first answer of a switch counts, or the first on the Pro ports
Heard(s, pro) ==
    /\ scan.pc = "listen"
    /\ Nsdp(s)
    /\ pro => kind[s] = "pro"
    /\ scan.found[s] = NoHost \/ (pro /\ s \notin scan.pro)
    /\ scan' = [scan EXCEPT !.found[s] = addr[s],
                            !.pro = IF pro THEN @ \union {s} ELSE @]
    /\ UNCHANGED <<network, entries, flows, process, blind>>

\* s is done with; after the last one the loop sleeps
Rest(found) ==
    scan' = IF \A s \in Switches : found[s] = NoHost
              THEN Asleep
              ELSE [scan EXCEPT !.pc = "offer", !.found = found]
Done(s) == Rest([scan.found EXCEPT ![s] = NoHost])

\* The half minute is over; without a socket, nobody was heard
ScanEnds ==
    /\ scan.pc = "listen"
    /\ Rest(scan.found)
    /\ UNCHANGED <<network, entries, flows, process, blind>>

\* Nothing is offered for s: it was configured, or its web UI is not ours
Skip(s) ==
    /\ scan.pc = "offer"
    /\ scan.found[s] # NoHost
    /\ \/ s \in scan.configured
       \/ s \notin scan.pro
    /\ Done(s)
    /\ UNCHANGED <<network, entries, flows, process, blind>>

(***************************************************************************)
(* A Pro switch is offered, another if the web UI at its address is one    *)
(* the drivers know, whichever switch it is that answers there by now.     *)
(***************************************************************************)
Offer(s) ==
    /\ scan.pc = "offer"
    /\ scan.found[s] # NoHost
    /\ s \notin scan.configured
    /\ s \in scan.pro \/ Answers(scan.found[s])
    /\ Handle(s, scan.found[s])
    /\ Done(s)
    /\ UNCHANGED <<network, process, blind>>

\* A switch announces itself over SSDP
Ssdp(s) ==
    /\ kind[s] = "upnp"
    /\ Handle(s, addr[s])
    /\ UNCHANGED <<network, scan, process, blind>>

-----------------------------------------------------------------------------
(***************************************************************************)
(* Users                                                                   *)
(***************************************************************************)
(***************************************************************************)
(* async_step_user: the host that is typed, an address or a name, is the   *)
(* unique id; hosts of discovered entries and flows are not looked at.     *)
(***************************************************************************)
AddByHand(x) ==
    /\ Answers(At(x))
    /\ ~Configured(x)
    /\ entries' = entries \union {[uid |-> x, host |-> x]}
    /\ started' = TRUE
    /\ blind' = IF \E e \in entries \union flows : e.host = x
                  THEN blind \union {x} ELSE blind
    /\ UNCHANGED <<network, flows, scan, yaml, restarts>>

\* async_step_discovery_confirm: the password is accepted at the flow's host
Confirm(f) ==
    /\ Answers(f.host)
    /\ entries' = entries \union {[uid |-> f.mac, host |-> f.host]}
    /\ flows' = flows \ {f}
    /\ started' = TRUE
    /\ UNCHANGED <<network, scan, yaml, restarts, blind>>

\* Mutant: the unique id of the reconfigured entry is not compared
ReconfigureAny(e, x) ==
    /\ Answers(At(x))
    /\ entries' = (entries \ {e}) \union {[e EXCEPT !.host = x]}
    /\ UNCHANGED <<network, flows, scan, process, blind>>

\* async_step_reconfigure: the host has to be the unique id
Reconfigure(e, x) ==
    /\ Answers(At(x))
    /\ e.uid = x
    /\ entries' = (entries \ {e}) \union {[e EXCEPT !.host = x]}
    /\ UNCHANGED <<network, flows, scan, process, blind>>

Remove(e) ==
    /\ entries' = entries \ {e}
    /\ UNCHANGED <<network, flows, scan, process, blind>>

-----------------------------------------------------------------------------
\* A switch gets another address, which is free
Move(s, h) ==
    /\ moves < MaxMoves
    /\ moves' = moves + 1
    /\ \A t \in Switches : addr[t] # h
    /\ addr' = [addr EXCEPT ![s] = h]
    /\ moved' = moved \union {addr[s], h}
    /\ UNCHANGED <<kind, entries, flows, scan, process, blind>>

\* Entries survive a restart, flows and scans do not
Restart ==
    /\ restarts < MaxRestarts
    /\ restarts' = restarts + 1
    /\ flows' = {}
    /\ scan' = Asleep
    /\ started' = (yaml \/ entries # {})
    /\ UNCHANGED <<network, entries, yaml, blind>>

Next ==
    \/ ScanStart
    \/ \E s \in Switches, pro \in BOOLEAN : Heard(s, pro)
    \/ ScanEnds
    \/ \E s \in Switches : Skip(s) \/ Offer(s) \/ Ssdp(s)
    \/ \E x \in Typed : AddByHand(x)
    \/ \E f \in flows : Confirm(f)
    \/ \E e \in entries : Remove(e) \/ \E x \in Typed : Reconfigure(e, x)
    \/ \E s \in Switches, h \in Hosts : Move(s, h)
    \/ Restart

Spec == Init /\ [][Next]_vars

(***************************************************************************)
(* The loop goes on; a switch answers some of the bursts of some of the    *)
(* scans, and announces itself now and then; a web UI that is there does   *)
(* not fail every probe.  Users and addresses owe nothing.                 *)
(***************************************************************************)
FairSpec ==
    /\ Spec
    /\ WF_vars(ScanStart)
    /\ WF_vars(ScanEnds)
    /\ \A s \in Switches :
           /\ SF_vars(Heard(s, kind[s] = "pro"))
           /\ WF_vars(Skip(s))
           /\ SF_vars(Offer(s))
           /\ WF_vars(Ssdp(s))

-----------------------------------------------------------------------------
(***************************************************************************)
(* Properties                                                              *)
(***************************************************************************)
(***************************************************************************)
(* Two entries lead to the same switch only when one was added by name     *)
(* (where the code breaks its word, see ManualIsSkipped), or by hand for a *)
(* switch that was already discovered, or the address changed hands:       *)
(* neither a scan that began before an entry was made nor two ways of      *)
(* discovery set a switch up twice.                                        *)
(***************************************************************************)
DuplicatesExplained ==
    \A e, f \in entries :
        e # f /\ At(e.host) = At(f.host) =>
            \/ {e.host, f.host} \intersect Names # {}
            \/ e.host \in blind \union moved

(***************************************************************************)
(* "Also skip if the same host was already added manually"                 *)
(* (config_flow.py:148): a switch is not offered at the address that an    *)
(* entry leads to.  Violated by entries added by name, as README.md:165    *)
(* asks for.                                                               *)
(***************************************************************************)
ManualIsSkipped ==
    [][\A f \in flows' \ flows, e \in entries : At(e.host) # f.host]_vars

(***************************************************************************)
(* s can be found in Home Assistant: it waits to be set up, or an entry    *)
(* leads to it; of an NSDP switch only, the entry may have an address it   *)
(* no longer has, for the scan passes over switches that are configured.   *)
(***************************************************************************)
InSight(s) ==
    \/ Waiting(s)
    \/ \E e \in entries : At(e.host) = addr[s]
    \/ Nsdp(s) /\ Configured(s)

(***************************************************************************)
(* No supported switch stays out of sight for good, once the scan loop     *)
(* runs, and a switch that announces itself is followed to its address.    *)
(***************************************************************************)
SwitchFound ==
    \A s \in Switches :
        []<>(InSight(s) \/ ~Supported(s) \/ (Nsdp(s) /\ ~started))

\* s waits to be set up, or has an entry of its own
Surfaced(s) ==
    \/ Waiting(s)
    \/ Configured(s)
    \/ \E x \in Typed : Configured(x) /\ At(x) = addr[s]

(***************************************************************************)
(* "Switches that answer NSDP on the Smart Managed Pro port pair are       *)
(* offered outright" (README.md:190): one that a scan has heard where it   *)
(* is has surfaced when the scan is done with it.  Violated when it has    *)
(* taken over the address that the entry of a switch that moved still has. *)
(***************************************************************************)
ProsAreOffered ==
    [][\A s \in scan.pro :
         Offer(s) /\ scan.found[s] = addr[s] => Surfaced(s)']_vars
=============================================================================
