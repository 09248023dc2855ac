------------------------------ MODULE EntryProofs ------------------------------
(***************************************************************************)
(* Proofs about config entries: first ConfigEntries, how they come to be,  *)
(* for any switches, addresses and homes; then EntryLifecycle, how they    *)
(* are set up, for any entries, trap modes and number of session slots.    *)
(***************************************************************************)
EXTENDS ConfigEntries, EntryLifecycle, TLAPS

USE ConfigEntriesAssumption

-----------------------------------------------------------------------------
(***************************************************************************)
(* The parts of TypeOK                                                     *)
(***************************************************************************)
NetworkType ==
    /\ kind \in [Switches -> Kinds]
    /\ addr \in [Switches -> Hosts]
    /\ moved \subseteq Hosts
    /\ blind \subseteq Typed
    /\ moves \in 0 .. MaxMoves
ListsType ==
    /\ entries \subseteq EntryRecords
    /\ \A e, f \in entries : e.uid = f.uid => e = f
    /\ flows \subseteq Flows
    /\ \A f, g \in flows : f.mac = g.mac => f = g
    /\ \A f \in flows, e \in entries : f.mac # e.uid
ProcessType ==
    /\ scan \in Scans
    /\ yaml \in BOOLEAN
    /\ started \in BOOLEAN
    /\ restarts \in 0 .. MaxRestarts

\* TypeOK is the conjunction of its named parts.
LEMMA TypeParts == TypeOK <=> NetworkType /\ ListsType /\ ProcessType
BY DEF TypeOK, NetworkType, ListsType, ProcessType

\* A discovered entry leads to an address, another to what was typed.
LEMMA EntryFacts ==
    \A e \in EntryRecords :
        /\ e.uid \in Switches => e.host \in Hosts
        /\ e.uid \notin Switches => e.uid \in Typed /\ e.host = e.uid
        /\ e = [uid |-> e.uid, host |-> e.host]
BY DEF EntryRecords, Typed

\* Records of either sort are entries.
LEMMA EntryMade ==
    /\ \A s \in Switches, h \in Hosts : [uid |-> s, host |-> h] \in EntryRecords
    /\ \A x \in Typed : [uid |-> x, host |-> x] \in EntryRecords
    /\ \A e \in EntryRecords, h \in Hosts :
           e.uid \in Switches => [e EXCEPT !.host = h] \in EntryRecords
BY DEF EntryRecords, Typed

(***************************************************************************)
(* ConfigEntries: the inductive invariant                                  *)
(***************************************************************************)
\* h is where s is, or both it and where s is have changed hands
Knows(s, h) == h = addr[s] \/ {h, addr[s]} \subseteq moved

\* Two switches do not share an address
Apart == \A s, t \in Switches : addr[s] = addr[t] => s = t

\* What is remembered of switches was true once
Remembered ==
    /\ \A e \in entries : e.uid \in Switches => Knows(e.uid, e.host)
    /\ \A f \in flows : Knows(f.mac, f.host)
    /\ \A s \in Switches : scan.found[s] # NoHost => Knows(s, scan.found[s])

\* Entries for the same host, as it is spelled
SameHost ==
    \A e, f \in entries :
        e # f /\ e.host = f.host => e.host \in blind \union moved

\* A flow to the address of an entry has the same explanations
FlowsExplained ==
    \A e \in entries, f \in flows :
        e.host = f.host => e.host \in blind \union moved

IInv ==
    /\ NetworkType
    /\ ListsType
    /\ ProcessType
    /\ Apart
    /\ Remembered
    /\ FlowsExplained
    /\ SameHost

\* At the start nothing is configured, and every home has its addresses apart.
LEMMA InitKeeps == Init => IInv
<1> SUFFICES ASSUME Init PROVE IInv
  OBVIOUS
<1>1. PICK n \in Homes : kind = n.kind /\ addr = n.addr /\ yaml = n.yaml
  BY DEF Init
<1>2. NetworkType /\ Apart /\ yaml \in BOOLEAN
  BY <1>1 DEF Init, NetworkType, Apart
<1>3. Asleep \in Scans /\ \A s \in Switches : Asleep.found[s] = NoHost
  BY DEF Asleep, Scans
<1> QED
  BY <1>2, <1>3 DEF Init, IInv, ListsType, ProcessType, Remembered,
     FlowsExplained, SameHost

-----------------------------------------------------------------------------
(***************************************************************************)
(* Discovery of a switch at an address it has, or had before addresses     *)
(* changed hands, keeps what the invariant says of entries and flows.      *)
(***************************************************************************)
LEMMA HandleKeeps ==
    ASSUME IInv, NEW s \in Switches, NEW h \in Hosts, Knows(s, h),
           Handle(s, h), UNCHANGED <<addr, moved, blind>>
    PROVE  /\ ListsType'
           /\ \A e \in entries' : e.uid \in Switches => Knows(e.uid, e.host)'
           /\ \A f \in flows' : Knows(f.mac, f.host)'
           /\ FlowsExplained'
           /\ SameHost'
<1> USE DEF IInv, NetworkType, ListsType, Apart, Remembered, Knows,
            FlowsExplained, SameHost, Flows
<1>1. CASE UNCHANGED <<entries, flows>>
  BY <1>1
\* The entry follows the switch to h; another one there explains itself
<1>2. CASE /\ ~Waiting(s)
           /\ Configured(s)
           /\ entries' = {IF e.uid = s THEN [e EXCEPT !.host = h] ELSE e :
                            e \in entries}
           /\ UNCHANGED flows
  <2> DEFINE Moved(e) == [e EXCEPT !.host = h]
  <2>0. /\ \A e \in entries : e.uid = s =>
               /\ Moved(e) \in EntryRecords
               /\ Moved(e).uid = s
               /\ Moved(e).host = h
        /\ \A g \in entries' : \E e \in entries :
               \/ e.uid = s /\ g = Moved(e)
               \/ e.uid # s /\ g = e
    BY <1>2, EntryFacts, EntryMade
  <2> HIDE DEF Moved
  <2>1. ListsType'
    BY <1>2, <2>0 DEF Waiting
  <2>2. \A e \in entries' : e.uid \in Switches => Knows(e.uid, e.host)'
    BY <1>2, <2>0
  <2>3. FlowsExplained'
    BY <1>2, <2>0 DEF Waiting
  <2>4. SameHost'
    BY <1>2, <2>0
  <2> QED
    BY <1>2, <2>1, <2>2, <2>3, <2>4
\* A new flow, to an address no entry has
<1>3. CASE /\ ~Waiting(s)
           /\ ~Configured(s)
           /\ \A e \in entries : e.host # h
           /\ flows' = flows \union {[mac |-> s, host |-> h]}
           /\ UNCHANGED entries
  BY <1>3 DEF Waiting, Configured
<1> QED
  BY <1>1, <1>2, <1>3 DEF Handle

\* Forgetting what was found leaves a scan, and nothing new in it.
LEMMA DoneKeeps ==
    ASSUME IInv, NEW s \in Switches, Done(s)
    PROVE  /\ scan' \in Scans
           /\ \A t \in Switches :
                  scan'.found[t] # NoHost => scan'.found[t] = scan.found[t]
BY DEF IInv, ProcessType, Done, Rest, Scans, Asleep

-----------------------------------------------------------------------------
\* The scan loop itself touches nothing else.
LEMMA LoopKeeps ==
    ASSUME IInv, ScanStart \/ ScanEnds
    PROVE  IInv'
<1>1. CASE ScanStart
  BY <1>1 DEF ScanStart, network, process, IInv, NetworkType, ListsType,
     ProcessType, Apart, Remembered, Knows, FlowsExplained,
     SameHost, Scans, Asleep
<1>2. CASE ScanEnds
  BY <1>2 DEF ScanEnds, Rest, network, process, IInv, NetworkType, ListsType,
     ProcessType, Apart, Remembered, Knows, FlowsExplained,
     SameHost, Scans, Asleep
<1> QED
  BY <1>1, <1>2

\* Scans remember addresses, and offer what they remember.
LEMMA ScanKeeps ==
    ASSUME IInv, NEW s \in Switches, NEW pro \in BOOLEAN,
           Heard(s, pro) \/ Skip(s) \/ Offer(s) \/ Ssdp(s)
    PROVE  IInv'
<1> USE DEF network, process
<1>1. CASE Heard(s, pro)
  <2>1. scan' \in Scans
    BY <1>1 DEF Heard, IInv, NetworkType, ProcessType, Scans
  <2>2. \A t \in Switches : scan'.found[t] # NoHost => Knows(t, scan'.found[t])
    BY <1>1 DEF Heard, IInv, ProcessType, Scans, Remembered, Knows
  <2> QED
    BY <1>1, <2>1, <2>2 DEF Heard, IInv, NetworkType, ListsType, ProcessType,
       Apart, Remembered, Knows, FlowsExplained, SameHost
<1>2. CASE Skip(s)
  <2>1. /\ scan' \in Scans
        /\ \A t \in Switches :
               scan'.found[t] # NoHost => scan'.found[t] = scan.found[t]
    BY <1>2, DoneKeeps DEF Skip
  <2> QED
    BY <1>2, <2>1 DEF Skip, IInv, NetworkType, ListsType, ProcessType, Apart,
       Remembered, Knows, FlowsExplained, SameHost
<1>3. CASE Offer(s)
  <2>1. /\ scan' \in Scans
        /\ \A t \in Switches :
               scan'.found[t] # NoHost => scan'.found[t] = scan.found[t]
    BY <1>3, DoneKeeps DEF Offer
  <2>2. scan.found[s] \in Hosts /\ Knows(s, scan.found[s])
    BY <1>3 DEF Offer, IInv, ProcessType, Scans, Remembered
  <2>3. Handle(s, scan.found[s]) /\ UNCHANGED <<addr, moved, blind>>
    BY <1>3 DEF Offer
  <2>4. /\ ListsType' /\ FlowsExplained' /\ SameHost'
        /\ \A e \in entries' : e.uid \in Switches => Knows(e.uid, e.host)'
        /\ \A f \in flows' : Knows(f.mac, f.host)'
    BY <2>2, <2>3, HandleKeeps
  <2> QED
    BY <1>3, <2>1, <2>4 DEF Offer, IInv, NetworkType, ProcessType, Apart,
       Remembered, Knows
<1>4. CASE Ssdp(s)
  <2>1. addr[s] \in Hosts /\ Knows(s, addr[s])
    BY DEF IInv, NetworkType, Knows
  <2>2. Handle(s, addr[s]) /\ UNCHANGED <<addr, moved, blind>>
    BY <1>4 DEF Ssdp
  <2>3. /\ ListsType' /\ FlowsExplained' /\ SameHost'
        /\ \A e \in entries' : e.uid \in Switches => Knows(e.uid, e.host)'
        /\ \A f \in flows' : Knows(f.mac, f.host)'
    BY <2>1, <2>2, HandleKeeps
  <2> QED
    BY <1>4, <2>3 DEF Ssdp, IInv, NetworkType, ProcessType, Apart,
       Remembered, Knows
<1> QED
  BY <1>1, <1>2, <1>3, <1>4

\* What users add is marked where something already leads to the address.
LEMMA UserKeeps ==
    ASSUME IInv, NEW x \in Typed,
           \/ AddByHand(x)
           \/ \E f \in flows : Confirm(f)
           \/ \E e \in entries : Remove(e) \/ Reconfigure(e, x)
    PROVE  IInv'
<1> USE DEF IInv, NetworkType, ListsType, ProcessType, Apart, Remembered,
            Knows, FlowsExplained, SameHost, Flows, network, process
<1>1. CASE AddByHand(x)
  BY <1>1, EntryMade DEF AddByHand, Configured, Typed
<1>2. ASSUME NEW f \in flows, Confirm(f) PROVE IInv'
  BY <1>2, EntryMade DEF Confirm
<1>3. ASSUME NEW e \in entries, Remove(e) PROVE IInv'
  BY <1>3 DEF Remove
<1>4. ASSUME NEW e \in entries, Reconfigure(e, x) PROVE IInv'
  \* The host that was typed at first is the only one that passes
  <2>1. [e EXCEPT !.host = x] = e
    BY <1>4, EntryFacts DEF Reconfigure, Typed
  <2>2. entries' = entries
    BY <1>4, <2>1 DEF Reconfigure
  <2> QED
    BY <1>4, <2>2 DEF Reconfigure
<1> QED
  BY <1>1, <1>2, <1>3, <1>4

\* A move marks both of its addresses; a restart only forgets.
LEMMA WorldKeeps ==
    ASSUME IInv, Restart \/ \E s \in Switches, h \in Hosts : Move(s, h)
    PROVE  IInv'
<1> USE DEF IInv, NetworkType, ListsType, ProcessType, Apart, Remembered,
            Knows, FlowsExplained, SameHost, network, process
<1>1. CASE Restart
  BY <1>1 DEF Restart, Scans, Asleep
<1>2. ASSUME NEW s \in Switches, NEW h \in Hosts, Move(s, h) PROVE IInv'
  BY <1>2 DEF Move, EntryRecords, Flows, Scans
<1> QED
  BY <1>1, <1>2

\* The invariant is inductive.
LEMMA StepKeeps == IInv /\ [Next]_vars => IInv'
<1> SUFFICES ASSUME IInv, [Next]_vars PROVE IInv'
  OBVIOUS
<1>1. CASE ScanStart \/ ScanEnds
  BY <1>1, LoopKeeps
<1>2. CASE \E s \in Switches, pro \in BOOLEAN : Heard(s, pro)
  BY <1>2, ScanKeeps
<1>3. CASE \E s \in Switches : Skip(s) \/ Offer(s) \/ Ssdp(s)
  BY <1>3, ScanKeeps
<1>4. CASE \E x \in Typed :
              AddByHand(x) \/ \E e \in entries : Remove(e) \/ Reconfigure(e, x)
  BY <1>4, UserKeeps
<1>5. CASE (\E e \in entries : Remove(e)) \/ \E f \in flows : Confirm(f)
  <2>1. PICK x \in Typed : TRUE
    BY <1>5, EntryFacts DEF IInv, ListsType, Flows, Typed
  <2> QED
    BY <1>5, <2>1, UserKeeps
<1>6. CASE Restart \/ \E s \in Switches, h \in Hosts : Move(s, h)
  BY <1>6, WorldKeeps
<1>7. CASE UNCHANGED vars
  BY <1>7 DEF vars, IInv, NetworkType, ListsType, ProcessType, Apart,
     Remembered, Knows, FlowsExplained, SameHost
<1> QED
  BY <1>1, <1>2, <1>3, <1>4, <1>5, <1>6, <1>7 DEF Next

\* Every reachable state satisfies the inductive invariant.
LEMMA IInvHolds == Spec => []IInv
BY InitKeeps, StepKeeps, PTL DEF Spec

-----------------------------------------------------------------------------
(***************************************************************************)
(* Entries, flows and scans are well typed: unique ids are unique, a       *)
(* switch waits once and only while it has no entry, and an entry added by *)
(* hand keeps its host.                                                    *)
(***************************************************************************)
THEOREM TypeCorrect == Spec => []TypeOK
<1>1. IInv => TypeOK
  BY TypeParts DEF IInv
<1> QED
  BY <1>1, IInvHolds, PTL

(***************************************************************************)
(* Neither a scan that began before an entry was made nor two ways of      *)
(* discovery make two entries for one address: one of them was added by    *)
(* hand beside a discovered one, or the address changed hands.             *)
(***************************************************************************)
THEOREM DuplicatesAreExplained == Spec => []DuplicatesExplained
<1>1. IInv => DuplicatesExplained
  BY EntryFacts DEF IInv, ListsType, SameHost, DuplicatesExplained, At, Typed
<1> QED
  BY <1>1, IInvHolds, PTL

-----------------------------------------------------------------------------
USE EntryLifecycleAssumption

-----------------------------------------------------------------------------
(***************************************************************************)
(* EntryLifecycle: the inductive invariant                                 *)
(***************************************************************************)
\* Where a set-up is while it has the trap port or a subscription
TrapPcs == {"forward", "loaded", "close", "stop", "stuck"}

\* What an entry listens to says where it is
Places ==
    \A e \in Entries :
        /\ port = e => pc[e] \in TrapPcs
        /\ e \in subs => pc[e] \in TrapPcs

\* Every session at the switch is the driver's or was counted as lost
Counted ==
    \A e \in Entries :
        \/ lost[e] = Slots
        \/ ours[e] + theirs[e] <= lost[e]
        \/ e \in held /\ ours[e] + theirs[e] <= lost[e] + 1

LifecycleInv == LifecycleTypeOK /\ Places /\ Counted /\ PromptExplained

(***************************************************************************)
(* The invariant speaks of sessions and of places; most steps touch one    *)
(* of them only.                                                           *)
(***************************************************************************)
SessionType ==
    /\ held \subseteq Entries
    /\ {ours, theirs, lost} \subseteq [Entries -> 0 .. Slots]
    /\ \A e \in Entries : ours[e] + theirs[e] <= Slots
    /\ \A e \in held : ours[e] > 0

PromptType ==
    /\ asked \subseteq Entries
    /\ stale \subseteq Entries
    /\ unlucky \subseteq asked

PlaceType ==
    /\ mode \in Modes
    /\ pc \in [Entries -> Pcs]
    /\ \A e \in Entries : pc[e] = "failed" => e \in asked
    /\ port \in Entries \union {NoEntry}
    /\ port # NoEntry => mode[port] = "local"
    /\ subs \subseteq {e \in Entries : mode[e] = "mqtt"}

Sessions == SessionType /\ PromptType /\ Counted /\ PromptExplained

LEMMA LifecycleParts ==
    /\ LifecycleInv => Sessions /\ PlaceType /\ Places
    /\ Sessions' /\ PlaceType' /\ Places' => LifecycleInv'
BY DEF LifecycleInv, LifecycleTypeOK, Sessions, SessionType, PromptType,
       PlaceType

\* At the start there are no sessions and nobody listens.
LEMMA LifecycleInitKeeps == LifecycleInit => LifecycleInv
BY DEF LifecycleInit, LifecycleInv, LifecycleTypeOK, Pcs, Places, Counted,
       PromptExplained, TrapPcs

-----------------------------------------------------------------------------
(***************************************************************************)
(* What a step does to sessions and prompts                                *)
(***************************************************************************)
\* A login whose answer arrives takes a slot for the driver.
LEMMA LogsInKeeps ==
    ASSUME Sessions, NEW e \in Entries, LogsIn(e), UNCHANGED prompts,
           UNCHANGED stale
    PROVE  Sessions'
BY DEF Sessions, SessionType, PromptType, Counted, PromptExplained, LogsIn,
       Granted, Free, Opened, prompts

\* One whose answer is lost takes a slot for nobody, which is counted.
LEMMA UnawaresKeeps ==
    ASSUME Sessions, NEW e \in Entries, LogsInUnawares(e),
           asked' \subseteq Entries, unlucky' \subseteq asked',
           unlucky \subseteq unlucky', UNCHANGED stale,
           \A x \in asked' : x \in asked \/ x \in unlucky'
    PROVE  Sessions'
BY DEF Sessions, SessionType, PromptType, Counted, PromptExplained,
       LogsInUnawares, Granted, Free, Opened, Lost, More

\* A session given up is counted.
LEMMA AbandonedKeeps ==
    ASSUME Sessions, NEW e \in Entries, Abandoned(e), UNCHANGED prompts,
           UNCHANGED stale
    PROVE  Sessions'
BY DEF Sessions, SessionType, PromptType, Counted, PromptExplained,
       Abandoned, Lost, More, prompts

\* A session ended takes its slot along.
LEMMA LosesItKeeps ==
    ASSUME Sessions, NEW e \in Entries, DriverLosesIt(e),
           asked' \subseteq Entries, unlucky' \subseteq asked',
           unlucky \subseteq unlucky', UNCHANGED stale,
           \A x \in asked' : x \in asked \/ x \in unlucky'
    PROVE  Sessions'
BY DEF Sessions, SessionType, PromptType, Counted, PromptExplained,
       DriverLosesIt, Ended

\* Closing a driver does one or the other.
LEMMA CloseKeeps ==
    ASSUME Sessions, NEW e \in Entries, Close(e), UNCHANGED prompts,
           UNCHANGED stale
    PROVE  Sessions'
<1>1. CASE DriverLosesIt(e)
  BY <1>1, LosesItKeeps DEF prompts, Sessions, PromptType
<1>2. CASE Abandoned(e)
  BY <1>2, AbandonedKeeps
<1> QED
  BY <1>1, <1>2 DEF Close

\* Nothing happens to sessions and prompts.
LEMMA SessionsStay ==
    ASSUME Sessions, UNCHANGED sessions, UNCHANGED prompts, UNCHANGED stale
    PROVE  Sessions'
BY DEF Sessions, SessionType, PromptType, Counted, PromptExplained, sessions,
       prompts

\* A refusal without a mishap needs a wrong password or full, lost slots.
LEMMA RefusedKeeps ==
    ASSUME Sessions, NEW e \in Entries, Refused(e), UNCHANGED stale
    PROVE  Sessions'
<1>1. asked' = asked \union {e}
  BY DEF Refused
<1>2. CASE e \notin held /\ ~Granted(e) /\ UNCHANGED <<sessions, unlucky>>
  <2>1. SessionType' /\ PromptType' /\ Counted'
    BY <1>1, <1>2 DEF Sessions, SessionType, PromptType, Counted, sessions
  <2>2. e \in stale \/ lost[e] = Slots
    <3>1. e \in stale \/ ours[e] + theirs[e] >= Slots
      BY <1>2 DEF Sessions, SessionType, Granted, Free
    <3>2. lost[e] = Slots \/ ours[e] + theirs[e] <= lost[e]
      BY <1>2 DEF Sessions, Counted
    <3>3. /\ ours[e] \in 0 .. Slots
          /\ theirs[e] \in 0 .. Slots
          /\ lost[e] \in 0 .. Slots
      BY DEF Sessions, SessionType
    <3> QED
      BY <3>1, <3>2, <3>3
  <2>3. PromptExplained'
    BY <1>1, <1>2, <2>2 DEF Sessions, PromptExplained, sessions
  <2> QED
    BY <2>1, <2>3 DEF Sessions
<1>3. CASE Mishap(e)
  <2>1. /\ unlucky' = unlucky \union {e}
        /\ DriverLosesIt(e) \/ LogsInUnawares(e)
    BY <1>3 DEF Mishap
  <2>2. /\ asked' \subseteq Entries /\ unlucky' \subseteq asked'
        /\ unlucky \subseteq unlucky'
        /\ \A x \in asked' : x \in asked \/ x \in unlucky'
    BY <1>1, <2>1 DEF Sessions, PromptType
  <2> QED
    BY <2>1, <2>2, LosesItKeeps, UnawaresKeeps
<1> QED
  BY <1>2, <1>3 DEF Refused

-----------------------------------------------------------------------------
(***************************************************************************)
(* Every step keeps the invariant                                          *)
(***************************************************************************)
\* A set-up gets hold of things step by step.
LEMMA SetUpKeeps ==
    ASSUME LifecycleInv, NEW e \in Entries, SetUp(e)
    PROVE  LifecycleInv'
<1>0. Sessions /\ PlaceType /\ Places
  BY LifecycleParts
<1> USE DEF PlaceType, Pcs, Places, TrapPcs, traps, Goto
<1>1. CASE Detected(e)
  <2>1. Sessions'
    BY <1>0, <1>1, AbandonedKeeps DEF Detected
  <2>2. PlaceType' /\ Places'
    BY <1>0, <1>1 DEF Detected, prompts
  <2> QED
    BY <2>1, <2>2, LifecycleParts
<1>2. CASE NotDetected(e)
  <2>1. Sessions'
    BY <1>0, <1>2, SessionsStay DEF NotDetected
  <2>2. PlaceType' /\ Places'
    BY <1>0, <1>2 DEF NotDetected, prompts
  <2> QED
    BY <2>1, <2>2, LifecycleParts
<1>3. CASE InfoRead(e)
  <2>1. Sessions'
    BY <1>0, <1>3, SessionsStay, LogsInKeeps DEF InfoRead, Answered
  <2>2. PlaceType' /\ Places'
    BY <1>0, <1>3 DEF InfoRead, prompts
  <2> QED
    BY <2>1, <2>2, LifecycleParts
<1>4. CASE InfoRefused(e)
  <2>1. Sessions'
    BY <1>0, <1>4, RefusedKeeps DEF InfoRefused
  <2>2. PlaceType' /\ Places'
    BY <1>0, <1>4 DEF InfoRefused, Refused
  <2> QED
    BY <2>1, <2>2, LifecycleParts
<1>5. CASE InfoFails(e)
  <2>1. UNCHANGED prompts /\ UNCHANGED stale
    BY <1>5 DEF InfoFails
  <2>2. Sessions'
    BY <1>0, <1>5, <2>1, SessionsStay, LogsInKeeps, UnawaresKeeps
       DEF InfoFails, prompts, Sessions, PromptType
  <2>3. PlaceType' /\ Places'
    BY <1>0, <1>5 DEF InfoFails, prompts
  <2> QED
    BY <2>2, <2>3, LifecycleParts
<1>6. CASE Dropped(e)
  <2>1. Sessions'
    BY <1>0, <1>6, CloseKeeps DEF Dropped
  <2>2. PlaceType' /\ Places'
    BY <1>0, <1>6 DEF Dropped, prompts
  <2> QED
    BY <2>1, <2>2, LifecycleParts
<1>7. CASE Refreshed(e)
  <2>1. Sessions'
    BY <1>0, <1>7, SessionsStay, LogsInKeeps DEF Refreshed
  <2>2. PlaceType' /\ Places'
    BY <1>0, <1>7 DEF Refreshed, prompts
  <2> QED
    BY <2>1, <2>2, LifecycleParts
<1>8. CASE RefreshFails(e)
  <2>1. UNCHANGED prompts /\ UNCHANGED stale
    BY <1>8 DEF RefreshFails
  <2>2. Sessions'
    BY <1>0, <1>8, <2>1, AbandonedKeeps, UnawaresKeeps
       DEF RefreshFails, prompts, Sessions, PromptType
  <2>3. PlaceType' /\ Places'
    BY <1>0, <1>8 DEF RefreshFails, prompts
  <2> QED
    BY <2>2, <2>3, LifecycleParts
<1>9. CASE RefreshRefused(e)
  <2>1. Sessions'
    BY <1>0, <1>9, RefusedKeeps DEF RefreshRefused
  <2>2. PlaceType' /\ Places'
    BY <1>0, <1>9 DEF RefreshRefused, Refused
  <2> QED
    BY <2>1, <2>2, LifecycleParts
<1>10. CASE Bind(e) \/ Subscribe(e) \/ NoTraps(e) \/ Loaded(e)
  <2>1. Sessions'
    BY <1>0, <1>10, SessionsStay DEF Bind, Subscribe, NoTraps, Loaded
  <2>2. PlaceType' /\ Places'
    BY <1>0, <1>10 DEF Bind, Subscribe, NoTraps, Loaded, prompts
  <2> QED
    BY <2>1, <2>2, LifecycleParts
<1>11. CASE Poll(e)
  <2>1. UNCHANGED stale
    BY <1>11 DEF Poll
  <2>2. Sessions'
    BY <1>0, <1>11, <2>1, LogsInKeeps, UnawaresKeeps, RefusedKeeps
       DEF Poll, prompts, Sessions, PromptType
  <2>3. PlaceType' /\ Places'
    BY <1>0, <1>11 DEF Poll, Refused, prompts
  <2> QED
    BY <2>2, <2>3, LifecycleParts
<1> QED
  BY <1>1, <1>2, <1>3, <1>4, <1>5, <1>6, <1>7, <1>8, <1>9, <1>10, <1>11
     DEF SetUp

\* Unloading gives up the session first, then the traps.
LEMMA TakeDownKeeps ==
    ASSUME LifecycleInv, NEW e \in Entries, TakeDown(e)
    PROVE  LifecycleInv'
<1>0. Sessions /\ PlaceType /\ Places
  BY LifecycleParts
<1> USE DEF PlaceType, Pcs, Places, TrapPcs, traps, Goto
<1>1. CASE Unload(e) \/ Unloaded(e)
  <2>1. Sessions'
    BY <1>0, <1>1, SessionsStay DEF Unload, Unloaded
  <2>2. PlaceType' /\ Places'
    BY <1>0, <1>1 DEF Unload, Unloaded, prompts
  <2> QED
    BY <2>1, <2>2, LifecycleParts
\* The driver has been closed, whatever the switch answered
<1>2. CASE CloseApi(e)
  <2>1. Sessions'
    BY <1>0, <1>2, CloseKeeps DEF CloseApi
  <2>2. PlaceType' /\ Places'
    BY <1>0, <1>2 DEF CloseApi, prompts
  <2> QED
    BY <2>1, <2>2, LifecycleParts
<1>3. CASE LateTrap(e)
  <2>1. Sessions'
    BY <1>0, <1>3 DEF LateTrap, Sessions, SessionType, PromptType, Counted,
       PromptExplained, Lost, More, prompts
  <2>2. PlaceType' /\ Places'
    BY <1>0, <1>3 DEF LateTrap, prompts
  <2> QED
    BY <2>1, <2>2, LifecycleParts
<1> QED
  BY <1>1, <1>2, <1>3 DEF TakeDown

\* Sessions that users open or leave behind are counted as lost.
LEMMA EnvironmentKeeps ==
    ASSUME LifecycleInv, NEW e \in Entries, Environment(e)
    PROVE  LifecycleInv'
<1>0. Sessions /\ PlaceType /\ Places
  BY LifecycleParts
<1> USE DEF PlaceType, Pcs, Places, TrapPcs, traps, Goto
<1>1. CASE Enable(e)
  <2>1. Sessions'
    BY <1>0, <1>1, SessionsStay DEF Enable
  <2>2. PlaceType' /\ Places'
    BY <1>0, <1>1 DEF Enable, prompts
  <2> QED
    BY <2>1, <2>2, LifecycleParts
<1>2. CASE Reauth(e)
  <2>1. /\ stale' = stale \ {e}
        /\ asked' = asked \ {e}
        /\ unlucky' = unlucky \ {e}
        /\ held' = held /\ theirs' = theirs
        /\ \/ ours' = ours /\ lost' = lost
           \/ Opened(e) /\ Lost(e)
        /\ Free(e)
    BY <1>2 DEF Reauth, sessions
  <2>2. Sessions'
    BY <1>0, <2>1 DEF Sessions, SessionType, PromptType, Counted,
       PromptExplained, Opened, Lost, More, Free
  <2>3. PlaceType' /\ Places'
    BY <1>0, <1>2 DEF Reauth
  <2> QED
    BY <2>2, <2>3, LifecycleParts
<1>3. CASE WebLogin(e)
  <2>1. Sessions'
    BY <1>0, <1>3 DEF WebLogin, Sessions, SessionType, PromptType, Counted,
       PromptExplained, Free, Lost, More, prompts
  <2>2. PlaceType' /\ Places'
    BY <1>0, <1>3 DEF WebLogin, prompts
  <2> QED
    BY <2>1, <2>2, LifecycleParts
<1>4. CASE Expire(e)
  <2>1. UNCHANGED prompts /\ UNCHANGED stale
    BY <1>4 DEF Expire
  <2>2. ASSUME DriverLosesIt(e)
        PROVE  Sessions'
    BY <1>0, <2>1, <2>2, LosesItKeeps DEF prompts, Sessions, PromptType
  <2>3. ASSUME theirs[e] > 0,
               theirs' = [theirs EXCEPT ![e] = @ - 1],
               UNCHANGED <<held, ours, lost>>
        PROVE  Sessions'
    BY <1>0, <2>1, <2>3 DEF Sessions, SessionType, PromptType, Counted,
       PromptExplained, prompts
  <2>4. ASSUME ours[e] > (IF e \in held THEN 1 ELSE 0),
               Ended(e),
               UNCHANGED <<held, theirs, lost>>
        PROVE  Sessions'
    BY <1>0, <2>1, <2>4 DEF Sessions, SessionType, PromptType, Counted,
       PromptExplained, prompts, Ended
  <2>5. Sessions'
    BY <1>4, <2>2, <2>3, <2>4 DEF Expire
  <2>6. PlaceType' /\ Places'
    BY <1>0, <1>4 DEF Expire, prompts
  <2> QED
    BY <2>5, <2>6, LifecycleParts
<1>5. CASE NewPassword(e)
  <2>1. Sessions'
    BY <1>0, <1>5 DEF NewPassword, Sessions, SessionType, PromptType, Counted,
       PromptExplained, sessions, prompts
  <2>2. PlaceType' /\ Places'
    BY <1>0, <1>5 DEF NewPassword, prompts
  <2> QED
    BY <2>1, <2>2, LifecycleParts
<1> QED
  BY <1>1, <1>2, <1>3, <1>4, <1>5 DEF Environment

\* A restart loses the sessions that were held, and nothing else is left.
LEMMA RestartKeeps ==
    ASSUME LifecycleInv, HassRestart
    PROVE  LifecycleInv'
<1>0. Sessions /\ PlaceType /\ Places
  BY LifecycleParts
<1>1. Sessions'
  BY <1>0 DEF HassRestart, Sessions, SessionType, PromptType, Counted,
     PromptExplained, More
<1>2. PlaceType' /\ Places'
  BY <1>0 DEF HassRestart, PlaceType, Pcs, Places, TrapPcs
<1> QED
  BY <1>1, <1>2, LifecycleParts

\* The invariant is inductive.
LEMMA LifecycleStepKeeps ==
    LifecycleInv /\ [LifecycleNext]_lifecycleVars => LifecycleInv'
<1> SUFFICES ASSUME LifecycleInv, [LifecycleNext]_lifecycleVars
             PROVE  LifecycleInv'
  OBVIOUS
<1>1. CASE \E e \in Entries : SetUp(e) \/ TakeDown(e) \/ Environment(e)
  BY <1>1, SetUpKeeps, TakeDownKeeps, EnvironmentKeeps
<1>2. CASE HassRestart
  BY <1>2, RestartKeeps
<1>3. CASE UNCHANGED lifecycleVars
  BY <1>3 DEF lifecycleVars, LifecycleInv, LifecycleTypeOK, Places, Counted,
              PromptExplained
<1> QED
  BY <1>1, <1>2, <1>3 DEF LifecycleNext

\* Every reachable state satisfies the inductive invariant.
LEMMA LifecycleInvHolds == LifecycleSpec => []LifecycleInv
BY LifecycleInitKeeps, LifecycleStepKeeps, PTL DEF LifecycleSpec

-----------------------------------------------------------------------------
(***************************************************************************)
(* The states of set-up and unload are well typed; in particular a driver  *)
(* that holds a session is one the switch still counts.                    *)
(***************************************************************************)
THEOREM LifecycleTypeCorrect == LifecycleSpec => []LifecycleTypeOK
<1>1. LifecycleInv => LifecycleTypeOK
  BY DEF LifecycleInv
<1> QED
  BY <1>1, LifecycleInvHolds, PTL

(***************************************************************************)
(* An entry that is not set up keeps neither the trap port nor a           *)
(* subscription, wherever async_setup_entry or async_unload_entry failed.  *)
(***************************************************************************)
THEOREM NothingLeft == LifecycleSpec => []NothingLeftBehind
<1>1. LifecycleInv => NothingLeftBehind
  BY DEF LifecycleInv, Places, TrapPcs, NothingLeftBehind, Down
<1> QED
  BY <1>1, LifecycleInvHolds, PTL

(***************************************************************************)
(* A password that is right is asked for only when all the slots of the    *)
(* switch were lost one by one, or after a session was dropped under a     *)
(* request or a login granted late, whatever answers get lost.             *)
(***************************************************************************)
THEOREM PromptsExplained == LifecycleSpec => []PromptExplained
<1>1. LifecycleInv => PromptExplained
  BY DEF LifecycleInv
<1> QED
  BY <1>1, LifecycleInvHolds, PTL
=============================================================================
