---------------------------- MODULE PollDataProofs ----------------------------
(***************************************************************************)
(* Proofs about PollData, for any ports, names, failures, threshold and    *)
(* interval between reads of the name page.                                *)
(***************************************************************************)
EXTENDS PollData, TLAPS

USE PollDataAssumption

-----------------------------------------------------------------------------
(***************************************************************************)
(* The inductive invariant                                                 *)
(***************************************************************************)
\* The count is the run of stalled polls, and the flag follows it
StallCounted == stalls = streak /\ (stalled <=> stalls = Threshold)

IInv == TypeOK /\ StallCounted

\* A poll's record, and names, are what they are said to be.
LEMMA Records ==
    /\ NoNames \in [Ports -> Names]
    /\ IdlePoll \in Polls
    /\ IdleWrite \in [pc: {"idle", "fetched"}, read: [Ports -> Names]]
    /\ IdlePoll.pc = "idle"
<1>1. NoNames \in [Ports -> Names]
  BY DEF NoNames, Names, Unnamed
<1> QED
  BY <1>1 DEF IdlePoll, Polls, PollPcs, IdleWrite

\* The count of polls wraps within the interval.
LEMMA CountType ==
    ASSUME count \in 0 .. NamesEvery - 1
    PROVE  NextCount \in 0 .. NamesEvery - 1
BY DEF NextCount

\* At the start there is neither data nor a stall.
LEMMA InitKeeps == Init => IInv
<1> SUFFICES ASSUME Init
             PROVE  IInv
  OBVIOUS
<1>1. name \in [Ports -> Names]
  BY DEF Init, Names, Unnamed
<1>2. /\ lastName \in Names /\ rename \in Renames
      /\ count \in 0 .. NamesEvery - 1 /\ stalls \in 0 .. Threshold
      /\ streak = stalls /\ stalls # Threshold /\ failures \in 0 .. MaxFailures
  BY DEF Init, Names, Renames
<1>3. alias \in [Ports -> Names \union {Missing}]
  BY DEF Init
<1>4. TypeOK
  BY <1>1, <1>2, <1>3, Records DEF Init, TypeOK
<1>5. stalled = FALSE
  BY DEF Init
<1> QED
  BY <1>2, <1>4, <1>5 DEF IInv, StallCounted
-----------------------------------------------------------------------------
(***************************************************************************)
(* What a step leaves of the type invariant: the parts in which steps      *)
(* differ.                                                                 *)
(***************************************************************************)
NamesType ==
    /\ name \in [Ports -> Names]
    /\ lastName \in Names
ShownType ==
    /\ hasData \in BOOLEAN
    /\ alias \in [Ports -> Names \union {Missing}]
ApiType ==
    /\ cache \in [Ports -> Names]
    /\ loaded \in BOOLEAN
    /\ count \in 0 .. NamesEvery - 1
    /\ webNames \in BOOLEAN
CallsType ==
    /\ poll \in Polls
    /\ write \in [pc: {"idle", "fetched"}, read: [Ports -> Names]]
    /\ rename \in Renames
StallType ==
    /\ stalls \in 0 .. Threshold
    /\ stalled \in BOOLEAN
    /\ StallCounted
ConfigType ==
    /\ snmp \in Snmps
    /\ driver \in Drivers
    /\ failures \in 0 .. MaxFailures

\* The invariant is the conjunction of these parts.
LEMMA Parts ==
    IInv <=> /\ NamesType /\ ShownType /\ ApiType /\ CallsType /\ StallType
             /\ ConfigType
BY DEF IInv, TypeOK, NamesType, ShownType, ApiType, CallsType, StallType,
       ConfigType, StallCounted

\* So it is in the next state.
LEMMA PartsNext ==
    /\ NamesType' /\ ShownType' /\ ApiType' /\ CallsType' /\ StallType'
    /\ ConfigType'
    => IInv'
<1>1. (IInv <=> /\ NamesType /\ ShownType /\ ApiType /\ CallsType
                /\ StallType /\ ConfigType)'
  BY Parts, PTL
<1> QED
  BY <1>1

\* A poll stores what it got; the name page may be turned on or off by it.
LEMMA OverlayType ==
    ASSUME NEW S, Names \subseteq S, NEW old \in [Ports -> S], poll \in Polls
    PROVE  Overlay(old) \in [Ports -> S]
BY DEF Overlay, Polls

\* The counts of stalls and the history of them move together.
LEMMA StallSteps ==
    ASSUME StallType, CountStall \/ ResetStall \/ UNCHANGED stall
    PROVE  StallType'
<1>1. CASE CountStall
  <2>1. /\ stalls \in 0 .. Threshold /\ streak = stalls
        /\ stalled \in BOOLEAN /\ (stalled <=> stalls = Threshold)
    BY DEF StallType, StallCounted
  <2>2. /\ stalls' \in 0 .. Threshold /\ streak' = stalls'
        /\ stalls' = Threshold <=> stalls = Threshold \/ stalls + 1 = Threshold
    BY <1>1, <2>1 DEF CountStall
  <2>3. stalled' = (stalled \/ stalls + 1 = Threshold)
    BY <1>1 DEF CountStall
  <2>4. stalled' \in BOOLEAN /\ (stalled' <=> stalls' = Threshold)
    BY <2>1, <2>2, <2>3
  <2> QED
    BY <2>2, <2>4 DEF StallType, StallCounted
<1>2. CASE ResetStall
  <2>1. /\ stalls' \in 0 .. Threshold /\ streak' = stalls'
        /\ stalls' # Threshold
    BY <1>2 DEF ResetStall
  <2>2. stalled' = FALSE
    BY <1>2 DEF ResetStall
  <2> QED
    BY <2>1, <2>2 DEF StallType, StallCounted
<1>3. CASE UNCHANGED stall
  BY <1>3 DEF StallType, StallCounted, stall
<1> QED
  BY <1>1, <1>2, <1>3

\* What the web drivers keep of names.
LEMMA ApiSteps ==
    ASSUME ApiType, snmp \in BOOLEAN, UNCHANGED snmp,
           \/ UNCHANGED api
           \/ Retry
           \/ count' = NextCount /\ UNCHANGED <<cache, loaded, webNames>>
           \/ /\ \E names \in [Ports -> Names] : CacheNames(names)
              /\ count' = NextCount /\ UNCHANGED webNames
           \/ SwitchNamePage /\ UNCHANGED <<cache, loaded, count>>
           \/ /\ cache' \in [Ports -> Names]
              /\ UNCHANGED <<loaded, count, webNames>>
    PROVE  ApiType'
<1> USE DEF ApiType
<1>1. CASE UNCHANGED api
  BY <1>1 DEF api
<1>2. CASE Retry
  <2>1. 0 \in 0 .. NamesEvery - 1
    OBVIOUS
  <2> QED
    BY <1>2, <2>1, Records DEF Retry, api
<1>3. CASE count' = NextCount /\ UNCHANGED <<cache, loaded, webNames>>
  BY <1>3, CountType
<1>4. CASE /\ \E names \in [Ports -> Names] : CacheNames(names)
           /\ count' = NextCount /\ UNCHANGED webNames
  BY <1>4, CountType DEF CacheNames
<1>5. CASE SwitchNamePage /\ UNCHANGED <<cache, loaded, count>>
  BY <1>5 DEF SwitchNamePage, NoneRead
<1>6. CASE /\ cache' \in [Ports -> Names]
           /\ UNCHANGED <<loaded, count, webNames>>
  BY <1>6
<1> QED
  BY <1>1, <1>2, <1>3, <1>4, <1>5, <1>6

-----------------------------------------------------------------------------
(***************************************************************************)
(* The steps                                                               *)
(***************************************************************************)
\* A poll's reads: nothing is shown yet.
LEMMA ReadsKeep ==
    ASSUME IInv,
           \/ PollBegins \/ SnmpPoe \/ SnmpPoeFails \/ WebFetch \/ WebNoFetch
           \/ WebFetched \/ WebFails \/ WebAuthFails \/ Stalls \/ Unreachable
           \/ InfoRead \/ InfoQuiet \/ StoreFirst
    PROVE  IInv'
<1>1. /\ NamesType /\ ShownType /\ ApiType /\ CallsType /\ StallType
      /\ ConfigType
  BY Parts
<1>2. UNCHANGED <<config, name, shown, write, rename, lastName>>
  BY DEF PollBegins, SnmpPoe, SnmpPoeFails, WebFetch, WebNoFetch, WebFetched,
         WebFails, WebAuthFails, Stalls, Unreachable, InfoRead, InfoQuiet,
         StoreFirst
<1>3. NamesType' /\ ShownType'
  BY <1>1, <1>2 DEF NamesType, ShownType, shown
<1>4. snmp \in BOOLEAN /\ UNCHANGED snmp
  BY <1>1, <1>2 DEF ConfigType, config
<1>5. ConfigType'
  <2>1. Fails \/ UNCHANGED failures
    BY DEF PollBegins, SnmpPoe, SnmpPoeFails, WebFetch, WebNoFetch,
           WebFetched, WebFails, WebAuthFails, Stalls, Unreachable, InfoRead,
           InfoQuiet, StoreFirst
  <2> QED
    BY <1>1, <1>2, <2>1 DEF ConfigType, config, Fails
<1>6. ApiType'
  <2>1. poll.read \in [Ports -> Names]
    BY <1>1 DEF CallsType, Polls
  <2>2. \/ UNCHANGED api
        \/ Retry
        \/ count' = NextCount /\ UNCHANGED <<cache, loaded, webNames>>
        \/ CacheNames(poll.read) /\ count' = NextCount /\ UNCHANGED webNames
    BY DEF PollBegins, SnmpPoe, SnmpPoeFails, WebFetch, WebNoFetch,
           WebFetched, WebFails, WebAuthFails, Stalls, Unreachable, InfoRead,
           InfoQuiet, StoreFirst
  <2> QED
    BY <1>1, <1>4, <2>1, <2>2, ApiSteps
<1>7. StallType'
  <2>1. CountStall \/ ResetStall \/ UNCHANGED stall
    BY DEF PollBegins, SnmpPoe, SnmpPoeFails, WebFetch, WebNoFetch,
           WebFetched, WebFails, WebAuthFails, Stalls, Unreachable, InfoRead,
           InfoQuiet, StoreFirst
  <2> QED
    BY <1>1, <2>1, StallSteps
<1>8. CallsType'
  <2>1. name \in [Ports -> Names] /\ cache' \in [Ports -> Names]
    BY <1>1, <1>6 DEF NamesType, ApiType
  <2>2. cache \in [Ports -> Names] /\ poll \in Polls
    BY <1>1 DEF ApiType, CallsType
  <2>3. AfterWeb \in PollPcs
    BY DEF AfterWeb, PollPcs
  <2>4. poll' \in Polls
    <3> USE DEF Polls, PollPcs
    <3>1. CASE PollBegins
      BY <3>1, Records DEF PollBegins
    <3>2. CASE SnmpPoe \/ SnmpPoeFails \/ WebFails \/ StoreFirst
      BY <2>2, <3>2 DEF SnmpPoe, SnmpPoeFails, WebFails, StoreFirst
    <3>3. CASE WebFetch \/ InfoRead
      BY <2>1, <2>2, <3>3 DEF WebFetch, InfoRead
    <3>4. CASE WebNoFetch
      BY <2>2, <2>3, <3>4 DEF WebNoFetch
    <3>5. CASE WebFetched
      BY <2>1, <2>2, <2>3, <3>5, Records DEF WebFetched
    <3>6. CASE WebAuthFails \/ Unreachable
      BY <3>6, Records DEF WebAuthFails, Unreachable
    <3>7. CASE Stalls
      BY <2>2, <2>3, <3>7 DEF Stalls
    <3>8. CASE InfoQuiet
      BY <2>2, <3>8, Records DEF InfoQuiet
    <3> QED
      BY <3>1, <3>2, <3>3, <3>4, <3>5, <3>6, <3>7, <3>8
  <2> QED
    BY <1>1, <1>2, <2>4 DEF CallsType
<1> QED
  BY <1>3, <1>5, <1>6, <1>7, <1>8, PartsNext

\* A poll that has all its reads stores what they brought.
LEMMA StoresKeep ==
    ASSUME IInv, StoreSnmp \/ StoreWeb \/ StoreStalled
    PROVE  IInv'
<1>1. /\ NamesType /\ ShownType /\ ApiType /\ CallsType /\ StallType
      /\ ConfigType
  BY Parts
<1>2. /\ poll' = IdlePoll /\ hasData' = TRUE
      /\ UNCHANGED <<config, name, write, rename, lastName, failures>>
  BY DEF StoreSnmp, StoreWeb, StoreStalled
<1>3. NamesType' /\ ConfigType' /\ CallsType'
  BY <1>1, <1>2, Records DEF NamesType, ConfigType, CallsType, config
<1>4. ApiType'
  <2>1. snmp \in BOOLEAN /\ UNCHANGED snmp
    BY <1>1, <1>2 DEF ConfigType, config
  <2>2. UNCHANGED api \/ (SwitchNamePage /\ UNCHANGED <<cache, loaded, count>>)
    BY DEF StoreSnmp, StoreWeb, StoreStalled
  <2> QED
    BY <1>1, <2>1, <2>2, ApiSteps
<1>5. StallType'
  <2>1. ResetStall \/ UNCHANGED stall
    BY DEF StoreSnmp, StoreWeb, StoreStalled
  <2> QED
    BY <1>1, <2>1, StallSteps
<1>6. alias' \in [Ports -> Names \union {Missing}]
  <2> DEFINE S == Names \union {Missing}
  <2>1. /\ alias \in [Ports -> S] /\ poll \in Polls
        /\ poll.alias \in [Ports -> Names] /\ Unnamed \in Names
    BY <1>1 DEF ShownType, CallsType, Polls, Names, Unnamed
  <2>2. CASE StoreSnmp
    <3> DEFINE old == [p \in Ports |-> IF alias[p] = Missing THEN Unnamed
                                                             ELSE alias[p]]
    <3>1. old \in [Ports -> S]
      BY <2>1
    <3>2. alias' = Overlay(old)
      BY <2>2 DEF StoreSnmp
    <3> HIDE DEF old, S
    <3>3. Names \subseteq S
      BY DEF S
    <3>4. alias' \in [Ports -> S]
      BY <2>1, <3>1, <3>2, <3>3, OverlayType
    <3> QED
      BY <3>4 DEF S
  <2>3. CASE StoreWeb
    <3>1. Overlay(poll.alias) \in [Ports -> Names]
      BY <2>1, OverlayType
    <3> QED
      BY <2>3, <3>1 DEF StoreWeb
  <2>4. CASE StoreStalled
    <3>1. Overlay(alias) \in [Ports -> S]
      BY <2>1, OverlayType
    <3> QED
      BY <2>1, <2>4, <3>1 DEF StoreStalled
  <2> QED
    BY <2>2, <2>3, <2>4
<1> QED
  BY <1>2, <1>3, <1>4, <1>5, <1>6, PartsNext DEF ShownType

\* Writes and renames, by whomever.
LEMMA OthersKeep ==
    ASSUME IInv,
           \/ WriteReads \/ WriteFetched \/ RenameReturns \/ RenameFails
           \/ \E p \in Ports, to \in Names :
                 SwitchRenames(p, to) \/ RenameLands(p, to)
    PROVE  IInv'
<1>1. /\ NamesType /\ ShownType /\ ApiType /\ CallsType /\ StallType
      /\ ConfigType
  BY Parts
<1>2. snmp \in BOOLEAN
  BY <1>1 DEF ConfigType
<1>3. CASE WriteReads
  <2>1. UNCHANGED <<config, name, shown, cache, loaded, webNames, poll,
                    rename, stall, lastName, failures>>
    BY <1>3 DEF WriteReads
  <2>2. /\ write' \in [pc: {"idle", "fetched"}, read: [Ports -> Names]]
        /\ count' = count \/ count' = NextCount
    BY <1>1, <1>3 DEF WriteReads, CallsType, NamesType
  <2>3. ApiType'
    BY <1>1, <1>2, <2>1, <2>2, ApiSteps DEF api, config
  <2>4. StallType'
    BY <1>1, <2>1, StallSteps
  <2> QED
    BY <1>1, <2>1, <2>2, <2>3, <2>4, PartsNext
       DEF NamesType, ShownType, CallsType, ConfigType, config, shown
<1>4. CASE WriteFetched
  <2>1. UNCHANGED <<config, name, shown, webNames, poll, rename, stall,
                    lastName, failures>>
    BY <1>4 DEF WriteFetched
  <2>2. /\ write' = IdleWrite /\ write.read \in [Ports -> Names]
        /\ CacheNames(write.read) /\ count' = NextCount
    BY <1>1, <1>4 DEF WriteFetched, CallsType
  <2>3. ApiType'
    BY <1>1, <1>2, <2>1, <2>2, ApiSteps DEF config
  <2>4. StallType'
    BY <1>1, <2>1, StallSteps
  <2> QED
    BY <1>1, <2>1, <2>2, <2>3, <2>4, PartsNext, Records
       DEF NamesType, ShownType, CallsType, ConfigType, config, shown
<1>5. CASE RenameReturns
  <2>1. UNCHANGED <<config, name, hasData, loaded, count, webNames, poll,
                    write, stall, lastName, failures>>
    BY <1>5 DEF RenameReturns
  <2>2. rename.port \in Ports /\ rename.to \in Names
    BY <1>1, <1>5 DEF RenameReturns, CallsType, Renames, IdleRename
  <2>3. rename' = IdleRename /\ cache' \in [Ports -> Names]
    BY <1>1, <1>5, <2>2 DEF RenameReturns, ApiType
  <2>4. alias' \in [Ports -> Names \union {Missing}]
    BY <1>1, <1>5, <2>2 DEF RenameReturns, ShownType
  <2>5. ApiType'
    BY <1>1, <1>2, <2>1, <2>3, ApiSteps DEF config
  <2>6. StallType'
    BY <1>1, <2>1, StallSteps
  <2> QED
    BY <1>1, <2>1, <2>3, <2>4, <2>5, <2>6, PartsNext
       DEF NamesType, ShownType, CallsType, ConfigType, config, Renames
<1>6. CASE RenameFails
  <2>1. /\ UNCHANGED <<config, name, shown, api, poll, write, stall, lastName>>
        /\ rename' = IdleRename /\ Fails
    BY <1>6 DEF RenameFails
  <2>2. ApiType' /\ StallType'
    BY <1>1, <1>2, <2>1, ApiSteps, StallSteps DEF config
  <2> QED
    BY <1>1, <2>1, <2>2, PartsNext
       DEF NamesType, ShownType, CallsType, ConfigType, config, shown, Renames,
           Fails
<1>7. ASSUME NEW p \in Ports, NEW to \in Names,
             SwitchRenames(p, to) \/ RenameLands(p, to)
      PROVE  IInv'
  <2>1. /\ UNCHANGED <<config, shown, api, poll, write, stall, failures>>
        /\ Describe(p, to)
        /\ rename' = rename \/ rename' = [pc |-> "sent", port |-> p, to |-> to]
    BY <1>7 DEF SwitchRenames, RenameLands
  <2>2. name' \in [Ports -> Names] /\ lastName' \in Names
    BY <1>1, <2>1 DEF Describe, NamesType
  <2>3. rename' \in Renames
    BY <1>1, <2>1 DEF CallsType, Renames
  <2>4. ApiType' /\ StallType'
    BY <1>1, <1>2, <2>1, ApiSteps, StallSteps DEF config
  <2> QED
    BY <1>1, <2>1, <2>2, <2>3, <2>4, PartsNext
       DEF NamesType, ShownType, CallsType, ConfigType, config, shown
<1> QED
  BY <1>3, <1>4, <1>5, <1>6, <1>7

\* The invariant is inductive.
LEMMA StepKeeps == IInv /\ [Next]_vars => IInv'
<1> SUFFICES ASSUME IInv, [Next]_vars
             PROVE  IInv'
  OBVIOUS
<1>1. CASE PollStep \/ PollWanted
  BY <1>1, ReadsKeep, StoresKeep DEF PollStep, PollStart, PollWanted
<1>2. CASE \/ WriteReads \/ WriteFetched \/ RenameReturns \/ RenameFails
           \/ \E p \in Ports, to \in Names :
                 SwitchRenames(p, to) \/ RenameLands(p, to)
  BY <1>2, OthersKeep
<1>3. CASE UNCHANGED vars
  BY <1>3
     DEF vars, config, api, shown, stall, IInv, TypeOK, StallCounted
<1> QED
  BY <1>1, <1>2, <1>3 DEF Next

\* Every reachable state satisfies it.
LEMMA IInvHolds == Spec => []IInv
BY InitKeeps, StepKeeps, PTL DEF Spec

-----------------------------------------------------------------------------
(***************************************************************************)
(* The theorems                                                            *)
(***************************************************************************)
(***************************************************************************)
(* Polls, caches, names and the stall counter are well typed: every alias  *)
(* shown is a name the switch had, and the count of polls stays within the *)
(* interval at which the name page is read.                                *)
(***************************************************************************)
THEOREM TypeCorrect == Spec => []TypeOK
<1>1. IInv => TypeOK
  BY DEF IInv
<1> QED
  BY <1>1, IInvHolds, PTL

(***************************************************************************)
(* StallFlagEarned: poe_stalled is set exactly while the last Threshold    *)
(* polls or more stalled, along every path through SNMP, the web UI and    *)
(* set-up retries, for every threshold.                                    *)
(***************************************************************************)
THEOREM StallFlagIsEarned == Spec => []StallFlagEarned
<1>1. IInv => StallFlagEarned
  BY DEF IInv, StallCounted, StallFlagEarned
<1> QED
  BY <1>1, IInvHolds, PTL
=============================================================================
