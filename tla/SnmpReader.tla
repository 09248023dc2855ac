----------------------------- MODULE SnmpReader -----------------------------
(***************************************************************************)
(* The SNMP side of a poll: the PoE read and the link read of the link     *)
(* monitor, and what it remembers between them - the rows each column had, *)
(* how often they were fetched since, whether the agent has PoE tables at  *)
(* all, which vendor table reports watts and how long a hung one is left   *)
(* alone.  Only which rows there are is modelled, not their values.        *)
(***************************************************************************)
EXTENDS Naturals

CONSTANTS
    Ports,       \* front-panel ports
    Group,       \* the one row of the PSE's main table
    Agents,      \* the rows an agent may have, per column, at first
    HungTables,  \* the sets of vendor tables an agent may hang on
    RewalkEvery, \* REWALK_EVERY_READS
    Backoff,     \* POWER_PROBE_BACKOFF_READS
    MaxChanges,  \* bound: rows that appear or vanish
    MaxFailures  \* bound: requests that time out

Tables == {"fastpath", "radlan"}
\* Read by walking; the other columns by asking for candidate rows
Walked == {"oper", "alias"}
Columns == Walked \union {"admin", "detection", "main"} \union Tables
RowsOf(col) == IF col = "main" THEN {Group} ELSE Ports
RowSets == SUBSET (Ports \union {Group})

ASSUME SnmpReaderAssumption ==
    /\ Group \notin Ports
    /\ Agents \subseteq [Columns -> RowSets]
    /\ \A a \in Agents, col \in Columns : a[col] \subseteq RowsOf(col)
    /\ HungTables \subseteq SUBSET Tables
    /\ {RewalkEvery, Backoff} \subseteq Nat \ {0}
    /\ {MaxChanges, MaxFailures} \subseteq Nat

VARIABLES
    has, hangs,    \* the agent: its rows; the tables it does not answer for
    rows, reads,   \* _rows and _reads, per column
    supported,     \* poe_supported: "unknown", "yes" or "no"
    powerOid,      \* _power_oid: "unknown", "none" or a table
    skip,          \* _power_skip
    read,          \* the read in progress
    shown, linked, \* the ports in the last PoE data and link states
    changes, failures \* how much of the bounds is used

agent == <<has, hangs, changes>>
cache == <<rows, reads>>
power == <<powerOid, skip>>
answers == <<shown, linked>>
vars == <<agent, cache, supported, power, read, answers, failures>>

(***************************************************************************)
(* pc is the column whose answer is awaited; link is the second read of    *)
(* oper, by async_get_port_info.  power: that of the vendor table named by *)
(* table.  ports, admin: the rows oper and admin brought.  failed: a table *)
(* of this probe timed out.                                                *)
(***************************************************************************)
Pcs == {"idle", "oper", "admin", "detection", "main", "power", "link",
        "alias"}
Reads == [pc: Pcs, ports: SUBSET Ports, admin: SUBSET Ports, table: Tables,
          failed: BOOLEAN]
IdleRead == [pc |-> "idle", ports |-> {}, admin |-> {}, table |-> "fastpath",
             failed |-> FALSE]
LinkRead == [IdleRead EXCEPT !.pc = "link"]

TypeOK ==
    /\ has \in [Columns -> RowSets]
    /\ hangs \in HungTables
    /\ rows \in [Columns -> RowSets]
    /\ \A col \in Columns : rows[col] \subseteq RowsOf(col)
    /\ reads \in [Columns -> 0 .. RewalkEvery]
    /\ supported \in {"unknown", "yes", "no"}
    /\ powerOid \in {"unknown", "none"} \union Tables
    /\ skip \in 0 .. Backoff
    /\ read \in Reads
    /\ {shown, linked} \subseteq SUBSET Ports
    /\ changes \in 0 .. MaxChanges
    /\ failures \in 0 .. MaxFailures

\* A new link monitor
Init ==
    /\ has \in Agents
    /\ hangs \in HungTables
    /\ rows = [col \in Columns |-> {}]
    /\ reads = [col \in Columns |-> 0]
    /\ supported = "unknown"
    /\ powerOid = "unknown"
    /\ skip = 0
    /\ read = IdleRead
    /\ shown = {}
    /\ linked = {}
    /\ changes = 0
    /\ failures = 0

TimesOut == failures < MaxFailures /\ failures' = failures + 1

-----------------------------------------------------------------------------
(***************************************************************************)
(* _read                                                                   *)
(***************************************************************************)
\* The rows are known and not too old: they are fetched with GETs
Known(col) == rows[col] # {} /\ reads[col] < RewalkEvery

\* A GET of known rows fails if one of them is gone
Vanished(col) == ~(rows[col] \subseteq has[col])

\* Mutant: a fresh read does not start a new count
FreshRowsAged(col, wanted, found) ==
    /\ found = IF col \in Walked THEN has[col] ELSE wanted \intersect has[col]
    /\ rows' = [rows EXCEPT ![col] = found]
    /\ reads' = [reads EXCEPT ![col] = @ + 1]

\* A walk, or a GET of the candidate rows that keeps those there are
FreshRows(col, wanted, found) ==
    /\ found = IF col \in Walked THEN has[col] ELSE wanted \intersect has[col]
    /\ rows' = [rows EXCEPT ![col] = found]
    /\ reads' = [reads EXCEPT ![col] = 0]

\* The read of col answers with the rows found
Answers(col, wanted, found) ==
    /\ col \notin hangs
    /\ \/ /\ Known(col)
          /\ ~Vanished(col)
          /\ found = rows[col]
          /\ reads' = [reads EXCEPT ![col] = @ + 1]
          /\ UNCHANGED <<rows, failures>>
       \/ /\ ~Known(col) \/ (col \in Walked /\ Vanished(col))
          /\ FreshRows(col, wanted, found)
          /\ UNCHANGED failures
       \/ /\ Known(col)
          /\ col \in Walked
          /\ TimesOut
          /\ FreshRows(col, wanted, found)

\* The read of col raises
Raises(col) ==
    /\ \/ TimesOut
       \/ /\ \/ col \in hangs
             \/ Known(col) /\ Vanished(col) /\ col \notin Walked
          /\ UNCHANGED failures
    /\ UNCHANGED cache

-----------------------------------------------------------------------------
(***************************************************************************)
(* async_get_poe_data                                                      *)
(***************************************************************************)
\* Not asked again once the agent was found to have no PSE table
PoeWanted ==
    /\ read.pc = "idle"
    /\ IF supported = "no"
         THEN read' = LinkRead /\ shown' = {}
         ELSE read' = [IdleRead EXCEPT !.pc = "oper"] /\ UNCHANGED shown
    /\ UNCHANGED <<agent, cache, supported, power, linked, failures>>

OperRead ==
    /\ read.pc = "oper"
    /\ \E found \in SUBSET Ports :
          /\ Answers("oper", {}, found)
          /\ read' = [read EXCEPT !.pc = "admin", !.ports = found]
    /\ UNCHANGED <<agent, supported, power, answers>>

AdminRead ==
    /\ read.pc = "admin"
    /\ \E found \in SUBSET Ports :
          /\ Answers("admin", read.ports, found)
          /\ read' = [read EXCEPT !.pc = "detection", !.admin = found]
    /\ UNCHANGED <<agent, supported, power, answers>>

DetectionRead ==
    /\ read.pc = "detection"
    /\ \E found \in SUBSET Ports : Answers("detection", read.ports, found)
    /\ read' = [read EXCEPT !.pc = "main", !.ports = {}]
    /\ UNCHANGED <<agent, supported, power, answers>>

\* Mutant: one read without an answer decides that there is no PSE table
PoeReadFailsForGood ==
    /\ read.pc \in {"oper", "admin", "detection", "main"}
    /\ Raises(read.pc)
    /\ read' = LinkRead
    /\ shown' = {}
    /\ supported' = "no"
    /\ UNCHANGED <<agent, power, linked>>

\* Any of the four required reads fails: None, and the web UI is asked
PoeReadFails ==
    /\ read.pc \in {"oper", "admin", "detection", "main"}
    /\ Raises(read.pc)
    /\ read' = LinkRead
    /\ shown' = {}
    /\ UNCHANGED <<agent, supported, power, linked>>

PoeDone ==
    /\ read' = LinkRead
    /\ shown' = read.admin

\* The table asked first for watts: the one that answered before, if any
FirstTable == IF powerOid \in Tables THEN powerOid ELSE "fastpath"

\* The required columns are there: judge the agent, then ask for watts
MainRead ==
    /\ read.pc = "main"
    /\ \E found \in SUBSET {Group} : Answers("main", {Group}, found)
    /\ \/ /\ read.admin = {}
          /\ supported' = "no"
          /\ PoeDone
          /\ UNCHANGED power
       \/ /\ read.admin # {}
          /\ supported' = "yes"
          /\ \/ powerOid = "none" /\ PoeDone /\ UNCHANGED power
             \/ /\ powerOid # "none" /\ skip > 0
                /\ skip' = skip - 1
                /\ PoeDone
                /\ UNCHANGED powerOid
             \/ /\ powerOid # "none" /\ skip = 0
                /\ read' = [read EXCEPT !.pc = "power",
                                        !.table = FirstTable]
                /\ UNCHANGED <<power, shown>>
    /\ UNCHANGED <<agent, linked>>

(***************************************************************************)
(* _port_power_mw                                                          *)
(***************************************************************************)
\* Mutant: a table that timed out counts as one that answered empty
NoWattsCareless(failed) ==
    /\ powerOid' = IF powerOid = "unknown" THEN "none" ELSE powerOid
    /\ skip' = IF failed THEN Backoff ELSE skip

\* No table brought watts.  Only empty answers from all mean there is none.
NoWatts(failed) ==
    /\ powerOid' = IF powerOid = "unknown" /\ ~failed THEN "none"
                                                      ELSE powerOid
    /\ skip' = IF failed THEN Backoff ELSE skip

\* Mutant: the first table that times out ends the probe
NextTableStops(failed) ==
    IF powerOid = "unknown" /\ read.table = "fastpath" /\ ~failed
      THEN /\ read' = [read EXCEPT !.table = "radlan", !.failed = failed]
           /\ UNCHANGED <<power, shown>>
      ELSE NoWatts(failed) /\ PoeDone

\* The table brought nothing: try the other unless one answered before
NextTable(failed) ==
    IF powerOid = "unknown" /\ read.table = "fastpath"
      THEN /\ read' = [read EXCEPT !.table = "radlan", !.failed = failed]
           /\ UNCHANGED <<power, shown>>
      ELSE NoWatts(failed) /\ PoeDone

PowerRead ==
    /\ read.pc = "power"
    /\ \E found \in SUBSET Ports :
          /\ Answers(read.table, read.admin, found)
          /\ IF found # {}
               THEN /\ powerOid' = read.table
                    /\ PoeDone
                    /\ UNCHANGED skip
               ELSE NextTable(read.failed)
    /\ UNCHANGED <<agent, supported, linked>>

PowerReadFails ==
    /\ read.pc = "power"
    /\ Raises(read.table)
    /\ NextTable(TRUE)
    /\ UNCHANGED <<agent, supported, linked>>

-----------------------------------------------------------------------------
(***************************************************************************)
(* async_get_port_info.  (The first poll of all makes it twice when no     *)
(* port has a name; the second read is left out.)                          *)
(***************************************************************************)
LinkStatesRead ==
    /\ read.pc = "link"
    /\ \E found \in SUBSET Ports :
          /\ Answers("oper", {}, found)
          /\ read' = [read EXCEPT !.pc = "alias", !.ports = found]
    /\ UNCHANGED <<agent, supported, power, answers>>

AliasRead ==
    /\ read.pc = "alias"
    /\ \E found \in SUBSET Ports : Answers("alias", {}, found)
    /\ linked' = read.ports
    /\ read' = IdleRead
    /\ UNCHANGED <<agent, supported, power, shown>>

\* Empty dicts
PortInfoFails ==
    /\ \/ read.pc = "link" /\ Raises("oper")
       \/ read.pc = "alias" /\ Raises("alias")
    /\ linked' = {}
    /\ read' = IdleRead
    /\ UNCHANGED <<agent, supported, power, shown>>

\* Neither the PoE read nor the web UI answered: the poll ends without links
PollFails ==
    /\ read.pc = "link"
    /\ shown = {}
    /\ TimesOut
    /\ read' = IdleRead
    /\ UNCHANGED <<agent, cache, supported, power, answers>>

ReadStep ==
    \/ PoeWanted
    \/ OperRead
    \/ AdminRead
    \/ DetectionRead
    \/ MainRead
    \/ PoeReadFails
    \/ PowerRead
    \/ PowerReadFails
    \/ LinkStatesRead
    \/ AliasRead
    \/ PortInfoFails
    \/ PollFails

-----------------------------------------------------------------------------
\* New firmware, or a slot that lost power: a row appears or vanishes
RowChanges(col, r) ==
    /\ changes < MaxChanges
    /\ changes' = changes + 1
    /\ has' = [has EXCEPT ![col] = IF r \in @ THEN @ \ {r} ELSE @ \union {r}]
    /\ UNCHANGED <<hangs, cache, supported, power, read, answers, failures>>

Next ==
    \/ ReadStep
    \/ \E col \in Columns : \E r \in RowsOf(col) : RowChanges(col, r)

Spec == Init /\ [][Next]_vars

(***************************************************************************)
(* The coordinator polls (Coordinator's PollingStaysArmed) and an SNMP     *)
(* request ends, at the latest in its timeout.                             *)
(***************************************************************************)
FairSpec == Spec /\ WF_vars(ReadStep)
-----------------------------------------------------------------------------
(***************************************************************************)
(* Properties                                                              *)
(***************************************************************************)
\* The agent's ports with PoE
PoePorts == has["oper"] \intersect has["admin"]

(***************************************************************************)
(* The vendor tables are given up only for an agent that has none: not for *)
(* one that hangs on a table, and not for a timeout at the wrong moment in *)
(* the probe of the other.                                                 *)
(***************************************************************************)
NoTableWrittenOff ==
    powerOid = "none" =>
        /\ hangs = {}
        /\ changes = 0 => \A t \in Tables : has[t] \intersect PoePorts = {}

(***************************************************************************)
(* An agent that stops changing and answers is read completely in the end: *)
(* the link states are those of the ports it has, and so are the PoE data  *)
(* unless it was once found without PSE table.  Timeouts do no lasting     *)
(* harm, rows kept from earlier reads grow old, and a hung vendor table    *)
(* blocks nothing.  One thing the code says of itself does not hold and is *)
(* left out here: that a known row which vanished from a column that is    *)
(* never walked is noticed (snmp.py:255-256, but see :236).                *)
(* VanishedRowsReRead states it.                                           *)
(***************************************************************************)
PortsFound ==
    <>[](read.pc = "idle" =>
            /\ linked = has["oper"]
            /\ \/ shown = PoePorts
               \/ \E col \in Columns \ Walked : Vanished(col)
               \/ supported = "no" /\ changes > 0)

(***************************************************************************)
(* _get_rows: "A row the agent says does not exist raises too (so cached   *)
(* rows that vanished force a re-read)" (snmp.py:255).  While PoE is read  *)
(* over SNMP a known row that vanished is not asked for for ever.  Not so: *)
(* _read passes the failure on for the columns it never walks, snmp.py:236 *)
(* and counts no read, so these rows do not age either.                    *)
(***************************************************************************)
VanishedRowsReRead ==
    \A col \in Columns \ Tables :
        supported = "yes" /\ Vanished(col) ~> ~Vanished(col)

(***************************************************************************)
(* A vendor table that reports watts for the PoE ports and does not hang   *)
(* is found, whatever the other one does, however often a probe times out. *)
(***************************************************************************)
Reporting(t) ==
    /\ t \notin hangs
    /\ has[t] \intersect PoePorts # {}
WattsFound ==
    (\E t \in Tables : [](Reporting(t) /\ changes = 0)) ~>
        \E t \in Tables : Reporting(t) /\ powerOid = t
=============================================================================
