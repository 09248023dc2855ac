-------------------------- MODULE SnmpReaderProofs --------------------------
(***************************************************************************)
(* Proofs about SnmpReader: every state is well typed, and the vendor      *)
(* tables are given up only for an agent that has none.                    *)
(***************************************************************************)
EXTENDS SnmpReader, TLAPS

\* The parts of TypeOK, named so that a step cites the ones it needs
AgentType ==
    /\ has \in [Columns -> RowSets]
    /\ hangs \in HungTables
    /\ changes \in 0 .. MaxChanges
CacheType ==
    /\ rows \in [Columns -> RowSets]
    /\ \A col \in Columns : rows[col] \subseteq RowsOf(col)
    /\ reads \in [Columns -> 0 .. RewalkEvery]
JudgedType ==
    /\ supported \in {"unknown", "yes", "no"}
    /\ powerOid \in {"unknown", "none"} \union Tables
    /\ skip \in 0 .. Backoff
ReadType ==
    /\ read \in Reads
    /\ shown \in SUBSET Ports
    /\ linked \in SUBSET Ports
FailuresType == failures \in 0 .. MaxFailures

\* TypeOK is the conjunction of its named parts.
LEMMA TypeParts ==
    TypeOK <=> AgentType /\ CacheType /\ JudgedType /\ ReadType /\ FailuresType
BY DEF TypeOK, AgentType, CacheType, JudgedType, ReadType, FailuresType

\* The columns that are read by name are columns.
LEMMA ColumnNames ==
    /\ {"oper", "alias", "admin", "detection", "main"} \subseteq Columns
    /\ Tables \subseteq Columns
    /\ \A col \in Columns \ {"main"} : RowsOf(col) = Ports
BY DEF Columns, Walked, Tables, RowsOf

\* The records a read starts and ends with are reads.
LEMMA ReadConstants ==
    /\ IdleRead \in Reads /\ IdleRead.pc = "idle"
    /\ LinkRead \in Reads /\ LinkRead.pc = "link"
BY DEF IdleRead, LinkRead, Reads, Pcs, Tables

\* A timeout stays within its bound.
LEMMA TimesOutType ==
    ASSUME FailuresType, TimesOut
    PROVE  FailuresType'
BY SnmpReaderAssumption DEF FailuresType, TimesOut

\* A read that answers keeps the cache well typed.
LEMMA AnswersType ==
    ASSUME CacheType, FailuresType, NEW col \in Columns, NEW wanted,
           NEW found \in SUBSET RowsOf(col), Answers(col, wanted, found)
    PROVE  CacheType' /\ FailuresType'
<1>1. RowsOf(col) \in RowSets
  BY DEF RowsOf, RowSets
<1>2. CASE UNCHANGED <<rows, failures>>
          /\ Known(col) /\ reads' = [reads EXCEPT ![col] = @ + 1]
  <2>1. reads' \in [Columns -> 0 .. RewalkEvery]
    BY <1>2, SnmpReaderAssumption DEF CacheType, Known
  <2>2. QED
    BY <1>2, <2>1 DEF CacheType, FailuresType
<1>3. CASE FreshRows(col, wanted, found)
  <2>1. found \in RowSets
    BY <1>1 DEF RowSets
  <2>2. rows' \in [Columns -> RowSets]
    BY <1>3, <2>1 DEF FreshRows, CacheType
  <2>3. \A c \in Columns : rows'[c] \subseteq RowsOf(c)
    BY <1>3 DEF FreshRows, CacheType
  <2>4. reads' \in [Columns -> 0 .. RewalkEvery]
    BY <1>3, SnmpReaderAssumption DEF FreshRows, CacheType
  <2>5. FailuresType'
    BY TimesOutType DEF Answers, FailuresType
  <2>6. QED
    BY <2>2, <2>3, <2>4, <2>5 DEF CacheType
<1>4. QED
  BY <1>2, <1>3 DEF Answers

\* A read that raises leaves the cache alone.
LEMMA RaisesType ==
    ASSUME CacheType, FailuresType, NEW col, Raises(col)
    PROVE  CacheType' /\ FailuresType'
<1>1. FailuresType'
  BY TimesOutType DEF Raises, FailuresType
<1>2. QED
  BY <1>1 DEF Raises, cache, CacheType

\* What a probe of the vendor tables may do to the record of it.
LEMMA NextTableType ==
    ASSUME JudgedType, ReadType, NEW failed \in BOOLEAN, NextTable(failed),
           UNCHANGED <<supported, linked>>
    PROVE  JudgedType' /\ ReadType'
<1>1. CASE powerOid = "unknown" /\ read.table = "fastpath"
  <2>1. read' = [read EXCEPT !.table = "radlan", !.failed = failed]
        /\ UNCHANGED <<power, shown>>
    BY <1>1 DEF NextTable
  <2>2. read' \in Reads
    BY <2>1 DEF ReadType, Reads, Tables
  <2>3. QED
    BY <2>1, <2>2 DEF power, JudgedType, ReadType
<1>2. CASE ~(powerOid = "unknown" /\ read.table = "fastpath")
  <2>1. NoWatts(failed) /\ PoeDone
    BY <1>2 DEF NextTable
  <2>2. JudgedType'
    BY <2>1, SnmpReaderAssumption DEF NoWatts, JudgedType
  <2>3. ReadType'
    BY <2>1, ReadConstants DEF PoeDone, ReadType, Reads
  <2>4. QED
    BY <2>2, <2>3
<1>3. QED
  BY <1>1, <1>2

\* Each step keeps the types.
LEMMA TypeStep == TypeOK /\ [Next]_vars => TypeOK'
<1> SUFFICES ASSUME TypeOK, [Next]_vars
             PROVE  TypeOK'
  OBVIOUS
<1>0. AgentType /\ CacheType /\ JudgedType /\ ReadType /\ FailuresType
  BY TypeParts
<1> SUFFICES AgentType' /\ CacheType' /\ JudgedType' /\ ReadType'
             /\ FailuresType'
  BY TypeParts DEF TypeOK, AgentType, CacheType, JudgedType, ReadType,
                   FailuresType
<1>1. CASE PoeWanted
  <2>1. ReadType'
    BY <1>0, <1>1, ReadConstants DEF PoeWanted, ReadType, Reads, Pcs
  <2>2. QED
    BY <1>0, <1>1, <2>1
    DEF PoeWanted, agent, cache, power, AgentType, CacheType, JudgedType,
        FailuresType
<1>2. CASE OperRead \/ LinkStatesRead
  <2>1. PICK found \in SUBSET Ports :
          /\ Answers("oper", {}, found)
          /\ \/ read' = [read EXCEPT !.pc = "admin", !.ports = found]
             \/ read' = [read EXCEPT !.pc = "alias", !.ports = found]
    BY <1>2 DEF OperRead, LinkStatesRead
  <2>2. CacheType' /\ FailuresType'
    BY <1>0, <2>1, AnswersType, ColumnNames
  <2>3. read' \in Reads
    BY <1>0, <2>1 DEF ReadType, Reads, Pcs
  <2>4. QED
    BY <1>0, <1>2, <2>2, <2>3
    DEF OperRead, LinkStatesRead, agent, power, answers, AgentType,
        JudgedType, ReadType
<1>3. CASE AdminRead
  <2>1. PICK found \in SUBSET Ports :
          /\ Answers("admin", read.ports, found)
          /\ read' = [read EXCEPT !.pc = "detection", !.admin = found]
    BY <1>3 DEF AdminRead
  <2>2. CacheType' /\ FailuresType'
    BY <1>0, <2>1, AnswersType, ColumnNames
  <2>3. read' \in Reads
    BY <1>0, <2>1 DEF ReadType, Reads, Pcs
  <2>4. QED
    BY <1>0, <1>3, <2>2, <2>3
    DEF AdminRead, agent, power, answers, AgentType, JudgedType, ReadType
<1>4. CASE DetectionRead
  <2>1. PICK found \in SUBSET Ports :
          Answers("detection", read.ports, found)
    BY <1>4 DEF DetectionRead
  <2>2. CacheType' /\ FailuresType'
    BY <1>0, <2>1, AnswersType, ColumnNames
  <2>3. read' \in Reads
    BY <1>0, <1>4 DEF DetectionRead, ReadType, Reads, Pcs
  <2>4. QED
    BY <1>0, <1>4, <2>2, <2>3
    DEF DetectionRead, agent, power, answers, AgentType, JudgedType, ReadType
<1>5. CASE MainRead
  <2>1. PICK found \in SUBSET {Group} : Answers("main", {Group}, found)
    BY <1>5 DEF MainRead
  <2>2. found \in SUBSET RowsOf("main")
    BY DEF RowsOf
  <2>3. CacheType' /\ FailuresType'
    BY <1>0, <2>1, <2>2, AnswersType, ColumnNames
  <2>4. CASE PoeDone
    <3>1. ReadType'
      BY <1>0, <1>5, <2>4, ReadConstants DEF MainRead, PoeDone, ReadType, Reads
    <3>2. JudgedType'
      BY <1>0, <1>5, SnmpReaderAssumption
      DEF MainRead, power, JudgedType
    <3>3. QED
      BY <1>0, <1>5, <2>3, <3>1, <3>2 DEF MainRead, agent, AgentType
  <2>5. CASE read' = [read EXCEPT !.pc = "power", !.table = FirstTable]
             /\ UNCHANGED <<power, shown>> /\ supported' = "yes"
    <3>1. FirstTable \in Tables
      BY DEF FirstTable, Tables
    <3>2. read' \in Reads
      BY <1>0, <2>5, <3>1 DEF ReadType, Reads, Pcs
    <3>3. QED
      BY <1>0, <1>5, <2>3, <2>5, <3>2
      DEF MainRead, agent, power, AgentType, JudgedType, ReadType
  <2>6. QED
    BY <1>5, <2>4, <2>5 DEF MainRead
<1>6. CASE PoeReadFails
  <2>1. CacheType' /\ FailuresType'
    BY <1>0, <1>6, RaisesType DEF PoeReadFails
  <2>2. ReadType'
    BY <1>0, <1>6, ReadConstants DEF PoeReadFails, ReadType
  <2>3. QED
    BY <1>0, <1>6, <2>1, <2>2
    DEF PoeReadFails, agent, power, AgentType, JudgedType
<1>7. CASE PowerRead
  <2>1. PICK found \in SUBSET Ports :
          /\ Answers(read.table, read.admin, found)
          /\ IF found # {}
               THEN /\ powerOid' = read.table
                    /\ PoeDone
                    /\ UNCHANGED skip
               ELSE NextTable(read.failed)
    BY <1>7 DEF PowerRead
  <2>2. read.table \in Tables /\ read.failed \in BOOLEAN
    BY <1>0 DEF ReadType, Reads
  <2>3. SUBSET Ports = SUBSET RowsOf(read.table)
    BY <2>2, ColumnNames DEF Tables
  <2>4. CacheType' /\ FailuresType'
    BY <1>0, <2>1, <2>2, <2>3, AnswersType, ColumnNames
  <2>5. JudgedType' /\ ReadType'
    <3>1. CASE found # {}
      <4>1. powerOid' = read.table /\ PoeDone /\ UNCHANGED skip
        BY <2>1, <3>1
      <4>2. JudgedType'
        BY <1>0, <1>7, <2>2, <4>1 DEF PowerRead, JudgedType
      <4>3. ReadType'
        BY <1>0, <1>7, <4>1, ReadConstants
        DEF PowerRead, PoeDone, ReadType, Reads
      <4>4. QED
        BY <4>2, <4>3
    <3>2. CASE found = {}
      BY <1>0, <1>7, <2>1, <2>2, <3>2, NextTableType DEF PowerRead
    <3>3. QED
      BY <3>1, <3>2
  <2>6. QED
    BY <1>0, <1>7, <2>4, <2>5 DEF PowerRead, agent, AgentType
<1>8. CASE PowerReadFails
  <2>1. CacheType' /\ FailuresType'
    BY <1>0, <1>8, RaisesType DEF PowerReadFails
  <2>2. JudgedType' /\ ReadType'
    BY <1>0, <1>8, NextTableType DEF PowerReadFails
  <2>3. QED
    BY <1>0, <1>8, <2>1, <2>2 DEF PowerReadFails, agent, AgentType
<1>9. CASE AliasRead
  <2>1. PICK found \in SUBSET Ports : Answers("alias", {}, found)
    BY <1>9 DEF AliasRead
  <2>2. CacheType' /\ FailuresType'
    BY <1>0, <2>1, AnswersType, ColumnNames
  <2>3. ReadType'
    BY <1>0, <1>9, ReadConstants DEF AliasRead, ReadType, Reads
  <2>4. QED
    BY <1>0, <1>9, <2>2, <2>3
    DEF AliasRead, agent, power, AgentType, JudgedType
<1>10. CASE PortInfoFails
  <2>1. CacheType' /\ FailuresType'
    BY <1>0, <1>10, RaisesType DEF PortInfoFails
  <2>2. ReadType'
    BY <1>0, <1>10, ReadConstants DEF PortInfoFails, ReadType
  <2>3. QED
    BY <1>0, <1>10, <2>1, <2>2
    DEF PortInfoFails, agent, power, AgentType, JudgedType
<1>11. CASE PollFails
  <2>1. FailuresType'
    BY <1>0, <1>11, TimesOutType DEF PollFails
  <2>2. ReadType'
    BY <1>0, <1>11, ReadConstants DEF PollFails, answers, ReadType
  <2>3. QED
    BY <1>0, <1>11, <2>1, <2>2
    DEF PollFails, agent, cache, power, AgentType, CacheType, JudgedType
<1>12. CASE \E col \in Columns : \E r \in RowsOf(col) : RowChanges(col, r)
  <2>1. PICK col \in Columns : \E r \in RowsOf(col) : RowChanges(col, r)
    BY <1>12
  <2>0. PICK r \in RowsOf(col) : RowChanges(col, r)
    BY <2>1
  <2>2. r \in Ports \union {Group}
    BY DEF RowsOf
  <2>3. has' \in [Columns -> RowSets]
    BY <1>0, <2>0, <2>2 DEF RowChanges, AgentType, RowSets
  <2>4. changes' \in 0 .. MaxChanges
    BY <1>0, <2>0, SnmpReaderAssumption DEF RowChanges, AgentType
  <2>5. QED
    BY <1>0, <2>0, <2>3, <2>4
    DEF RowChanges, cache, power, answers, AgentType, CacheType, JudgedType,
        ReadType, FailuresType
<1>13. CASE UNCHANGED vars
  BY <1>0, <1>13
  DEF vars, agent, cache, power, answers, AgentType, CacheType, JudgedType,
      ReadType, FailuresType
<1>14. QED
  BY <1>1, <1>2, <1>3, <1>4, <1>5, <1>6, <1>7, <1>8, <1>9, <1>10, <1>11,
     <1>12, <1>13 DEF Next, ReadStep

\* A new link monitor is well typed.
LEMMA TypeInit == Init => TypeOK
<1> SUFFICES ASSUME Init PROVE TypeOK
  OBVIOUS
<1>1. AgentType
  <2>1. has \in [Columns -> RowSets]
    <3>1. Agents \subseteq [Columns -> RowSets]
      BY SnmpReaderAssumption
    <3>2. QED
      BY <3>1 DEF Init
  <2>2. MaxChanges \in Nat
    BY SnmpReaderAssumption
  <2>3. changes \in 0 .. MaxChanges
    BY <2>2 DEF Init
  <2>4. hangs \in HungTables
    BY DEF Init
  <2>5. QED
    BY <2>1, <2>3, <2>4 DEF AgentType
<1>2. CacheType
  BY SnmpReaderAssumption DEF Init, CacheType, RowSets
<1>3. JudgedType /\ FailuresType
  BY SnmpReaderAssumption DEF Init, JudgedType, FailuresType
<1>4. ReadType
  BY ReadConstants DEF Init, ReadType
<1>5. QED
  BY <1>1, <1>2, <1>3, <1>4, TypeParts

(***************************************************************************)
(* Whatever the agent has and does, the link monitor's row cache, its      *)
(* judgement of the agent and the read in progress stay within the sets    *)
(* TypeOK names; in particular no row count exceeds REWALK_EVERY_READS.    *)
(***************************************************************************)
THEOREM TypeCorrect == Spec => []TypeOK
<1>1. QED
  BY TypeInit, TypeStep, PTL DEF Spec
-----------------------------------------------------------------------------
(***************************************************************************)
(* What a poll has gathered so far is true of an agent that never changed: *)
(* the cached rows of oper and admin are all of them, and so are the ports *)
(* the read in progress carries.                                           *)
(***************************************************************************)
Truthful ==
    changes = 0 =>
        /\ rows["oper"] \in {{}, has["oper"]}
        /\ rows["admin"] \in {{}, PoePorts}
        /\ read.pc = "admin" => read.ports = has["oper"]
        /\ read.pc \in {"detection", "main", "power"} => read.admin = PoePorts

\* A probe that reached its second table unfailed has seen the first empty
ProbeHonest ==
    /\ read.pc = "power"
    /\ powerOid = "unknown"
    /\ read.table = "radlan"
    /\ ~read.failed
    => /\ "fastpath" \notin hangs
       /\ changes = 0 => has["fastpath"] \intersect PoePorts = {}

WrittenOffInv == Truthful /\ ProbeHonest /\ NoTableWrittenOff

\* A read whose cached rows are all or none brings all of them.
LEMMA AnswersAll ==
    ASSUME rows \in [Columns -> RowSets], NEW col \in Columns, NEW wanted,
           NEW found, Answers(col, wanted, found), NEW all,
           all = IF col \in Walked THEN has[col]
                                   ELSE wanted \intersect has[col],
           rows[col] = {} \/ rows[col] = all
    PROVE  found = all /\ rows'[col] = all
<1>1. CASE Known(col) /\ found = rows[col] /\ UNCHANGED rows
  BY <1>1 DEF Known
<1>2. CASE FreshRows(col, wanted, found)
  BY <1>2 DEF FreshRows
<1>3. QED
  BY <1>1, <1>2 DEF Answers

\* A read of one column leaves the rows of the others.
LEMMA AnswersOnly ==
    ASSUME rows \in [Columns -> RowSets], NEW col \in Columns, NEW wanted,
           NEW found, Answers(col, wanted, found), NEW c \in Columns, c # col
    PROVE  rows'[c] = rows[c]
<1>1. CASE FreshRows(col, wanted, found)
  BY <1>1 DEF FreshRows
<1>2. QED
  BY <1>1 DEF Answers

\* A column that is asked for candidate rows and brings none has none of them.
LEMMA AnswersNone ==
    ASSUME NEW col \in Columns \ Walked, NEW wanted, Answers(col, wanted, {})
    PROVE  col \notin hangs /\ wanted \intersect has[col] = {}
<1>1. CASE FreshRows(col, wanted, {})
  BY <1>1 DEF FreshRows, Answers
<1>2. QED
  BY <1>1 DEF Answers, Known

\* The reads leave the agent as it is.
LEMMA ReadStepAgent == ReadStep => UNCHANGED agent
BY DEF ReadStep, PoeWanted, OperRead, AdminRead, DetectionRead, MainRead,
       PoeReadFails, PowerRead, PowerReadFails, LinkStatesRead, AliasRead,
       PortInfoFails, PollFails

\* What a probe does to the read: on to the next table, or done with PoE.
LEMMA NextTableRead ==
    ASSUME ReadType, NEW failed \in BOOLEAN, NextTable(failed)
    PROVE  \/ /\ powerOid = "unknown" /\ read.table = "fastpath"
              /\ read'.pc = read.pc /\ read'.admin = read.admin
              /\ read'.table = "radlan" /\ read'.failed = failed
              /\ UNCHANGED power
           \/ /\ ~(powerOid = "unknown" /\ read.table = "fastpath")
              /\ read' = LinkRead
              /\ NoWatts(failed)
<1>1. CASE powerOid = "unknown" /\ read.table = "fastpath"
  <2>1. read' = [read EXCEPT !.table = "radlan", !.failed = failed]
        /\ UNCHANGED power
    BY <1>1 DEF NextTable
  <2>2. QED
    BY <1>1, <2>1 DEF ReadType, Reads
<1>2. CASE ~(powerOid = "unknown" /\ read.table = "fastpath")
  BY <1>2 DEF NextTable, PoeDone
<1>3. QED
  BY <1>1, <1>2

\* Each read keeps the gathered rows true.
LEMMA TruthfulStep == TypeOK /\ Truthful /\ ReadStep => Truthful'
<1> SUFFICES ASSUME TypeOK, Truthful, ReadStep, changes' = 0
             PROVE  /\ rows'["oper"] \in {{}, has["oper"]}
                    /\ rows'["admin"] \in {{}, PoePorts}
                    /\ read'.pc = "admin" => read'.ports = has["oper"]
                    /\ read'.pc \in {"detection", "main", "power"}
                         => read'.admin = PoePorts
  BY ReadStepAgent DEF Truthful, agent, PoePorts
<1>0. rows \in [Columns -> RowSets] /\ ReadType
  BY TypeParts DEF CacheType
<1>1. /\ rows["oper"] \in {{}, has["oper"]}
      /\ rows["admin"] \in {{}, PoePorts}
      /\ read.pc = "admin" => read.ports = has["oper"]
      /\ read.pc \in {"detection", "main", "power"} => read.admin = PoePorts
  BY ReadStepAgent DEF Truthful, agent
<1>2. ASSUME UNCHANGED rows
      PROVE  rows'["oper"] \in {{}, has["oper"]}
             /\ rows'["admin"] \in {{}, PoePorts}
  BY <1>1, <1>2
<1>3. ASSUME NEW col \in Columns \ {"oper", "admin"}, NEW wanted, NEW found,
             Answers(col, wanted, found)
      PROVE  rows'["oper"] \in {{}, has["oper"]}
             /\ rows'["admin"] \in {{}, PoePorts}
  BY <1>0, <1>1, <1>3, AnswersOnly, ColumnNames
<1>4. ASSUME NEW found, Answers("oper", {}, found)
      PROVE  /\ found = has["oper"]
             /\ rows'["oper"] \in {{}, has["oper"]}
             /\ rows'["admin"] \in {{}, PoePorts}
  <2>1. "oper" \in Walked
    BY DEF Walked
  <2>2. found = has["oper"] /\ rows'["oper"] \in {{}, has["oper"]}
    BY <1>0, <1>1, <1>4, <2>1, AnswersAll, ColumnNames
  <2>3. rows'["admin"] = rows["admin"]
    BY <1>0, <1>4, AnswersOnly, ColumnNames
  <2>4. QED
    BY <1>1, <2>2, <2>3
<1>5. CASE PoeWanted
  <2>1. read'.pc \in {"link", "oper"}
    BY <1>5, ReadConstants DEF PoeWanted, IdleRead
  <2>2. QED
    BY <1>2, <1>5, <2>1 DEF PoeWanted, cache
<1>6. CASE OperRead \/ LinkStatesRead
  <2>1. PICK found \in SUBSET Ports :
          /\ Answers("oper", {}, found)
          /\ \/ read' = [read EXCEPT !.pc = "admin", !.ports = found]
             \/ read' = [read EXCEPT !.pc = "alias", !.ports = found]
    BY <1>6 DEF OperRead, LinkStatesRead
  <2>2. read'.pc \in {"admin", "alias"} /\ read'.ports = found
    BY <1>0, <2>1 DEF ReadType, Reads
  <2>3. QED
    BY <1>4, <2>1, <2>2
<1>7. CASE AdminRead
  <2>1. PICK found \in SUBSET Ports :
          /\ Answers("admin", read.ports, found)
          /\ read' = [read EXCEPT !.pc = "detection", !.admin = found]
    BY <1>7 DEF AdminRead
  <2>2. read.ports = has["oper"] /\ "admin" \notin Walked
    BY <1>1, <1>7 DEF AdminRead, Walked
  <2>3. found = PoePorts /\ rows'["admin"] \in {{}, PoePorts}
    <3>1. PoePorts = IF "admin" \in Walked
                       THEN has["admin"]
                       ELSE read.ports \intersect has["admin"]
      BY <2>2 DEF PoePorts
    <3>2. /\ "admin" \in Columns
          /\ rows["admin"] = {} \/ rows["admin"] = PoePorts
      BY <1>1, ColumnNames
    <3>3. rows \in [Columns -> RowSets] /\ Answers("admin", read.ports, found)
      BY <1>0, <2>1
    <3>4. QED
      BY <3>1, <3>2, <3>3, AnswersAll
  <2>4. rows'["oper"] = rows["oper"]
    BY <1>0, <2>1, AnswersOnly, ColumnNames
  <2>5. read'.pc = "detection" /\ read'.admin = found
    BY <1>0, <2>1 DEF ReadType, Reads
  <2>6. QED
    BY <1>1, <2>3, <2>4, <2>5
<1>8. CASE DetectionRead
  <2>1. PICK found \in SUBSET Ports :
          Answers("detection", read.ports, found)
    BY <1>8 DEF DetectionRead
  <2>2. read'.pc = "main" /\ read'.admin = read.admin
    BY <1>0, <1>8 DEF DetectionRead, ReadType, Reads
  <2>3. QED
    BY <1>1, <1>3, <1>8, <2>1, <2>2, ColumnNames DEF DetectionRead
<1>9. CASE MainRead
  <2>1. PICK found \in SUBSET {Group} : Answers("main", {Group}, found)
    BY <1>9 DEF MainRead
  <2>2. \/ read' = LinkRead
        \/ read' = [read EXCEPT !.pc = "power", !.table = FirstTable]
    BY <1>9 DEF MainRead, PoeDone
  <2>3. read'.pc = "link" \/ (read'.pc = "power" /\ read'.admin = read.admin)
    BY <1>0, <2>2, ReadConstants DEF ReadType, Reads
  <2>4. QED
    BY <1>1, <1>3, <1>9, <2>1, <2>3, ColumnNames DEF MainRead
<1>10. CASE PoeReadFails
  BY <1>2, <1>10, ReadConstants DEF PoeReadFails, Raises, cache
<1>11. CASE PowerRead
  <2>1. PICK found \in SUBSET Ports :
          /\ Answers(read.table, read.admin, found)
          /\ read' = LinkRead \/ NextTable(read.failed)
    BY <1>11 DEF PowerRead, PoeDone
  <2>2. read.table \in Columns \ {"oper", "admin"} /\ read.failed \in BOOLEAN
    BY <1>0 DEF ReadType, Reads, Tables, Columns
  <2>3. read'.pc = "link" \/ (read'.pc = "power" /\ read'.admin = read.admin)
    BY <1>0, <1>11, <2>1, <2>2, NextTableRead, ReadConstants DEF PowerRead
  <2>4. QED
    BY <1>1, <1>3, <1>11, <2>1, <2>2, <2>3 DEF PowerRead
<1>12. CASE PowerReadFails
  <2>1. read'.pc = "link" \/ (read'.pc = "power" /\ read'.admin = read.admin)
    BY <1>0, <1>12, NextTableRead, ReadConstants DEF PowerReadFails
  <2>2. QED
    BY <1>1, <1>2, <1>12, <2>1 DEF PowerReadFails, Raises, cache
<1>13. CASE AliasRead
  <2>1. PICK found \in SUBSET Ports : Answers("alias", {}, found)
    BY <1>13 DEF AliasRead
  <2>2. QED
    BY <1>3, <1>13, <2>1, ColumnNames, ReadConstants DEF AliasRead
<1>14. CASE PortInfoFails
  BY <1>2, <1>14, ReadConstants DEF PortInfoFails, Raises, cache
<1>15. CASE PollFails
  BY <1>2, <1>15, ReadConstants DEF PollFails, cache
<1>16. QED
  BY <1>5, <1>6, <1>7, <1>8, <1>9, <1>10, <1>11, <1>12, <1>13, <1>14, <1>15
  DEF ReadStep

\* Each read keeps the probe honest.
LEMMA ProbeStep ==
    TypeOK /\ Truthful /\ ProbeHonest /\ ReadStep => ProbeHonest'
<1> SUFFICES ASSUME TypeOK, Truthful, ProbeHonest, ReadStep,
                    read'.pc = "power", powerOid' = "unknown",
                    read'.table = "radlan", ~read'.failed
             PROVE  /\ "fastpath" \notin hangs
                    /\ changes = 0 => has["fastpath"] \intersect PoePorts = {}
  BY ReadStepAgent DEF ProbeHonest, agent, PoePorts
<1>0. ReadType
  BY TypeParts
<1>1. CASE MainRead
  <2>1. \/ read' = LinkRead
        \/ /\ read' = [read EXCEPT !.pc = "power", !.table = FirstTable]
           /\ UNCHANGED power
    BY <1>1 DEF MainRead, PoeDone
  <2>2. read'.table = FirstTable /\ UNCHANGED power
    BY <1>0, <2>1, ReadConstants DEF ReadType, Reads
  <2>3. QED
    BY <2>2 DEF power, FirstTable, Tables
<1>2. CASE PowerRead
  <2>1. PICK found \in SUBSET Ports :
          /\ Answers(read.table, read.admin, found)
          /\ IF found # {} THEN PoeDone ELSE NextTable(read.failed)
    BY <1>2 DEF PowerRead
  <2>2. found = {} /\ NextTable(read.failed) /\ read.failed \in BOOLEAN
    BY <1>0, <2>1, ReadConstants DEF PoeDone, ReadType, Reads
  <2>3. read.table = "fastpath"
    BY <1>0, <2>2, NextTableRead, ReadConstants
  <2>4. "fastpath" \notin hangs /\ read.admin \intersect has["fastpath"] = {}
    BY <2>1, <2>2, <2>3, AnswersNone DEF Columns, Walked, Tables
  <2>5. QED
    BY <1>2, <2>4 DEF PowerRead, Truthful
<1>3. CASE PowerReadFails
  BY <1>0, <1>3, NextTableRead, ReadConstants DEF PowerReadFails
<1>4. CASE PoeWanted \/ PoeReadFails \/ AliasRead \/ PortInfoFails \/ PollFails
  BY <1>4, ReadConstants
  DEF PoeWanted, PoeReadFails, AliasRead, PortInfoFails, PollFails, IdleRead
<1>5. CASE OperRead \/ AdminRead \/ DetectionRead \/ LinkStatesRead
  BY <1>0, <1>5
  DEF OperRead, AdminRead, DetectionRead, LinkStatesRead, ReadType, Reads
<1>6. QED
  BY <1>1, <1>2, <1>3, <1>4, <1>5 DEF ReadStep

\* A read gives the vendor tables up only if both were seen empty.
LEMMA WrittenOffStep ==
    TypeOK /\ WrittenOffInv /\ ReadStep => NoTableWrittenOff'
<1> SUFFICES ASSUME TypeOK, WrittenOffInv, ReadStep, powerOid' = "none"
             PROVE  /\ hangs = {}
                    /\ changes = 0 =>
                         \A t \in Tables : has[t] \intersect PoePorts = {}
  BY ReadStepAgent DEF NoTableWrittenOff, agent, PoePorts
<1>0. ReadType /\ hangs \in HungTables /\ HungTables \subseteq SUBSET Tables
  BY TypeParts, SnmpReaderAssumption DEF AgentType
<1>1. CASE powerOid = "none"
  BY <1>1 DEF WrittenOffInv, NoTableWrittenOff
<1>2. CASE powerOid # "none" /\ PowerRead
  <2>1. PICK found \in SUBSET Ports :
          /\ Answers(read.table, read.admin, found)
          /\ IF found # {} THEN powerOid' = read.table
                           ELSE NextTable(read.failed)
    BY <1>2 DEF PowerRead
  <2>2. read.table \in Tables /\ read.failed \in BOOLEAN
    BY <1>0 DEF ReadType, Reads
  <2>3. found = {} /\ NextTable(read.failed)
    BY <2>1, <2>2 DEF Tables
  <2>4. /\ NoWatts(read.failed)
        /\ ~(powerOid = "unknown" /\ read.table = "fastpath")
    BY <1>0, <1>2, <2>2, <2>3, NextTableRead DEF power
  <2>5. powerOid = "unknown" /\ ~read.failed /\ read.table = "radlan"
    BY <1>2, <2>2, <2>4 DEF NoWatts, Tables
  <2>6. "radlan" \notin hangs /\ read.admin \intersect has["radlan"] = {}
    BY <2>1, <2>3, <2>5, AnswersNone DEF Columns, Walked, Tables
  <2>7. /\ "fastpath" \notin hangs
        /\ changes = 0 => has["fastpath"] \intersect PoePorts = {}
    BY <1>2, <2>5 DEF PowerRead, WrittenOffInv, ProbeHonest
  <2>8. changes = 0 => read.admin = PoePorts
    BY <1>2 DEF PowerRead, WrittenOffInv, Truthful
  <2>9. QED
    BY <1>0, <2>6, <2>7, <2>8 DEF Tables
<1>3. CASE powerOid # "none" /\ PowerReadFails
  BY <1>0, <1>3, NextTableRead DEF PowerReadFails, NoWatts, power
<1>4. CASE powerOid # "none" /\ ~PowerRead /\ ~PowerReadFails
  BY <1>4
  DEF ReadStep, PoeWanted, OperRead, AdminRead, DetectionRead, MainRead,
      PoeReadFails, LinkStatesRead, AliasRead, PortInfoFails, PollFails, power
<1>5. QED
  BY <1>1, <1>2, <1>3, <1>4

\* The invariant holds in every state.
LEMMA WrittenOffNext ==
    TypeOK /\ WrittenOffInv /\ [Next]_vars => WrittenOffInv'
<1> SUFFICES ASSUME TypeOK, WrittenOffInv, [Next]_vars
             PROVE  WrittenOffInv'
  OBVIOUS
<1>1. CASE ReadStep
  BY <1>1, TruthfulStep, ProbeStep, WrittenOffStep DEF WrittenOffInv
<1>2. CASE \E col \in Columns : \E r \in RowsOf(col) : RowChanges(col, r)
  <2>1. changes \in Nat
    BY TypeParts, SnmpReaderAssumption DEF AgentType
  <2>2. changes' # 0 /\ UNCHANGED <<hangs, power, read>>
    BY <1>2, <2>1 DEF RowChanges
  <2>3. QED
    BY <2>2
    DEF WrittenOffInv, Truthful, ProbeHonest, NoTableWrittenOff, power
<1>3. CASE UNCHANGED vars
  BY <1>3
  DEF vars, agent, cache, power, WrittenOffInv, Truthful, ProbeHonest,
      NoTableWrittenOff, PoePorts
<1>4. QED
  BY <1>1, <1>2, <1>3 DEF Next

(***************************************************************************)
(* For every agent, every pattern of hung tables and timeouts and every    *)
(* REWALK_EVERY_READS and back-off: _power_oid is "none" only if the agent *)
(* hangs on neither vendor table and, unless its rows changed since, has   *)
(* no watts for any PoE port in either.                                    *)
(***************************************************************************)
THEOREM NoTableWrittenOffCorrect == Spec => []NoTableWrittenOff
<1>1. Init => WrittenOffInv
  <2>1. ASSUME Init
        PROVE  /\ rows["oper"] = {} /\ rows["admin"] = {}
               /\ read.pc = "idle" /\ powerOid = "unknown"
    BY <2>1, ColumnNames, ReadConstants DEF Init
  <2>2. QED
    BY <2>1 DEF WrittenOffInv, Truthful, ProbeHonest, NoTableWrittenOff
<1>2. WrittenOffInv => NoTableWrittenOff
  BY DEF WrittenOffInv
<1>3. QED
  BY <1>1, <1>2, WrittenOffNext, TypeCorrect, PTL DEF Spec
=============================================================================
