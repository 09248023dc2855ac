-------------------------- MODULE PortSettingsProofs --------------------------
(***************************************************************************)
(* Proofs about PortSettings, for any ports, calls, drivers and bounds.    *)
(***************************************************************************)
EXTENDS PortSettings, TLAPS

USE PortSettingsAssumption

-----------------------------------------------------------------------------
(***************************************************************************)
(* The parts of TypeOK                                                     *)
(***************************************************************************)
SwitchType ==
    /\ driver \in Drivers
    /\ page \in Pages(driver)
    /\ setting \in [Cells -> Values]
    /\ late \subseteq Bodies
    /\ queue \in Seq(Calls)
    /\ promise \in [Cells -> {0, 1, Keep}]
CallType == call \in [Calls -> CallStates]

(***************************************************************************)
(* The inductive invariant                                                 *)
(***************************************************************************)
\* What the driver and the page say of a call in state r
InPlace(r) ==
    r.pc # "idle" =>
        /\ r.cell \in Cells
        /\ r.op \in Ops
        /\ r.cell[1] = FieldOf(r.op)
        /\ r.pc = "read" => ReadsForm
        /\ r.pc \in {"diff", "verify"} => Locks
        /\ r.pc = "device" => page = "port" /\ driver = "legacy"
        /\ r.pc = "sleep" => r.op = "cycle"

\* Who has read the form under a lock is the first in line
HasTurn(c) ==
    Locks /\ call[c].pc \in {"diff", "write", "verify"} => MayRun(c)

(***************************************************************************)
(* Stale cells are those of a form in flight, and no promise is about one. *)
(***************************************************************************)
StaleOk(r) ==
    /\ r.stale # {} => r.pc \in {"diff", "write"} /\ ~r.landed
    /\ \A x \in r.stale : promise[x] = Keep

(***************************************************************************)
(* The body in flight carries the other cells of the form at the values    *)
(* they have, except for the stale ones.                                   *)
(***************************************************************************)
InFlight(r) == r.pc \in {"diff", "write"} /\ ~r.landed
BodyOk(r) ==
    InFlight(r) =>
        \A x \in Cells \ {r.cell} :
            r.body[x] # Keep =>
                /\ x \in FormOf(r.cell)
                /\ x \in r.stale \/ r.body[x] = Posted(Shown(setting[x]))

IInv ==
    /\ SwitchType
    /\ CallType
    /\ \A c \in Calls : InPlace(call[c]) /\ HasTurn(c)
    /\ \A c \in Calls : StaleOk(call[c])
    /\ driver # "s350" => \A c \in Calls : BodyOk(call[c])
    /\ ~Locks => promise = NoPromise
    /\ ConfirmedHolds

-----------------------------------------------------------------------------
(***************************************************************************)
(* What does not depend on the state                                       *)
(***************************************************************************)
\* What the driver posts of a cell is a value, and posting it changes nothing
\* unless the cell is dynamic.
LEMMA PostedValue ==
    ASSUME NEW v \in Values
    PROVE  /\ Posted(Shown(v)) \in {0, 1}
           /\ Posted(Shown(Posted(Shown(v)))) = Posted(Shown(v))
           /\ v # Dynamic => Posted(Shown(v)) = v
           /\ Shown(v) \in {0, 1} =>
                  Shown(Posted(Shown(v))) = Shown(v)
BY DEF Values, Dynamic, Posted, Shown

\* A form is a body, with the values the page shows.
LEMMA FormType ==
    ASSUME SwitchType, NEW x \in Cells, NEW v \in {0, 1}
    PROVE  /\ Form(x, v) \in Bodies
           /\ \A y \in Cells \ {x} :
                  Form(x, v)[y] # Keep =>
                      /\ y \in FormOf(x)
                      /\ Form(x, v)[y] = Posted(Shown(setting[y]))
<1>1. \A y \in Cells : Posted(Shown(setting[y])) \in {0, 1}
  BY PostedValue DEF SwitchType
<1> QED
  BY <1>1 DEF Form, Bodies, Values, Keep

\* The page is one of three; where it has no lock, a call posts one cell or,
\* on the PoE page of a JSON driver, the settings of one port.
LEMMA UnlockedPage ==
    ASSUME SwitchType, ~Locks
    PROVE  page = "poe" \/ (page = "port" /\ ~Json)
BY DEF SwitchType, Locks, Pages

\* The operations belong to their pages.
LEMMA OpsPages ==
    ASSUME SwitchType, NEW op \in Ops
    PROVE  /\ op \in {"vlan", "name", "speed", "power", "reset", "cycle"}
           /\ op = "cycle" => page = "poe" /\ ~Locks
           /\ op \in {"vlan", "speed"} => Locks
           /\ op = "name" => page = "port"
           /\ page = "poe" => FieldOf(op) = "admin"
           /\ FieldOf(op) \in Fields
BY DEF SwitchType, Pages, Ops, Locks, Json, FieldOf, Fields

\* The first request of a call.
LEMMA FirstOk ==
    ASSUME SwitchType, NEW op \in Ops, NEW p \in Ports, NEW v \in {0, 1}
    PROVE  LET r == First(op, <<FieldOf(op), p>>, v)
           IN  r \in CallStates /\ InPlace(r) /\ StaleOk(r) /\ BodyOk(r)
<1> DEFINE x == <<FieldOf(op), p>>
<1>1. x \in Cells
  BY OpsPages DEF Cells
<1>2. Form(x, v) \in Bodies /\ Nothing \in Bodies
  BY <1>1, FormType DEF Nothing, Bodies
<1>3. \A y \in Cells \ {x} :
          Form(x, v)[y] # Keep =>
              y \in FormOf(x) /\ Form(x, v)[y] = Posted(Shown(setting[y]))
  BY <1>1, FormType
<1>4. First(op, x, v) \in CallStates
  BY <1>1, <1>2, OpsPages DEF First, CallStates, Pcs, RestoreAttempts
<1>5. InPlace(First(op, x, v))
  BY <1>1 DEF First, InPlace
<1>6. StaleOk(First(op, x, v)) /\ BodyOk(First(op, x, v))
  BY <1>3 DEF First, StaleOk, BodyOk, InFlight
<1> QED
  BY <1>4, <1>5, <1>6

-----------------------------------------------------------------------------
(***************************************************************************)
(* Steps that change the record of one call only                           *)
(***************************************************************************)
\* The invariant is kept if the new record satisfies it and the turns do.
LEMMA OneCall ==
    ASSUME IInv, NEW c \in Calls, NEW r \in CallStates,
           call' = [call EXCEPT ![c] = r],
           UNCHANGED <<driver, page, setting, promise>>,
           late' \subseteq Bodies, queue' \in Seq(Calls),
           InPlace(r), StaleOk(r), driver # "s350" => BodyOk(r),
           \A d \in Calls : HasTurn(d)'
    PROVE  IInv'
<1>1. SwitchType' /\ CallType' /\ (~Locks => promise = NoPromise)'
  BY DEF IInv, SwitchType, CallType, Pages, Locks, Json
<1>2. ConfirmedHolds'
  BY DEF IInv, ConfirmedHolds, Shown
<1>3. ASSUME NEW d \in Calls
      PROVE  InPlace(call[d])' /\ StaleOk(call[d])'
  BY DEF IInv, CallType, InPlace, StaleOk, Ops, FieldOf, ReadsForm, Locks, Json
<1>4. ASSUME driver' # "s350", NEW d \in Calls
      PROVE  BodyOk(call[d])'
  BY <1>4 DEF IInv, CallType, BodyOk, InFlight, FormOf, OnPage, Json, Posted,
     Shown
<1> QED
  BY <1>1, <1>2, <1>3, <1>4 DEF IInv

\* The lock stays with its holder while others only queue up.
LEMMA TurnsStay ==
    ASSUME IInv, NEW c \in Calls, NEW r \in CallStates,
           call' = [call EXCEPT ![c] = r], UNCHANGED <<driver, page>>,
           queue' = queue \/ queue' = Append(queue, c),
           r.pc \in {"diff", "write", "verify"} /\ Locks => MayRun(c)
    PROVE  /\ queue' \in Seq(Calls)
           /\ \A d \in Calls : HasTurn(d)'
<1>1. /\ queue \in Seq(Calls)
      /\ queue' \in Seq(Calls)
      /\ queue # <<>> => queue' # <<>> /\ Head(queue') = Head(queue)
  BY DEF IInv, SwitchType
<1> QED
  BY <1>1 DEF IInv, CallType, HasTurn, MayRun, Locks, Json

\* A call that ends passes the lock on, and nobody else had it.
LEMMA FinishKeeps ==
    ASSUME IInv, NEW c \in Calls, Finish(c), MayRun(c),
           UNCHANGED <<driver, page, setting, promise>>, late' \subseteq Bodies
    PROVE  IInv'
<1>1. queue' \in Seq(Calls)
  BY DEF IInv, SwitchType, Finish, MayRun
<1>2. /\ Idle \in CallStates
      /\ Idle.pc = "idle" /\ Idle.stale = {}
  BY DEF Idle, CallStates, Pcs, NoCell, Nothing, Bodies, RestoreAttempts
<1>3. InPlace(Idle) /\ StaleOk(Idle) /\ BodyOk(Idle)
  BY <1>2 DEF InPlace, StaleOk, BodyOk, InFlight
<1>4. call' = [call EXCEPT ![c] = Idle]
  BY DEF Finish
<1>5. \A d \in Calls : HasTurn(d)'
  BY <1>2, <1>4 DEF IInv, CallType, HasTurn, MayRun, Finish, Locks, Json
<1> QED
  BY <1>1, <1>2, <1>3, <1>4, <1>5, OneCall

\* A call under way has its turn when it is done with the lock.
LEMMA Turn ==
    ASSUME IInv, NEW c \in Calls,
           call[c].pc \in {"diff", "write", "verify", "device", "sleep"}
    PROVE  MayRun(c)
<1>1. CASE call[c].pc \in {"diff", "write", "verify"}
  BY <1>1 DEF IInv, HasTurn, MayRun
<1>2. CASE call[c].pc \in {"device", "sleep"}
  <2>1. ~Locks
    BY <1>2, OpsPages DEF IInv, InPlace, Locks, Json
  <2> QED
    BY <2>1 DEF MayRun
<1> QED
  BY <1>1, <1>2

\* A failed attempt of a restore, which has no lock, or the end of the call.
LEMMA EndFailedKeeps ==
    ASSUME IInv, NEW c \in Calls, call[c].pc # "idle", EndFailed(c), MayRun(c),
           UNCHANGED <<driver, page, setting, promise>>, late' \subseteq Bodies
    PROVE  IInv'
<1> DEFINE again == /\ call[c].op = "cycle"
                    /\ call[c].val = 1
                    /\ call[c].attempt < RestoreAttempts - 1
<1>1. CASE ~again
  BY <1>1, FinishKeeps DEF EndFailed
<1>2. CASE again
  <2> DEFINE r == [call[c] EXCEPT !.pc = "sleep", !.body = Nothing,
                                  !.stale = {}, !.landed = FALSE,
                                  !.attempt = @ + 1]
  <2>1. /\ call[c] \in CallStates
        /\ call[c].op = "cycle"
        /\ call[c].attempt < RestoreAttempts - 1
        /\ queue' = queue
        /\ call' = [call EXCEPT ![c] = r]
    BY <1>2 DEF EndFailed, IInv, CallType
  <2>2. r \in CallStates
    <3>1. call[c].attempt + 1 \in 0 .. RestoreAttempts - 1
      BY <2>1 DEF CallStates, RestoreAttempts
    <3>2. Nothing \in Bodies
      BY DEF Nothing, Bodies
    <3> QED
      BY <2>1, <3>1, <3>2 DEF CallStates, Pcs
  <2>3. InPlace(r) /\ StaleOk(r) /\ BodyOk(r)
    BY <2>1 DEF IInv, InPlace, StaleOk, BodyOk, InFlight, CallStates
  <2>4. queue' \in Seq(Calls) /\ \A d \in Calls : HasTurn(d)'
    BY <2>1, <2>2, TurnsStay DEF CallStates
  <2> QED
    BY <2>1, <2>2, <2>3, <2>4, OneCall
<1> QED
  BY <1>1, <1>2

-----------------------------------------------------------------------------
(***************************************************************************)
(* The steps of a call but its post                                        *)
(***************************************************************************)
\* A call begins with a form of what the page shows, or in line for the lock.
LEMMA StartKeeps ==
    ASSUME IInv, NEW c \in Calls, NEW op \in Ops, NEW p \in Ports,
           NEW v \in {0, 1}, Start(c, op, p, v)
    PROVE  IInv'
<1> DEFINE r == First(op, <<FieldOf(op), p>>, v)
<1>1. r \in CallStates /\ InPlace(r) /\ StaleOk(r) /\ BodyOk(r)
  BY FirstOk DEF IInv
<1>2. /\ call' = [call EXCEPT ![c] = r]
      /\ queue' = queue \/ queue' = Append(queue, c)
      /\ UNCHANGED <<driver, page, setting, late, promise>>
  BY DEF Start
<1>3. ~(r.pc \in {"diff", "write", "verify"} /\ Locks)
  BY DEF First, ReadsForm, Locks
<1>4. queue' \in Seq(Calls) /\ \A d \in Calls : HasTurn(d)'
  BY <1>1, <1>2, <1>3, TurnsStay
<1>5. late' \subseteq Bodies
  BY <1>2 DEF IInv, SwitchType
<1> QED
  BY <1>1, <1>2, <1>4, <1>5, OneCall

\* A form that has just been read is not stale.
LEMMA ReadFormKeeps ==
    ASSUME IInv, NEW c \in Calls, ReadForm(c)
    PROVE  IInv'
<1> DEFINE b == Form(call[c].cell, call[c].val)
           r == [call[c] EXCEPT
                   !.pc = IF driver = "legacy" THEN "diff" ELSE "write",
                   !.body = b]
<1>1. /\ call[c] \in CallStates
      /\ call[c].cell \in Cells
      /\ call[c].val \in {0, 1}
      /\ call[c].pc = "read"
  BY DEF ReadForm, IInv, CallType, InPlace, CallStates
<1>2. b \in Bodies
  BY <1>1, FormType DEF IInv
<1>3. r \in CallStates
  BY <1>1, <1>2 DEF CallStates, Pcs
<1>4. InPlace(r)
  BY <1>1 DEF IInv, InPlace, ReadsForm, Locks, Json, CallStates
<1>5. StaleOk(r)
  BY <1>1 DEF IInv, StaleOk, CallStates
<1>6. BodyOk(r)
  BY <1>1, FormType DEF IInv, BodyOk, CallStates
<1>7. call' = [call EXCEPT ![c] = r] /\ queue' = queue
  BY DEF ReadForm
<1>8. queue' \in Seq(Calls) /\ \A d \in Calls : HasTurn(d)'
  BY <1>3, <1>7, TurnsStay DEF ReadForm
<1>9. late' \subseteq Bodies
  BY DEF IInv, SwitchType, ReadForm
<1> QED
  BY <1>3, <1>4, <1>5, <1>6, <1>7, <1>8, <1>9, OneCall DEF ReadForm

\* What the legacy driver leaves of the map is what it would change.
LEMMA DiffKeeps ==
    ASSUME IInv, NEW c \in Calls, Diff(c)
    PROVE  IInv'
<1> DEFINE b == call[c].body
           d == [x \in Cells |-> IF b[x] = Shown(setting[x]) THEN Keep
                                  ELSE b[x]]
           r == [call[c] EXCEPT
                   !.pc = IF d = Nothing THEN "verify" ELSE "write",
                   !.stale = IF d = Nothing THEN {} ELSE @,
                   !.body = d]
<1>1. /\ call[c] \in CallStates
      /\ call[c].pc = "diff"
      /\ MayRun(c)
  BY Turn DEF Diff, IInv, CallType
<1>2. d \in Bodies
  BY <1>1 DEF CallStates, Bodies
<1>3. r \in CallStates
  BY <1>1, <1>2 DEF CallStates, Pcs
<1>4. InPlace(r)
  BY <1>1 DEF IInv, InPlace, CallStates
<1>5. StaleOk(r)
  BY <1>1 DEF IInv, StaleOk, CallStates
<1>6. driver # "s350" => BodyOk(r)
  BY <1>1 DEF IInv, BodyOk, InFlight, CallStates
<1>7. call' = [call EXCEPT ![c] = r] /\ queue' = queue
  BY DEF Diff
<1>8. queue' \in Seq(Calls) /\ \A e \in Calls : HasTurn(e)'
  BY <1>1, <1>3, <1>7, TurnsStay DEF Diff
<1>9. late' \subseteq Bodies
  BY DEF IInv, SwitchType, Diff
<1> QED
  BY <1>3, <1>4, <1>5, <1>6, <1>7, <1>8, <1>9, OneCall DEF Diff

\* A read that fails ends the attempt.
LEMMA ReadFailsKeeps ==
    ASSUME IInv, NEW c \in Calls, ReadFails(c)
    PROVE  IInv'
<1>1. late' \subseteq Bodies
  BY DEF ReadFails, IInv, SwitchType
<1> QED
  BY <1>1, EndFailedKeeps DEF ReadFails

\* What a sender gives up on is a body.
LEMMA GiveUpType ==
    ASSUME IInv, NEW c \in Calls, GiveUp(c)
    PROVE  late' \subseteq Bodies
BY DEF GiveUp, IInv, SwitchType, CallType, CallStates

\* A post that fails may still be applied later.
LEMMA WriteFailsKeeps ==
    ASSUME IInv, NEW c \in Calls, WriteFails(c)
    PROVE  IInv'
BY Turn, GiveUpType, EndFailedKeeps DEF WriteFails

\* The second post of a rename ends the call.
LEMMA DeviceEndsKeeps ==
    ASSUME IInv, NEW c \in Calls, DeviceEnds(c)
    PROVE  IInv'
BY Turn, GiveUpType, FinishKeeps DEF DeviceEnds

\* A value that did not stick is not promised.
LEMMA VerifyFailsKeeps ==
    ASSUME IInv, NEW c \in Calls, VerifyFails(c)
    PROVE  IInv'
<1>1. late' \subseteq Bodies
  BY DEF VerifyFails, IInv, SwitchType
<1> QED
  BY <1>1, Turn, FinishKeeps DEF VerifyFails

\* After its post a call verifies, sleeps, posts again or ends.
LEMMA WriteOkKeeps ==
    ASSUME IInv, NEW c \in Calls, WriteOk(c)
    PROVE  IInv'
<1>1. late' \subseteq Bodies
  BY DEF WriteOk, IInv, SwitchType
<1>2. /\ call[c] \in CallStates
      /\ call[c].pc = "write"
      /\ call[c].landed
      /\ call[c].stale = {}
      /\ call[c].cell \in Cells
      /\ call[c].op \in Ops
      /\ MayRun(c)
  BY Turn DEF WriteOk, IInv, CallType, InPlace, StaleOk
<1>3. CASE Verified(c) \/ Restores(c) \/ NamesDevice(c)
  <2> DEFINE b == IF NamesDevice(c) THEN DeviceBody(c) ELSE call[c].body
             pc == IF Verified(c) THEN "verify"
                   ELSE IF Restores(c) THEN "sleep" ELSE "device"
             r == [call[c] EXCEPT !.pc = pc, !.body = b, !.landed = FALSE]
  <2>1. call' = [call EXCEPT ![c] = r] /\ queue' = queue
    BY <1>3 DEF WriteOk
  <2>2. b \in Bodies
    BY <1>2 DEF DeviceBody, CallStates, Bodies, Values
  <2>3. r \in CallStates
    BY <1>2, <2>2 DEF CallStates, Pcs
  <2>4. Verified(c) => Locks
    BY <1>2, OpsPages DEF Verified, IInv
  <2>5. NamesDevice(c) => page = "port" /\ driver = "legacy"
    BY <1>2, OpsPages DEF NamesDevice, IInv
  <2>6. InPlace(r)
    BY <1>2, <1>3, <2>4, <2>5
       DEF IInv, InPlace, Restores, NamesDevice, CallStates
  <2>7. StaleOk(r) /\ BodyOk(r)
    BY <1>2 DEF StaleOk, BodyOk, InFlight, CallStates
  <2>8. queue' \in Seq(Calls) /\ \A d \in Calls : HasTurn(d)'
    BY <1>2, <2>1, <2>3, TurnsStay DEF WriteOk
  <2> QED
    BY <1>1, <2>1, <2>3, <2>6, <2>7, <2>8, OneCall DEF WriteOk
<1>4. CASE ~(Verified(c) \/ Restores(c) \/ NamesDevice(c))
  BY <1>1, <1>2, <1>4, FinishKeeps DEF WriteOk
<1> QED
  BY <1>3, <1>4

\* A restore posts one setting, or reads its form again.
LEMMA SleptKeeps ==
    ASSUME IInv, NEW c \in Calls, Slept(c)
    PROVE  IInv'
<1>1. /\ call[c] \in CallStates
      /\ call[c].op = "cycle" /\ "cycle" \in Ops
      /\ call[c].cell \in Cells
      /\ call[c].cell[1] = FieldOf("cycle")
      /\ ~Locks
  BY OpsPages DEF Slept, IInv, CallType, InPlace
<1>2. PICK p \in Ports : call[c].cell = <<FieldOf("cycle"), p>>
  BY <1>1 DEF Cells
<1> DEFINE f == First("cycle", call[c].cell, 1)
           r == [f EXCEPT !.attempt = call[c].attempt]
<1>3. f \in CallStates /\ InPlace(f) /\ StaleOk(f) /\ BodyOk(f)
  BY <1>1, <1>2, FirstOk DEF IInv
<1>4. r \in CallStates
  BY <1>1, <1>3 DEF CallStates
<1>5. InPlace(r) /\ StaleOk(r) /\ BodyOk(r)
  BY <1>3 DEF InPlace, StaleOk, BodyOk, InFlight, CallStates
<1>6. call' = [call EXCEPT ![c] = r] /\ queue' = queue
  BY DEF Slept
<1>7. queue' \in Seq(Calls) /\ \A d \in Calls : HasTurn(d)'
  BY <1>1, <1>4, <1>6, TurnsStay DEF Slept
<1>8. late' \subseteq Bodies
  BY DEF Slept, IInv, SwitchType
<1> QED
  BY <1>4, <1>5, <1>6, <1>7, <1>8, OneCall DEF Slept

(***************************************************************************)
(* A value that was read back is promised.  It is not stale for anybody:   *)
(* the call has the lock, so no other form is in flight.                   *)
(***************************************************************************)
LEMMA VerifyOkKeeps ==
    ASSUME IInv, NEW c \in Calls, VerifyOk(c)
    PROVE  IInv'
<1>1. /\ call[c] \in CallStates
      /\ call[c].pc = "verify"
      /\ call[c].cell \in Cells
      /\ Locks
      /\ MayRun(c)
  BY Turn DEF VerifyOk, IInv, CallType, InPlace
<1>2. \A d \in Calls : call[d].pc \notin {"diff", "write"}
  BY <1>1 DEF IInv, HasTurn, MayRun
<1>3. \A d \in Calls : call[d].stale = {}
  BY <1>2 DEF IInv, StaleOk
<1>4. /\ call' = [call EXCEPT ![c] = Idle]
      /\ queue' = Tail(queue)
      /\ promise' = [promise EXCEPT ![call[c].cell] = call[c].val]
      /\ UNCHANGED <<driver, page, setting, late>>
  BY <1>1 DEF VerifyOk, Finish
<1>5. /\ Idle \in CallStates
      /\ Idle.pc = "idle" /\ Idle.stale = {}
  BY DEF Idle, CallStates, Pcs, NoCell, Nothing, Bodies, RestoreAttempts
<1>6. queue' \in Seq(Calls)
  BY <1>1, <1>4 DEF IInv, SwitchType, MayRun
<1>7. promise' \in [Cells -> {0, 1, Keep}]
  BY <1>1, <1>4 DEF IInv, SwitchType, CallStates
<1>8. SwitchType' /\ CallType' /\ (~Locks => promise = NoPromise)'
  BY <1>1, <1>4, <1>5, <1>6, <1>7
     DEF IInv, SwitchType, CallType, Pages, Locks, Json
<1>9. ConfirmedHolds'
  BY <1>1, <1>4 DEF VerifyOk, IInv, SwitchType, ConfirmedHolds, Shown
<1>10. ASSUME NEW d \in Calls
       PROVE  /\ InPlace(call[d])' /\ HasTurn(d)'
              /\ StaleOk(call[d])' /\ BodyOk(call[d])'
  <2>1. call'[d] = IF d = c THEN Idle ELSE call[d]
    BY <1>4 DEF IInv, CallType
  <2>2. InPlace(call[d])'
    BY <1>4, <1>5, <2>1
       DEF IInv, InPlace, Ops, FieldOf, ReadsForm, Locks, Json
  <2>3. StaleOk(call[d])'
    BY <1>3, <1>5, <2>1 DEF StaleOk
  <2>4. HasTurn(d)'
    BY <1>1, <1>2, <1>4, <1>5, <2>1
       DEF IInv, HasTurn, MayRun, Locks, Json
  <2>5. BodyOk(call[d])'
    BY <1>2, <1>5, <2>1 DEF BodyOk, InFlight
  <2> QED
    BY <2>2, <2>3, <2>4, <2>5
<1> QED
  BY <1>8, <1>9, <1>10 DEF IInv

-----------------------------------------------------------------------------
(***************************************************************************)
(* Changes of settings                                                     *)
(***************************************************************************)
\* Marking cells adds to what is stale of the forms in flight.
LEMMA MarkedEffect ==
    ASSUME IInv, NEW cells \in SUBSET Cells, NEW d \in Calls
    PROVE  LET m == Marked(cells)[d]
           IN  /\ m \in CallStates
               /\ m.pc = call[d].pc /\ m.op = call[d].op
               /\ m.cell = call[d].cell /\ m.val = call[d].val
               /\ m.body = call[d].body /\ m.landed = call[d].landed
               /\ m.stale = IF InFlight(call[d])
                              THEN call[d].stale \union cells
                              ELSE call[d].stale
BY DEF IInv, CallType, CallStates, Marked, InFlight

(***************************************************************************)
(* Whoever changes cells behind the forms in flight makes them stale and   *)
(* releases the promises about them.                                       *)
(***************************************************************************)
LEMMA BehindKeeps ==
    ASSUME IInv, NEW cells \in SUBSET Cells, Behind(cells),
           setting' \in [Cells -> Values],
           \A x \in Cells \ cells : setting'[x] = setting[x],
           late' \subseteq Bodies, UNCHANGED <<driver, page, queue>>
    PROVE  IInv'
<1>1. /\ call' = Marked(cells)
      /\ promise' = [x \in Cells |-> IF x \in cells THEN Keep ELSE promise[x]]
  BY DEF Behind
<1>2. promise' \in [Cells -> {0, 1, Keep}]
  BY <1>1 DEF IInv, SwitchType
<1>3. SwitchType' /\ CallType' /\ (~Locks => promise = NoPromise)'
  BY <1>1, <1>2, MarkedEffect
     DEF IInv, SwitchType, CallType, Marked, Pages, Locks, Json, NoPromise
<1>4. ConfirmedHolds'
  BY <1>1 DEF IInv, SwitchType, ConfirmedHolds, Shown
<1>5. ASSUME NEW d \in Calls
      PROVE  /\ InPlace(call[d])' /\ HasTurn(d)' /\ StaleOk(call[d])'
             /\ driver' # "s350" => BodyOk(call[d])'
  <2>1. /\ call'[d].pc = call[d].pc /\ call'[d].op = call[d].op
        /\ call'[d].cell = call[d].cell /\ call'[d].body = call[d].body
        /\ call'[d].landed = call[d].landed
        /\ call'[d].stale = IF InFlight(call[d])
                              THEN call[d].stale \union cells
                              ELSE call[d].stale
    BY <1>1, MarkedEffect
  <2>2. InPlace(call[d])' /\ HasTurn(d)'
    BY <2>1 DEF IInv, InPlace, HasTurn, MayRun, Ops, FieldOf, ReadsForm, Locks,
       Json
  <2>3. call[d].stale \subseteq Cells
    BY DEF IInv, CallType, CallStates
  <2>4. StaleOk(call[d])'
    BY <1>1, <2>1, <2>3 DEF IInv, StaleOk, InFlight
  <2>5. driver' # "s350" => BodyOk(call[d])'
    BY <2>1 DEF IInv, BodyOk, InFlight, FormOf, OnPage, Json, Posted, Shown
  <2> QED
    BY <2>2, <2>4, <2>5
<1> QED
  BY <1>3, <1>4, <1>5 DEF IInv

\* A late request is an outside change of all its cells.
LEMMA LateLandKeeps ==
    ASSUME IInv, NEW b \in late, LateLand(b)
    PROVE  IInv'
<1>1. b \in Bodies /\ late' \subseteq Bodies
  BY DEF IInv, SwitchType, LateLand
<1>2. CellsIn(b) \in SUBSET Cells
  BY DEF CellsIn
<1>3. /\ setting' \in [Cells -> Values]
      /\ \A x \in Cells \ CellsIn(b) : setting'[x] = setting[x]
  BY <1>1 DEF IInv, SwitchType, LateLand, Applied, CellsIn, Bodies
<1> QED
  BY <1>1, <1>2, <1>3, BehindKeeps DEF LateLand

\* Another user changes one cell.
LEMMA OutsideChangeKeeps ==
    ASSUME IInv, NEW x \in Cells, NEW v \in Values, OutsideChange(x, v)
    PROVE  IInv'
<1>1. late' \subseteq Bodies
  BY DEF IInv, SwitchType, OutsideChange
<1>2. /\ setting' \in [Cells -> Values]
      /\ \A y \in Cells \ {x} : setting'[y] = setting[y]
  BY DEF IInv, SwitchType, OutsideChange
<1> QED
  BY <1>1, <1>2, BehindKeeps DEF OutsideChange

(***************************************************************************)
(* A post that is applied changes the call's own cell, stale cells, and    *)
(* dynamic ones; the second post of a legacy rename is about one cell.     *)
(***************************************************************************)
LEMMA LandChanges ==
    ASSUME IInv, driver # "s350", NEW c \in Calls, Land(c), NEW x \in Cells,
           x # call[c].cell, x \notin call[c].stale, call[c].pc # "device"
    PROVE  setting'[x] = setting[x] \/ setting'[x] = Posted(Shown(setting[x]))
<1>1. CASE UNCHANGED setting
  BY <1>1
<1>2. CASE setting' = Applied(call[c].body)
  <2>1. BodyOk(call[c]) /\ InFlight(call[c])
    BY DEF IInv, Land, InFlight
  <2> QED
    BY <1>2, <2>1 DEF BodyOk, Applied
<1> QED
  BY <1>1, <1>2 DEF Land

\* Where two forms are in flight, neither carries the cell the other is about.
LEMMA FormsApart ==
    ASSUME IInv, driver # "s350", NEW c \in Calls, NEW d \in Calls, c # d,
           call[c].pc \in {"write", "device"}, call[d].pc \in {"diff", "write"},
           NEW x \in FormOf(call[d].cell), x # call[d].cell
    PROVE  x # call[c].cell /\ call[c].pc # "device"
<1>1. ~Locks
  <2>1. CASE call[c].pc = "device"
    BY <2>1 DEF IInv, InPlace, Locks, Json
  <2>2. CASE call[c].pc = "write"
    BY <2>2 DEF IInv, HasTurn, MayRun
  <2> QED
    BY <2>1, <2>2
<1>2. CASE page = "port" /\ ~Json
  BY <1>2 DEF FormOf
<1>3. CASE page = "poe"
  <2>1. /\ call[c].cell \in Cells /\ call[c].cell[1] = "admin"
        /\ call[d].cell \in Cells /\ call[d].cell[1] = "admin"
        /\ call[c].pc # "device"
    BY <1>3, OpsPages DEF IInv, InPlace
  <2>2. x \in Cells /\ x[2] = call[d].cell[2]
    BY <1>3 DEF FormOf, OnPage, Cells, Fields
  <2> QED
    BY <2>1, <2>2 DEF Cells
<1> QED
  BY <1>1, <1>2, <1>3, UnlockedPage DEF IInv

(***************************************************************************)
(* The post of a call: the cells it undoes were stale for it and become    *)
(* so for the others; the rest of its form is what they have read as well. *)
(***************************************************************************)
LEMMA LandKeeps ==
    ASSUME IInv, NEW c \in Calls, Land(c)
    PROVE  IInv'
<1>1. /\ call[c] \in CallStates
      /\ call[c].pc \in {"write", "device"}
      /\ ~call[c].landed
      /\ call[c].cell \in Cells
      /\ call[c].stale \in SUBSET Cells
      /\ call[c].body \in Bodies
      /\ UNCHANGED <<driver, page, late, queue>>
  BY DEF Land, IInv, CallType, CallStates, InPlace
<1> DEFINE m == Marked(call[c].stale)
           r == [m[c] EXCEPT !.landed = TRUE, !.body = Nothing, !.stale = {}]
<1>2. /\ m \in [Calls -> CallStates]
      /\ \A d \in Calls :
             /\ m[d].pc = call[d].pc /\ m[d].op = call[d].op
             /\ m[d].cell = call[d].cell /\ m[d].body = call[d].body
             /\ m[d].landed = call[d].landed
             /\ m[d].stale = IF InFlight(call[d])
                               THEN call[d].stale \union call[c].stale
                               ELSE call[d].stale
  <2>1. m \in [Calls -> CallStates]
    BY <1>1, MarkedEffect DEF Marked
  <2> QED
    BY <1>1, <2>1, MarkedEffect
<1>3. call' = [m EXCEPT ![c] = r]
  BY DEF Land
<1>4. r \in CallStates /\ r.landed /\ r.stale = {}
  <2>1. Nothing \in Bodies
    BY DEF Nothing, Bodies
  <2> QED
    BY <1>2, <2>1 DEF CallStates
<1>5. /\ r.pc = call[c].pc /\ r.op = call[c].op /\ r.cell = call[c].cell
  <2>1. m[c] \in CallStates
    BY <1>2
  <2>2. r.pc = m[c].pc /\ r.op = m[c].op /\ r.cell = m[c].cell
    BY <2>1 DEF CallStates
  <2> QED
    BY <1>2, <2>2
<1>6. /\ setting' \in [Cells -> Values]
      /\ promise' \in [Cells -> {0, 1, Keep}]
      /\ \A x \in Cells : promise'[x] # Keep => promise'[x] = promise[x]
      /\ setting' = setting \/ promise'[call[c].cell] = Keep
      /\ ~Locks => promise' = NoPromise
  <2>1. CASE UNCHANGED <<setting, promise>>
    BY <2>1 DEF IInv, SwitchType
  <2>2. CASE /\ setting' = Applied(call[c].body)
             /\ promise' = [promise EXCEPT ![call[c].cell] = Keep]
    <3>1. setting' \in [Cells -> Values]
      BY <1>1, <2>2 DEF IInv, SwitchType, Applied, Bodies
    <3>2. /\ promise' \in [Cells -> {0, 1, Keep}]
          /\ \A x \in Cells : promise'[x] # Keep => promise'[x] = promise[x]
          /\ promise'[call[c].cell] = Keep
      BY <1>1, <2>2 DEF IInv, SwitchType
    <3>3. ~Locks => promise' = NoPromise
      BY <1>1, <2>2 DEF IInv, NoPromise
    <3> QED
      BY <3>1, <3>2, <3>3
  <2> QED
    BY <2>1, <2>2 DEF Land
<1>7. SwitchType' /\ CallType' /\ (~Locks => promise = NoPromise)'
  BY <1>1, <1>2, <1>3, <1>4, <1>6
     DEF IInv, SwitchType, CallType, Pages, Locks, Json
<1>8. ConfirmedHolds'
  <2> SUFFICES ASSUME NEW x \in Cells, promise'[x] # Keep,
                      setting'[x] # setting[x]
               PROVE  Shown(setting'[x]) = promise[x]
    BY <1>1, <1>6 DEF IInv, ConfirmedHolds, Shown
  <2>1. promise[x] \in {0, 1} /\ promise[x] = Shown(setting[x])
    BY <1>6 DEF IInv, SwitchType, ConfirmedHolds
  <2>2. Locks
    BY <1>6 DEF NoPromise
  <2>3. driver # "s350" /\ call[c].pc # "device"
    BY <2>2 DEF IInv, InPlace, SwitchType, Pages, Locks, Json
  <2>4. x # call[c].cell /\ x \notin call[c].stale
    BY <1>6, <2>1 DEF IInv, StaleOk, Keep
  <2>5. setting'[x] = Posted(Shown(setting[x]))
    BY <2>3, <2>4, LandChanges
  <2> QED
    BY <2>1, <2>5, PostedValue DEF IInv, SwitchType
<1>9. ASSUME NEW d \in Calls
      PROVE  InPlace(call[d])' /\ HasTurn(d)' /\ StaleOk(call[d])'
  <2>1. /\ call'[d].pc = call[d].pc /\ call'[d].op = call[d].op
        /\ call'[d].cell = call[d].cell
        /\ d = c => call'[d].stale = {}
        /\ d # c => /\ call'[d].landed = call[d].landed
                    /\ call'[d].stale =
                           IF InFlight(call[d])
                             THEN call[d].stale \union call[c].stale
                             ELSE call[d].stale
    BY <1>2, <1>3, <1>4, <1>5
  <2>2. InPlace(call[d])' /\ HasTurn(d)'
    BY <1>1, <2>1 DEF IInv, InPlace, HasTurn, MayRun, Ops, FieldOf, ReadsForm,
       Locks, Json
  <2>3. call[d].stale \subseteq Cells /\ call[c].stale \subseteq Cells
    BY <1>1 DEF IInv, CallType, CallStates
  <2>4. StaleOk(call[d])'
    BY <1>6, <2>1, <2>3 DEF IInv, StaleOk, InFlight
  <2> QED
    BY <2>2, <2>4
<1>10. ASSUME driver # "s350", NEW d \in Calls
       PROVE  BodyOk(call[d])'
  <2>1. CASE d = c
    BY <1>2, <1>3, <1>4, <2>1 DEF BodyOk, InFlight
  <2>2. CASE d # c /\ InFlight(call[d])
    <3>1. /\ call'[d].cell = call[d].cell
          /\ call'[d].body = call[d].body
          /\ call'[d].stale = call[d].stale \union call[c].stale
          /\ BodyOk(call[d])
      BY <1>2, <1>3, <1>10, <2>2 DEF IInv
    <3>2. ASSUME NEW x \in Cells \ {call[d].cell}, call[d].body[x] # Keep,
                 x \notin call'[d].stale
          PROVE  call[d].body[x] = Posted(Shown(setting'[x]))
      <4>1. /\ x \in FormOf(call[d].cell)
            /\ call[d].body[x] = Posted(Shown(setting[x]))
        BY <2>2, <3>1, <3>2 DEF BodyOk
      <4>2. x # call[c].cell /\ call[c].pc # "device"
        BY <1>1, <1>10, <2>2, <3>2, <4>1, FormsApart DEF InFlight
      <4>3. x \notin call[c].stale
        BY <3>1, <3>2
      <4>4. \/ setting'[x] = setting[x]
            \/ setting'[x] = Posted(Shown(setting[x]))
        BY <1>10, <4>2, <4>3, LandChanges
      <4> QED
        BY <4>1, <4>4, PostedValue DEF IInv, SwitchType
    <3> QED
      BY <1>1, <3>1, <3>2, <2>2
         DEF BodyOk, FormOf, OnPage, Json, Posted, Shown
  <2>3. CASE d # c /\ ~InFlight(call[d])
    BY <1>2, <1>3, <2>3 DEF BodyOk, InFlight
  <2> QED
    BY <2>1, <2>2, <2>3
<1> QED
  BY <1>1, <1>7, <1>8, <1>9, <1>10 DEF IInv

-----------------------------------------------------------------------------
\* At the start nothing is under way and every promise is empty.
LEMMA InitKeeps == Init => IInv
<1> SUFFICES ASSUME Init PROVE IInv
  OBVIOUS
<1>1. /\ Idle \in CallStates
      /\ Idle.pc = "idle" /\ Idle.stale = {}
  BY DEF Idle, CallStates, Pcs, NoCell, Nothing, Bodies, RestoreAttempts
<1>2. SwitchType /\ CallType
  BY <1>1 DEF Init, SwitchType, CallType, Values, NoPromise
<1>3. \A c \in Calls :
          /\ InPlace(call[c]) /\ HasTurn(c)
          /\ StaleOk(call[c]) /\ BodyOk(call[c])
  BY <1>1 DEF Init, InPlace, HasTurn, StaleOk, BodyOk, InFlight
<1> QED
  BY <1>2, <1>3 DEF Init, IInv, ConfirmedHolds, NoPromise

\* The page's cells are cells.
LEMMA OnPageCells == OnPage \subseteq Cells
BY DEF OnPage, Cells, Fields

\* The invariant is inductive.
LEMMA StepKeeps == IInv /\ [Next]_vars => IInv'
<1> SUFFICES ASSUME IInv, [Next]_vars PROVE IInv'
  OBVIOUS
<1>1. ASSUME NEW c \in Calls, NEW op \in Ops, NEW p \in Ports,
             NEW v \in {0, 1}, Start(c, op, p, v)
      PROVE  IInv'
  BY <1>1, StartKeeps
<1>2. ASSUME NEW c \in Calls, CallStep(c) PROVE IInv'
  BY <1>2, ReadFormKeeps, ReadFailsKeeps, DiffKeeps, LandKeeps, WriteOkKeeps,
     WriteFailsKeeps, VerifyOkKeeps, VerifyFailsKeeps, DeviceEndsKeeps,
     SleptKeeps
     DEF CallStep
<1>3. ASSUME NEW b \in late, LateLand(b) PROVE IInv'
  BY <1>3, LateLandKeeps
<1>4. ASSUME NEW x \in OnPage, NEW v \in Values, OutsideChange(x, v)
      PROVE  IInv'
  BY <1>4, OnPageCells, OutsideChangeKeeps
<1>5. CASE UNCHANGED vars
  BY <1>5 DEF vars, IInv, SwitchType, CallType, Pages, InPlace, HasTurn, MayRun,
     StaleOk, BodyOk, InFlight, ConfirmedHolds, Ops, FieldOf, ReadsForm, FormOf,
     OnPage, Posted, Shown, Locks, Json
<1> QED
  BY <1>1, <1>2, <1>3, <1>4, <1>5 DEF Next

\* Every reachable state satisfies the inductive invariant.
LEMMA IInvHolds == Spec => []IInv
BY InitKeeps, StepKeeps, PTL DEF Spec

\* Nothing but the switch dealing with a call's post makes it "landed".
LEMMA OnlyLandApplies ==
    ASSUME IInv, Next, NEW c \in Calls, Applies(c)
    PROVE  Land(c)
<1> SUFFICES ASSUME ~Land(c) PROVE call'[c].landed => call[c].landed
  BY DEF Applies
<1> USE DEF IInv, CallType
<1>1. ASSUME NEW d \in Calls, NEW op \in Ops, NEW p \in Ports,
             NEW v \in {0, 1}, Start(d, op, p, v)
      PROVE  call'[c].landed => call[c].landed
  BY <1>1 DEF Start, First
<1>2. ASSUME NEW d \in Calls, CallStep(d)
      PROVE  call'[c].landed => call[c].landed
  <2>1. CASE ReadForm(d) \/ Diff(d)
    <3>1. CASE d # c
      BY <2>1, <3>1 DEF ReadForm, Diff
    <3>2. CASE d = c
      <4>1. call[c] \in CallStates
        OBVIOUS
      <4>2. CASE ReadForm(c)
        BY <4>1, <4>2 DEF ReadForm, CallStates
      <4>3. CASE Diff(c)
        BY <4>1, <4>3 DEF Diff, CallStates
      <4> QED
        BY <2>1, <3>2, <4>2, <4>3
    <3> QED
      BY <3>1, <3>2
  <2>2. CASE \/ ReadFails(d) \/ WriteFails(d) \/ DeviceEnds(d)
             \/ VerifyOk(d) \/ VerifyFails(d)
    <3>1. CASE Finish(d)
      BY <3>1 DEF Finish, Idle
    <3>2. CASE EndFailed(d) /\ ~Finish(d)
      BY <3>2 DEF EndFailed, CallStates
    <3> QED
      BY <2>2, <3>1, <3>2 DEF ReadFails, WriteFails, DeviceEnds, VerifyOk,
         VerifyFails
  <2>3. CASE WriteOk(d)
    BY <2>3 DEF WriteOk, Finish, Idle, CallStates
  <2>4. CASE Slept(d)
    BY <2>4 DEF Slept, First
  <2>5. CASE Land(d)
    <3>1. d # c /\ call[d].stale \in SUBSET Cells
      BY <2>5 DEF CallStates
    <3>2. call'[c].landed = Marked(call[d].stale)[c].landed
      BY <2>5, <3>1 DEF Land, Marked
    <3> QED
      BY <3>1, <3>2, MarkedEffect
  <2> QED
    BY <1>2, <2>1, <2>2, <2>3, <2>4, <2>5 DEF CallStep
<1>3. ASSUME NEW b \in late, LateLand(b)
      PROVE  call'[c].landed => call[c].landed
  <2>1. CellsIn(b) \in SUBSET Cells
    BY DEF CellsIn
  <2> QED
    BY <1>3, <2>1, MarkedEffect DEF LateLand, Behind
<1>4. ASSUME NEW x \in OnPage, NEW v \in Values, OutsideChange(x, v)
      PROVE  call'[c].landed => call[c].landed
  BY <1>4, OnPageCells, MarkedEffect DEF OutsideChange, Behind
<1> QED
  BY <1>1, <1>2, <1>3, <1>4 DEF Next

-----------------------------------------------------------------------------
(***************************************************************************)
(* The calls of a driver, its locks, the forms in flight and the promises  *)
(* are well typed.                                                         *)
(***************************************************************************)
THEOREM TypeCorrect == Spec => []TypeOK
<1>1. IInv => TypeOK
  BY DEF IInv, SwitchType, CallType, InPlace, TypeOK
<1> QED
  BY <1>1, IInvHolds, PTL

(***************************************************************************)
(* What async_set_vlan_membership and async_set_port_speed have read back  *)
(* stays until someone asks for something else, whatever the calls for     *)
(* other ports and settings post.                                          *)
(***************************************************************************)
THEOREM ConfirmedSettingsHold == Spec => []ConfirmedHolds
<1>1. IInv => ConfirmedHolds
  BY DEF IInv
<1> QED
  BY <1>1, IInvHolds, PTL

(***************************************************************************)
(* A call changes its own setting and undoes no other call of the driver,  *)
(* though it posts forms that hold the settings of all ports.              *)
(***************************************************************************)
THEOREM WritesArePreserving == Spec => WritesPreserve
<1> DEFINE Preserves ==
             \A c \in Calls :
                 driver # "s350" /\ Applies(c) =>
                     \A x \in Cells :
                         setting'[x] = setting[x] \/ MayChange(c, x)
<1>1. IInv /\ [Next]_vars => [Preserves]_vars
  <2> SUFFICES ASSUME IInv, Next, NEW c \in Calls, driver # "s350", Applies(c),
                      NEW x \in Cells
               PROVE  setting'[x] = setting[x] \/ MayChange(c, x)
    OBVIOUS
  <2>1. Land(c)
    BY OnlyLandApplies
  <2>2. setting[x] \in Values
    BY DEF IInv, SwitchType
  <2> QED
    BY <2>1, <2>2, LandChanges, PostedValue DEF MayChange
<1> QED
  BY <1>1, IInvHolds, PTL DEF WritesPreserve, Spec
=============================================================================
