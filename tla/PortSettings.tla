----------------------------- MODULE PortSettings -----------------------------
(***************************************************************************)
(* Settings of the switch's ports that a driver changes by reading a form, *)
(* altering one cell and posting the form back: VLAN membership (one map   *)
(* of all ports), the port page (name and link settings) and the PoE page. *)
(* A web page that is posted whole carries every other cell at the value   *)
(* it was read with, so what matters is what happens in between: another   *)
(* call of the same driver, another user of the switch, a request whose    *)
(* sender gave up and which the switch executes later.                     *)
(*                                                                         *)
(* The three pages share no cell, so a behaviour is about one of them.     *)
(***************************************************************************)
EXTENDS Naturals, Sequences, FiniteSets

CONSTANTS
    Ports,    \* the ports of the switch
    Calls,    \* tasks that call the driver
    Drivers,  \* among "json", "aj4", "legacy", "classic", "s350"
    Asked,    \* bound: the operations and ports users ask for
    Touched,  \* bound: the ports other users of the switch configure
    MaxLate   \* bound: abandoned requests the switch still holds at a time

ASSUME PortSettingsAssumption ==
    /\ IsFiniteSet(Calls)
    /\ Drivers \subseteq {"json", "aj4", "legacy", "classic", "s350"}
    /\ Touched \subseteq Ports
    /\ MaxLate \in Nat

VARIABLES
    driver,   \* the switch's driver
    page,     \* the page the behaviour is about
    setting,  \* the switch: the value of each cell
    late,     \* bodies whose sender gave up and the switch may still apply
    queue,    \* the page's lock: its holder, then the calls that wait for it
    call,     \* each task
    promise   \* history: the value a successful verified call vouched for

vars == <<driver, page, setting, late, queue, call, promise>>

(***************************************************************************)
(* member: the port's state in the VLAN.  name: its description.  device:  *)
(* the legacy PoE page's copy of it.  link: speed, duplex and flow         *)
(* control.  admin: PoE on or off.  limit: the other PoE settings.         *)
(***************************************************************************)
Fields == {"member", "name", "device", "link", "admin", "limit"}
Cells == Fields \X Ports

\* Two values tell apart what the properties need; a VLAN member may also be
\* one the switch learned by itself
Dynamic == 3
Values == {0, 1, Dynamic}
Keep == 4  \* in a body: the cell is not posted
Nothing == [x \in Cells |-> Keep]
NoPromise == [x \in Cells |-> Keep]

Json == driver \in {"json", "aj4"}
Pages(d) ==
    CASE d = "s350"    -> {"poe"}
      [] d = "classic" -> {"port", "poe"}
      [] OTHER         -> {"vlan", "port", "poe"}

\* The cells of the page that the driver's forms carry
OnPage ==
    CASE page = "vlan" -> {"member"} \X Ports
      [] page = "poe"  ->
           (IF Json \/ driver = "s350" THEN {"admin", "limit"} ELSE {"admin"})
               \X Ports
      [] OTHER ->
           (CASE Json              -> {"name", "link"}
              [] driver = "legacy" -> {"name", "device"}
              [] OTHER             -> {"name"}) \X Ports

\* The driver's operations on the page
Ops ==
    CASE page = "vlan" -> {"vlan"}
      [] page = "poe"  -> {"power", IF Json THEN "reset" ELSE "cycle"}
      [] OTHER         -> {"name"} \union IF driver = "aj4" THEN {"speed"} ELSE {}

FieldOf(op) ==
    CASE op = "vlan"  -> "member"
      [] op = "name"  -> "name"
      [] op = "speed" -> "link"
      [] OTHER        -> "admin"

(***************************************************************************)
(* read: the form is to be read, under the lock where there is one.  diff: *)
(* the legacy driver reads the map again to post the changes only.  write: *)
(* the post is in flight.  verify: the page is read back.  device: the     *)
(* second post of a legacy rename is in flight.  sleep: a power cycle      *)
(* holds the port down, or waits to try the restore again.                 *)
(***************************************************************************)
Pcs == {"idle", "read", "diff", "write", "verify", "device", "sleep"}

RestoreAttempts == 3

(***************************************************************************)
(* val: the value asked for.  body: what the post carries.  landed: the    *)
(* switch has dealt with it.  stale: history, the cells changed since the  *)
(* form was read by somebody outside the driver, or by a call that undid   *)
(* such a change.                                                          *)
(***************************************************************************)
Bodies == [Cells -> Values \union {Keep}]
NoCell == <<>>
CallStates ==
    [pc: Pcs, op: {"vlan", "name", "speed", "power", "reset", "cycle"},
     cell: Cells \union {NoCell}, val: {0, 1}, body: Bodies,
     stale: SUBSET Cells, landed: BOOLEAN, attempt: 0 .. RestoreAttempts - 1]
Idle == [pc |-> "idle", op |-> "vlan", cell |-> NoCell, val |-> 0,
         body |-> Nothing, stale |-> {}, landed |-> FALSE, attempt |-> 0]

TypeOK ==
    /\ driver \in Drivers
    /\ page \in Pages(driver)
    /\ setting \in [Cells -> Values]
    /\ late \subseteq Bodies
    /\ queue \in Seq(Calls)
    /\ call \in [Calls -> CallStates]
    /\ \A c \in Calls : call[c].pc # "idle" => call[c].cell \in Cells
    /\ promise \in [Cells -> {0, 1, Keep}]

Init ==
    /\ driver \in Drivers
    /\ page \in Pages(driver)
    /\ setting = [x \in Cells |-> 0]
    /\ late = {}
    /\ queue = <<>>
    /\ call = [c \in Calls |-> Idle]
    /\ promise = NoPromise

-----------------------------------------------------------------------------
\* What a read of the page shows: the legacy one has no word for dynamic
Shown(v) == IF v = Dynamic /\ driver = "legacy" THEN 1 ELSE v

\* What a form posts for a value it read: "not a member" for a dynamic one
Posted(v) == IF v = Dynamic THEN 0 ELSE v

\* The cells that are posted along with x
FormOf(x) ==
    IF page = "vlan" \/ driver = "s350"
      THEN OnPage
      ELSE {y \in OnPage : y = x \/ (Json /\ y[2] = x[2])}

\* The form has to be read before it can be posted
ReadsForm == page = "vlan" \/ driver = "s350" \/ Json

Form(x, v) ==
    [y \in Cells |-> IF y = x THEN v
                     ELSE IF y \in FormOf(x) THEN Posted(Shown(setting[y]))
                     ELSE Keep]

\* The switch applies a body
Applied(b) == [x \in Cells |-> IF b[x] = Keep THEN setting[x] ELSE b[x]]
CellsIn(b) == {x \in Cells : b[x] # Keep}

\* Mutant: the port edits of the JSON drivers take no lock
LocksMaps == page = "vlan"

\* _vlan_lock and _port_edit_lock
Locks == page = "vlan" \/ (page = "port" /\ Json)

MayRun(c) == Locks => queue # <<>> /\ Head(queue) = c

\* The call ends, and with it its turn
Finish(c) ==
    /\ call' = [call EXCEPT ![c] = Idle]
    /\ queue' = IF Locks THEN Tail(queue) ELSE queue

\* A sender gives up on its request: it is gone, or the switch still has it
GiveUp(c) ==
    \/ UNCHANGED late
    \/ /\ ~call[c].landed
       /\ Cardinality(late) < MaxLate
       /\ late' = late \union {call[c].body}

\* History: cells change behind the back of the forms that were read
Marked(cells) ==
    [c \in Calls |->
       IF call[c].pc \in {"diff", "write"} /\ ~call[c].landed
         THEN [call[c] EXCEPT !.stale = @ \union cells]
         ELSE call[c]]
Behind(cells) ==
    /\ call' = Marked(cells)
    /\ promise' = [x \in Cells |-> IF x \in cells THEN Keep ELSE promise[x]]

-----------------------------------------------------------------------------
\* The request a call makes first, with the lock or in line for it
First(op, x, v) ==
    [pc |-> IF ReadsForm THEN "read" ELSE "write", op |-> op, cell |-> x,
     val |-> v, body |-> IF ReadsForm THEN Nothing ELSE Form(x, v),
     stale |-> {}, landed |-> FALSE, attempt |-> 0]

(***************************************************************************)
(* A service call, a switch or a button calls the driver.  The native      *)
(* reset posts state 1; the emulated power cycle begins with an OFF.       *)
(***************************************************************************)
Start(c, op, p, v) ==
    /\ call[c].pc = "idle"
    /\ <<op, p>> \in Asked
    /\ op = "reset" => v = 1
    /\ op = "cycle" => v = 0
    /\ call' = [call EXCEPT ![c] = First(op, <<FieldOf(op), p>>, v)]
    /\ queue' = IF Locks THEN Append(queue, c) ELSE queue
    /\ UNCHANGED <<driver, page, setting, late, promise>>

\* The page is read and the form filled in
ReadForm(c) ==
    /\ call[c].pc = "read"
    /\ MayRun(c)
    /\ call' = [call EXCEPT
         ![c].pc = IF driver = "legacy" THEN "diff" ELSE "write",
         ![c].body = Form(call[c].cell, call[c].val)]
    /\ UNCHANGED <<driver, page, setting, late, queue, promise>>

(***************************************************************************)
(* The legacy driver reads the map once more and posts the cells that      *)
(* differ; where none does it posts nothing.                               *)
(***************************************************************************)
Diff(c) ==
    LET b == call[c].body
        d == [x \in Cells |-> IF b[x] = Shown(setting[x]) THEN Keep ELSE b[x]]
    IN  /\ call[c].pc = "diff"
        /\ call' = [call EXCEPT
             ![c].pc = IF d = Nothing THEN "verify" ELSE "write",
             ![c].stale = IF d = Nothing THEN {} ELSE @,
             ![c].body = d]
        /\ UNCHANGED <<driver, page, setting, late, queue, promise>>

\* The switch applies the post, or says it did and ignores it
Land(c) ==
    /\ call[c].pc \in {"write", "device"}
    /\ ~call[c].landed
    /\ \/ /\ setting' = Applied(call[c].body)
          /\ promise' = [promise EXCEPT ![call[c].cell] = Keep]
       \/ UNCHANGED <<setting, promise>>
    /\ call' = [Marked(call[c].stale) EXCEPT
                  ![c].landed = TRUE, ![c].body = Nothing, ![c].stale = {}]
    /\ UNCHANGED <<driver, page, late, queue>>

\* What follows an accepted post
Verified(c) == call[c].op \in {"vlan", "speed"}
Restores(c) == call[c].op = "cycle" /\ call[c].val = 0
NamesDevice(c) == driver = "legacy" /\ call[c].op = "name"

DeviceBody(c) ==
    [x \in Cells |-> IF x = <<"device", call[c].cell[2]>> THEN call[c].val
                     ELSE Keep]

\* The switch answers "ok"
WriteOk(c) ==
    /\ call[c].pc = "write"
    /\ call[c].landed
    /\ IF Verified(c) \/ Restores(c) \/ NamesDevice(c)
         THEN /\ call' = [call EXCEPT
                   ![c].pc = IF Verified(c) THEN "verify"
                             ELSE IF Restores(c) THEN "sleep" ELSE "device",
                   ![c].body = IF NamesDevice(c) THEN DeviceBody(c) ELSE @,
                   ![c].landed = FALSE]
              /\ UNCHANGED queue
         ELSE Finish(c)
    /\ UNCHANGED <<driver, page, setting, late, promise>>

\* Mutant: a failed call does not release the lock
EndFailedHolding(c) ==
    /\ call' = [call EXCEPT ![c] = Idle]
    /\ UNCHANGED queue

\* Mutant: one restore too many
EndFailedLate(c) ==
    IF call[c].op = "cycle" /\ call[c].val = 1
                            /\ call[c].attempt < RestoreAttempts
      THEN /\ call' = [call EXCEPT ![c].pc = "sleep", ![c].body = Nothing,
                                   ![c].stale = {}, ![c].landed = FALSE,
                                   ![c].attempt = @ + 1]
           /\ UNCHANGED queue
      ELSE Finish(c)

\* The next attempt of a restore; the third failure is raised
EndFailed(c) ==
    IF call[c].op = "cycle" /\ call[c].val = 1
                            /\ call[c].attempt < RestoreAttempts - 1
      THEN /\ call' = [call EXCEPT ![c].pc = "sleep", ![c].body = Nothing,
                                   ![c].stale = {}, ![c].landed = FALSE,
                                   ![c].attempt = @ + 1]
           /\ UNCHANGED queue
      ELSE Finish(c)

\* A read fails, or the port is not in what it brings
ReadFails(c) ==
    /\ call[c].pc \in {"read", "diff"}
    /\ MayRun(c)
    /\ EndFailed(c)
    /\ UNCHANGED <<driver, page, setting, late, promise>>

\* The post is refused, times out, or its answer is lost
WriteFails(c) ==
    /\ call[c].pc = "write"
    /\ GiveUp(c)
    /\ EndFailed(c)
    /\ UNCHANGED <<driver, page, setting, promise>>

\* Mutant: the page that was read back is not compared
VerifyBlindly(c) ==
    /\ call[c].pc = "verify"
    /\ promise' = [promise EXCEPT ![call[c].cell] = call[c].val]
    /\ Finish(c)
    /\ UNCHANGED <<driver, page, setting, late>>

\* The page is read back and shows the value asked for: the call succeeds
VerifyOk(c) ==
    /\ call[c].pc = "verify"
    /\ Shown(setting[call[c].cell]) = call[c].val
    /\ promise' = [promise EXCEPT ![call[c].cell] = call[c].val]
    /\ Finish(c)
    /\ UNCHANGED <<driver, page, setting, late>>

\* It cannot be read back, or the change did not stick
VerifyFails(c) ==
    /\ call[c].pc = "verify"
    /\ Finish(c)
    /\ UNCHANGED <<driver, page, setting, late, promise>>

\* A legacy rename ends, whatever became of its second post
DeviceEnds(c) ==
    /\ call[c].pc = "device"
    /\ GiveUp(c)
    /\ Finish(c)
    /\ UNCHANGED <<driver, page, setting, promise>>

\* The port has been down for three seconds, or a second has passed
Slept(c) ==
    /\ call[c].pc = "sleep"
    /\ call' = [call EXCEPT ![c] = [First("cycle", call[c].cell, 1) EXCEPT
                                      !.attempt = call[c].attempt]]
    /\ UNCHANGED <<driver, page, setting, late, queue, promise>>

-----------------------------------------------------------------------------
\* The switch applies a request nobody waits for any more
LateLand(b) ==
    /\ late' = late \ {b}
    /\ setting' = Applied(b)
    /\ Behind(CellsIn(b))
    /\ UNCHANGED <<driver, page, queue>>

\* Another user of the switch, or the switch by itself, changes a cell
OutsideChange(x, v) ==
    /\ x[2] \in Touched
    /\ v = Dynamic => page = "vlan"
    /\ setting' = [setting EXCEPT ![x] = v]
    /\ Behind({x})
    /\ UNCHANGED <<driver, page, late, queue>>

CallStep(c) ==
    \/ ReadForm(c)
    \/ ReadFails(c)
    \/ Diff(c)
    \/ Land(c)
    \/ WriteOk(c)
    \/ WriteFails(c)
    \/ VerifyOk(c)
    \/ VerifyFails(c)
    \/ DeviceEnds(c)
    \/ Slept(c)

Next ==
    \/ \E c \in Calls, op \in Ops, p \in Ports, v \in {0, 1} : Start(c, op, p, v)
    \/ \E c \in Calls : CallStep(c)
    \/ \E b \in late : LateLand(b)
    \/ \E x \in OnPage, v \in Values : OutsideChange(x, v)

Spec == Init /\ [][Next]_vars

(***************************************************************************)
(* Requests end (the HTTP client has a timeout), sleeps return and the     *)
(* event loop wakes the first task in line for a lock.  Nobody is owed a   *)
(* call, an outside change or a late request.                              *)
(***************************************************************************)
FairSpec == Spec /\ \A c \in Calls : WF_vars(CallStep(c))

-----------------------------------------------------------------------------
(***************************************************************************)
(* Properties                                                              *)
(***************************************************************************)
\* The switch applies what call c posted
Applies(c) == ~call[c].landed /\ call'[c].landed

\* c's post may change x: its own cell, or one that was changed behind it
MayChange(c, x) ==
    \/ x = call[c].cell
    \/ x \in call[c].stale
    \/ setting[x] = Dynamic
    \/ call[c].pc = "device"

(***************************************************************************)
(* A call changes its own cell and preserves all others, though it posts   *)
(* them: calls of the driver never undo one another.  What a post may undo *)
(* is a change somebody else made since its form was read.  Two things the *)
(* code does not preserve, contrary to what it says, are OthersUntouched's *)
(* subject: the dynamic members of a VLAN, and the S350's PoE table, which *)
(* is posted whole without a lock.                                         *)
(***************************************************************************)
WritesPreserve ==
    [][\A c \in Calls :
           driver # "s350" /\ Applies(c) =>
               \A x \in Cells : setting'[x] = setting[x] \/ MayChange(c, x)]_vars

(***************************************************************************)
(* Setting one port leaves every other port as it is, unless somebody      *)
(* outside the driver has changed it in between: "leaving every other      *)
(* port's membership and all PVIDs untouched" (README.md:145, likewise     *)
(* switch.py:224-225) and, of the S350's table, "no other port can change" *)
(* (api_base_ui.py:1048).  Not so when the map that is posted has a        *)
(* dynamic member in it, which no driver can post (api.py:698), nor when   *)
(* two calls have both read the S350's table before one posts it           *)
(* (api_base_ui.py:1191).                                                  *)
(***************************************************************************)
OthersUntouched ==
    [][\A c \in Calls :
           Applies(c) =>
               \A x \in Cells :
                   \/ setting'[x] = setting[x]
                   \/ x = call[c].cell
                   \/ x \in call[c].stale
                   \/ call[c].pc = "device"]_vars

(***************************************************************************)
(* A VLAN or speed call that succeeded is confirmed: the switch shows its  *)
(* value until a call for the same cell, another user or a late request    *)
(* changes it, whatever the calls for other ports and settings post.       *)
(***************************************************************************)
ConfirmedHolds ==
    \A x \in Cells : promise[x] # Keep => Shown(setting[x]) = promise[x]

(***************************************************************************)
(* Every call ends: the lock is passed on however its holder ends, and a   *)
(* power cycle that cannot restore the port gives up.                      *)
(***************************************************************************)
CallsEnd == \A c \in Calls : call[c].pc # "idle" ~> call[c].pc = "idle"
=============================================================================
