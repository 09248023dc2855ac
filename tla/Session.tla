------------------------------- MODULE Session -------------------------------
(***************************************************************************)
(* The web session a driver holds at its switch.  Polls, service calls and *)
(* the reboot button are tasks of one event loop that share the driver's   *)
(* credential and its login lock; the switch has a few session slots and   *)
(* drops a session when it likes: an idle timeout, an eviction, a restart. *)
(* Each request is made with the credential there is; one the switch       *)
(* rejects is made again, once, after a login.                             *)
(*                                                                         *)
(* A session is the number of the login that got it; 0 is no session.      *)
(***************************************************************************)
EXTENDS Naturals, Sequences, FiniteSets

CONSTANTS
    Tasks,       \* concurrent users of the driver
    Drivers,     \* among "json", "v2" (aj4), "legacy", "base" (classic)
    Slots,       \* web sessions the switch keeps at a time
    MaxSessions, \* bound: logins the switch ever grants
    MaxLosses,   \* bound: times the switch drops sessions
    MaxFaults,   \* bound: requests that go unanswered, logins that go wrong
    MaxPresses   \* bound: presses of the reboot button

ASSUME SessionAssumption ==
    /\ IsFiniteSet(Tasks)
    /\ Drivers \subseteq {"json", "v2", "legacy", "base"}
    /\ {Slots, MaxSessions, MaxLosses, MaxFaults, MaxPresses} \subseteq Nat
    /\ Slots > 0

VARIABLES
    driver,   \* the switch's driver
    live,     \* the switch: the sessions in its slots
    granted,  \* the switch: logins granted so far
    held,     \* _xsid_header, _cookie, or _logged_in: the session in use
    jar,      \* base: the SID in the cookie jar
    xsrf,     \* v2: the session whose current xsrf token is held
    queue,    \* _login_lock: its holder, then the tasks that wait for it
    task,     \* each task
    entry,    \* the config entry: "loaded", "logout" in flight, "unloaded"
    leaving,  \* the session that is being logged out
    lost, faults, presses \* how much of the bounds is used

credentials == <<held, jar, xsrf>>
unload == <<entry, leaving>>
used == <<lost, faults, presses>>
vars == <<driver, live, granted, credentials, queue, task, unload, used>>

None == 0
Sessions == 1 .. MaxSessions

(***************************************************************************)
(* enter: waits for the lock, to log in if there is no session.  relogin:  *)
(* waits for it to log in again.  drop: waits for it to forget the         *)
(* session.  login, home: holds it; the login or the read of home_home     *)
(* after it is in flight.  sent: the request itself is.                    *)
(***************************************************************************)
Waiting == {"enter", "relogin", "drop"}
Pcs == {"idle", "login", "home", "sent"} \union Waiting

(***************************************************************************)
(* read: any request whose body carries no token.  edit: the read before a *)
(* v2 write, and write that write.  table: a read that an evicted session  *)
(* may answer with an empty table, and retable the second try at it.       *)
(* reboot: the reboot button's command.                                    *)
(***************************************************************************)
Kinds == {"read", "edit", "write", "table", "retable", "reboot"}

(***************************************************************************)
(* again: it is the second attempt.  failed: it ended in a                 *)
(* NetgearAuthError.  token: the session whose current xsrf token is in    *)
(* its body, or none.  losses: history, sessions lost since it began,      *)
(* counted to two.  refused: history, a login was refused since.           *)
(***************************************************************************)
TaskStates ==
    [pc: Pcs, kind: Kinds, again: BOOLEAN, sid: Sessions \union {None},
     token: Sessions \union {None}, losses: 0 .. 2, refused: BOOLEAN,
     failed: BOOLEAN]
Idle == [pc |-> "idle", kind |-> "read", again |-> FALSE, sid |-> None,
         token |-> None, losses |-> 0, refused |-> FALSE, failed |-> FALSE]
Failed == [Idle EXCEPT !.failed = TRUE]

TypeOK ==
    /\ driver \in Drivers
    /\ live \subseteq Sessions
    /\ Cardinality(live) <= Slots
    /\ granted \in 0 .. MaxSessions
    /\ {held, jar, xsrf, leaving} \subseteq Sessions \union {None}
    /\ queue \in Seq(Tasks)
    /\ Len(queue) <= Cardinality(Tasks)
    /\ task \in [Tasks -> TaskStates]
    /\ entry \in {"loaded", "logout", "unloaded"}
    /\ lost \in 0 .. MaxLosses + MaxPresses
    /\ faults \in 0 .. MaxFaults
    /\ presses \in 0 .. MaxPresses

\* A new driver at a switch that knows nobody
Init ==
    /\ driver \in Drivers
    /\ live = {}
    /\ granted = 0
    /\ held = None
    /\ jar = None
    /\ xsrf = None
    /\ queue = <<>>
    /\ task = [t \in Tasks |-> Idle]
    /\ entry = "loaded"
    /\ leaving = None
    /\ lost = 0
    /\ faults = 0
    /\ presses = 0

Json == driver \in {"json", "v2"}
Busy(t) == task[t].pc # "idle"
Fault ==
    /\ faults < MaxFaults
    /\ faults' = faults + 1
    /\ UNCHANGED <<lost, presses>>
Loss ==
    /\ lost < MaxLosses
    /\ lost' = lost + 1
    /\ UNCHANGED <<faults, presses>>

\* History: every task under way has seen a session go
SawLoss(tasks) ==
    [t \in Tasks |-> IF tasks[t].pc # "idle" /\ tasks[t].losses < 2
                       THEN [tasks[t] EXCEPT !.losses = @ + 1]
                       ELSE tasks[t]]

SawRefusal ==
    [t \in Tasks |-> IF Busy(t) THEN [task[t] EXCEPT !.refused = TRUE]
                                ELSE task[t]]

-----------------------------------------------------------------------------
(***************************************************************************)
(* The login lock.  In these operators r is the new state of task t, s the *)
(* session and x the xsrf token the driver holds from now on, and q the    *)
(* lock's queue.                                                           *)
(***************************************************************************)
\* async_login begins: the driver forgets what it holds
BeginLogin(t, r, q) ==
    /\ task' = [task EXCEPT ![t] = [r EXCEPT !.pc = "login", !.sid = None]]
    /\ queue' = q
    /\ held' = None
    /\ xsrf' = IF driver = "v2" THEN None ELSE xsrf
    /\ UNCHANGED jar

\* The request goes out; the body of a reboot gets its xsrf token only now
Send(t, r, s, x, q) ==
    /\ task' = [task EXCEPT ![t] =
                  [r EXCEPT !.pc = "sent", !.sid = s,
                            !.token = IF r.kind = "reboot" THEN x ELSE @]]
    /\ queue' = q
    /\ held' = s
    /\ xsrf' = x

\* Mutant: the session is not looked at before logging in
HoldAlwaysLogin(t, r, s, q) ==
    \/ /\ r.pc = "relogin" \/ r.pc = "enter"
       /\ BeginLogin(t, r, q)
    \/ /\ r.pc = "drop"
       /\ BeginLogin(t, r, q)

\* t has the lock: log in, or use the session there is, or forget it
Hold(t, r, s, q) ==
    \/ /\ r.pc = "relogin" \/ (r.pc = "enter" /\ s = None)
       /\ BeginLogin(t, r, q)
    \/ /\ r.pc = "enter" /\ s # None
       /\ Send(t, r, s, xsrf, Tail(q))
       /\ UNCHANGED jar
    \/ /\ r.pc = "drop" /\ Tail(q) = <<>>
       /\ BeginLogin(t, r, q)
    \/ /\ r.pc = "drop" /\ Tail(q) # <<>>
       /\ task' = [task EXCEPT ![t] = [r EXCEPT !.pc = "enter"]]
       /\ queue' = Append(Tail(q), t)
       /\ held' = None
       /\ UNCHANGED <<jar, xsrf>>

\* t asks for the lock, which a free lock grants without yielding
Want(t, r, s) ==
    IF queue = <<>>
      THEN Hold(t, r, s, <<t>>)
      ELSE /\ task' = [task EXCEPT ![t] = [r EXCEPT !.sid = None]]
           /\ queue' = Append(queue, t)
           /\ held' = s
           /\ UNCHANGED <<jar, xsrf>>

\* _authed_request locks to look; _request looks, and locks only to log in
Request(t, r, s) ==
    IF Json \/ s = None
      THEN Want(t, [r EXCEPT !.pc = "enter"], s)
      ELSE Send(t, r, s, xsrf, queue) /\ UNCHANGED jar

\* The holder before it is done and t's turn has come
LockFreed(t) ==
    /\ task[t].pc \in Waiting
    /\ Head(queue) = t
    /\ Hold(t, task[t], held, queue)
    /\ UNCHANGED <<driver, live, granted, unload, used>>

-----------------------------------------------------------------------------
(***************************************************************************)
(* Requests                                                                *)
(***************************************************************************)
\* History: a task that finds a session the switch has dropped counts it
Fresh(kind) ==
    [Idle EXCEPT !.kind = kind,
                 !.losses = IF held # None /\ held \notin live THEN 1 ELSE 0]

(***************************************************************************)
(* A poll, a service call or a button press begins.  While the entry logs  *)
(* out its platforms are gone, but a trap still starts a poll.             *)
(***************************************************************************)
Start(t, kind) ==
    /\ ~Busy(t)
    /\ entry = "loaded" \/ (entry = "logout" /\ kind = "read")
    /\ kind = "edit" => driver = "v2"
    /\ kind = "table" => driver # "base"
    /\ kind \notin {"write", "retable"}
    /\ IF kind = "reboot"
         THEN presses < MaxPresses /\ presses' = presses + 1
         ELSE UNCHANGED presses
    /\ Request(t, Fresh(kind), held)
    /\ UNCHANGED <<driver, live, granted, unload, lost, faults>>

\* The task returns, or ends in an error that is not about the password
End(t) == task' = [task EXCEPT ![t] = Idle]

\* NetgearAuthError, which the legacy driver's reboot swallows
Rejection(t) ==
    IF task[t].kind = "reboot" /\ driver = "legacy" THEN Idle ELSE Failed

\* The switch takes the request: it knows the session and, on v2, the token
Valid(t) ==
    /\ task[t].sid \in live
    /\ driver = "v2" /\ task[t].kind \in {"write", "reboot"} =>
           task[t].token = task[t].sid

Accepted(t) ==
    /\ task[t].pc = "sent"
    /\ task[t].kind \notin {"edit", "reboot"}
    /\ Valid(t)
    /\ End(t)
    /\ UNCHANGED <<driver, live, granted, credentials, queue, unload, used>>

\* The token of session s is replaced: the bodies that carry it are stale
Rotated(s) ==
    [t \in Tasks |-> IF task[t].token = s THEN [task[t] EXCEPT !.token = None]
                                          ELSE task[t]]

(***************************************************************************)
(* The answer to a write may bring a new token, which is used from now on, *)
(* also if it is one of an older session; or the answer is lost.           *)
(***************************************************************************)
AcceptedRotating(t) ==
    /\ task[t].pc = "sent"
    /\ driver = "v2" /\ task[t].kind = "write"
    /\ Valid(t)
    /\ task' = [Rotated(task[t].sid) EXCEPT ![t] = Idle]
    /\ \/ xsrf' = task[t].sid /\ UNCHANGED used
       \/ xsrf' = (IF xsrf = task[t].sid THEN None ELSE xsrf) /\ Fault
    /\ UNCHANGED <<driver, live, granted, held, jar, queue, unload>>

\* The row is read: the write's body is built, with the token there is now
EditRead(t) ==
    /\ task[t].pc = "sent"
    /\ task[t].kind = "edit"
    /\ Valid(t)
    /\ Request(t, [task[t] EXCEPT !.kind = "write", !.again = FALSE,
                                  !.token = xsrf], held)
    /\ UNCHANGED <<driver, live, granted, unload, used>>

\* The switch restarts and with it every session is gone
Rebooted(t) ==
    /\ task[t].pc = "sent"
    /\ task[t].kind = "reboot"
    /\ Valid(t)
    /\ lost' = lost + 1
    /\ live' = {}
    /\ held' = None
    /\ task' = SawLoss([task EXCEPT ![t] = Idle])
    /\ UNCHANGED <<driver, granted, jar, xsrf, queue, unload, faults, presses>>

\* Mutant: the second attempt is made without a login
RejectedOnceNoLogin(t) ==
    IF Json
      THEN Request(t, [task[t] EXCEPT !.again = TRUE], held)
      ELSE Request(t, [task[t] EXCEPT !.again = TRUE], None)

\* JSON logs in again whatever it holds by now; the others forget that, too
RejectedOnce(t) ==
    IF Json
      THEN Want(t, [task[t] EXCEPT !.pc = "relogin", !.again = TRUE], held)
      ELSE Request(t, [task[t] EXCEPT !.again = TRUE], None)

\* Mutant: a rejected request is made again and again
RejectedForGood(t) == Request(t, task[t], IF Json THEN held ELSE None)

RejectedTwice(t) ==
    /\ task' = [task EXCEPT ![t] = Rejection(t)]
    /\ held' = IF Json THEN held ELSE None
    /\ UNCHANGED <<jar, xsrf, queue>>

\* The reboot command is not sent twice, unless by the legacy driver
RebootRejected(t) ==
    /\ task' = [task EXCEPT ![t] = IF driver = "base" THEN Failed ELSE Idle]
    /\ held' = None
    /\ UNCHANGED <<jar, xsrf, queue>>

\* The switch does not know the session, or not the token
Rejected(t) ==
    /\ task[t].pc = "sent"
    /\ ~Valid(t)
    /\ \/ /\ task[t].kind = "reboot" /\ driver # "legacy"
          /\ RebootRejected(t)
       \/ /\ task[t].kind # "reboot" \/ driver = "legacy"
          /\ \/ ~task[t].again /\ RejectedOnce(t)
             \/ task[t].again /\ RejectedTwice(t)
    /\ UNCHANGED <<driver, live, granted, unload, used>>

(***************************************************************************)
(* An evicted session is answered with an empty table instead: forget the  *)
(* session, the JSON drivers under the lock, and read the table once more. *)
(***************************************************************************)
EmptyTable(t) ==
    /\ task[t].pc = "sent"
    /\ task[t].sid \notin live
    /\ LET r == [task[t] EXCEPT !.kind = "retable", !.again = FALSE] IN
       \/ /\ task[t].kind = "table" /\ Json
          /\ Want(t, [r EXCEPT !.pc = "drop"], held)
       \/ /\ task[t].kind = "table" /\ ~Json /\ held # None
          /\ Request(t, r, None)
       \/ /\ \/ task[t].kind = "retable"
             \/ task[t].kind = "table" /\ ~Json /\ held = None
          /\ End(t)
          /\ UNCHANGED <<credentials, queue>>
    /\ UNCHANGED <<driver, live, granted, unload, used>>

\* The request or its answer is lost; for a reboot that counts as success
Unanswered(t) ==
    /\ task[t].pc = "sent"
    /\ Fault
    /\ IF task[t].kind = "reboot"
         THEN held' = None
         ELSE UNCHANGED held
    /\ End(t)
    /\ UNCHANGED <<driver, live, granted, jar, xsrf, queue, unload>>

-----------------------------------------------------------------------------
(***************************************************************************)
(* Logins: async_login, with the lock held                                 *)
(***************************************************************************)
\* v2 goes on to fetch the xsrf token; the others release the lock and send
LoggedIn(t, s) ==
    IF driver = "v2"
      THEN /\ task' = [task EXCEPT ![t].pc = "home"]
           /\ held' = s
           /\ UNCHANGED <<xsrf, queue>>
      ELSE Send(t, task[t], s, xsrf, Tail(queue))

\* The switch grants a session
Grant ==
    /\ Cardinality(live) < Slots
    /\ granted < MaxSessions
    /\ granted' = granted + 1
    /\ live' = live \union {granted + 1}

LoginGranted(t) ==
    /\ task[t].pc = "login"
    /\ Grant
    /\ jar' = IF driver = "base" THEN granted + 1 ELSE jar
    /\ LoggedIn(t, granted + 1)
    /\ UNCHANGED <<driver, unload, used>>

(***************************************************************************)
(* NetgearAuthError: every slot is taken, or, with slots free, the switch  *)
(* answers oddly or grants no session in five polls, or only later.  The   *)
(* classic driver tells by the SID in its jar, so one of an earlier login  *)
(* passes for a success.                                                   *)
(***************************************************************************)
LoginRefused(t) ==
    /\ task[t].pc = "login"
    /\ \/ Cardinality(live) = Slots /\ UNCHANGED <<live, granted, used>>
       \/ UNCHANGED <<live, granted>> /\ Fault
       \/ driver # "base" /\ Grant /\ Fault
    /\ held' = jar
    /\ task' = [SawRefusal EXCEPT ![t] =
                  IF jar = None
                    THEN Rejection(t)
                    ELSE [@ EXCEPT !.pc = "sent", !.sid = jar]]
    /\ queue' = Tail(queue)
    /\ UNCHANGED <<driver, jar, xsrf, unload>>

\* Mutant: the lock is not released when the login fails
LoginFailsHolding(t) ==
    /\ task[t].pc = "login"
    /\ Fault
    /\ End(t)
    /\ UNCHANGED <<driver, live, granted, credentials, queue, unload>>

\* A request of the login is lost, or only its answer is
LoginFails(t) ==
    /\ task[t].pc = "login"
    /\ Fault
    /\ \/ UNCHANGED <<live, granted, jar>>
       \/ Grant /\ jar' \in {jar, IF driver = "base" THEN granted + 1 ELSE jar}
    /\ End(t)
    /\ queue' = Tail(queue)
    /\ UNCHANGED <<driver, held, xsrf, unload>>

\* home_home brings the xsrf token, or does not: the login stands all the same
HomeRead(t) ==
    /\ task[t].pc = "home"
    /\ \/ /\ Send(t, task[t], held, IF held \in live THEN held ELSE xsrf,
                Tail(queue))
          /\ UNCHANGED used
       \/ Send(t, task[t], held, xsrf, Tail(queue)) /\ Fault
    /\ UNCHANGED <<driver, live, granted, jar, unload>>

-----------------------------------------------------------------------------
(***************************************************************************)
(* The switch drops a session: idle timeout, or another user logs in       *)
(***************************************************************************)
SessionLost(s) ==
    /\ Loss
    /\ live' = live \ {s}
    /\ task' = SawLoss(task)
    /\ UNCHANGED <<driver, granted, credentials, queue, unload>>

(***************************************************************************)
(* async_unload_entry: async_close logs out if there is a session to end;  *)
(* the legacy driver just forgets it.                                      *)
(***************************************************************************)
Unload ==
    /\ entry = "loaded"
    /\ IF held = None \/ driver = "legacy"
         THEN entry' = "unloaded" /\ held' = None /\ UNCHANGED leaving
         ELSE entry' = "logout" /\ leaving' = held /\ UNCHANGED held
    /\ UNCHANGED <<driver, live, granted, jar, xsrf, queue, task, used>>

LogoutDone ==
    /\ entry = "logout"
    /\ entry' = "unloaded"
    /\ held' = None
    /\ xsrf' = None
    /\ leaving' = None
    /\ \/ Fault /\ UNCHANGED <<live, task>>
       \/ /\ live' = live \ {leaving}
          /\ task' = IF leaving \in live THEN SawLoss(task) ELSE task
          /\ UNCHANGED used
    /\ UNCHANGED <<driver, granted, jar, queue>>

TaskStep(t) ==
    \/ LockFreed(t)
    \/ Accepted(t)
    \/ AcceptedRotating(t)
    \/ EditRead(t)
    \/ Rebooted(t)
    \/ Rejected(t)
    \/ EmptyTable(t)
    \/ Unanswered(t)
    \/ LoginGranted(t)
    \/ LoginRefused(t)
    \/ LoginFails(t)
    \/ HomeRead(t)

Next ==
    \/ \E t \in Tasks, kind \in Kinds : Start(t, kind)
    \/ \E t \in Tasks : TaskStep(t)
    \/ \E s \in live : SessionLost(s)
    \/ Unload
    \/ LogoutDone

Spec == Init /\ [][Next]_vars

(***************************************************************************)
(* Every request ends, at the latest in its timeout, and the event loop    *)
(* wakes the first waiter of a released lock.                              *)
(***************************************************************************)
FairSpec == Spec /\ \A t \in Tasks : WF_vars(TaskStep(t))
-----------------------------------------------------------------------------
(***************************************************************************)
(* Properties                                                              *)
(***************************************************************************)
\* In this step, t ends in a NetgearAuthError
AuthError(t) == Busy(t) /\ task'[t].failed

(***************************************************************************)
(* NetgearAuthError in a poll stops polling and asks the user for the      *)
(* password.  A request ends in one only if the switch did not grant a     *)
(* login since it began, or dropped two sessions under it: tasks that log  *)
(* in, forget sessions and reboot beside it do not suffice.  On v2 they    *)
(* do, against the word of its driver: see ReloginSuffices.                *)
(***************************************************************************)
NoSpuriousAuthError ==
    [][\A t \in Tasks :
         driver # "v2" /\ task[t].kind # "reboot" /\ AuthError(t) =>
            \/ LoginRefused(t)
            \/ task[t].refused
            \/ task[t].losses = 2]_vars

(***************************************************************************)
(* "Request with automatic (re)login" (api.py:444): the same of v2, where  *)
(* "A write with a stale token is answered with logout/invalidCsrf, so the *)
(* token is harvested from every response" (api_json_v2.py:29).  Violated: *)
(* the retry sends the body that api_json_v2.py:71 built before the login, *)
(* with the old token, and is rejected again.                              *)
(***************************************************************************)
ReloginSuffices ==
    [][\A t \in Tasks :
         task[t].kind # "reboot" /\ AuthError(t) =>
            \/ LoginRefused(t)
            \/ task[t].refused
            \/ task[t].losses = 2]_vars

(***************************************************************************)
(* The switch has as few as four slots and frees an abandoned one only     *)
(* after minutes.  So the driver may not log in more than it has to: once, *)
(* and again once per task for each loss of sessions, its own logout       *)
(* included, and once after a request that went unanswered.  A reboot that *)
(* is rejected adds none.  (On v2 a stale token adds logins.)              *)
(***************************************************************************)
LoginsBounded ==
    LET losses == lost + (IF entry = "loaded" THEN 0 ELSE 1) IN
    driver # "v2" =>
        granted <= 1 + losses * Cardinality(Tasks) + faults

(***************************************************************************)
(* Every request ends, with data or an error: no order of waiting for the  *)
(* lock, losing sessions and full slots blocks it or retries it for ever.  *)
(***************************************************************************)
RequestEnds == \A t \in Tasks : Busy(t) ~> ~Busy(t)
=============================================================================
