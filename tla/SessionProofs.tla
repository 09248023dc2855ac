---------------------------- MODULE SessionProofs ----------------------------
(***************************************************************************)
(* Proofs about Session, for any tasks, slots and bounds: what stands      *)
(* behind an authentication error, the discipline of the login lock, and   *)
(* how often the driver logs in.                                           *)
(***************************************************************************)
EXTENDS Session, FiniteSetTheorems, TLAPS

USE SessionAssumption

-----------------------------------------------------------------------------
(***************************************************************************)
(* The typing that the argument needs: TypeOK without the lock's queue.    *)
(***************************************************************************)
Types ==
    /\ driver \in Drivers
    /\ live \subseteq Sessions
    /\ granted \in 0 .. MaxSessions
    /\ {held, jar, xsrf, leaving} \subseteq Sessions \union {None}
    /\ task \in [Tasks -> TaskStates]

(***************************************************************************)
(* The inductive invariant.  A session that is in use but gone was lost    *)
(* while its user was under way, or came out of the classic driver's       *)
(* cookie jar after a refused login; on the second attempt it is the       *)
(* second one.                                                             *)
(***************************************************************************)
Gone(s) == s # None /\ s \notin live

\* r is the state of a task under way
LostOne(r) == r.losses > 0 \/ r.refused
LostTwo(r) == r.losses = 2 \/ r.refused
Explained(r) ==
    /\ ~r.failed
    /\ Gone(held) \/ r.again => LostOne(r)
    /\ r.pc = "sent" /\ r.sid \notin live => LostOne(r)
    /\ r.again /\ r.pc = "sent" /\ r.sid \notin live => LostTwo(r)
    /\ r.again /\ ~Json /\ Gone(held) => LostTwo(r)
    /\ r.again /\ Json => r.pc \in {"relogin", "login", "sent"}
    /\ r.pc # "home"
    /\ r.pc = "drop" => ~r.again
    /\ r.pc = "relogin" => Json

IInv ==
    /\ Types
    /\ driver # "v2" => \A t \in Tasks : Busy(t) => Explained(task[t])

\* Tasks that are not under way.
LEMMA IdleType ==
    /\ Idle \in TaskStates /\ Idle.pc = "idle"
    /\ Failed \in TaskStates /\ Failed.pc = "idle"
<1>1. Idle \in TaskStates /\ Idle.pc = "idle"
  BY DEF Idle, TaskStates, Pcs, Waiting, Kinds
<1> QED
  BY <1>1 DEF Failed, TaskStates

\* At the start there is no session and nobody is under way.
LEMMA InitKeeps == Init => IInv
BY IdleType DEF Init, IInv, Types, Busy, None

-----------------------------------------------------------------------------
(***************************************************************************)
(* The login lock: where a task in state r that asks for it, or is given   *)
(* it, while s is the session in use, may go.                              *)
(***************************************************************************)
Moves(t, r, s, r2) ==
    /\ task' = [task EXCEPT ![t] = r2]
    /\ r2.kind = r.kind /\ r2.again = r.again /\ r2.failed = r.failed
    /\ r2.losses = r.losses /\ r2.refused = r.refused
    /\ \/ r2.pc = "login" /\ held' = None /\ (r.pc = "enter" => s = None)
       \/ /\ r2.pc = "sent" /\ r.pc = "enter"
          /\ r2.sid = s /\ s # None /\ held' = s
       \/ r2.pc = r.pc /\ held' = s
       \/ r2.pc = "enter" /\ r.pc = "drop" /\ held' = None

Asks == {r \in TaskStates : r.pc \in Waiting}
Maybe == Sessions \union {None}

\* async_login begins
LEMMA BeginLoginMoves ==
    ASSUME Types, NEW t \in Tasks, NEW r \in Asks, NEW s \in Maybe, NEW q,
           BeginLogin(t, r, q), r.pc = "enter" => s = None
    PROVE  /\ xsrf' \in Maybe
           /\ \E r2 \in TaskStates : Moves(t, r, s, r2)
<1> DEFINE r2 == [r EXCEPT !.pc = "login", !.sid = None]
<1>1. r \in TaskStates
  BY DEF Asks
<1>2. r2 \in TaskStates
  BY <1>1 DEF TaskStates, Pcs
<1>3. Moves(t, r, s, r2)
  BY <1>1 DEF BeginLogin, Moves, TaskStates
<1>4. xsrf' \in Maybe
  BY DEF BeginLogin, Types, Maybe
<1> QED
  BY <1>2, <1>3, <1>4

\* The request goes out with the session in use
LEMMA SendMoves ==
    ASSUME Types, NEW t \in Tasks, NEW r \in TaskStates, NEW s \in Sessions,
           NEW x \in Maybe, NEW q, Send(t, r, s, x, q)
    PROVE  /\ xsrf' \in Maybe
           /\ \E r2 \in TaskStates :
                  Moves(t, [r EXCEPT !.pc = "enter"], s, r2)
<1> DEFINE r2 == [r EXCEPT !.pc = "sent", !.sid = s,
                           !.token = IF r.kind = "reboot" THEN x ELSE @]
<1>1. r2 \in TaskStates
  BY DEF TaskStates, Pcs, Maybe
<1>2. s # None
  BY DEF Sessions, None
<1>3. Moves(t, [r EXCEPT !.pc = "enter"], s, r2)
  BY <1>2 DEF Send, Moves, TaskStates
<1> QED
  BY <1>1, <1>3 DEF Send

\* The lock is t's
LEMMA HoldMoves ==
    ASSUME Types, NEW t \in Tasks, NEW r \in Asks, NEW s \in Maybe, NEW q,
           Hold(t, r, s, q)
    PROVE  /\ xsrf' \in Maybe
           /\ \E r2 \in TaskStates : Moves(t, r, s, r2)
<1>0. r \in TaskStates /\ xsrf \in Maybe
  BY DEF Asks, Types, Maybe
<1>1. CASE BeginLogin(t, r, q) /\ (r.pc = "enter" => s = None)
  BY <1>1, BeginLoginMoves
<1>2. CASE r.pc = "enter" /\ s # None /\ Send(t, r, s, xsrf, Tail(q))
  <2>1. s \in Sessions
    BY <1>2 DEF Maybe
  <2>2. [r EXCEPT !.pc = "enter"] = r
    BY <1>0, <1>2 DEF TaskStates
  <2> QED
    BY <1>0, <1>2, <2>1, <2>2, SendMoves
<1>3. CASE /\ r.pc = "drop" /\ held' = None
           /\ task' = [task EXCEPT ![t] = [r EXCEPT !.pc = "enter"]]
           /\ UNCHANGED <<jar, xsrf>>
  <2>1. [r EXCEPT !.pc = "enter"] \in TaskStates
    BY <1>0 DEF TaskStates, Pcs, Waiting
  <2>2. Moves(t, r, s, [r EXCEPT !.pc = "enter"])
    BY <1>0, <1>3 DEF Moves, TaskStates
  <2> QED
    BY <1>0, <1>3, <2>1, <2>2
<1> QED
  BY <1>1, <1>2, <1>3 DEF Hold

\* t asks for it
LEMMA WantMoves ==
    ASSUME Types, NEW t \in Tasks, NEW r \in Asks, NEW s \in Maybe,
           Want(t, r, s)
    PROVE  /\ xsrf' \in Maybe
           /\ \E r2 \in TaskStates : Moves(t, r, s, r2)
<1>1. CASE Hold(t, r, s, <<t>>)
  BY <1>1, HoldMoves
<1>2. CASE /\ task' = [task EXCEPT ![t] = [r EXCEPT !.sid = None]]
           /\ held' = s
           /\ UNCHANGED <<jar, xsrf>>
  <2>1. r \in TaskStates /\ [r EXCEPT !.sid = None] \in TaskStates
    BY DEF Asks, TaskStates
  <2>2. Moves(t, r, s, [r EXCEPT !.sid = None])
    BY <1>2, <2>1 DEF Moves, TaskStates
  <2> QED
    BY <1>2, <2>1, <2>2 DEF Types, Maybe
<1> QED
  BY <1>1, <1>2 DEF Want

\* A request is made with the session there is, or after a login
LEMMA RequestMoves ==
    ASSUME Types, NEW t \in Tasks, NEW r \in TaskStates, NEW s \in Maybe,
           Request(t, r, s)
    PROVE  /\ xsrf' \in Maybe
           /\ \E r2 \in TaskStates :
                  Moves(t, [r EXCEPT !.pc = "enter"], s, r2)
<1>1. [r EXCEPT !.pc = "enter"] \in Asks
  BY DEF Asks, TaskStates, Pcs, Waiting
<1>2. CASE Want(t, [r EXCEPT !.pc = "enter"], s)
  BY <1>1, <1>2, WantMoves
<1>3. CASE s # None /\ Send(t, r, s, xsrf, queue)
  <2>1. s \in Sessions /\ xsrf \in Maybe
    BY <1>3 DEF Maybe, Types
  <2> QED
    BY <1>3, <2>1, SendMoves
<1> QED
  BY <1>2, <1>3 DEF Request

(***************************************************************************)
(* What a task in state r that is about to move must have behind it, s     *)
(* being the session in use.                                               *)
(***************************************************************************)
Ready(r, s) ==
    /\ ~r.failed
    /\ Gone(s) \/ r.again => LostOne(r)
    /\ r.again /\ ~Json /\ Gone(s) => LostTwo(r)
    /\ r.again /\ Json => r.pc = "relogin"
    /\ r.pc = "drop" => ~r.again
    /\ r.pc = "relogin" => Json
    /\ r.pc \in Waiting

\* A move of a ready task keeps the invariant.
LEMMA MovesKeeps ==
    ASSUME IInv, NEW t \in Tasks, NEW r \in TaskStates, NEW s \in {held, None},
           NEW r2 \in TaskStates, Moves(t, r, s, r2),
           driver # "v2" => Ready(r, s),
           xsrf' \in Maybe, jar' \in Maybe, leaving' \in Maybe,
           granted' \in 0 .. MaxSessions,
           UNCHANGED <<driver, live>>
    PROVE  IInv'
<1>1. held' \in Maybe /\ (held' = held \/ held' = None)
  BY DEF Moves, IInv, Types, Maybe
<1>2. task' \in [Tasks -> TaskStates]
  BY DEF Moves, IInv, Types
<1>3. Types'
  BY <1>1, <1>2 DEF IInv, Types, Maybe
<1>4. ASSUME driver # "v2", NEW u \in Tasks, Busy(u)'
      PROVE  Explained(task[u])'
  <2>1. CASE u # t
    <3>1. task'[u] = task[u] /\ Explained(task[u])
      BY <1>4, <2>1 DEF Moves, IInv, Types, Busy
    <3> QED
      BY <1>1, <3>1 DEF Explained, LostOne, LostTwo, Gone, Json, None
  <2>2. CASE u = t
    <3>1. task'[u] = r2
      BY <2>2 DEF Moves, IInv, Types
    <3>2. Ready(r, s)
      BY <1>4
    <3> QED
      BY <3>1, <3>2
         DEF Moves, Ready, Explained, LostOne, LostTwo, Gone, Json, Waiting,
             None
  <2> QED
    BY <2>1, <2>2
<1> QED
  BY <1>3, <1>4 DEF IInv

-----------------------------------------------------------------------------
(***************************************************************************)
(* The steps                                                               *)
(***************************************************************************)
\* A task finds a session that is gone, and counts it.
LEMMA StartKeeps ==
    ASSUME IInv, NEW t \in Tasks, NEW kind \in Kinds, Start(t, kind)
    PROVE  IInv'
<1> DEFINE f == Fresh(kind)
           r == [f EXCEPT !.pc = "enter"]
<1>1. f \in TaskStates /\ r \in TaskStates
  <2> DEFINE n == IF held # None /\ held \notin live THEN 1 ELSE 0
  <2>1. n \in 0 .. 2 /\ f = [Idle EXCEPT !.kind = kind, !.losses = n]
    BY DEF Fresh
  <2> HIDE DEF n
  <2>2. f \in TaskStates
    BY <2>1, IdleType DEF TaskStates
  <2> QED
    BY <2>2 DEF TaskStates, Pcs, Waiting
<1>2. Types /\ held \in Maybe /\ Request(t, f, held)
  BY DEF IInv, Types, Maybe, Start
<1>3. PICK r2 \in TaskStates : Moves(t, r, held, r2) /\ xsrf' \in Maybe
  BY <1>1, <1>2, RequestMoves
<1>4. Ready(r, held)
  BY DEF Fresh, Idle, Ready, Gone, LostOne, LostTwo, Waiting, None
<1>5. jar' \in Maybe /\ leaving' \in Maybe /\ granted' \in 0 .. MaxSessions
  BY DEF IInv, Types, Maybe, Start, Request, Want, Hold, BeginLogin, unload
<1> QED
  BY <1>1, <1>3, <1>4, <1>5, MovesKeeps DEF Start

\* A task is given the lock.
LEMMA LockFreedKeeps ==
    ASSUME IInv, NEW t \in Tasks, LockFreed(t)
    PROVE  IInv'
<1>1. Types /\ held \in Maybe /\ task[t] \in Asks /\ task[t] \in TaskStates
  BY DEF IInv, Types, Maybe, LockFreed, Asks
<1>2. PICK r2 \in TaskStates :
         Moves(t, task[t], held, r2) /\ xsrf' \in Maybe
  BY <1>1, HoldMoves DEF LockFreed
<1>3. driver # "v2" => Ready(task[t], held)
  BY DEF IInv, LockFreed, Busy, Explained, Ready, LostOne, LostTwo, Waiting,
         Json
<1>4. jar' \in Maybe /\ leaving' \in Maybe /\ granted' \in 0 .. MaxSessions
  BY DEF IInv, Types, Maybe, LockFreed, Hold, BeginLogin, Send, unload
<1> QED
  BY <1>1, <1>2, <1>3, <1>4, MovesKeeps DEF LockFreed

\* A task ends, and with it perhaps the session, or a new one is opened.
LEMMA EndKeeps ==
    ASSUME IInv, NEW t \in Tasks, NEW r \in TaskStates, r.pc = "idle",
           task' = [task EXCEPT ![t] = r],
           held' \in {held, None},
           live \subseteq live', live' \subseteq Sessions,
           xsrf' \in Maybe, jar' \in Maybe, leaving' \in Maybe,
           granted' \in 0 .. MaxSessions,
           UNCHANGED driver
    PROVE  IInv'
<1>1. Types'
  BY DEF IInv, Types, Maybe
<1>2. ASSUME driver # "v2", NEW u \in Tasks, Busy(u)'
      PROVE  Explained(task[u])'
  <2>1. u # t /\ task'[u] = task[u]
    BY <1>2 DEF IInv, Types, Busy
  <2>2. Explained(task[u])
    BY <1>2, <2>1 DEF IInv, Busy
  <2> QED
    BY <2>1, <2>2 DEF Explained, LostOne, LostTwo, Gone, Json, None
<1> QED
  BY <1>1, <1>2 DEF IInv

\* Requests that end without another try.
LEMMA AnsweredKeeps ==
    ASSUME IInv, NEW t \in Tasks, Accepted(t) \/ Unanswered(t) \/ LoginFails(t)
    PROVE  IInv'
<1>1. task' = [task EXCEPT ![t] = Idle] /\ UNCHANGED <<driver, xsrf, leaving>>
  BY DEF Accepted, Unanswered, LoginFails, End, credentials, unload
<1>2. held' \in {held, None}
  BY DEF Accepted, Unanswered, LoginFails, credentials
<1>3. /\ granted' \in 0 .. MaxSessions
      /\ live \subseteq live' /\ live' \subseteq Sessions
      /\ jar' \in Maybe
  <2>1. CASE UNCHANGED <<live, granted, jar>>
    BY <2>1 DEF IInv, Types, Maybe
  <2>2. CASE Grant /\ jar' \in {jar, granted + 1}
    <3>1. granted + 1 \in Sessions
      BY <2>2 DEF IInv, Types, Grant, Sessions
    <3> QED
      BY <2>2, <3>1 DEF IInv, Types, Grant, Sessions, Maybe
  <2> QED
    BY <2>1, <2>2 DEF Accepted, Unanswered, LoginFails, credentials
<1> QED
  BY <1>1, <1>2, <1>3, IdleType, EndKeeps DEF IInv, Types, Maybe

\* A request is rejected: the first time it moves on, the second time it ends.
LEMMA RejectedKeeps ==
    ASSUME IInv, NEW t \in Tasks, Rejected(t)
    PROVE  IInv'
<1> DEFINE a == [task[t] EXCEPT !.again = TRUE]
<1>1. /\ Types /\ held \in Maybe /\ None \in Maybe
      /\ task[t] \in TaskStates /\ a \in TaskStates
      /\ task[t].pc = "sent"
      /\ UNCHANGED <<driver, live, granted, leaving>>
  BY DEF IInv, Types, Maybe, Rejected, TaskStates, unload
<1>2. driver # "v2" => Explained(task[t]) /\ task[t].sid \notin live
  BY DEF IInv, Rejected, Valid, Busy
<1>3. leaving' \in Maybe /\ granted' \in 0 .. MaxSessions
  BY <1>1 DEF Types, Maybe
<1>4. CASE ~task[t].again /\ RejectedOnce(t) /\ Json
  <2> DEFINE r == [a EXCEPT !.pc = "relogin"]
  <2>1. r \in Asks /\ r \in TaskStates
    BY <1>1 DEF Asks, TaskStates, Pcs, Waiting
  <2>2. r = [task[t] EXCEPT !.pc = "relogin", !.again = TRUE]
    BY <1>1 DEF TaskStates
  <2>3. Want(t, r, held)
    BY <1>4, <2>2 DEF RejectedOnce
  <2>4. PICK r2 \in TaskStates : Moves(t, r, held, r2) /\ xsrf' \in Maybe
    BY <1>1, <2>1, <2>3, WantMoves
  <2>5. driver # "v2" => Ready(r, held)
    BY <1>1, <1>2, <1>4
       DEF Explained, Ready, LostOne, LostTwo, Waiting, TaskStates
  <2>6. jar' \in Maybe
    BY <2>3 DEF IInv, Types, Maybe, Want, Hold, BeginLogin, Send
  <2> QED
    BY <1>1, <1>3, <2>1, <2>4, <2>5, <2>6, MovesKeeps
<1>5. CASE ~task[t].again /\ RejectedOnce(t) /\ ~Json
  <2> DEFINE r == [a EXCEPT !.pc = "enter"]
  <2>1. r \in TaskStates
    BY <1>1 DEF TaskStates, Pcs, Waiting
  <2>2. Request(t, a, None)
    BY <1>5 DEF RejectedOnce
  <2>3. PICK r2 \in TaskStates : Moves(t, r, None, r2) /\ xsrf' \in Maybe
    BY <1>1, <2>2, RequestMoves
  <2>4. driver # "v2" => Ready(r, None)
    BY <1>1, <1>2, <1>5
       DEF Explained, Ready, Gone, LostOne, LostTwo, Waiting, TaskStates
  <2>5. jar' \in Maybe
    BY <2>2 DEF IInv, Types, Maybe, Request, Want, Hold, BeginLogin, Send
  <2> QED
    BY <1>1, <1>3, <2>1, <2>3, <2>4, <2>5, MovesKeeps
<1>6. CASE RejectedTwice(t) \/ RebootRejected(t)
  <2>1. PICK r \in {Idle, Failed} : task' = [task EXCEPT ![t] = r]
    BY <1>6 DEF RejectedTwice, RebootRejected, Rejection
  <2>2. held' \in {held, None} /\ UNCHANGED <<jar, xsrf>>
    BY <1>6 DEF RejectedTwice, RebootRejected
  <2> QED
    BY <1>1, <1>3, <2>1, <2>2, IdleType, EndKeeps DEF Types, Maybe
<1> QED
  BY <1>4, <1>5, <1>6 DEF Rejected

\* A second try at an empty table has lost a session, too.
LEMMA EmptyTableKeeps ==
    ASSUME IInv, NEW t \in Tasks, EmptyTable(t)
    PROVE  IInv'
<1> DEFINE a == [task[t] EXCEPT !.kind = "retable", !.again = FALSE]
<1>1. /\ Types /\ held \in Maybe /\ None \in Maybe
      /\ task[t] \in TaskStates /\ a \in TaskStates
      /\ task[t].pc = "sent" /\ task[t].sid \notin live
      /\ UNCHANGED <<driver, live, granted, leaving>>
  BY DEF IInv, Types, Maybe, EmptyTable, TaskStates, Kinds, unload
<1>2. driver # "v2" => Explained(task[t])
  BY <1>1 DEF IInv, Busy
<1>3. leaving' \in Maybe /\ granted' \in 0 .. MaxSessions
  BY <1>1 DEF Types, Maybe
<1>4. CASE Json /\ Want(t, [a EXCEPT !.pc = "drop"], held)
  <2> DEFINE r == [a EXCEPT !.pc = "drop"]
  <2>1. r \in Asks /\ r \in TaskStates
    BY <1>1 DEF Asks, TaskStates, Pcs, Waiting
  <2>2. PICK r2 \in TaskStates : Moves(t, r, held, r2) /\ xsrf' \in Maybe
    BY <1>1, <1>4, <2>1, WantMoves
  <2>3. driver # "v2" => Ready(r, held)
    BY <1>1, <1>2 DEF Explained, Ready, LostOne, LostTwo, Waiting, TaskStates
  <2>4. jar' \in Maybe
    BY <1>4 DEF IInv, Types, Maybe, Want, Hold, BeginLogin, Send
  <2> QED
    BY <1>1, <1>3, <2>1, <2>2, <2>3, <2>4, MovesKeeps
<1>5. CASE Request(t, a, None)
  <2> DEFINE r == [a EXCEPT !.pc = "enter"]
  <2>1. r \in TaskStates
    BY <1>1 DEF TaskStates, Pcs, Waiting
  <2>2. PICK r2 \in TaskStates : Moves(t, r, None, r2) /\ xsrf' \in Maybe
    BY <1>1, <1>5, RequestMoves
  <2>3. driver # "v2" => Ready(r, None)
    BY <1>1, <1>2
       DEF Explained, Ready, Gone, LostOne, LostTwo, Waiting, TaskStates
  <2>4. jar' \in Maybe
    BY <1>5 DEF IInv, Types, Maybe, Request, Want, Hold, BeginLogin, Send
  <2> QED
    BY <1>1, <1>3, <2>1, <2>2, <2>3, <2>4, MovesKeeps
<1>6. CASE End(t) /\ UNCHANGED <<credentials, queue>>
  BY <1>1, <1>3, <1>6, IdleType, EndKeeps DEF End, credentials, Types, Maybe
<1> QED
  BY <1>4, <1>5, <1>6 DEF EmptyTable

\* Only v2 reads home_home, and a v2 edit builds its body.
LEMMA TokenStepsKeep ==
    ASSUME IInv, NEW t \in Tasks, EditRead(t) \/ HomeRead(t), driver = "v2"
    PROVE  IInv'
<1>1. CASE EditRead(t)
  <2> DEFINE a == [task[t] EXCEPT !.kind = "write", !.again = FALSE,
                                  !.token = xsrf]
  <2>1. Types /\ held \in Maybe /\ a \in TaskStates /\ Request(t, a, held)
    BY <1>1 DEF IInv, Types, Maybe, EditRead, TaskStates, Kinds
  <2>2. PICK r2 \in TaskStates :
           Moves(t, [a EXCEPT !.pc = "enter"], held, r2) /\ xsrf' \in Maybe
    BY <2>1, RequestMoves
  <2>3. [a EXCEPT !.pc = "enter"] \in TaskStates
    BY <2>1 DEF TaskStates, Pcs, Waiting
  <2>4. jar' \in Maybe
    BY <2>1 DEF IInv, Types, Maybe, Request, Want, Hold, BeginLogin, Send
  <2> QED
    BY <1>1, <2>2, <2>3, <2>4, MovesKeeps
       DEF EditRead, unload, IInv, Types, Maybe
<1>2. CASE HomeRead(t)
  <2>1. PICK x \in Maybe : Send(t, task[t], held, x, Tail(queue))
    BY <1>2 DEF HomeRead, IInv, Types, Maybe
  <2>2. task[t] \in TaskStates /\ held \in Maybe
    BY DEF IInv, Types, Maybe
  <2>3. [task[t] EXCEPT !.pc = "sent", !.sid = held,
                        !.token = IF task[t].kind = "reboot" THEN x ELSE @]
            \in TaskStates
    BY <2>2 DEF TaskStates, Pcs, Maybe
  <2>4. task' \in [Tasks -> TaskStates] /\ held' = held /\ xsrf' = x
    BY <2>1, <2>3 DEF Send, IInv, Types
  <2> QED
    BY <1>2, <2>4 DEF HomeRead, IInv, Types, Maybe, unload
<1> QED
  BY <1>1, <1>2

\* Without v2 there are no such steps.
LEMMA NoTokenSteps ==
    ASSUME IInv, NEW t \in Tasks, driver # "v2", EditRead(t) \/ HomeRead(t)
    PROVE  IInv'
<1>1. CASE HomeRead(t)
  BY <1>1 DEF HomeRead, IInv, Busy, Explained
<1>2. CASE EditRead(t)
  <2> DEFINE a == [task[t] EXCEPT !.kind = "write", !.again = FALSE,
                                  !.token = xsrf]
             r == [a EXCEPT !.pc = "enter"]
  <2>1. /\ Types /\ held \in Maybe /\ task[t] \in TaskStates
        /\ a \in TaskStates /\ r \in TaskStates
        /\ Request(t, a, held)
    BY <1>2
       DEF IInv, Types, Maybe, EditRead, TaskStates, Kinds, Pcs, Waiting
  <2>2. PICK r2 \in TaskStates : Moves(t, r, held, r2) /\ xsrf' \in Maybe
    BY <2>1, RequestMoves
  <2>3. Explained(task[t])
    BY <1>2 DEF EditRead, IInv, Busy
  <2>4. Ready(r, held)
    BY <2>1, <2>3
       DEF Explained, Ready, Gone, LostOne, LostTwo, Waiting, TaskStates
  <2>5. jar' \in Maybe
    BY <2>1 DEF IInv, Types, Maybe, Request, Want, Hold, BeginLogin, Send
  <2> QED
    BY <1>2, <2>1, <2>2, <2>4, <2>5, MovesKeeps
       DEF EditRead, unload, IInv, Types, Maybe
<1> QED
  BY <1>1, <1>2

\* A login is granted: the session in use is a live one.
LEMMA LoginGrantedKeeps ==
    ASSUME IInv, NEW t \in Tasks, LoginGranted(t)
    PROVE  IInv'
<1> DEFINE s == granted + 1
           r == [task[t] EXCEPT !.pc = "home"]
           k == IF task[t].kind = "reboot" THEN xsrf ELSE task[t].token
           n == [task[t] EXCEPT !.pc = "sent", !.sid = s, !.token = k]
<1>1. /\ Types /\ s \in Sessions /\ task[t] \in TaskStates
      /\ live' = live \union {s} /\ granted' = s /\ s \in 0 .. MaxSessions
      /\ jar' \in Maybe /\ UNCHANGED <<driver, leaving>>
  BY DEF IInv, Types, LoginGranted, Grant, Sessions, Maybe, unload
<1>2. k \in Maybe
  BY <1>1 DEF Types, Maybe, TaskStates
<1>3. r \in TaskStates /\ n \in TaskStates
  <2> HIDE DEF k, s
  <2> QED
    BY <1>1, <1>2 DEF TaskStates, Pcs, Maybe
<1>4. CASE driver = "v2"
  BY <1>1, <1>3, <1>4 DEF LoginGranted, LoggedIn, IInv, Types, Maybe
<1>5. CASE driver # "v2"
  <2>1. /\ task' = [task EXCEPT ![t] = n]
        /\ held' = s /\ xsrf' = xsrf
    BY <1>1, <1>5 DEF LoginGranted, LoggedIn, Send
  <2>2. Types'
    BY <1>1, <1>3, <2>1 DEF Types, Maybe
  <2>3. ASSUME NEW u \in Tasks, Busy(u)'
        PROVE  Explained(task[u])'
    <3>1. Explained(task[t])
      BY <1>5 DEF IInv, Busy, LoginGranted
    <3>2. CASE u = t
      <4>1. task'[u] = n
        BY <1>1, <2>1, <3>2 DEF Types
      <4>2. /\ n.pc = "sent" /\ n.sid = s /\ n.again = task[t].again
            /\ n.failed = task[t].failed /\ n.losses = task[t].losses
            /\ n.refused = task[t].refused
        BY <1>1 DEF TaskStates
      <4> HIDE DEF n, s
      <4> QED
        BY <1>1, <2>1, <3>1, <4>1, <4>2
           DEF Explained, LostOne, LostTwo, Gone, Json
    <3>3. CASE u # t
      <4>1. task'[u] = task[u] /\ Explained(task[u])
        BY <1>1, <1>5, <2>1, <2>3, <3>3 DEF Types, IInv, Busy
      <4> QED
        BY <1>1, <2>1, <4>1 DEF Explained, LostOne, LostTwo, Gone, Json
    <3> QED
      BY <3>2, <3>3
  <2> QED
    BY <2>2, <2>3 DEF IInv
<1> QED
  BY <1>4, <1>5

\* A token is replaced, on v2: the bodies that carry the old one stay typed.
LEMMA RotatingTypes ==
    ASSUME Types, NEW t \in Tasks, AcceptedRotating(t)
    PROVE  /\ task' = [Rotated(task[t].sid) EXCEPT ![t] = Idle]
           /\ Rotated(task[t].sid) \in [Tasks -> TaskStates]
           /\ \A u \in Tasks :
                  LET r == Rotated(task[t].sid)[u] IN
                  r.pc = task[u].pc /\ r.kind = task[u].kind
                  /\ r.again = task[u].again /\ r.sid = task[u].sid
           /\ xsrf' \in Maybe
<1>1. /\ task' = [Rotated(task[t].sid) EXCEPT ![t] = Idle]
      /\ xsrf' \in Maybe
  BY DEF AcceptedRotating, Types, Maybe, TaskStates
<1>2. \A u \in Tasks :
          /\ task[u] \in TaskStates
          /\ [task[u] EXCEPT !.token = None] \in TaskStates
  BY DEF Types, TaskStates
<1>3. Rotated(task[t].sid) \in [Tasks -> TaskStates]
  BY <1>2 DEF Rotated
<1>4. ASSUME NEW u \in Tasks
      PROVE  LET r == Rotated(task[t].sid)[u] IN
             r.pc = task[u].pc /\ r.kind = task[u].kind
             /\ r.again = task[u].again /\ r.sid = task[u].sid
  BY <1>2 DEF Rotated, TaskStates
<1> QED
  BY <1>1, <1>3, <1>4

LEMMA RotatingKeeps ==
    ASSUME IInv, NEW t \in Tasks, AcceptedRotating(t)
    PROVE  IInv'
<1>1. task' \in [Tasks -> TaskStates] /\ xsrf' \in Maybe
  BY RotatingTypes, IdleType DEF IInv
<1>2. /\ driver = "v2"
      /\ UNCHANGED <<driver, live, granted, held, jar, leaving>>
  BY DEF AcceptedRotating, unload
<1> QED
  BY <1>1, <1>2 DEF IInv, Types, Maybe

\* A login is refused: every task under way knows of it.
LEMMA LoginRefusedKeeps ==
    ASSUME IInv, NEW t \in Tasks, LoginRefused(t)
    PROVE  IInv'
<1> DEFINE r == [task[t] EXCEPT !.refused = TRUE]
           n == [r EXCEPT !.pc = "sent", !.sid = jar]
<1>0. live' \subseteq Sessions /\ granted' \in 0 .. MaxSessions
  <2>1. CASE UNCHANGED <<live, granted>>
    BY <2>1 DEF IInv, Types
  <2>2. CASE Grant
    BY <2>2 DEF IInv, Types, Grant, Sessions
  <2> QED
    BY <2>1, <2>2 DEF LoginRefused
<1>1. /\ Types /\ jar \in Maybe /\ held' = jar
      /\ UNCHANGED <<driver, jar, xsrf, leaving>>
  BY DEF IInv, Types, Maybe, LoginRefused, unload
<1>2. r \in TaskStates /\ n \in TaskStates
  BY <1>1 DEF Types, TaskStates, Pcs, Maybe
<1>3. \A u \in Tasks :
         /\ SawRefusal[u] \in TaskStates
         /\ Busy(u) => SawRefusal[u] = [task[u] EXCEPT !.refused = TRUE]
         /\ ~Busy(u) => SawRefusal[u] = task[u]
  BY <1>1 DEF SawRefusal, Types, TaskStates
<1>4. SawRefusal \in [Tasks -> TaskStates]
  BY <1>3 DEF SawRefusal
<1>5. SawRefusal[t] = r
  BY <1>3 DEF LoginRefused, Busy
<1>6. PICK m \in {Idle, Failed, n} : task' = [SawRefusal EXCEPT ![t] = m]
  <2>1. CASE jar = None
    <3>1. task' = [SawRefusal EXCEPT ![t] = Rejection(t)]
      BY <2>1 DEF LoginRefused
    <3> QED
      BY <3>1 DEF Rejection
  <2>2. CASE jar # None
    <3>1. task' = [SawRefusal EXCEPT ![t] =
                     [SawRefusal[t] EXCEPT !.pc = "sent", !.sid = jar]]
      BY <2>2 DEF LoginRefused
    <3> QED
      BY <1>5, <3>1
  <2> QED
    BY <2>1, <2>2
<1>7. task' \in [Tasks -> TaskStates]
  BY <1>2, <1>4, <1>6, IdleType
<1>8. Types'
  BY <1>0, <1>1, <1>7 DEF Types
<1>9. ASSUME driver # "v2", NEW u \in Tasks, Busy(u)'
      PROVE  Explained(task[u])'
  <2>1. CASE u = t
    <3>1. task'[u] = n
      BY <1>4, <1>6, <1>9, <2>1, IdleType DEF Busy
    <3>2. Explained(task[t])
      BY <1>9 DEF IInv, Busy, LoginRefused
    <3>3. /\ n.pc = "sent" /\ n.again = task[t].again /\ n.refused = TRUE
          /\ n.failed = task[t].failed
      BY <1>1 DEF Types, TaskStates
    <3> HIDE DEF n
    <3> QED
      BY <1>1, <3>1, <3>2, <3>3 DEF Explained, LostOne, LostTwo, Json
  <2>2. CASE u # t
    <3>1. task'[u] = SawRefusal[u]
      BY <1>4, <1>6, <2>2
    <3>2. Busy(u)
      BY <1>3, <1>9, <3>1 DEF Busy
    <3>3. task'[u] = [task[u] EXCEPT !.refused = TRUE] /\ Explained(task[u])
      BY <1>3, <1>9, <3>1, <3>2 DEF IInv
    <3>4. /\ task'[u].pc = task[u].pc /\ task'[u].again = task[u].again
          /\ task'[u].refused = TRUE /\ task'[u].failed = task[u].failed
      BY <1>1, <3>3 DEF Types, TaskStates
    <3> QED
      BY <1>1, <3>3, <3>4 DEF Explained, LostOne, LostTwo, Json
  <2> QED
    BY <2>1, <2>2
<1> QED
  BY <1>1, <1>8, <1>9 DEF IInv

(***************************************************************************)
(* Sessions are lost under the tasks of T: each task under way counts it.  *)
(***************************************************************************)
LEMMA SawLossCounts ==
    ASSUME NEW T \in [Tasks -> TaskStates], NEW u \in Tasks
    PROVE  LET r == SawLoss(T)[u] IN
           /\ SawLoss(T) \in [Tasks -> TaskStates]
           /\ r.pc = T[u].pc /\ r.kind = T[u].kind /\ r.again = T[u].again
           /\ r.sid = T[u].sid /\ r.refused = T[u].refused
           /\ r.failed = T[u].failed
           /\ T[u].pc # "idle" => r.losses > 0
           /\ T[u].pc # "idle" /\ T[u].losses > 0 => r.losses = 2
<1>1. \A v \in Tasks :
         T[v] \in TaskStates /\ T[v].losses \in 0 .. 2
  BY DEF TaskStates
<1>2. \A v \in Tasks :
         T[v].losses < 2 =>
           [T[v] EXCEPT !.losses = T[v].losses + 1] \in TaskStates
  <2>1. ASSUME NEW v \in Tasks, T[v].losses < 2
        PROVE  [T[v] EXCEPT !.losses = T[v].losses + 1] \in TaskStates
    <3> DEFINE n == T[v].losses + 1
    <3>1. n \in 0 .. 2
      BY <1>1, <2>1
    <3> HIDE DEF n
    <3> QED
      BY <1>1, <3>1 DEF TaskStates, n
  <2> QED
    BY <2>1
<1>3. SawLoss(T) \in [Tasks -> TaskStates]
  BY <1>1, <1>2 DEF SawLoss
<1>4. CASE T[u].pc # "idle" /\ T[u].losses < 2
  <2>1. SawLoss(T)[u] = [T[u] EXCEPT !.losses = T[u].losses + 1]
    BY <1>4 DEF SawLoss
  <2> QED
    BY <1>1, <1>3, <1>4, <2>1 DEF TaskStates
<1>5. CASE ~(T[u].pc # "idle" /\ T[u].losses < 2)
  <2>1. SawLoss(T)[u] = T[u]
    BY <1>5 DEF SawLoss
  <2> QED
    BY <1>1, <1>3, <1>5, <2>1
<1> QED
  BY <1>4, <1>5

\* When sessions are lost, the tasks under way have lost one more.
LEMMA LossKeeps ==
    ASSUME IInv, NEW T \in [Tasks -> TaskStates],
           \A u \in Tasks : T[u].pc # "idle" => T[u] = task[u],
           task' = SawLoss(T), live' \subseteq live,
           held' \in {held, None}, xsrf' \in Maybe, leaving' \in Maybe,
           UNCHANGED <<driver, granted, jar>>
    PROVE  IInv'
<1>1. SawLoss(T) \in [Tasks -> TaskStates]
  <2>1. CASE Tasks = {}
    BY <2>1 DEF SawLoss
  <2>2. CASE Tasks # {}
    BY <2>2, SawLossCounts
  <2> QED
    BY <2>1, <2>2
<1>2. Types'
  BY <1>1 DEF IInv, Types, Maybe
<1>3. ASSUME driver # "v2", NEW u \in Tasks, Busy(u)'
      PROVE  Explained(task[u])'
  <2> DEFINE r == task[u]
             n == SawLoss(T)[u]
  <2>1. /\ n.pc = T[u].pc /\ n.again = T[u].again /\ n.sid = T[u].sid
        /\ n.refused = T[u].refused /\ n.failed = T[u].failed
        /\ T[u].pc # "idle" => n.losses > 0
        /\ T[u].pc # "idle" /\ T[u].losses > 0 => n.losses = 2
    BY SawLossCounts
  <2>2. T[u].pc # "idle" /\ T[u] = task[u] /\ task'[u] = n
    BY <1>3, <2>1 DEF Busy
  <2>3. Explained(r)
    BY <1>3, <2>2 DEF IInv, Busy
  <2>4. r \in TaskStates /\ r.losses \in 0 .. 2
    BY DEF IInv, Types, TaskStates
  <2>5. /\ n.pc = r.pc /\ n.again = r.again /\ n.sid = r.sid
        /\ n.refused = r.refused /\ n.failed = r.failed
        /\ n.losses > 0 /\ (LostOne(r) => LostTwo(n))
    BY <2>1, <2>2, <2>4 DEF LostOne, LostTwo
  <2> HIDE DEF n, r
  <2>6. Explained(n)'
    BY <2>3, <2>5 DEF Explained, LostOne, LostTwo, Gone, Json
  <2> QED
    BY <2>2, <2>6
<1> QED
  BY <1>2, <1>3 DEF IInv

\* The switch restarts.
LEMMA RebootedKeeps ==
    ASSUME IInv, NEW t \in Tasks, Rebooted(t)
    PROVE  IInv'
<1> DEFINE T == [task EXCEPT ![t] = Idle]
<1>1. /\ T \in [Tasks -> TaskStates]
      /\ \A u \in Tasks : T[u].pc # "idle" => T[u] = task[u]
  BY IdleType DEF IInv, Types
<1>2. task' = SawLoss(T)
  BY DEF Rebooted
<1> HIDE DEF T
<1> QED
  BY <1>1, <1>2, LossKeeps DEF Rebooted, unload, IInv, Types, Maybe

\* The switch drops a session.
LEMMA SessionLostKeeps ==
    ASSUME IInv, NEW s \in live, SessionLost(s)
    PROVE  IInv'
<1>1. task \in [Tasks -> TaskStates] /\ task' = SawLoss(task)
  BY DEF IInv, Types, SessionLost
<1> QED
  BY <1>1, LossKeeps DEF SessionLost, credentials, unload, IInv, Types, Maybe

\* The driver forgets its session: nothing is gone any more.
LEMMA ForgetKeeps ==
    ASSUME IInv, held' \in {held, None}, xsrf' \in Maybe, leaving' \in Maybe,
           UNCHANGED <<driver, live, granted, jar, task>>
    PROVE  IInv'
<1>1. Types'
  BY DEF IInv, Types, Maybe
<1>2. ASSUME driver # "v2", NEW u \in Tasks, Busy(u)'
      PROVE  Explained(task[u])'
  <2>1. Explained(task[u])
    BY <1>2 DEF IInv, Busy
  <2> QED
    BY <2>1 DEF Explained, LostOne, LostTwo, Gone, Json, None
<1> QED
  BY <1>1, <1>2 DEF IInv

\* The entry is unloaded: the driver logs out.
LEMMA UnloadKeeps ==
    ASSUME IInv, Unload \/ LogoutDone
    PROVE  IInv'
<1>1. CASE Unload
  BY <1>1, ForgetKeeps DEF Unload, IInv, Types, Maybe
<1>2. CASE LogoutDone
  <2>1. /\ held' = None /\ xsrf' = None /\ leaving' = None
        /\ UNCHANGED <<driver, granted, jar>>
    BY <1>2 DEF LogoutDone
  <2>2. CASE UNCHANGED <<live, task>>
    BY <2>1, <2>2, ForgetKeeps DEF IInv, Types, Maybe
  <2>3. CASE /\ live' = live \ {leaving}
             /\ task' = IF leaving \in live THEN SawLoss(task) ELSE task
    <3>1. CASE leaving \in live
      <4>1. task \in [Tasks -> TaskStates] /\ task' = SawLoss(task)
        BY <2>3, <3>1 DEF IInv, Types
      <4> QED
        BY <2>1, <2>3, <4>1, LossKeeps DEF IInv, Types, Maybe
    <3>2. CASE leaving \notin live
      BY <2>1, <2>3, <3>2, ForgetKeeps DEF IInv, Types, Maybe
    <3> QED
      BY <3>1, <3>2
  <2> QED
    BY <1>2, <2>2, <2>3 DEF LogoutDone
<1> QED
  BY <1>1, <1>2

\* Every step keeps the invariant.
LEMMA StepKeeps == IInv /\ [Next]_vars => IInv'
<1> SUFFICES ASSUME IInv, [Next]_vars
             PROVE  IInv'
  OBVIOUS
<1>1. ASSUME NEW t \in Tasks, NEW kind \in Kinds, Start(t, kind)
      PROVE  IInv'
  BY <1>1, StartKeeps
<1>2. ASSUME NEW t \in Tasks, TaskStep(t)
      PROVE  IInv'
  BY <1>2, LockFreedKeeps, AnsweredKeeps, TokenStepsKeep, NoTokenSteps,
     RebootedKeeps, RejectedKeeps, EmptyTableKeeps, LoginGrantedKeeps,
     LoginRefusedKeeps, RotatingKeeps
     DEF TaskStep
<1>3. ASSUME NEW s \in live, SessionLost(s)
      PROVE  IInv'
  BY <1>3, SessionLostKeeps
<1>4. CASE Unload \/ LogoutDone
  BY <1>4, UnloadKeeps
<1>5. CASE UNCHANGED vars
  BY <1>5, ForgetKeeps
     DEF vars, credentials, unload, used, IInv, Types, Maybe
<1> QED
  BY <1>1, <1>2, <1>3, <1>4, <1>5 DEF Next

\* The invariant holds for ever.
LEMMA IInvHolds == Spec => []IInv
BY InitKeeps, StepKeeps, PTL DEF Spec
-----------------------------------------------------------------------------
(***************************************************************************)
(* The theorem.                                                            *)
(***************************************************************************)
\* In this step, t ends in an error whose cause the histories name
Caused(t) ==
    driver # "v2" /\ task[t].kind # "reboot" /\ AuthError(t) =>
       \/ LoginRefused(t)
       \/ task[t].refused
       \/ task[t].losses = 2

\* No move through the lock ends a task.
LEMMA MovesCaused ==
    ASSUME IInv, driver # "v2", NEW t \in Tasks, NEW u \in Tasks,
           NEW r, NEW s, NEW r2 \in TaskStates, Moves(u, r, s, r2), ~r.failed
    PROVE  Caused(t)
BY DEF Moves, Caused, AuthError, IInv, Explained, Types

\* Nor does one that only counts a loss.
LEMMA LossCaused ==
    ASSUME IInv, driver # "v2", NEW t \in Tasks,
           NEW T \in [Tasks -> TaskStates],
           \A u \in Tasks : T[u] \in {task[u], Idle}, task' = SawLoss(T)
    PROVE  Caused(t)
<1>1. T[t].failed = task'[t].failed
  BY SawLossCounts
<1>2. ~Idle.failed
  BY DEF Idle
<1> QED
  BY <1>1, <1>2 DEF Caused, AuthError, IInv, Explained

\* A request of u that moves on through the lock.
LEMMA RequestCaused ==
    ASSUME IInv, driver # "v2", NEW t \in Tasks, NEW u \in Tasks,
           NEW r \in TaskStates, NEW s \in Maybe, ~r.failed,
           \/ Request(u, r, s)
           \/ r \in Asks /\ Want(u, r, s)
           \/ r \in Asks /\ \E q \in {queue} : Hold(u, r, s, q)
    PROVE  Caused(t)
<1>1. Types
  BY DEF IInv
<1>2. CASE Request(u, r, s)
  <2> DEFINE e == [r EXCEPT !.pc = "enter"]
  <2>1. PICK r2 \in TaskStates : Moves(u, e, s, r2)
    BY <1>1, <1>2, RequestMoves
  <2>2. ~e.failed
    BY DEF TaskStates
  <2> QED
    BY <2>1, <2>2, MovesCaused
<1>3. CASE r \in Asks /\ Want(u, r, s)
  BY <1>1, <1>3, WantMoves, MovesCaused
<1>4. CASE r \in Asks /\ Hold(u, r, s, queue)
  BY <1>1, <1>4, HoldMoves, MovesCaused
<1> QED
  BY <1>2, <1>3, <1>4

\* A request rejected twice has lost two sessions.
LEMMA RejectedCaused ==
    ASSUME IInv, driver # "v2", NEW t \in Tasks, NEW u \in Tasks, Rejected(u)
    PROVE  Caused(t)
<1> DEFINE a == [task[u] EXCEPT !.again = TRUE]
           r == [a EXCEPT !.pc = "relogin"]
<1>1. /\ task[u].pc = "sent" /\ task[u].sid \notin live
      /\ Explained(task[u]) /\ task[u] \in TaskStates
      /\ held \in Maybe /\ None \in Maybe
  BY DEF Rejected, Valid, IInv, Busy, Types, Maybe
<1>2. /\ a \in TaskStates /\ ~a.failed /\ r \in Asks /\ r \in TaskStates
      /\ ~r.failed
      /\ r = [task[u] EXCEPT !.pc = "relogin", !.again = TRUE]
  BY <1>1 DEF TaskStates, Asks, Pcs, Waiting, Explained
<1>3. CASE RejectedOnce(u)
  <2>1. Request(u, a, None) \/ Want(u, r, held)
    BY <1>2, <1>3 DEF RejectedOnce
  <2> HIDE DEF a, r
  <2> QED
    BY <1>1, <1>2, <2>1, RequestCaused
<1>4. CASE task[u].again /\ RejectedTwice(u)
  <2>1. CASE t = u
    BY <1>1, <1>4, <2>1 DEF Caused, Explained, LostTwo
  <2>2. CASE t # u
    <3>1. task'[t] = task[t]
      BY <1>4, <2>2 DEF RejectedTwice, IInv, Types
    <3> QED
      BY <3>1 DEF Caused, AuthError, IInv, Explained
  <2> QED
    BY <2>1, <2>2
<1>5. CASE (task[u].kind = "reboot" /\ driver # "legacy") /\ RebootRejected(u)
  <2>1. CASE t = u
    BY <1>5, <2>1 DEF Caused
  <2>2. CASE t # u
    <3>1. task'[t] = task[t]
      BY <1>5, <2>2 DEF RebootRejected, IInv, Types
    <3> QED
      BY <3>1 DEF Caused, AuthError, IInv, Explained
  <2> QED
    BY <2>1, <2>2
<1> QED
  BY <1>3, <1>4, <1>5 DEF Rejected

\* A request that ends without an error.
LEMMA EndCaused ==
    ASSUME IInv, driver # "v2", NEW t \in Tasks, NEW u \in Tasks, End(u)
    PROVE  Caused(t)
<1>1. CASE t = u
  <2>1. task'[t] = Idle
    BY <1>1 DEF End, IInv, Types
  <2> QED
    BY <2>1 DEF Caused, AuthError, Idle
<1>2. CASE t # u
  <2>1. task'[t] = task[t]
    BY <1>2 DEF End, IInv, Types
  <2> QED
    BY <2>1 DEF Caused, AuthError, IInv, Explained
<1> QED
  BY <1>1, <1>2

\* Only the task itself fails when its login is refused.
LEMMA LoginCaused ==
    ASSUME IInv, driver # "v2", NEW t \in Tasks, NEW u \in Tasks,
           LoginGranted(u) \/ LoginRefused(u)
    PROVE  Caused(t)
<1>1. task \in [Tasks -> TaskStates]
  BY DEF IInv, Types
<1>2. CASE LoginGranted(u)
  <2>1. Send(u, task[u], granted + 1, xsrf, Tail(queue))
    BY <1>2 DEF LoginGranted, LoggedIn
  <2>2. task'[t].failed = task[t].failed
    BY <1>1, <2>1 DEF Send, TaskStates
  <2> QED
    BY <2>2 DEF Caused, AuthError, IInv, Explained
<1>3. CASE LoginRefused(u) /\ t = u
  BY <1>3 DEF Caused
<1>4. CASE LoginRefused(u) /\ t # u
  <2>1. task'[t] = SawRefusal[t]
    BY <1>4 DEF LoginRefused, SawRefusal
  <2>2. task'[t].failed = task[t].failed
    BY <1>1, <2>1 DEF SawRefusal, TaskStates
  <2> QED
    BY <2>2 DEF Caused, AuthError, IInv, Explained
<1> QED
  BY <1>2, <1>3, <1>4

\* A task that stays under way has not failed.
LEMMA SameCaused ==
    ASSUME IInv, driver # "v2", NEW t \in Tasks, task' = task
    PROVE  Caused(t)
BY DEF Caused, AuthError, IInv, Explained

\* Every step.
LEMMA StepCaused ==
    ASSUME IInv, [Next]_vars, NEW t \in Tasks
    PROVE  Caused(t)
<1> SUFFICES ASSUME driver # "v2"
             PROVE  Caused(t)
  BY DEF Caused
<1>1. task \in [Tasks -> TaskStates] /\ held \in Maybe
  BY DEF IInv, Types, Maybe
<1>2. ASSUME NEW u \in Tasks, NEW kind \in Kinds, Start(u, kind)
      PROVE  Caused(t)
  <2> DEFINE n == IF held # None /\ held \notin live THEN 1 ELSE 0
  <2>1. n \in 0 .. 2 /\ Fresh(kind) = [Idle EXCEPT !.kind = kind,
                                                   !.losses = n]
    BY DEF Fresh
  <2> HIDE DEF n
  <2>2. Fresh(kind) \in TaskStates /\ ~Fresh(kind).failed
    BY <2>1, IdleType DEF TaskStates, Idle
  <2> QED
    BY <1>1, <1>2, <2>2, RequestCaused DEF Start
<1>3. ASSUME NEW u \in Tasks, LockFreed(u)
      PROVE  Caused(t)
  <2>1. task[u] \in TaskStates /\ task[u] \in Asks /\ ~task[u].failed
    BY <1>1, <1>3 DEF LockFreed, Asks, IInv, Busy, Explained, Waiting
  <2> QED
    BY <1>1, <1>3, <2>1, RequestCaused DEF LockFreed
<1>4. ASSUME NEW u \in Tasks, EditRead(u) \/ HomeRead(u)
      PROVE  Caused(t)
  <2> DEFINE a == [task[u] EXCEPT !.kind = "write", !.again = FALSE,
                                  !.token = xsrf]
  <2>1. ~HomeRead(u)
    BY DEF HomeRead, IInv, Busy, Explained
  <2>2. a \in TaskStates /\ ~a.failed /\ Request(u, a, held)
    BY <1>1, <1>4, <2>1
       DEF EditRead, TaskStates, Kinds, IInv, Busy, Explained, Types, Maybe
  <2> QED
    BY <1>1, <2>2, RequestCaused
<1>5. ASSUME NEW u \in Tasks, Rebooted(u)
      PROVE  Caused(t)
  <2> DEFINE T == [task EXCEPT ![u] = Idle]
  <2>1. /\ T \in [Tasks -> TaskStates] /\ task' = SawLoss(T)
        /\ \A v \in Tasks : T[v] \in {task[v], Idle}
    BY <1>1, <1>5, IdleType DEF Rebooted
  <2> HIDE DEF T
  <2> QED
    BY <2>1, LossCaused
<1>6. ASSUME NEW u \in Tasks, EmptyTable(u)
      PROVE  Caused(t)
  <2> DEFINE a == [task[u] EXCEPT !.kind = "retable", !.again = FALSE]
             r == [a EXCEPT !.pc = "drop"]
  <2>1. /\ a \in TaskStates /\ ~a.failed /\ r \in Asks /\ r \in TaskStates
        /\ ~r.failed /\ None \in Maybe
    BY <1>1, <1>6
       DEF TaskStates, Asks, Pcs, Waiting, Kinds, EmptyTable, IInv, Busy,
           Explained, Maybe
  <2>2. Want(u, r, held) \/ Request(u, a, None) \/ End(u)
    BY <1>6 DEF EmptyTable
  <2> HIDE DEF a, r
  <2> QED
    BY <1>1, <2>1, <2>2, RequestCaused, EndCaused
<1>7. ASSUME NEW u \in Tasks, TaskStep(u)
      PROVE  Caused(t)
  <2>1. CASE Accepted(u) \/ Unanswered(u) \/ LoginFails(u)
    BY <2>1, EndCaused DEF Accepted, Unanswered, LoginFails
  <2>2. ~AcceptedRotating(u)
    BY DEF AcceptedRotating
  <2> QED
    BY <1>3, <1>4, <1>5, <1>6, <1>7, <2>1, <2>2, RejectedCaused, LoginCaused
       DEF TaskStep
<1>8. CASE (\E s \in live : SessionLost(s)) \/ Unload \/ LogoutDone
  <2>1. task' = task \/ task' = SawLoss(task)
    BY <1>8 DEF SessionLost, Unload, LogoutDone
  <2> QED
    BY <1>1, <2>1, SameCaused, LossCaused
<1>9. CASE UNCHANGED vars
  BY <1>9, SameCaused DEF vars
<1> QED
  BY <1>2, <1>7, <1>8, <1>9 DEF Next

(***************************************************************************)
(* NoSpuriousAuthError: an authentication error, which stops polling and   *)
(* asks the user for the password, means that the switch did not grant a   *)
(* login or dropped two sessions under the request, whatever other tasks,  *)
(* the reboot button and the unloading entry do beside it.                 *)
(***************************************************************************)
THEOREM AuthErrorsExplained == Spec => NoSpuriousAuthError
<1>1. ASSUME IInv, [Next]_vars
      PROVE  \A t \in Tasks : Caused(t)
  BY <1>1, StepCaused
<1>2. ASSUME IInv, [Next]_vars
      PROVE  [\A t \in Tasks :
                driver # "v2" /\ task[t].kind # "reboot" /\ AuthError(t) =>
                   \/ LoginRefused(t)
                   \/ task[t].refused
                   \/ task[t].losses = 2]_vars
  BY <1>1, <1>2 DEF Caused
<1> QED
  BY <1>2, IInvHolds, PTL DEF Spec, NoSpuriousAuthError
-----------------------------------------------------------------------------
(***************************************************************************)
(* The lock's queue holds each task that has or wants the lock once, and   *)
(* only its first may be logging in.                                       *)
(***************************************************************************)
Locking == Waiting \union {"login", "home"}
InLine == {t \in Tasks : task[t].pc \in Locking}

Once(q) == \A i, j \in 1 .. Len(q) : q[i] = q[j] => i = j

LineUp(q, S) == q \in Seq(Tasks) /\ Once(q) /\ S = {q[i] : i \in 1 .. Len(q)}

LockOk ==
    /\ LineUp(queue, InLine)
    /\ \A t \in Tasks : task[t].pc \in {"login", "home"} => t = Head(queue)

\* A task joins the queue.
LEMMA Joins ==
    ASSUME NEW S \in SUBSET Tasks, NEW q, LineUp(q, S),
           NEW t \in Tasks, t \notin S
    PROVE  /\ LineUp(Append(q, t), S \union {t})
           /\ q # <<>> => Head(Append(q, t)) = Head(q)
<1> DEFINE a == Append(q, t)
<1>1. /\ q \in Seq(Tasks) /\ Len(q) \in Nat
      /\ a \in Seq(Tasks) /\ Len(a) = Len(q) + 1 /\ a[Len(q) + 1] = t
      /\ \A i \in 1 .. Len(q) : a[i] = q[i] /\ q[i] # t
      /\ q # <<>> => Head(a) = Head(q)
  BY DEF LineUp
<1> HIDE DEF a
<1>2. \A i \in 1 .. Len(a) : i \in 1 .. Len(q) \/ i = Len(q) + 1
  BY <1>1
<1>3. Once(a)
  BY <1>1, <1>2 DEF LineUp, Once
<1>4. S \union {t} = {a[i] : i \in 1 .. Len(a)}
  <2>1. ASSUME NEW u \in S \union {t}
        PROVE  \E i \in 1 .. Len(a) : u = a[i]
    <3>1. CASE u = t
      <4>1. Len(q) + 1 \in 1 .. Len(a)
        BY <1>1
      <4> QED
        BY <1>1, <3>1, <4>1
    <3>2. CASE u \in S
      <4>1. PICK i \in 1 .. Len(q) : u = q[i]
        BY <3>2 DEF LineUp
      <4>2. i \in 1 .. Len(a)
        BY <1>1
      <4> QED
        BY <1>1, <4>1, <4>2
    <3> QED
      BY <3>1, <3>2
  <2>2. ASSUME NEW i \in 1 .. Len(a)
        PROVE  a[i] \in S \union {t}
    BY <1>1, <1>2 DEF LineUp
  <2> QED
    BY <2>1, <2>2
<1> QED
  BY <1>1, <1>3, <1>4 DEF LineUp, a

\* The first in the queue leaves it.
LEMMA Leaves ==
    ASSUME NEW S \in SUBSET Tasks, NEW q, LineUp(q, S), q # <<>>
    PROVE  /\ Head(q) \in S
           /\ LineUp(Tail(q), S \ {Head(q)})
<1> DEFINE a == Tail(q)
           t == Head(q)
<1>1. /\ q \in Seq(Tasks) /\ Len(q) \in Nat \ {0} /\ t = q[1] /\ t \in Tasks
      /\ a \in Seq(Tasks) /\ Len(a) = Len(q) - 1
      /\ \A i \in 1 .. Len(a) : a[i] = q[i + 1] /\ i + 1 \in 1 .. Len(q)
  BY DEF LineUp
<1> HIDE DEF a, t
<1>2. t \in S
  BY <1>1 DEF LineUp
<1>3. Once(a)
  <2> SUFFICES ASSUME NEW i \in 1 .. Len(a), NEW j \in 1 .. Len(a), a[i] = a[j]
               PROVE  i = j
    BY DEF Once
  <2>1. i + 1 = j + 1
    BY <1>1 DEF LineUp, Once
  <2> QED
    BY <1>1, <2>1
<1>4. S \ {t} = {a[i] : i \in 1 .. Len(a)}
  <2>1. ASSUME NEW u \in S, u # t
        PROVE  \E i \in 1 .. Len(a) : u = a[i]
    <3>1. PICK i \in 1 .. Len(q) : u = q[i]
      BY DEF LineUp
    <3>2. i # 1 /\ i - 1 \in 1 .. Len(a) /\ (i - 1) + 1 = i
      BY <1>1, <2>1, <3>1
    <3> QED
      BY <1>1, <3>1, <3>2
  <2>2. ASSUME NEW i \in 1 .. Len(a)
        PROVE  a[i] \in S /\ a[i] # t
    <3>1. i + 1 \in 1 .. Len(q) /\ 1 \in 1 .. Len(q) /\ i + 1 # 1
      BY <1>1
    <3> QED
      BY <1>1, <3>1 DEF LineUp, Once
  <2> QED
    BY <2>1, <2>2
<1> QED
  BY <1>1, <1>2, <1>3, <1>4 DEF LineUp, a, t

\* A queue of one, and the empty queue.
LEMMA Lone ==
    /\ \A t \in Tasks : LineUp(<<t>>, {t}) /\ Head(<<t>>) = t
    /\ \A S \in SUBSET Tasks : LineUp(<<>>, S) <=> S = {}
<1>1. ASSUME NEW t \in Tasks
      PROVE  LineUp(<<t>>, {t}) /\ Head(<<t>>) = t
  <2>1. <<t>> \in Seq(Tasks) /\ Len(<<t>>) = 1 /\ <<t>>[1] = t
    OBVIOUS
  <2> QED
    BY <2>1 DEF LineUp, Once
<1>2. ASSUME NEW S \in SUBSET Tasks
      PROVE  LineUp(<<>>, S) <=> S = {}
  BY DEF LineUp, Once
<1> QED
  BY <1>1, <1>2

\* A queue is no longer than there are tasks.
LEMMA LineLength ==
    ASSUME NEW S \in SUBSET Tasks, NEW q, LineUp(q, S)
    PROVE  Len(q) <= Cardinality(Tasks)
<1>1. q \in [1 .. Len(q) -> Tasks] /\ Len(q) \in Nat
  BY DEF LineUp
<1>2. q \in Injection(1 .. Len(q), Tasks)
  BY <1>1 DEF LineUp, Once, Injection, IsInjective
<1>3. Cardinality(1 .. Len(q)) <= Cardinality(Tasks)
  BY <1>2, FS_Injection, SessionAssumption
<1>4. Cardinality(1 .. Len(q)) = Len(q)
  <2> DEFINE n == Len(q)
  <2>1. n \in Int /\ n >= 0 /\ 1 \in Int
    BY <1>1
  <2> HIDE DEF n
  <2>2. Cardinality(1 .. n) = IF 1 > n THEN 0 ELSE n - 1 + 1
    BY <2>1, FS_Interval
  <2>3. Cardinality(1 .. n) = n
    BY <2>1, <2>2
  <2> QED
    BY <2>3 DEF n
<1> QED
  BY <1>3, <1>4

(***************************************************************************)
(* What the lock's operators and the ends of requests do to the queue.     *)
(***************************************************************************)
\* Only t moves, and r is where it goes
Goes(t, r) == task' = [task EXCEPT ![t] = r]

\* The tasks in line when t alone moves.
LEMMA LineOf ==
    ASSUME Types, NEW t \in Tasks, NEW r, Goes(t, r)
    PROVE  /\ r.pc \in Locking => InLine' = InLine \union {t}
           /\ r.pc \notin Locking => InLine' = InLine \ {t}
           /\ \A u \in Tasks : u # t => task'[u] = task[u]
           /\ task'[t] = r
BY DEF Types, Goes, InLine

\* t, first in line, is given the lock.
LEMMA HoldLock ==
    ASSUME Types, NEW t \in Tasks, NEW r \in Asks, NEW s, NEW q,
           NEW S \in SUBSET Tasks, LineUp(q, S), q # <<>>, t = Head(q),
           S = InLine \union {t},
           \A u \in Tasks : u # t => task[u].pc \notin {"login", "home"},
           Hold(t, r, s, q)
    PROVE  LockOk'
<1>0. r \in TaskStates
  BY DEF Asks
<1>1. CASE BeginLogin(t, r, q)
  <2>1. Goes(t, [r EXCEPT !.pc = "login", !.sid = None]) /\ queue' = q
    BY <1>1 DEF BeginLogin, Goes
  <2>2. [r EXCEPT !.pc = "login", !.sid = None].pc = "login"
    BY <1>0 DEF TaskStates
  <2>3. InLine' = S /\ \A u \in Tasks : u # t => task'[u] = task[u]
    BY <2>1, <2>2, LineOf DEF Locking
  <2> QED
    BY <2>1, <2>3 DEF LockOk
<1>2. CASE Send(t, r, s, xsrf, Tail(q))
  <2> DEFINE n == [r EXCEPT !.pc = "sent", !.sid = s,
                     !.token = IF r.kind = "reboot" THEN xsrf ELSE @]
  <2>1. Goes(t, n) /\ queue' = Tail(q)
    BY <1>2 DEF Send, Goes
  <2>2. n.pc = "sent"
    BY <1>0 DEF TaskStates
  <2> HIDE DEF n
  <2>3. /\ InLine' = S \ {t} /\ \A u \in Tasks : u # t => task'[u] = task[u]
        /\ task'[t] = n
    BY <2>1, <2>2, LineOf DEF Locking, Waiting
  <2>4. LineUp(Tail(q), S \ {t})
    BY Leaves
  <2> QED
    BY <2>1, <2>2, <2>3, <2>4 DEF LockOk
<1>3. CASE /\ task' = [task EXCEPT ![t] = [r EXCEPT !.pc = "enter"]]
           /\ queue' = Append(Tail(q), t)
  <2> DEFINE n == [r EXCEPT !.pc = "enter"]
  <2>1. Goes(t, n) /\ n.pc = "enter"
    BY <1>0, <1>3 DEF Goes, TaskStates
  <2> HIDE DEF n
  <2>2. /\ InLine' = S /\ \A u \in Tasks : u # t => task'[u] = task[u]
        /\ task'[t] = n
    BY <2>1, LineOf DEF Locking, Waiting
  <2>3. LineUp(Tail(q), S \ {t})
    BY Leaves
  <2>4. LineUp(queue', (S \ {t}) \union {t})
    BY <1>3, <2>3, Joins
  <2>5. (S \ {t}) \union {t} = S
    OBVIOUS
  <2> QED
    BY <2>1, <2>2, <2>4, <2>5 DEF LockOk
<1> QED
  BY <1>1, <1>2, <1>3 DEF Hold

\* t asks for the lock.
LEMMA WantLock ==
    ASSUME Types, LockOk, NEW t \in Tasks, NEW r \in Asks, NEW s,
           t \notin InLine, Want(t, r, s)
    PROVE  LockOk'
<1>1. CASE queue = <<>> /\ Hold(t, r, s, <<t>>)
  <2>1. InLine = {} /\ LineUp(<<t>>, {t}) /\ Head(<<t>>) = t /\ <<t>> # <<>>
    BY <1>1, Lone DEF LockOk, InLine
  <2>2. \A u \in Tasks : task[u].pc \notin {"login", "home"}
    BY <2>1 DEF InLine, Locking
  <2>3. {t} \in SUBSET Tasks /\ {t} = InLine \union {t}
    BY <2>1
  <2> HIDE DEF LockOk
  <2> QED
    BY <1>1, <2>1, <2>2, <2>3, HoldLock
<1>2. CASE /\ queue # <<>>
           /\ task' = [task EXCEPT ![t] = [r EXCEPT !.sid = None]]
           /\ queue' = Append(queue, t)
  <2> DEFINE n == [r EXCEPT !.sid = None]
  <2>1. Goes(t, n) /\ n.pc \in Waiting
    BY <1>2 DEF Goes, Asks, TaskStates
  <2> HIDE DEF n
  <2>2. /\ InLine' = InLine \union {t}
        /\ \A u \in Tasks : u # t => task'[u] = task[u]
        /\ task'[t] = n
    BY <2>1, LineOf DEF Locking
  <2>3. LineUp(queue', InLine \union {t}) /\ Head(queue') = Head(queue)
    BY <1>2, Joins DEF LockOk, InLine
  <2> QED
    BY <2>1, <2>2, <2>3 DEF LockOk, Waiting
<1> QED
  BY <1>1, <1>2 DEF Want

\* t makes a request.
LEMMA RequestLock ==
    ASSUME Types, LockOk, NEW t \in Tasks, NEW r \in TaskStates, NEW s,
           t \notin InLine, Request(t, r, s)
    PROVE  LockOk'
<1>1. CASE Want(t, [r EXCEPT !.pc = "enter"], s)
  <2>1. [r EXCEPT !.pc = "enter"] \in Asks
    BY DEF Asks, TaskStates, Pcs, Waiting
  <2> QED
    BY <1>1, <2>1, WantLock
<1>2. CASE Send(t, r, s, xsrf, queue)
  <2> DEFINE n == [r EXCEPT !.pc = "sent", !.sid = s,
                     !.token = IF r.kind = "reboot" THEN xsrf ELSE @]
  <2>1. Goes(t, n) /\ queue' = queue
    BY <1>2 DEF Send, Goes
  <2>2. n.pc = "sent"
    BY DEF TaskStates
  <2> HIDE DEF n
  <2>3. /\ InLine' = InLine /\ \A u \in Tasks : u # t => task'[u] = task[u]
        /\ task'[t] = n
    BY <2>1, <2>2, LineOf DEF Locking, Waiting
  <2> QED
    BY <2>1, <2>2, <2>3 DEF LockOk
<1> QED
  BY <1>1, <1>2 DEF Request

\* t, which has the lock, releases it.
LEMMA ReleaseLock ==
    ASSUME Types, LockOk, NEW t \in Tasks, task[t].pc \in {"login", "home"},
           InLine' = InLine \ {t}, queue' = Tail(queue),
           \A u \in Tasks :
              task'[u].pc \in {"login", "home"} =>
                 task[u].pc \in {"login", "home"}
    PROVE  LockOk'
<1>1. t \in InLine /\ t = Head(queue)
  BY DEF LockOk, InLine, Locking
<1>2. queue # <<>>
  BY <1>1, Lone DEF LockOk, InLine
<1>3. LineUp(queue', InLine')
  BY <1>1, <1>2, Leaves DEF LockOk, InLine
<1>4. ASSUME NEW u \in Tasks, task'[u].pc \in {"login", "home"}
      PROVE  FALSE
  <2>1. u = t
    BY <1>1, <1>4 DEF LockOk
  <2> QED
    BY <1>4, <2>1 DEF InLine, Locking
<1> QED
  BY <1>3, <1>4 DEF LockOk

\* No task takes a step that has to do with the lock.
LEMMA SameLock ==
    ASSUME LockOk, queue' = queue, InLine' = InLine,
           \A u \in Tasks :
              task'[u].pc \in {"login", "home"} =>
                 task[u].pc \in {"login", "home"}
    PROVE  LockOk'
BY DEF LockOk

\* The record a task begins with.
LEMMA FreshType ==
    ASSUME NEW kind \in Kinds
    PROVE  /\ Fresh(kind) \in TaskStates /\ Fresh(kind).kind = kind
           /\ Fresh(kind).pc = "idle"
<1> DEFINE n == IF held # None /\ held \notin live THEN 1 ELSE 0
<1>1. n \in 0 .. 2 /\ Fresh(kind) = [Idle EXCEPT !.kind = kind, !.losses = n]
  BY DEF Fresh
<1> HIDE DEF n
<1> QED
  BY <1>1, IdleType DEF TaskStates

\* A task that ends holds no place in the queue.
LEMMA EndLock ==
    ASSUME Types, LockOk, NEW t \in Tasks, NEW r \in {Idle, Failed},
           Goes(t, r),
           \/ task[t].pc = "sent" /\ queue' = queue
           \/ task[t].pc \in {"login", "home"} /\ queue' = Tail(queue)
    PROVE  LockOk'
<1>1. r.pc = "idle"
  BY IdleType
<1>2. /\ InLine' = InLine \ {t} /\ task'[t] = r
      /\ \A u \in Tasks : u # t => task'[u] = task[u]
  BY <1>1, LineOf DEF Locking, Waiting
<1>3. CASE task[t].pc = "sent" /\ queue' = queue
  <2>1. InLine' = InLine
    BY <1>2, <1>3 DEF InLine, Locking, Waiting
  <2> QED
    BY <1>1, <1>2, <1>3, <2>1, SameLock
<1>4. CASE task[t].pc \in {"login", "home"} /\ queue' = Tail(queue)
  BY <1>1, <1>2, <1>4, ReleaseLock
<1> QED
  BY <1>3, <1>4

\* A login that ends in a request releases the lock.
LEMMA SendLock ==
    ASSUME Types, LockOk, NEW t \in Tasks, NEW s, NEW x,
           task[t].pc \in {"login", "home"},
           Send(t, task[t], s, x, Tail(queue))
    PROVE  LockOk'
<1> DEFINE n == [task[t] EXCEPT !.pc = "sent", !.sid = s,
                   !.token = IF task[t].kind = "reboot" THEN x ELSE @]
<1>1. Goes(t, n) /\ queue' = Tail(queue)
  BY DEF Send, Goes
<1>2. n.pc = "sent"
  BY DEF Types, TaskStates
<1> HIDE DEF n
<1>3. /\ InLine' = InLine \ {t} /\ task'[t] = n
      /\ \A u \in Tasks : u # t => task'[u] = task[u]
  BY <1>1, <1>2, LineOf DEF Locking, Waiting
<1> QED
  BY <1>1, <1>2, <1>3, ReleaseLock

\* Losses and refusals that tasks see move no task.
LEMMA SeenLock ==
    ASSUME Types, LockOk, queue' = queue,
           \A u \in Tasks : task'[u].pc \in {task[u].pc, "idle"},
           \A u \in Tasks : task'[u].pc # task[u].pc => task[u].pc = "sent"
    PROVE  LockOk'
<1>1. InLine' = InLine
  BY DEF InLine, Locking, Waiting
<1> QED
  BY <1>1, SameLock

\* Every step keeps the lock's discipline.
LEMMA LockStep ==
    ASSUME IInv, LockOk, [Next]_vars
    PROVE  LockOk'
<1>0. Types /\ task \in [Tasks -> TaskStates]
  BY DEF IInv, Types
<1>1. ASSUME NEW t \in Tasks, NEW kind \in Kinds, Start(t, kind)
      PROVE  LockOk'
  <2>1. t \notin InLine
    BY <1>1 DEF Start, Busy, InLine, Locking, Waiting
  <2> QED
    BY <1>0, <1>1, <2>1, FreshType, RequestLock DEF Start
<1>2. ASSUME NEW t \in Tasks, LockFreed(t)
      PROVE  LockOk'
  <2>1. task[t] \in Asks /\ t \in InLine /\ Head(queue) = t
    BY <1>0, <1>2 DEF LockFreed, Asks, InLine, Locking
  <2>2. /\ LineUp(queue, InLine) /\ queue # <<>> /\ InLine \in SUBSET Tasks
        /\ InLine = InLine \union {t}
        /\ \A u \in Tasks : u # t => task[u].pc \notin {"login", "home"}
    BY <2>1, Lone DEF LockOk, InLine
  <2>3. Hold(t, task[t], held, queue)
    BY <1>2 DEF LockFreed
  <2> HIDE DEF LockOk
  <2> QED
    BY <1>0, <2>1, <2>2, <2>3, HoldLock
<1>3. ASSUME NEW t \in Tasks,
             \/ Accepted(t) \/ Unanswered(t) \/ LoginFails(t)
      PROVE  LockOk'
  <2>1. Goes(t, Idle)
    BY <1>3 DEF Accepted, Unanswered, LoginFails, End, Goes
  <2>2. \/ task[t].pc = "sent" /\ queue' = queue
        \/ task[t].pc = "login" /\ queue' = Tail(queue)
    BY <1>3 DEF Accepted, Unanswered, LoginFails
  <2> QED
    BY <1>0, <2>1, <2>2, EndLock
<1>4. ASSUME NEW t \in Tasks, EditRead(t)
      PROVE  LockOk'
  <2> DEFINE a == [task[t] EXCEPT !.kind = "write", !.again = FALSE,
                                  !.token = xsrf]
  <2>1. a \in TaskStates /\ t \notin InLine /\ Request(t, a, held)
    BY <1>0, <1>4
       DEF EditRead, TaskStates, Kinds, Types, InLine, Locking, Waiting
  <2> HIDE DEF a
  <2> QED
    BY <1>0, <2>1, RequestLock
<1>5. ASSUME NEW t \in Tasks, Rebooted(t)
      PROVE  LockOk'
  <2> DEFINE T == [task EXCEPT ![t] = Idle]
  <2>1. /\ T \in [Tasks -> TaskStates] /\ task' = SawLoss(T)
        /\ T[t].pc = "idle" /\ \A u \in Tasks : u # t => T[u] = task[u]
        /\ task[t].pc = "sent" /\ queue' = queue
    BY <1>0, <1>5, IdleType DEF Rebooted
  <2> HIDE DEF T
  <2>2. \A u \in Tasks : task'[u].pc = T[u].pc
    BY <2>1, SawLossCounts
  <2> QED
    BY <1>0, <2>1, <2>2, SeenLock
<1>6. ASSUME NEW t \in Tasks, Rejected(t)
      PROVE  LockOk'
  <2> DEFINE a == [task[t] EXCEPT !.again = TRUE]
             r == [task[t] EXCEPT !.pc = "relogin", !.again = TRUE]
  <2>1. /\ a \in TaskStates /\ r \in Asks /\ t \notin InLine
        /\ task[t].pc = "sent"
    BY <1>0, <1>6
       DEF Rejected, TaskStates, Asks, Pcs, InLine, Locking, Waiting
  <2>2. CASE RejectedOnce(t)
    <3>1. Want(t, r, held) \/ Request(t, a, None)
      BY <2>2 DEF RejectedOnce
    <3> HIDE DEF a, r
    <3> QED
      BY <1>0, <2>1, <3>1, WantLock, RequestLock
  <2>3. CASE RejectedTwice(t) \/ RebootRejected(t)
    <3>1. PICK e \in {Idle, Failed} : Goes(t, e)
      BY <2>3 DEF RejectedTwice, RebootRejected, Rejection, Goes
    <3>2. queue' = queue
      BY <2>3 DEF RejectedTwice, RebootRejected
    <3> QED
      BY <1>0, <2>1, <3>1, <3>2, EndLock
  <2> QED
    BY <1>6, <2>2, <2>3 DEF Rejected
<1>7. ASSUME NEW t \in Tasks, EmptyTable(t)
      PROVE  LockOk'
  <2> DEFINE a == [task[t] EXCEPT !.kind = "retable", !.again = FALSE]
             r == [a EXCEPT !.pc = "drop"]
  <2>1. /\ a \in TaskStates /\ r \in Asks /\ t \notin InLine
        /\ task[t].pc = "sent"
    BY <1>0, <1>7
       DEF EmptyTable, TaskStates, Asks, Pcs, Kinds, InLine, Locking, Waiting
  <2>2. \/ Want(t, r, held) \/ Request(t, a, None)
        \/ Goes(t, Idle) /\ queue' = queue
    BY <1>7 DEF EmptyTable, End, Goes
  <2> HIDE DEF a, r
  <2> QED
    BY <1>0, <2>1, <2>2, WantLock, RequestLock, EndLock
<1>8. ASSUME NEW t \in Tasks, LoginGranted(t)
      PROVE  LockOk'
  <2>1. task[t].pc = "login"
    BY <1>8 DEF LoginGranted
  <2>2. CASE driver = "v2"
    <3> DEFINE n == [task[t] EXCEPT !.pc = "home"]
    <3>1. Goes(t, n) /\ queue' = queue /\ n.pc = "home"
      BY <1>0, <1>8, <2>2 DEF LoginGranted, LoggedIn, Goes, TaskStates
    <3> HIDE DEF n
    <3>2. /\ InLine' = InLine \union {t} /\ task'[t] = n
          /\ \A u \in Tasks : u # t => task'[u] = task[u]
      BY <1>0, <3>1, LineOf DEF Locking
    <3>3. InLine' = InLine
      BY <2>1, <3>2 DEF InLine, Locking
    <3> QED
      BY <2>1, <3>1, <3>2, <3>3, SameLock
  <2>3. CASE driver # "v2"
    BY <1>0, <1>8, <2>1, <2>3, SendLock DEF LoginGranted, LoggedIn
  <2> QED
    BY <2>2, <2>3
<1>9. ASSUME NEW t \in Tasks, LoginRefused(t)
      PROVE  LockOk'
  <2>1. task[t].pc = "login" /\ queue' = Tail(queue)
    BY <1>9 DEF LoginRefused
  <2>2. \A u \in Tasks :
           SawRefusal[u] \in TaskStates /\ SawRefusal[u].pc = task[u].pc
    BY <1>0 DEF SawRefusal, TaskStates
  <2>3. SawRefusal \in [Tasks -> TaskStates]
    BY <2>2 DEF SawRefusal
  <2>4. PICK r : /\ task' = [SawRefusal EXCEPT ![t] = r]
                 /\ r.pc \in {"idle", "sent"}
    <3>1. CASE jar = None
      BY <1>9, <3>1, IdleType DEF LoginRefused, Rejection
    <3>2. CASE jar # None
      <4> DEFINE n == [SawRefusal[t] EXCEPT !.pc = "sent", !.sid = jar]
      <4>1. task' = [SawRefusal EXCEPT ![t] = n]
        BY <1>9, <3>2 DEF LoginRefused
      <4>2. n.pc = "sent"
        BY <2>2 DEF TaskStates
      <4> QED
        BY <4>1, <4>2
    <3> QED
      BY <3>1, <3>2
  <2>5. task'[t] = r /\ \A u \in Tasks : u # t => task'[u] = SawRefusal[u]
    BY <2>3, <2>4
  <2>6. InLine' = InLine \ {t}
    BY <2>2, <2>4, <2>5 DEF InLine, Locking, Waiting
  <2> QED
    BY <1>0, <2>1, <2>2, <2>4, <2>5, <2>6, ReleaseLock
<1>10. ASSUME NEW t \in Tasks, HomeRead(t)
       PROVE  LockOk'
  BY <1>0, <1>10, SendLock DEF HomeRead
<1>11. ASSUME NEW t \in Tasks, AcceptedRotating(t)
       PROVE  LockOk'
  <2>1. /\ task' = [Rotated(task[t].sid) EXCEPT ![t] = Idle]
        /\ queue' = queue /\ task[t].pc = "sent"
    BY <1>11 DEF AcceptedRotating
  <2>2. \A u \in Tasks :
           task'[u].pc = IF u = t THEN "idle" ELSE task[u].pc
    BY <1>0, <1>11, <2>1, RotatingTypes, IdleType
  <2> QED
    BY <1>0, <2>1, <2>2, SeenLock
<1>12. CASE (\E s \in live : SessionLost(s)) \/ Unload \/ LogoutDone
            \/ UNCHANGED vars
  <2>1. (task' = task \/ task' = SawLoss(task)) /\ queue' = queue
    BY <1>12 DEF SessionLost, Unload, LogoutDone, vars
  <2>2. \A u \in Tasks : task'[u].pc = task[u].pc
    BY <1>0, <2>1, SawLossCounts
  <2> QED
    BY <1>0, <2>1, <2>2, SeenLock
<1> QED
  BY <1>1, <1>2, <1>3, <1>4, <1>5, <1>6, <1>7, <1>8, <1>9, <1>10, <1>11,
     <1>12
     DEF Next, TaskStep

\* The lock is free at the start.
LEMMA LockInit == Init => LockOk
<1> SUFFICES ASSUME Init
             PROVE  LockOk
  OBVIOUS
<1>1. InLine = {} /\ queue = <<>>
  BY IdleType DEF Init, InLine, Locking, Waiting
<1>2. LineUp(queue, InLine)
  BY <1>1, Lone
<1> QED
  BY <1>1, <1>2 DEF LockOk, InLine, Locking

\* The lock's discipline is kept for ever.
LEMMA LockHolds == Spec => []LockOk
BY LockInit, LockStep, IInvHolds, PTL DEF Spec

\* Two tasks never log in at once, and who waits for the lock will be woken
OneLogin ==
    \A t, u \in Tasks :
        {task[t].pc, task[u].pc} \subseteq {"login", "home"} => t = u
NobodyForgotten ==
    \A t \in Tasks :
        task[t].pc \in Waiting => \E i \in 1 .. Len(queue) : queue[i] = t

(***************************************************************************)
(* _login_lock does what it is for, however requests fail, lose their      *)
(* sessions and try again: one login at a time, and each waiting task is   *)
(* in the queue, so that none waits for a lock that nobody will hand on.   *)
(***************************************************************************)
THEOREM LoginLockIsKept == Spec => [](OneLogin /\ NobodyForgotten)
<1>1. LockOk => OneLogin
  BY DEF LockOk, OneLogin
<1>2. LockOk => NobodyForgotten
  <2> SUFFICES ASSUME LockOk, NEW t \in Tasks, task[t].pc \in Waiting
               PROVE  \E i \in 1 .. Len(queue) : queue[i] = t
    BY DEF NobodyForgotten
  <2>1. t \in InLine
    BY DEF InLine, Locking
  <2> QED
    BY <2>1 DEF LockOk, LineUp
<1> QED
  BY <1>1, <1>2, LockHolds, PTL

-----------------------------------------------------------------------------
(***************************************************************************)
(* The counters.  Sessions are dropped by the switch, at most MaxLosses    *)
(* times, and by reboots, each of them the work of a press of its own.     *)
(***************************************************************************)
Rebooting == {t \in Tasks : Busy(t) /\ task[t].kind = "reboot"}

Counts ==
    /\ Cardinality(live) <= Slots
    /\ entry \in {"loaded", "logout", "unloaded"}
    /\ lost \in Nat
    /\ faults \in 0 .. MaxFaults
    /\ presses \in 0 .. MaxPresses
    /\ Cardinality(Rebooting) <= presses
    /\ lost + Cardinality(Rebooting) <= MaxLosses + presses

\* A task that moves on through the lock reboots only if its record says so.
LEMMA MovesReboots ==
    ASSUME Types, NEW t \in Tasks, NEW r, NEW s, NEW r2, Moves(t, r, s, r2),
           r.kind = "reboot" => t \in Rebooting
    PROVE  Rebooting' \subseteq Rebooting
BY DEF Types, Moves, Rebooting, Busy

\* Nor does one that ends, or goes on with what it is about.
LEMMA GoesReboots ==
    ASSUME Types, NEW t \in Tasks, NEW r, Goes(t, r),
           r.pc = "idle" \/ (r.kind = task[t].kind /\ task[t].pc # "idle")
    PROVE  /\ Rebooting' \subseteq Rebooting
           /\ r.pc = "idle" => t \notin Rebooting'
BY DEF Types, Goes, Rebooting, Busy

\* Who is rebooting after a step, and what it adds to the counters.
RebootStep ==
    \/ Rebooting' \subseteq Rebooting /\ UNCHANGED <<lost, presses>>
    \/ \E t \in Tasks :
          /\ Rebooting' \subseteq Rebooting \union {t}
          /\ presses < MaxPresses /\ presses' = presses + 1
          /\ UNCHANGED lost
    \/ \E t \in Rebooting :
          /\ Rebooting' \subseteq Rebooting \ {t}
          /\ lost' = lost + 1
          /\ UNCHANGED presses
    \/ Rebooting' \subseteq Rebooting /\ Loss

\* Every step is one of these.
LEMMA RebootSteps ==
    ASSUME IInv, [Next]_vars
    PROVE  RebootStep
<1>0. /\ Types /\ task \in [Tasks -> TaskStates]
      /\ held \in Maybe /\ None \in Maybe
  BY DEF IInv, Types, Maybe
<1>1. ASSUME NEW t \in Tasks, NEW kind \in Kinds, Start(t, kind)
      PROVE  RebootStep
  <2> DEFINE f == Fresh(kind)
             r == [f EXCEPT !.pc = "enter"]
  <2>1. f \in TaskStates /\ r.kind = kind
    BY FreshType DEF TaskStates
  <2>2. PICK r2 \in TaskStates : Moves(t, r, held, r2)
    BY <1>0, <1>1, <2>1, RequestMoves DEF Start
  <2> HIDE DEF r
  <2>3. CASE kind = "reboot"
    <3>1. Rebooting' \subseteq Rebooting \union {t}
      BY <1>0, <2>2 DEF Moves, Rebooting, Busy
    <3> QED
      BY <1>1, <2>3, <3>1 DEF Start, RebootStep
  <2>4. CASE kind # "reboot"
    <3>1. Rebooting' \subseteq Rebooting
      BY <1>0, <2>1, <2>2, <2>4, MovesReboots
    <3> QED
      BY <1>1, <2>4, <3>1 DEF Start, RebootStep
  <2> QED
    BY <2>3, <2>4
<1>2. ASSUME NEW t \in Tasks, LockFreed(t)
      PROVE  RebootStep
  <2>1. task[t] \in Asks /\ (task[t].kind = "reboot" => t \in Rebooting)
    BY <1>0, <1>2 DEF LockFreed, Asks, Rebooting, Busy, Waiting
  <2>2. PICK r2 \in TaskStates : Moves(t, task[t], held, r2)
    BY <1>0, <1>2, <2>1, HoldMoves DEF LockFreed
  <2> QED
    BY <1>0, <1>2, <2>1, <2>2, MovesReboots DEF LockFreed, RebootStep, used
<1>3. ASSUME NEW t \in Tasks, Accepted(t) \/ Unanswered(t) \/ LoginFails(t)
      PROVE  RebootStep
  <2>1. Goes(t, Idle) /\ UNCHANGED <<lost, presses>>
    BY <1>3 DEF Accepted, Unanswered, LoginFails, End, Goes, Fault, used
  <2> QED
    BY <1>0, <2>1, IdleType, GoesReboots DEF RebootStep
<1>4. ASSUME NEW t \in Tasks, EditRead(t) \/ Rejected(t) \/ EmptyTable(t)
      PROVE  RebootStep
  <2> DEFINE w == [task[t] EXCEPT !.kind = "write", !.again = FALSE,
                                  !.token = xsrf]
             a == [task[t] EXCEPT !.again = TRUE]
             l == [task[t] EXCEPT !.pc = "relogin", !.again = TRUE]
             b == [task[t] EXCEPT !.kind = "retable", !.again = FALSE]
             d == [b EXCEPT !.pc = "drop"]
  <2>1. task[t].pc = "sent" /\ UNCHANGED <<lost, presses>>
    BY <1>4 DEF EditRead, Rejected, EmptyTable, used
  <2>2. task[t].kind = "reboot" => t \in Rebooting
    BY <2>1 DEF Rebooting, Busy
  <2>3. \/ Request(t, w, held) \/ Request(t, a, None) \/ Request(t, b, None)
        \/ Want(t, l, held) \/ Want(t, d, held)
        \/ Goes(t, Idle) \/ Goes(t, Failed)
    BY <1>4 DEF EditRead, Rejected, RejectedOnce, RejectedTwice,
                RebootRejected,
                Rejection, EmptyTable, End, Goes
  <2>11. w \in TaskStates /\ w.kind = "write"
    BY <1>0 DEF TaskStates, Kinds, Types, Maybe
  <2>12. a \in TaskStates /\ a.kind = task[t].kind
    BY <1>0 DEF TaskStates
  <2>13. b \in TaskStates /\ b.kind = "retable"
    BY <1>0 DEF TaskStates, Kinds
  <2>14. d \in Asks /\ d.kind = "retable"
    BY <2>13 DEF TaskStates, Asks, Pcs, Waiting
  <2>15. l \in Asks /\ l.kind = task[t].kind
    BY <1>0 DEF TaskStates, Asks, Pcs, Waiting
  <2> HIDE DEF w, a, l, b, d
  <2>4. ASSUME NEW r \in {w, a, b}, NEW s \in Maybe, Request(t, r, s)
        PROVE  Rebooting' \subseteq Rebooting
    <3>1. r \in TaskStates
      BY <2>11, <2>12, <2>13, <2>4
    <3>2. PICK r2 \in TaskStates : Moves(t, [r EXCEPT !.pc = "enter"], s, r2)
      BY <1>0, <2>4, <3>1, RequestMoves
    <3>3. [r EXCEPT !.pc = "enter"].kind \in {task[t].kind, "write", "retable"}
      BY <2>11, <2>12, <2>13, <2>4, <3>1 DEF TaskStates
    <3> QED
      BY <1>0, <2>2, <3>2, <3>3, MovesReboots
  <2>5. ASSUME NEW r \in {l, d}, Want(t, r, held)
        PROVE  Rebooting' \subseteq Rebooting
    <3>1. r \in Asks /\ r.kind \in {task[t].kind, "retable"}
      BY <2>14, <2>15, <2>5
    <3>2. PICK r2 \in TaskStates : Moves(t, r, held, r2)
      BY <1>0, <2>5, <3>1, WantMoves
    <3> QED
      BY <1>0, <2>2, <3>1, <3>2, MovesReboots
  <2>6. ASSUME NEW r \in {Idle, Failed}, Goes(t, r)
        PROVE  Rebooting' \subseteq Rebooting
    BY <1>0, <2>6, IdleType, GoesReboots
  <2> QED
    BY <1>0, <2>1, <2>3, <2>4, <2>5, <2>6 DEF RebootStep
<1>5. ASSUME NEW t \in Tasks, Rebooted(t)
      PROVE  RebootStep
  <2> DEFINE T == [task EXCEPT ![t] = Idle]
  <2>1. /\ T \in [Tasks -> TaskStates] /\ task' = SawLoss(T)
        /\ T[t].pc = "idle" /\ \A u \in Tasks : u # t => T[u] = task[u]
        /\ t \in Rebooting /\ lost' = lost + 1 /\ UNCHANGED presses
    BY <1>0, <1>5, IdleType DEF Rebooted, Rebooting, Busy
  <2> HIDE DEF T
  <2>2. \A u \in Tasks : task'[u].pc = T[u].pc /\ task'[u].kind = T[u].kind
    BY <2>1, SawLossCounts
  <2>3. Rebooting' \subseteq Rebooting \ {t}
    BY <2>1, <2>2 DEF Rebooting, Busy
  <2> QED
    BY <2>1, <2>3 DEF RebootStep
<1>6. ASSUME NEW t \in Tasks, LoginGranted(t) \/ HomeRead(t)
      PROVE  RebootStep
  <2>1. PICK r : Goes(t, r) /\ r.kind = task[t].kind
    <3>1. CASE \E s, x : Send(t, task[t], s, x, Tail(queue))
      <4>1. PICK s, x : Send(t, task[t], s, x, Tail(queue))
        BY <3>1
      <4> DEFINE n == [task[t] EXCEPT !.pc = "sent", !.sid = s,
                         !.token = IF task[t].kind = "reboot" THEN x ELSE @]
      <4>2. Goes(t, n) /\ n.kind = task[t].kind
        BY <1>0, <4>1 DEF Send, Goes, TaskStates
      <4> QED
        BY <4>2
    <3>2. CASE task' = [task EXCEPT ![t].pc = "home"]
      <4>1. /\ Goes(t, [task[t] EXCEPT !.pc = "home"])
            /\ [task[t] EXCEPT !.pc = "home"].kind = task[t].kind
        BY <1>0, <3>2 DEF Goes, TaskStates
      <4> QED
        BY <4>1
    <3> QED
      BY <1>6, <3>1, <3>2 DEF LoginGranted, LoggedIn, HomeRead
  <2>2. task[t].pc # "idle" /\ UNCHANGED <<lost, presses>>
    BY <1>6 DEF LoginGranted, HomeRead, Fault, used
  <2> QED
    BY <1>0, <2>1, <2>2, GoesReboots DEF RebootStep
<1>7. ASSUME NEW t \in Tasks, LoginRefused(t)
      PROVE  RebootStep
  <2>1. \A u \in Tasks :
           /\ SawRefusal[u] \in TaskStates /\ SawRefusal[u].pc = task[u].pc
           /\ SawRefusal[u].kind = task[u].kind
    BY <1>0 DEF SawRefusal, TaskStates
  <2>2. SawRefusal \in [Tasks -> TaskStates]
    BY <2>1 DEF SawRefusal
  <2> DEFINE n == [SawRefusal[t] EXCEPT !.pc = "sent", !.sid = jar]
  <2>3. n.kind = task[t].kind /\ Idle.pc = "idle" /\ Failed.pc = "idle"
    BY <2>1, IdleType DEF TaskStates
  <2>4. PICK r \in {Idle, Failed, n} : task' = [SawRefusal EXCEPT ![t] = r]
    BY <1>7 DEF LoginRefused, Rejection
  <2>5. task[t].pc = "login" /\ UNCHANGED <<lost, presses>>
    BY <1>7 DEF LoginRefused, Fault, used
  <2> HIDE DEF n
  <2>6. Rebooting' \subseteq Rebooting
    BY <2>1, <2>2, <2>3, <2>4, <2>5 DEF Rebooting, Busy
  <2> QED
    BY <2>5, <2>6 DEF RebootStep
<1>9. ASSUME NEW t \in Tasks, AcceptedRotating(t)
      PROVE  RebootStep
  <2>1. \A u \in Tasks :
           /\ u # t => task'[u].pc = task[u].pc /\ task'[u].kind = task[u].kind
           /\ u = t => task'[u].pc = "idle"
    BY <1>0, <1>9, RotatingTypes, IdleType
  <2>2. Rebooting' \subseteq Rebooting
    BY <2>1 DEF Rebooting, Busy
  <2> QED
    BY <1>9, <2>2 DEF AcceptedRotating, Fault, used, RebootStep
<1>8. CASE (\E s \in live : SessionLost(s)) \/ Unload \/ LogoutDone
            \/ UNCHANGED vars
  <2>1. /\ task' = task \/ task' = SawLoss(task)
        /\ Loss \/ UNCHANGED <<lost, presses>>
    BY <1>8 DEF SessionLost, Unload, LogoutDone, vars, used, Fault
  <2>2. \A u \in Tasks :
           task'[u].pc = task[u].pc /\ task'[u].kind = task[u].kind
    BY <1>0, <2>1, SawLossCounts
  <2>3. Rebooting' = Rebooting
    BY <2>2 DEF Rebooting, Busy
  <2> QED
    BY <2>1, <2>3 DEF RebootStep
<1> QED
  BY <1>1, <1>2, <1>3, <1>4, <1>5, <1>6, <1>7, <1>8, <1>9
     DEF Next, TaskStep

\* The other variables that Counts bounds.
LEMMA OtherSteps ==
    ASSUME [Next]_vars
    PROVE  /\ live' \subseteq live \/ Grant
           /\ entry' \in {entry, "logout", "unloaded"}
           /\ Fault \/ faults' = faults
<1>1. CASE \E t \in Tasks, kind \in Kinds : Start(t, kind)
  BY <1>1 DEF Start, unload
<1>2. CASE \E t \in Tasks : TaskStep(t)
  BY <1>2 DEF TaskStep, LockFreed, Accepted, EditRead, Rebooted, Rejected,
              EmptyTable, Unanswered, LoginGranted, LoginRefused, LoginFails,
              HomeRead, AcceptedRotating, unload, used, Fault
<1>3. CASE \E s \in live : SessionLost(s)
  BY <1>3 DEF SessionLost, Loss, unload
<1>4. CASE Unload
  BY <1>4 DEF Unload, used
<1>5. CASE LogoutDone
  BY <1>5 DEF LogoutDone, used
<1>6. CASE UNCHANGED vars
  BY <1>6 DEF vars, unload, used
<1> QED
  BY <1>1, <1>2, <1>3, <1>4, <1>5, <1>6 DEF Next

\* The switch keeps to its slots.
LEMMA SlotStep ==
    ASSUME Types, Cardinality(live) <= Slots, live' \subseteq live \/ Grant
    PROVE  Cardinality(live') <= Slots
<1>1. IsFiniteSet(live)
  <2>1. IsFiniteSet(Sessions)
    BY FS_Interval DEF Sessions
  <2> QED
    BY <2>1, FS_Subset DEF Types
<1>2. Cardinality(live) \in Nat
  BY <1>1, FS_CardinalityType
<1>3. CASE live' \subseteq live
  <2>1. live' \in SUBSET live
    BY <1>3
  <2>2. Cardinality(live') <= Cardinality(live) /\ Cardinality(live') \in Nat
    BY <1>1, <2>1, FS_Subset, FS_CardinalityType
  <2> QED
    BY <1>2, <2>2
<1>4. CASE Grant
  <2>1. /\ Cardinality(live) < Slots
        /\ Cardinality(live') \in {Cardinality(live), Cardinality(live) + 1}
    BY <1>1, <1>4, FS_AddElement DEF Grant
  <2> QED
    BY <1>2, <2>1
<1> QED
  BY <1>3, <1>4

\* Fewer or more reboots under way.
LEMMA RebootingSize ==
    /\ IsFiniteSet(Rebooting) /\ Cardinality(Rebooting) \in Nat
    /\ \A S \in SUBSET Rebooting :
          Cardinality(S) \in Nat /\ Cardinality(S) <= Cardinality(Rebooting)
    /\ \A t \in Tasks : \A S \in SUBSET (Rebooting \union {t}) :
          /\ Cardinality(S) \in Nat
          /\ Cardinality(S) <= Cardinality(Rebooting) + 1
    /\ \A t \in Rebooting : \A S \in SUBSET (Rebooting \ {t}) :
          /\ Cardinality(S) \in Nat
          /\ Cardinality(S) <= Cardinality(Rebooting) - 1
<1>1. IsFiniteSet(Rebooting) /\ Cardinality(Rebooting) \in Nat
  <2>1. Rebooting \in SUBSET Tasks
    BY DEF Rebooting
  <2> QED
    BY <2>1, FS_Subset, FS_CardinalityType
<1>2. \A S \in SUBSET Rebooting :
         Cardinality(S) \in Nat /\ Cardinality(S) <= Cardinality(Rebooting)
  BY <1>1, FS_Subset, FS_CardinalityType
<1>3. ASSUME NEW t \in Tasks, NEW S \in SUBSET (Rebooting \union {t})
      PROVE  /\ Cardinality(S) \in Nat
             /\ Cardinality(S) <= Cardinality(Rebooting) + 1
  <2> DEFINE R == Rebooting \union {t}
  <2>1. /\ IsFiniteSet(R)
        /\ Cardinality(R) \in
              {Cardinality(Rebooting), Cardinality(Rebooting) + 1}
    BY <1>1, FS_AddElement
  <2> HIDE DEF R
  <2>2. Cardinality(S) \in Nat /\ Cardinality(S) <= Cardinality(R)
    BY <2>1, FS_Subset, FS_CardinalityType DEF R
  <2> QED
    BY <1>1, <2>1, <2>2
<1>4. ASSUME NEW t \in Rebooting, NEW S \in SUBSET (Rebooting \ {t})
      PROVE  /\ Cardinality(S) \in Nat
             /\ Cardinality(S) <= Cardinality(Rebooting) - 1
  <2> DEFINE R == Rebooting \ {t}
  <2>1. IsFiniteSet(R) /\ Cardinality(R) = Cardinality(Rebooting) - 1
    BY <1>1, FS_RemoveElement
  <2> HIDE DEF R
  <2>2. Cardinality(S) \in Nat /\ Cardinality(S) <= Cardinality(R)
    BY <2>1, FS_Subset, FS_CardinalityType DEF R
  <2> QED
    BY <1>1, <2>1, <2>2
<1> QED
  BY <1>1, <1>2, <1>3, <1>4

\* Every step keeps the counters in bounds.
LEMMA CountsStep ==
    ASSUME IInv, Counts, [Next]_vars
    PROVE  Counts'
<1>1. Cardinality(live') <= Slots
  BY OtherSteps, SlotStep DEF IInv, Counts
<1>2. /\ entry' \in {"loaded", "logout", "unloaded"}
      /\ faults' \in 0 .. MaxFaults
  BY OtherSteps DEF Counts, Fault
<1> DEFINE c == Cardinality(Rebooting)
           d == Cardinality(Rebooting')
<1>3. c \in Nat
  BY RebootingSize
<1>4. /\ d \in Nat
      /\ \/ d <= c /\ UNCHANGED <<lost, presses>>
         \/ /\ d <= c + 1 /\ presses < MaxPresses /\ presses' = presses + 1
            /\ UNCHANGED lost
         \/ d <= c - 1 /\ lost' = lost + 1 /\ UNCHANGED presses
         \/ d <= c /\ Loss
  BY RebootSteps, RebootingSize DEF RebootStep, Loss
<1> HIDE DEF c, d
<1>5. /\ lost' \in Nat /\ presses' \in 0 .. MaxPresses
      /\ d <= presses' /\ lost' + d <= MaxLosses + presses'
  <2>1. /\ MaxPresses \in Nat /\ MaxLosses \in Nat
        /\ lost \in Nat /\ presses \in 0 .. MaxPresses
        /\ c <= presses /\ lost + c <= MaxLosses + presses
    BY DEF Counts, c
  <2> QED
    BY <1>3, <1>4, <2>1 DEF Loss
<1> QED
  BY <1>1, <1>2, <1>5 DEF Counts, d

\* Nothing is counted yet.
LEMMA CountsInit == Init => Counts
<1> SUFFICES ASSUME Init
             PROVE  Counts
  OBVIOUS
<1>1. Rebooting = {} /\ live = {}
  BY IdleType DEF Init, Rebooting, Busy
<1>2. Cardinality({}) = 0
  BY FS_EmptySet
<1> QED
  BY <1>1, <1>2 DEF Init, Counts

\* The counters stay in bounds for ever.
LEMMA CountsHold == Spec => []Counts
BY CountsInit, CountsStep, IInvHolds, PTL DEF Spec

(***************************************************************************)
(* TypeOK: among the rest, no task waits twice for the lock and a reboot   *)
(* costs the switch its sessions at most once.                             *)
(***************************************************************************)
THEOREM TypeCorrect == Spec => []TypeOK
<1>1. IInv /\ LockOk /\ Counts => TypeOK
  <2> SUFFICES ASSUME IInv, LockOk, Counts
               PROVE  TypeOK
    OBVIOUS
  <2>1. queue \in Seq(Tasks) /\ Len(queue) <= Cardinality(Tasks)
    BY LineLength DEF LockOk, LineUp, InLine
  <2>2. lost \in 0 .. MaxLosses + MaxPresses
    <3>1. Cardinality(Rebooting) \in Nat
      BY RebootingSize
    <3> QED
      BY <3>1 DEF Counts
  <2> QED
    BY <2>1, <2>2 DEF IInv, Types, Counts, TypeOK
<1> QED
  BY <1>1, IInvHolds, LockHolds, CountsHold, PTL

-----------------------------------------------------------------------------
(***************************************************************************)
(* The logins that are due.  Whoever logs in, is going to, or has a        *)
(* request out with a session that is gone owes the switch one; while the  *)
(* session in use (or the one in the classic driver's jar) is gone, every  *)
(* task may come to owe one; and if there is none and nobody is about to   *)
(* get one, the next task to come will.                                    *)
(***************************************************************************)
N == Cardinality(Tasks)
Owes(r) ==
    \/ r.pc \in {"login", "relogin", "drop"}
    \/ r.pc = "sent" /\ r.sid \notin live
Owing == {t \in Tasks : Owes(task[t])}
AllOwe == Gone(held) \/ Gone(jar)
Nobody == held = None /\ \A t \in Tasks : task[t].pc # "login"

Due ==
    IF AllOwe
      THEN N
      ELSE Cardinality(Owing) + (IF Nobody /\ Owing # Tasks THEN 1 ELSE 0)

\* The logout will lose one more session, so its share is kept back
Kept == IF entry = "logout" THEN N ELSE 0
Losses == lost + (IF entry = "loaded" THEN 0 ELSE 1)

Budget == granted + Due + Kept <= 1 + Losses * N + faults

BudgetOk ==
    driver # "v2" => Budget /\ (driver # "base" => jar = None)

\* How many tasks there are.
LEMMA NType == N \in Nat
BY FS_CardinalityType DEF N

\* Who owes is one of the tasks.
LEMMA OwingSize ==
    /\ IsFiniteSet(Owing) /\ Cardinality(Owing) \in 0 .. N
    /\ Cardinality(Owing) = N <=> Owing = Tasks
<1>1. Owing \in SUBSET Tasks
  BY DEF Owing
<1> QED
  BY <1>1, NType, FS_Subset, FS_CardinalityType DEF N

\* No more logins are due than there are tasks.
LEMMA DueType == Due \in 0 .. N
BY OwingSize, NType DEF Due

\* Nor in the next state.
LEMMA DueNext == Due' \in 0 .. N
<1>1. (Due \in 0 .. N)'
  BY DueType, PTL
<1> QED
  BY <1>1

(***************************************************************************)
(* The ways in which one task's step changes what is due.                  *)
(***************************************************************************)
\* Only t moves, and nothing is lost
Moved(t) ==
    /\ \A u \in Tasks :
          u # t => task'[u].pc = task[u].pc /\ task'[u].sid = task[u].sid
    /\ live \subseteq live'
    /\ AllOwe' => AllOwe

\* How many owe one when t moves.
LEMMA OwingMoved ==
    ASSUME NEW t \in Tasks, Moved(t)
    PROVE  /\ Cardinality(Owing') \in 0 .. N
           /\ Owes(task[t]) \/ ~Owes(task[t])' =>
                /\ Owing' \subseteq Owing
                /\ Cardinality(Owing') <= Cardinality(Owing)
           /\ Owes(task[t]) /\ ~Owes(task[t])' =>
                Owing' # Tasks /\ Cardinality(Owing') <= Cardinality(Owing) - 1
           /\ Cardinality(Owing') <= Cardinality(Owing) + 1
           /\ Owes(task[t])' => t \in Owing'
<1>1. /\ Owing' \subseteq Owing \union {t}
      /\ Owing' \in SUBSET Tasks /\ IsFiniteSet(Owing')
      /\ Cardinality(Owing') \in 0 .. N
  <2>1. Owing' \subseteq Owing \union {t}
    BY DEF Moved, Owing, Owes
  <2>2. Owing' \in SUBSET Tasks
    BY DEF Owing
  <2>3. IsFiniteSet(Owing') /\ Cardinality(Owing') \in 0 .. N
    BY <2>2, NType, FS_Subset, FS_CardinalityType DEF N
  <2> QED
    BY <2>1, <2>2, <2>3
<1>2. Cardinality(Owing') <= Cardinality(Owing) + 1
  <2> DEFINE S == Owing \union {t}
  <2>1. /\ IsFiniteSet(S)
        /\ Cardinality(S) \in {Cardinality(Owing), Cardinality(Owing) + 1}
    BY OwingSize, FS_AddElement
  <2> HIDE DEF S
  <2>2. Cardinality(Owing') <= Cardinality(S)
    BY <1>1, <2>1, FS_Subset DEF S
  <2> QED
    BY <1>1, <2>1, <2>2, OwingSize
<1>3. ASSUME Owes(task[t]) \/ ~Owes(task[t])'
      PROVE  /\ Owing' \subseteq Owing
             /\ Cardinality(Owing') <= Cardinality(Owing)
  <2>1. Owing' \subseteq Owing
    BY <1>1, <1>3 DEF Owing
  <2> QED
    BY <2>1, OwingSize, FS_Subset
<1>4. ASSUME Owes(task[t]), ~Owes(task[t])'
      PROVE  Owing' # Tasks /\ Cardinality(Owing') <= Cardinality(Owing) - 1
  <2> DEFINE S == Owing \ {t}
  <2>1. t \in Owing /\ t \notin Owing' /\ Owing' \subseteq S
    BY <1>1, <1>4 DEF Owing
  <2>2. IsFiniteSet(S) /\ Cardinality(S) = Cardinality(Owing) - 1
    BY <2>1, OwingSize, FS_RemoveElement
  <2> HIDE DEF S
  <2>3. Cardinality(Owing') <= Cardinality(S)
    BY <2>1, <2>2, FS_Subset
  <2> QED
    BY <2>1, <2>2, <2>3
<1>5. Owes(task[t])' => t \in Owing'
  BY DEF Owing
<1> QED
  BY <1>1, <1>2, <1>3, <1>4, <1>5

\* t moves on: it owes no more than before, or has taken up what was due.
LEMMA DueKept ==
    ASSUME NEW t \in Tasks, Moved(t),
           \/ AllOwe
           \/ /\ Owes(task[t])' => Owes(task[t])
              /\ Nobody' => Nobody \/ (Owes(task[t]) /\ ~Owes(task[t])')
           \/ Nobody /\ ~Nobody' /\ ~Owes(task[t])
    PROVE  Due' <= Due
<1>1. Due \in 0 .. N /\ Due' \in 0 .. N
  BY DueType, DueNext
<1>2. CASE AllOwe
  <2>1. Due = N
    BY <1>2 DEF Due
  <2> QED
    BY <1>1, <2>1, NType
<1>3. CASE ~AllOwe
  <2> DEFINE c == Cardinality(Owing)
             d == Cardinality(Owing')
             z == IF Nobody /\ Owing # Tasks THEN 1 ELSE 0
             y == IF Nobody' /\ Owing' # Tasks THEN 1 ELSE 0
  <2>1. Due = c + z /\ Due' = d + y
    BY <1>3 DEF Due, Moved, N
  <2>2. c \in 0 .. N /\ d \in 0 .. N /\ N \in Nat
    BY OwingSize, OwingMoved, NType
  <2>3. CASE /\ Owes(task[t])' => Owes(task[t])
             /\ Owes(task[t]) /\ ~Owes(task[t])'
    <3>1. d <= c - 1
      BY <2>3, OwingMoved
    <3> HIDE DEF c, d
    <3> QED
      BY <2>1, <2>2, <3>1
  <2>4. CASE /\ Owes(task[t])' => Owes(task[t])
             /\ Nobody' => Nobody
    <3>1. Owing' \subseteq Owing /\ d <= c
      BY <2>4, OwingMoved
    <3>2. CASE y = 1 /\ z = 0
      <4>1. Owing = Tasks /\ Owing' # Tasks
        BY <2>4, <3>2
      <4>2. c = N /\ d < N
        <5>1. Owing' \in SUBSET Tasks
          BY DEF Owing
        <5>2. Cardinality(Owing') # N
          BY <4>1, <5>1, FS_Subset DEF N
        <5> QED
          BY <2>2, <4>1, <5>2, OwingSize
      <4> HIDE DEF c, d
      <4> QED
        BY <2>1, <2>2, <3>2, <4>2
    <3>3. CASE ~(y = 1 /\ z = 0)
      <4> HIDE DEF c, d
      <4> QED
        BY <2>1, <2>2, <3>1, <3>3
    <3> QED
      BY <3>2, <3>3
  <2>5. CASE Nobody /\ ~Nobody' /\ ~Owes(task[t])
    <3>1. t \notin Owing /\ z = 1 /\ y = 0 /\ d <= c + 1
      BY <2>5, OwingMoved DEF Owing
    <3> HIDE DEF c, d
    <3> QED
      BY <2>1, <2>2, <3>1
  <2> QED
    BY <1>3, <2>3, <2>4, <2>5
<1> QED
  BY <1>2, <1>3

\* A request goes unanswered: at most one more is due.
LEMMA DueFault ==
    ASSUME NEW t \in Tasks, Moved(t), ~Owes(task[t])'
    PROVE  Due' <= Due + 1
<1>1. Due \in 0 .. N /\ Due' \in 0 .. N
  BY DueType, DueNext
<1>2. CASE AllOwe
  <2>1. Due = N
    BY <1>2 DEF Due
  <2> QED
    BY <1>1, <2>1, NType
<1>3. CASE ~AllOwe
  <2> DEFINE c == Cardinality(Owing)
             d == Cardinality(Owing')
             z == IF Nobody /\ Owing # Tasks THEN 1 ELSE 0
             y == IF Nobody' /\ Owing' # Tasks THEN 1 ELSE 0
  <2>1. Due = c + z /\ Due' = d + y
    BY <1>3 DEF Due, Moved, N
  <2>2. c \in 0 .. N /\ d \in 0 .. N /\ d <= c
    BY OwingSize, OwingMoved
  <2> HIDE DEF c, d
  <2> QED
    BY <2>1, <2>2, NType
<1> QED
  BY <1>2, <1>3

\* A login is granted: one less is due.
LEMMA DueGranted ==
    ASSUME NEW t \in Tasks, Moved(t), Owes(task[t]), ~Owes(task[t])',
           ~AllOwe', ~Nobody'
    PROVE  Due' + 1 <= Due
<1> DEFINE c == Cardinality(Owing)
           d == Cardinality(Owing')
<1>1. c \in 0 .. N /\ d \in 0 .. N /\ d <= c - 1
  BY OwingSize, OwingMoved
<1>2. Due' = d
  BY <1>1, NType DEF Due
<1>3. c <= Due
  BY <1>1, NType DEF Due
<1> HIDE DEF c, d
<1>4. Due \in 0 .. N
  BY DueType
<1> QED
  BY <1>1, <1>2, <1>3, <1>4, NType

\* t moves through the lock.
LEMMA DueMoves ==
    ASSUME IInv, LockOk', NEW t \in Tasks, NEW r, NEW s \in {held, None},
           NEW r2, Moves(t, r, s, r2), r.pc \in Waiting, task[t].pc # "login",
           r.pc # "enter" \/ s # held => Owes(task[t]),
           r.pc # "enter" => s = held,
           UNCHANGED <<jar, live>>
    PROVE  Due' <= Due
<1>1. /\ task'[t] = r2
      /\ \A u \in Tasks : u # t => task'[u] = task[u]
      /\ held' \in {held, None}
  BY DEF Moves, IInv, Types
<1>2. Moved(t)
  BY <1>1 DEF Moved, AllOwe, Gone
<1>3. CASE r2.pc = "login" /\ held' = None
  <2>1. Owes(task[t])' /\ ~Nobody'
    BY <1>1, <1>3 DEF Owes, Nobody
  <2>2. CASE Owes(task[t])
    BY <1>2, <2>1, <2>2, DueKept
  <2>3. CASE ~Owes(task[t])
    <3>1. held = None
      BY <1>3, <2>3 DEF Moves, Waiting
    <3>2. ASSUME NEW u \in Tasks, u # t, task[u].pc = "login"
          PROVE  FALSE
      BY <1>1, <1>3, <3>2 DEF LockOk
    <3>3. Nobody
      BY <3>1, <3>2 DEF Nobody
    <3> QED
      BY <1>2, <2>1, <2>3, <3>3, DueKept
  <2> QED
    BY <2>2, <2>3
<1>4. CASE r2.pc = "sent" /\ r2.sid = s /\ s # None /\ held' = s
  <2>1. ~Nobody' /\ held = s
    BY <1>4 DEF Nobody
  <2>2. Owes(task[t])' => AllOwe
    BY <1>1, <1>4, <2>1 DEF Owes, AllOwe, Gone
  <2> QED
    BY <1>2, <2>1, <2>2, DueKept
<1>5. CASE r2.pc = r.pc /\ held' = s
  <2>1. Owes(task[t])' => Owes(task[t])
    BY <1>1, <1>5 DEF Owes, Waiting
  <2>2. CASE s = held
    <3>1. Nobody' => Nobody
      BY <1>1, <1>5, <2>2 DEF Nobody
    <3> QED
      BY <1>2, <2>1, <3>1, DueKept
  <2>3. CASE s # held
    <3>1. ~Owes(task[t])'
      BY <1>1, <1>5, <2>3 DEF Owes
    <3> QED
      BY <1>2, <2>1, <2>3, <3>1, DueKept
  <2> QED
    BY <2>2, <2>3
<1>6. CASE r2.pc = "enter" /\ r.pc = "drop" /\ held' = None
  <2>1. Owes(task[t]) /\ ~Owes(task[t])'
    BY <1>1, <1>6 DEF Owes
  <2> QED
    BY <1>2, <2>1, DueKept
<1> QED
  BY <1>3, <1>4, <1>5, <1>6 DEF Moves

\* The last of the ways through the lock: the driver's jar is not touched.
LEMMA RequestDue ==
    ASSUME IInv, LockOk', NEW t \in Tasks, NEW r \in TaskStates,
           NEW s \in {held, None}, Request(t, r, s), task[t].pc # "login",
           s # held => Owes(task[t]), live' = live
    PROVE  Due' <= Due /\ jar' = jar
<1>1. Types /\ s \in Maybe
  BY DEF IInv, Types, Maybe
<1> DEFINE e == [r EXCEPT !.pc = "enter"]
<1>2. e.pc = "enter"
  BY DEF TaskStates
<1>3. PICK r2 \in TaskStates : Moves(t, e, s, r2)
  BY <1>1, RequestMoves
<1>4. jar' = jar
  BY DEF Request, Want, Hold, BeginLogin
<1> HIDE DEF e
<1> QED
  BY <1>2, <1>3, <1>4, DueMoves DEF Waiting

\* The lock is asked for, or given.
LEMMA LockDue ==
    ASSUME IInv, LockOk', NEW t \in Tasks, NEW r \in Asks,
           \/ Want(t, r, held)
           \/ Hold(t, r, held, queue),
           task[t].pc # "login", r.pc # "enter" => Owes(task[t]), live' = live
    PROVE  Due' <= Due /\ jar' = jar
<1>1. Types /\ held \in Maybe
  BY DEF IInv, Types, Maybe
<1>2. PICK r2 \in TaskStates : Moves(t, r, held, r2)
  BY <1>1, WantMoves, HoldMoves
<1>3. jar' = jar
  BY DEF Want, Hold, BeginLogin
<1> QED
  BY <1>2, <1>3, DueMoves DEF Asks

(***************************************************************************)
(* The budget: granted and due logins never exceed it.                     *)
(***************************************************************************)
\* Granted and due logins grow by no more than the requests that failed
Calm ==
    /\ granted' + Due' <= granted + Due + (faults' - faults)
    /\ UNCHANGED <<lost, entry>>

\* A loss of sessions, which may be one of the logout's
Lossy ==
    /\ granted' = granted
    /\ faults' >= faults
    /\ \/ lost' = lost + 1 /\ UNCHANGED entry
       \/ UNCHANGED lost /\ entry = "loaded" /\ entry' = "unloaded"
       \/ /\ UNCHANGED lost /\ entry = "loaded" /\ entry' = "logout"
          /\ Due' <= Due
       \/ UNCHANGED lost /\ entry = "logout" /\ entry' = "unloaded"

\* One loss more costs every task a login.
LEMMA Times ==
    ASSUME NEW l \in Nat, NEW n \in Nat
    PROVE  l * n \in Nat /\ (l + 1) * n = l * n + n
OBVIOUS

\* Steps of either sort keep the budget.
LEMMA BudgetKept ==
    ASSUME Types, Types', Counts, Counts', Budget, Calm \/ Lossy
    PROVE  Budget'
<1>1. /\ granted \in Nat /\ granted' \in Nat
      /\ faults \in Nat /\ faults' \in Nat
      /\ N \in Nat /\ Due \in 0 .. N /\ Due' \in 0 .. N /\ N' = N
  BY DueType, DueNext, NType DEF Types, Counts, N
<1>2. /\ Losses \in Nat /\ Kept \in {0, N}
      /\ \/ Calm /\ Losses' = Losses /\ Kept' = Kept
         \/ Lossy /\ Losses' = Losses + 1 /\ Kept' = Kept
         \/ /\ Lossy /\ Losses' = Losses + 1
            /\ Kept = 0 /\ Kept' = N /\ Due' <= Due
         \/ Lossy /\ Losses' = Losses /\ Kept = N /\ Kept' = 0
  <2> DEFINE a == IF entry = "loaded" THEN 0 ELSE 1
             b == IF entry' = "loaded" THEN 0 ELSE 1
  <2>1. Losses = lost + a /\ Losses' = lost' + b
    BY DEF Losses
  <2>2. lost \in Nat /\ a \in {0, 1} /\ b \in {0, 1}
    BY DEF Counts
  <2>3. Kept \in {0, N}
    BY DEF Kept
  <2>4. CASE Calm
    <3>1. a = b /\ lost' = lost /\ Kept' = Kept
      BY <1>1, <2>4 DEF Calm, Kept
    <3> HIDE DEF a, b
    <3> QED
      BY <2>1, <2>2, <2>3, <2>4, <3>1
  <2>5. CASE Lossy
    <3>1. CASE lost' = lost + 1 /\ UNCHANGED entry
      <4>1. a = b /\ Kept' = Kept
        BY <1>1, <3>1 DEF Kept
      <4> HIDE DEF a, b
      <4> QED
        BY <2>1, <2>2, <2>3, <2>5, <3>1, <4>1
    <3>2. CASE UNCHANGED lost /\ entry = "loaded" /\ entry' = "unloaded"
      <4>1. a = 0 /\ b = 1 /\ Kept' = Kept
        BY <1>1, <3>2 DEF Kept
      <4> HIDE DEF a, b
      <4> QED
        BY <2>1, <2>2, <2>3, <2>5, <3>2, <4>1
    <3>3. CASE /\ UNCHANGED lost /\ entry = "loaded" /\ entry' = "logout"
               /\ Due' <= Due
      <4>1. a = 0 /\ b = 1 /\ Kept = 0 /\ Kept' = N
        BY <1>1, <3>3 DEF Kept
      <4> HIDE DEF a, b
      <4> QED
        BY <2>1, <2>2, <2>3, <2>5, <3>3, <4>1
    <3>4. CASE UNCHANGED lost /\ entry = "logout" /\ entry' = "unloaded"
      <4>1. a = 1 /\ b = 1 /\ Kept = N /\ Kept' = 0
        BY <1>1, <3>4 DEF Kept
      <4> HIDE DEF a, b
      <4> QED
        BY <2>1, <2>2, <2>3, <2>5, <3>4, <4>1
    <3> QED
      BY <2>5, <3>1, <3>2, <3>3, <3>4 DEF Lossy
  <2> QED
    BY <2>4, <2>5
<1>3. Losses * N \in Nat /\ (Losses + 1) * N = Losses * N + N
  BY <1>1, <1>2, Times
<1> DEFINE p == Losses * N
<1>4. granted + Due + Kept <= 1 + p + faults
  BY DEF Budget
<1>5. p \in Nat /\ Due \in Nat /\ Due' \in Nat /\ Due' <= N /\ Kept \in Nat
  BY <1>1, <1>2, <1>3
<1>6. SUFFICES granted' + Due' + Kept' <= 1 + Losses' * N + faults'
  BY <1>1 DEF Budget
<1>7. /\ granted' + Due' <= granted + Due + (faults' - faults) =>
           granted' + Due' + Kept <= 1 + p + faults'
      /\ granted' = granted /\ faults' >= faults =>
           /\ granted' + Due' + Kept <= 1 + (p + N) + faults'
           /\ Kept = 0 /\ Due' <= Due =>
                granted' + Due' + N <= 1 + (p + N) + faults'
           /\ Kept = N => granted' + Due' + 0 <= 1 + p + faults'
  <2> DEFINE d == Due
             e == Due'
             g == granted
             h == granted'
             k == Kept
             f == faults
             i == faults'
             n == N
  <2>1. /\ g + d + k <= 1 + p + f /\ e <= n
        /\ {g, h, d, e, k, f, i, n, p} \subseteq Nat
    BY <1>1, <1>4, <1>5
  <2> HIDE DEF p, d, e, g, h, k, f, i, n
  <2>2. /\ h + e <= g + d + (i - f) => h + e + k <= 1 + p + i
        /\ h = g /\ i >= f =>
             /\ h + e + k <= 1 + (p + n) + i
             /\ k = 0 /\ e <= d => h + e + n <= 1 + (p + n) + i
             /\ k = n => h + e + 0 <= 1 + p + i
    BY <2>1
  <2> QED
    BY <2>2 DEF d, e, g, h, k, f, i, n
<1> QED
  BY <1>2, <1>3, <1>7 DEF Calm, Lossy

-----------------------------------------------------------------------------
(***************************************************************************)
(* Each step but a loss is calm.                                           *)
(***************************************************************************)
\* What a calm step does to the counters.
LEMMA CalmBy ==
    ASSUME Types, Types', Counts, Counts', UNCHANGED <<lost, entry>>,
           \/ UNCHANGED <<granted, faults>> /\ Due' <= Due
           \/ UNCHANGED granted /\ faults' = faults + 1 /\ Due' <= Due + 1
           \/ granted' = granted + 1 /\ UNCHANGED faults /\ Due' + 1 <= Due
           \/ granted' = granted + 1 /\ faults' = faults + 1 /\ Due' <= Due
    PROVE  Calm
<1> DEFINE d == Due
           e == Due'
           g == granted
           h == granted'
           f == faults
           i == faults'
<1>1. {d, e, g, h, f, i} \subseteq Nat
  BY DueType, DueNext, NType DEF Types, Counts
<1>2. \/ h = g /\ i = f /\ e <= d
      \/ h = g /\ i = f + 1 /\ e <= d + 1
      \/ h = g + 1 /\ i = f /\ e + 1 <= d
      \/ h = g + 1 /\ i = f + 1 /\ e <= d
  OBVIOUS
<1> HIDE DEF d, e, g, h, f, i
<1>3. h + e <= g + d + (i - f)
  BY <1>1, <1>2
<1> QED
  BY <1>3 DEF Calm, d, e, g, h, f, i

\* A task begins, or is given the lock.
LEMMA StartDue ==
    ASSUME IInv, LockOk', NEW t \in Tasks,
           (\E kind \in Kinds : Start(t, kind)) \/ LockFreed(t)
    PROVE  Due' <= Due /\ UNCHANGED <<granted, faults, lost, entry, jar>>
<1>1. CASE \E kind \in Kinds : Start(t, kind)
  <2>1. PICK kind \in Kinds : Start(t, kind)
    BY <1>1
  <2>2. /\ Request(t, Fresh(kind), held) /\ task[t].pc = "idle"
        /\ UNCHANGED <<live, granted, faults, lost, entry>>
    BY <2>1 DEF Start, Busy, unload
  <2> QED
    BY <2>2, FreshType, RequestDue
<1>2. CASE LockFreed(t)
  <2>1. /\ task[t].pc \in Waiting /\ Hold(t, task[t], held, queue)
        /\ UNCHANGED <<live, granted, faults, lost, entry>>
    BY <1>2 DEF LockFreed, unload, used
  <2>2. task[t] \in Asks
    BY <2>1 DEF IInv, Types, Asks
  <2>3. task[t].pc # "enter" => Owes(task[t])
    BY <2>1 DEF Waiting, Owes
  <2>4. task[t].pc # "login"
    BY <2>1 DEF Waiting
  <2> QED
    BY <2>1, <2>2, <2>3, <2>4, LockDue
<1> QED
  BY <1>1, <1>2

\* An answered request: it ends, or goes on with the session there is.
LEMMA AnsweredDue ==
    ASSUME IInv, LockOk', NEW t \in Tasks, driver # "v2",
           Accepted(t) \/ EditRead(t)
    PROVE  Due' <= Due /\ UNCHANGED <<granted, faults, lost, entry, jar>>
<1>1. CASE Accepted(t)
  <2>1. /\ task[t].pc = "sent" /\ task[t].sid \in live
        /\ task' = [task EXCEPT ![t] = Idle]
        /\ UNCHANGED <<live, held, granted, faults, lost, entry, jar>>
    BY <1>1 DEF Accepted, Valid, End, credentials, unload, used
  <2>2. /\ task'[t] = Idle /\ Idle.pc = "idle"
        /\ \A u \in Tasks : u # t => task'[u] = task[u]
    BY <2>1, IdleType DEF IInv, Types
  <2>3. Moved(t)
    BY <2>1, <2>2 DEF Moved, AllOwe, Gone
  <2>4. ~Owes(task[t])' /\ (Nobody' => Nobody)
    BY <2>1, <2>2 DEF Owes, Nobody
  <2> QED
    BY <2>1, <2>3, <2>4, DueKept
<1>2. CASE EditRead(t)
  <2> DEFINE w == [task[t] EXCEPT !.kind = "write", !.again = FALSE,
                                  !.token = xsrf]
  <2>1. /\ task[t].pc = "sent" /\ Request(t, w, held)
        /\ UNCHANGED <<live, granted, faults, lost, entry>>
    BY <1>2 DEF EditRead, unload, used
  <2>2. w \in TaskStates
    BY DEF IInv, Types, TaskStates, Kinds
  <2> HIDE DEF w
  <2> QED
    BY <2>1, <2>2, RequestDue
<1> QED
  BY <1>1, <1>2

\* A request ends that owed the switch a login, and forgets the session or not.
LEMMA OwedDue ==
    ASSUME Types, NEW t \in Tasks, NEW r \in {Idle, Failed}, Goes(t, r),
           Owes(task[t]), held' \in {held, None}, live \subseteq live',
           jar' = jar \/ jar' \in live'
    PROVE  Moved(t) /\ ~Owes(task[t])' /\ Due' <= Due
<1>1. /\ task'[t] = r /\ r.pc = "idle"
      /\ \A u \in Tasks : u # t => task'[u] = task[u]
  BY IdleType DEF Types, Goes
<1>2. Moved(t)
  BY <1>1 DEF Moved, AllOwe, Gone
<1>3. ~Owes(task[t])'
  BY <1>1 DEF Owes
<1> QED
  BY <1>2, <1>3, DueKept

\* A rejected request, or an empty table.
LEMMA RejectedDue ==
    ASSUME IInv, LockOk', NEW t \in Tasks, driver # "v2",
           Rejected(t) \/ EmptyTable(t)
    PROVE  Due' <= Due /\ UNCHANGED <<granted, faults, lost, entry, jar>>
<1> DEFINE a == [task[t] EXCEPT !.again = TRUE]
           l == [task[t] EXCEPT !.pc = "relogin", !.again = TRUE]
           b == [task[t] EXCEPT !.kind = "retable", !.again = FALSE]
           d == [b EXCEPT !.pc = "drop"]
<1>1. /\ task[t].pc = "sent" /\ task[t].sid \notin live
      /\ UNCHANGED <<live, granted, faults, lost, entry>>
  BY DEF Rejected, EmptyTable, Valid, unload, used
<1>2. Owes(task[t])
  BY <1>1 DEF Owes
<1>3. \/ Request(t, a, None) \/ Request(t, b, None)
      \/ Want(t, l, held) \/ Want(t, d, held)
      \/ \E r \in {Idle, Failed} :
            Goes(t, r) /\ held' \in {held, None} /\ jar' = jar
  BY DEF Rejected, RejectedOnce, RejectedTwice, RebootRejected, Rejection,
         EmptyTable, End, Goes, credentials
<1>4. a \in TaskStates /\ b \in TaskStates
  BY DEF IInv, Types, TaskStates, Kinds
<1>5. l \in Asks /\ d \in Asks
  BY <1>4 DEF IInv, Types, TaskStates, Asks, Pcs, Waiting
<1> HIDE DEF a, l, b, d
<1>6. ASSUME NEW r \in {a, b}, Request(t, r, None)
      PROVE  Due' <= Due /\ jar' = jar
  BY <1>1, <1>2, <1>4, <1>6, RequestDue
<1>7. ASSUME NEW r \in {l, d}, Want(t, r, held)
      PROVE  Due' <= Due /\ jar' = jar
  BY <1>1, <1>2, <1>5, <1>7, LockDue
<1>8. ASSUME NEW r \in {Idle, Failed}, Goes(t, r), held' \in {held, None},
             jar' = jar
      PROVE  Due' <= Due /\ jar' = jar
  BY <1>1, <1>2, <1>8, OwedDue DEF IInv
<1> QED
  BY <1>1, <1>3, <1>6, <1>7, <1>8

\* A login that the switch refuses.
LEMMA RefusedDue ==
    ASSUME IInv, NEW t \in Tasks, LoginRefused(t)
    PROVE  /\ UNCHANGED <<lost, entry, jar>>
           /\ \/ UNCHANGED <<granted, faults>> /\ Due' <= Due
              \/ UNCHANGED granted /\ faults' = faults + 1 /\ Due' <= Due + 1
              \/ granted' = granted + 1 /\ faults' = faults + 1 /\ Due' <= Due
<1>0. \/ UNCHANGED <<granted, faults>>
      \/ UNCHANGED granted /\ faults' = faults + 1
      \/ granted' = granted + 1 /\ faults' = faults + 1
  BY DEF LoginRefused, Grant, Fault, used
<1>1. /\ task[t].pc = "login" /\ held' = jar
      /\ live \subseteq live' /\ UNCHANGED <<lost, entry, jar>>
  BY DEF LoginRefused, Grant, Fault, unload, used
<1>2. /\ SawRefusal \in [Tasks -> TaskStates]
      /\ \A u \in Tasks : /\ SawRefusal[u].pc = task[u].pc
                          /\ SawRefusal[u].sid = task[u].sid
  BY DEF SawRefusal, IInv, Types, TaskStates
<1> DEFINE n == [SawRefusal[t] EXCEPT !.pc = "sent", !.sid = jar]
<1>3. PICK r \in {Idle, Failed, n} :
         /\ task' = [SawRefusal EXCEPT ![t] = r]
         /\ r.pc = "idle" \/ (r.pc = "sent" /\ r.sid = jar /\ jar # None)
  <2>1. n.pc = "sent" /\ n.sid = jar
    BY <1>2 DEF TaskStates
  <2> HIDE DEF n
  <2> QED
    BY <2>1, IdleType DEF LoginRefused, Rejection, n
<1> HIDE DEF n
<1>4. /\ task'[t] = r
      /\ \A u \in Tasks : u # t => task'[u].pc = task[u].pc
                                   /\ task'[u].sid = task[u].sid
  BY <1>2, <1>3
<1>5. Moved(t)
  BY <1>1, <1>4 DEF Moved, AllOwe, Gone
<1>6. Owes(task[t]) /\ (AllOwe \/ ~Owes(task[t])')
  BY <1>1, <1>3, <1>4 DEF Owes, AllOwe, Gone
<1>7. Due' <= Due
  BY <1>1, <1>5, <1>6, DueKept
<1>8. Due' <= Due + 1
  BY <1>7, DueType, DueNext, NType
<1> QED
  BY <1>0, <1>1, <1>7, <1>8

\* A login that the switch grants.
LEMMA GrantedDue ==
    ASSUME IInv, NEW t \in Tasks, driver # "v2", driver # "base" => jar = None,
           LoginGranted(t)
    PROVE  /\ Due' + 1 <= Due /\ granted' = granted + 1
           /\ UNCHANGED <<faults, lost, entry>>
           /\ driver # "base" => jar' = None
<1>1. /\ task[t].pc = "login" /\ granted' = granted + 1
      /\ live' = live \union {granted + 1}
      /\ jar' = IF driver = "base" THEN granted + 1 ELSE jar
      /\ Send(t, task[t], granted + 1, xsrf, Tail(queue))
      /\ UNCHANGED <<faults, lost, entry>>
  BY DEF LoginGranted, Grant, LoggedIn, unload, used
<1> DEFINE n == [task[t] EXCEPT !.pc = "sent", !.sid = granted + 1,
                   !.token = IF task[t].kind = "reboot" THEN xsrf ELSE @]
<1>2. /\ held' = granted + 1 /\ task' = [task EXCEPT ![t] = n]
      /\ n.pc = "sent" /\ n.sid = granted + 1
  BY <1>1 DEF Send, IInv, Types, TaskStates
<1> HIDE DEF n
<1>3. /\ task'[t] = n
      /\ \A u \in Tasks : u # t => task'[u] = task[u]
  BY <1>2 DEF IInv, Types
<1>4. granted + 1 # None
  BY DEF IInv, Types, None
<1>5. ~AllOwe' /\ ~Nobody'
  BY <1>1, <1>2, <1>4 DEF AllOwe, Gone, Nobody
<1>6. Moved(t)
  BY <1>1, <1>3, <1>5 DEF Moved
<1>7. Owes(task[t]) /\ ~Owes(task[t])'
  BY <1>1, <1>2, <1>3 DEF Owes
<1> QED
  BY <1>1, <1>5, <1>6, <1>7, DueGranted

\* A request of a task, or of its login, that goes unanswered.
LEMMA FaultDue ==
    ASSUME IInv, NEW t \in Tasks, driver # "base" => jar = None,
           Unanswered(t) \/ LoginFails(t)
    PROVE  /\ faults' = faults + 1 /\ UNCHANGED <<lost, entry>>
           /\ \/ UNCHANGED granted /\ Due' <= Due + 1
              \/ granted' = granted + 1 /\ Due' <= Due
           /\ driver # "base" => jar' = None
<1>1. Goes(t, Idle) /\ faults' = faults + 1 /\ UNCHANGED <<lost, entry>>
  BY DEF Unanswered, LoginFails, Fault, End, Goes, unload
<1>2. Types /\ Idle \in {Idle, Failed}
  BY DEF IInv
<1>3. CASE Unanswered(t)
  <2>1. held' \in {held, None} /\ UNCHANGED <<live, granted, jar>>
    BY <1>3 DEF Unanswered
  <2>2. /\ task'[t] = Idle /\ Idle.pc = "idle"
        /\ \A u \in Tasks : u # t => task'[u] = task[u]
    BY <1>1, <1>2, IdleType DEF Goes, Types
  <2>3. Moved(t)
    BY <2>1, <2>2 DEF Moved, AllOwe, Gone
  <2>4. ~Owes(task[t])'
    BY <2>2 DEF Owes
  <2> QED
    BY <1>1, <2>1, <2>3, <2>4, DueFault
<1>4. CASE LoginFails(t)
  <2>1. task[t].pc = "login" /\ held' = held
    BY <1>4 DEF LoginFails
  <2>2. \/ UNCHANGED <<live, granted, jar>>
        \/ /\ granted' = granted + 1 /\ live \subseteq live'
           /\ jar' = jar \/ (driver = "base" /\ jar' \in live')
    BY <1>4 DEF LoginFails, Grant
  <2>3. Owes(task[t])
    BY <2>1 DEF Owes
  <2>4. Due' <= Due
    BY <1>1, <1>2, <2>1, <2>2, <2>3, OwedDue
  <2>5. Due' <= Due + 1
    BY <2>4, DueType, DueNext, NType
  <2> QED
    BY <1>1, <2>2, <2>4, <2>5
<1> QED
  BY <1>3, <1>4

\* The steps in which sessions are lost, or may be.
LEMMA LossDue ==
    ASSUME IInv, Counts,
           \/ \E t \in Tasks : Rebooted(t)
           \/ \E s \in live : SessionLost(s)
           \/ Unload \/ LogoutDone
    PROVE  Lossy /\ jar' = jar
<1>1. CASE \E t \in Tasks : Rebooted(t)
  BY <1>1 DEF Rebooted, Lossy, unload, Counts
<1>2. CASE \E s \in live : SessionLost(s)
  BY <1>2 DEF SessionLost, Loss, Lossy, unload, credentials, Counts
<1>3. CASE Unload
  <2>1. CASE held' = held /\ entry' = "logout"
    <3>1. UNCHANGED <<live, held, jar, task>>
      BY <1>3, <2>1 DEF Unload
    <3>2. Due' = Due
      BY <3>1 DEF Due, AllOwe, Gone, Nobody, Owing, Owes, N
    <3>3. Due' <= Due
      BY <3>2, DueType, NType
    <3> QED
      BY <1>3, <2>1, <3>3 DEF Unload, Lossy, used, Counts
  <2>2. CASE entry' = "unloaded"
    BY <1>3, <2>2 DEF Unload, Lossy, used, Counts
  <2> QED
    BY <1>3, <2>1, <2>2 DEF Unload
<1>4. CASE LogoutDone
  BY <1>4 DEF LogoutDone, Lossy, Fault, used, Counts
<1> QED
  BY <1>1, <1>2, <1>3, <1>4

\* Nothing happens.
LEMMA SameDue ==
    ASSUME UNCHANGED vars
    PROVE  Due' <= Due /\ UNCHANGED <<granted, faults, lost, entry, jar>>
<1>1. UNCHANGED <<live, held, jar, task, granted, faults, lost, entry>>
  BY DEF vars, credentials, unload, used
<1>2. Due' = Due
  BY <1>1 DEF Due, AllOwe, Gone, Nobody, Owing, Owes, N
<1> QED
  BY <1>1, <1>2, DueType, NType

\* Every step keeps the budget.
LEMMA BudgetStep ==
    ASSUME IInv, IInv', LockOk', Counts, Counts', BudgetOk, [Next]_vars
    PROVE  BudgetOk'
<1> SUFFICES ASSUME driver # "v2"
             PROVE  Budget' /\ (driver # "base" => jar' = None)
  <2>1. driver' = driver
    BY DEF Next, TaskStep, Start, LockFreed, Accepted, EditRead, Rebooted,
           Rejected, EmptyTable, Unanswered, LoginGranted, LoginRefused,
           LoginFails, HomeRead, AcceptedRotating, SessionLost, Unload,
           LogoutDone, vars
  <2> QED
    BY <2>1 DEF BudgetOk
<1>1. Types /\ Types' /\ Budget /\ (driver # "base" => jar = None)
  BY DEF IInv, BudgetOk
<1>2. ASSUME NEW t \in Tasks, NEW kind \in Kinds, Start(t, kind)
      PROVE  Calm /\ jar' = jar
  BY <1>1, <1>2, StartDue, CalmBy
<1>3. ASSUME NEW t \in Tasks, TaskStep(t)
      PROVE  (Calm \/ Lossy) /\ (driver # "base" => jar' = None)
  <2>1. ~HomeRead(t) /\ ~AcceptedRotating(t)
    BY DEF HomeRead, AcceptedRotating, IInv, Busy, Explained
  <2>2. CASE LockFreed(t)
    BY <1>1, <2>2, StartDue, CalmBy
  <2>3. CASE Accepted(t) \/ EditRead(t)
    BY <1>1, <2>3, AnsweredDue, CalmBy
  <2>4. CASE Rejected(t) \/ EmptyTable(t)
    BY <1>1, <2>4, RejectedDue, CalmBy
  <2>5. CASE LoginRefused(t)
    BY <1>1, <2>5, RefusedDue, CalmBy
  <2>6. CASE LoginGranted(t)
    BY <1>1, <2>6, GrantedDue, CalmBy
  <2>7. CASE Unanswered(t) \/ LoginFails(t)
    BY <1>1, <2>7, FaultDue, CalmBy
  <2>8. CASE Rebooted(t)
    BY <1>1, <2>8, LossDue
  <2> QED
    BY <1>3, <2>1, <2>2, <2>3, <2>4, <2>5, <2>6, <2>7, <2>8 DEF TaskStep
<1>4. CASE (\E s \in live : SessionLost(s)) \/ Unload \/ LogoutDone
  <2>1. Lossy /\ jar' = jar
    BY <1>4, LossDue
  <2> QED
    BY <1>1, <2>1, BudgetKept
<1>5. CASE UNCHANGED vars
  <2>1. Calm /\ jar' = jar
    BY <1>1, <1>5, SameDue, CalmBy
  <2> QED
    BY <1>1, <2>1, BudgetKept
<1> QED
  BY <1>1, <1>2, <1>3, <1>4, <1>5, BudgetKept DEF Next

\* One login is due: the first.
LEMMA BudgetInit == Init => BudgetOk
<1> SUFFICES ASSUME Init
             PROVE  Budget /\ jar = None
  BY DEF BudgetOk
<1>1. /\ granted = 0 /\ lost = 0 /\ faults = 0 /\ entry = "loaded"
      /\ held = None /\ jar = None
      /\ \A t \in Tasks : task[t].pc = "idle"
  BY IdleType DEF Init
<1>2. Owing = {} /\ ~AllOwe
  BY <1>1 DEF Owing, Owes, AllOwe, Gone
<1>3. Cardinality({}) = 0
  BY FS_EmptySet
<1>4. Due \in {0, 1}
  BY <1>2, <1>3 DEF Due
<1>5. Kept = 0 /\ Losses = 0
  BY <1>1 DEF Kept, Losses
<1>6. 0 * N = 0
  BY NType
<1> QED
  BY <1>1, <1>4, <1>5, <1>6 DEF Budget

\* The budget is kept for ever.
LEMMA BudgetHolds == Spec => []BudgetOk
BY BudgetInit, BudgetStep, IInvHolds, LockHolds, CountsHold, PTL DEF Spec

(***************************************************************************)
(* LoginsBounded: the driver logs in once, again at most once per task for *)
(* each loss of sessions, its own logout included, and once more after a   *)
(* request that went unanswered, however tasks, reboots and the unloading  *)
(* entry take turns: no interleaving makes the drivers throw each other's  *)
(* sessions away and fill the switch's slots.                              *)
(***************************************************************************)
THEOREM LoginsAreBounded == Spec => []LoginsBounded
<1>1. IInv /\ Counts /\ BudgetOk => LoginsBounded
  <2> SUFFICES ASSUME IInv, Counts, Budget
               PROVE  granted <= 1 + Losses * N + faults
    BY DEF BudgetOk, LoginsBounded, Losses, N
  <2>1. granted + Due + Kept <= 1 + Losses * N + faults
    BY DEF Budget
  <2>2. Due \in Nat /\ Kept \in Nat /\ granted \in Nat /\ faults \in Nat
    BY DueType, NType DEF Kept, IInv, Types, Counts
  <2>3. Losses * N \in Nat
    <3>1. Losses \in Nat
      BY DEF Losses, Counts
    <3> QED
      BY <3>1, NType, Times
  <2> DEFINE p == Losses * N
             d == Due
             k == Kept
  <2> HIDE DEF p, d, k
  <2>4. granted + d + k <= 1 + p + faults /\ {p, d, k} \subseteq Nat
    BY <2>1, <2>2, <2>3 DEF p, d, k
  <2>5. granted <= 1 + p + faults
    BY <2>2, <2>4
  <2> QED
    BY <2>5 DEF p
<1> QED
  BY <1>1, IInvHolds, CountsHold, BudgetHolds, PTL
=============================================================================
