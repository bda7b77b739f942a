----------------------------- MODULE HTTPHandler -----------------------------
(***************************************************************************)
(* The HTTP half of a connection: it is accepted, its first request is     *)
(* read, and it is upgraded to WebSocket, or answered and closed.          *)
(*                                                                         *)
(* One HTTPHandler object serves every connection (NIOHttpServer holds it  *)
(* in a constant and adds it to each child pipeline), so responseBody is   *)
(* one variable for the whole server: whichever connection is added last   *)
(* sets it, whichever is removed last clears it.                           *)
(***************************************************************************)
EXTENDS ConnectedChannels

CONSTANT Requests    \* kinds of first request peers send

ASSUME RequestsAssumption == Requests \subseteq {"upgrade", "get", "other"}

VARIABLE responseBody    \* HTTPHandler.responseBody is not nil

-----------------------------------------------------------------------------
HeadIs(l, kind) == tasks[l] # << >> /\ Head(tasks[l]).kind = kind

TaskDone(l) == tasks' = [tasks EXCEPT ![l] = Tail(@)]

\* Loop l has done the first of its tasks, and hands t to loop k.
HandOver(l, k, t) == tasks' = [Execute(k, t) EXCEPT ![l] = Tail(@)]

(* A connection is accepted in steps.  Loop 0, the server channel's, takes *)
(* it from the socket and gives it the next loop; that loop runs the child *)
(* initializer; back on loop 0 the connection goes through the server's    *)
(* pipeline; its own loop registers it.  A step for another loop is a task *)
(* of that loop, and is lost with it: a connection on its way when the     *)
(* loops end stays open and belongs to nobody.                             *)

\* readFromSocket, on loop 0.  A connection that gets loop 0 itself is
\* initialized at once: httpHandler is added, whose handlerAdded loads the
\* page.
Accept(c, a) ==
    LET l == nextLoop IN
    /\ listening
    /\ Idle(0)
    /\ sock[c] = "none"
    /\ \A d \in Conn : IsOpen(d) => addr[d] # a
    /\ sock' = [sock EXCEPT ![c] = "accepted"]
    /\ addr' = [addr EXCEPT ![c] = a]
    /\ loopOf' = [loopOf EXCEPT ![c] = l]
    /\ nextLoop' = FollowingLoop(l)
    /\ IF l = 0
       THEN /\ stage' = [stage EXCEPT ![c] = "http"]
            /\ responseBody' = TRUE
            /\ tasks' = Execute(0, LoopTask("register", c))
       ELSE /\ stage' = [stage EXCEPT ![c] = "bare"]
            /\ tasks' = Execute(l, LoopTask("setup", c))
            /\ UNCHANGED responseBody
    /\ UNCHANGED <<out, wire, reading, loopState, listening, trap>>
    /\ UNCHANGED tableVars

\* The child initializer, on the connection's own loop.
Setup(l) ==
    LET c == Head(tasks[l]).conn IN
    /\ Idle(l)
    /\ HeadIs(l, "setup")
    /\ HandOver(l, 0, LoopTask("accepted", c))
    /\ stage' = [stage EXCEPT ![c] = "http"]
    /\ responseBody' = TRUE
    /\ UNCHANGED <<sock, addr, loopOf, out, wire, reading, loopState, listening, nextLoop, trap>>
    /\ UNCHANGED tableVars

\* The initializer's future hops to loop 0, which keeps the connection if
\* the server channel is still active.
Accepted(l) ==
    LET c == Head(tasks[l]).conn IN
    /\ Idle(l)
    /\ HeadIs(l, "accepted")
    /\ HandOver(l, loopOf[c], LoopTask(IF listening THEN "register" ELSE "refuse", c))
    /\ UNCHANGED <<connVars, reading, loopState, listening, nextLoop, trap>>
    /\ UNCHANGED <<tableVars, responseBody>>

\* Mutant: a loop that is closing its channels still registers new ones.
RegisterLate(l) ==
    LET c == Head(tasks[l]).conn IN
    /\ Idle(l)
    /\ HeadIs(l, "register")
    /\ sock[c] = "accepted"
    /\ TaskDone(l)
    /\ sock' = [sock EXCEPT ![c] = "open"]
    /\ UNCHANGED <<stage, addr, loopOf, out, wire, reading, loopState, listening, nextLoop, trap>>
    /\ UNCHANGED <<tableVars, responseBody>>

\* register, then becomeActive0: from here on the connection is read.
Register(l) ==
    LET c == Head(tasks[l]).conn IN
    /\ Idle(l)
    /\ HeadIs(l, "register")
    /\ sock[c] = "accepted"
    /\ loopState[loopOf[c]] = "open"
    /\ TaskDone(l)
    /\ sock' = [sock EXCEPT ![c] = "open"]
    /\ UNCHANGED <<stage, addr, loopOf, out, wire, reading, loopState, listening, nextLoop, trap>>
    /\ UNCHANGED <<tableVars, responseBody>>

\* The connection is closed instead: the server channel was, or the loop
\* registers nothing any more.  Its handlers go one tick later.
Refuse(l) ==
    LET c == Head(tasks[l]).conn IN
    /\ Idle(l)
    /\ HeadIs(l, "refuse") \/ (HeadIs(l, "register") /\ loopState[loopOf[c]] # "open")
    /\ sock[c] = "accepted"
    /\ sock' = [sock EXCEPT ![c] = "shutdown"]
    /\ HandOver(l, l, LoopTask("removed", c))
    /\ UNCHANGED <<stage, addr, loopOf, out, wire, reading, loopState, listening, nextLoop, trap>>
    /\ UNCHANGED <<tableVars, responseBody>>

Admit(l) == Setup(l) \/ Accepted(l) \/ Register(l) \/ Refuse(l)

-----------------------------------------------------------------------------
ReadsRequest(c, kind) ==
    /\ kind \in Requests
    /\ stage[c] = "http"
    /\ IsActive(c)
    /\ Idle(loopOf[c])

\* A valid upgrade request: the upgrade finishes in a later tick, when
\* the HTTP decoder has been removed.
ReadUpgrade(c) ==
    /\ ReadsRequest(c, "upgrade")
    /\ stage' = [stage EXCEPT ![c] = "upgrading"]
    /\ tasks' = Execute(loopOf[c], LoopTask("upgrade", c))
    /\ UNCHANGED <<sock, addr, loopOf, out, wire, reading, loopState, listening, nextLoop, trap>>
    /\ UNCHANGED <<tableVars, responseBody>>

\* Any other GET: the page, then close.  responseBody is unwrapped by force.
ReadGet(c) ==
    /\ ReadsRequest(c, "get")
    /\ IF responseBody
       THEN /\ stage' = [stage EXCEPT ![c] = "answered"]
            /\ out' = Write(c, Msg("page", c, 0))
            /\ trap' = trap
       ELSE /\ trap' = "nilBody"
            /\ UNCHANGED <<stage, out>>
    /\ UNCHANGED <<sock, addr, loopOf, wire>>
    /\ UNCHANGED <<loopVars, tableVars, responseBody>>

\* respond405: any other method.
ReadOther(c) ==
    /\ ReadsRequest(c, "other")
    /\ stage' = [stage EXCEPT ![c] = "answered"]
    /\ out' = Write(c, Msg("405", c, 0))
    /\ UNCHANGED <<sock, addr, loopOf, wire, trap>>
    /\ UNCHANGED <<loopVars, tableVars, responseBody>>

\* Mutant: the connection becomes a WebSocket without its 101 response.
FinishUpgradeSilently(l) ==
    LET c == Head(tasks[l]).conn IN
    /\ Idle(l)
    /\ HeadIs(l, "upgrade")
    /\ TaskDone(l)
    /\ IF IsActive(c)
       THEN /\ stage' = [stage EXCEPT ![c] = "websocket"]
            /\ responseBody' = FALSE
            /\ BeginChange(l, c, "connect")
       ELSE UNCHANGED <<stage, responseBody, access>>
    /\ UNCHANGED <<sock, addr, loopOf, wire, out, reading, loopState, listening, nextLoop, trap>>
    /\ UNCHANGED <<connectedChannels, notes>>

\* The upgrade finishes.  101 is written: it is the first message of its
\* connection, so the socket takes it at once, and all that waits for that
\* follows in this tick.  httpHandler is removed (its handlerRemoved clears
\* responseBody), websocketHandler is added (its handlerAdded calls
\* cacheChannel, then notifies).  A connection closed in the meantime fails the
\* write of 101, and nothing is added.
FinishUpgrade(l) ==
    LET c == Head(tasks[l]).conn IN
    /\ Idle(l)
    /\ HeadIs(l, "upgrade")
    /\ TaskDone(l)
    /\ IF IsActive(c)
       THEN /\ stage' = [stage EXCEPT ![c] = "websocket"]
            /\ wire' = [wire EXCEPT ![c] = Append(@, Msg("101", c, 0))]
            /\ responseBody' = FALSE
            /\ BeginChange(l, c, "connect")
       ELSE UNCHANGED <<stage, wire, responseBody, access>>
    /\ UNCHANGED <<sock, addr, loopOf, out, reading, loopState, listening, nextLoop, trap>>
    /\ UNCHANGED <<connectedChannels, notes>>

\* handlerRemoved, one tick after a connection that was never upgraded closes.
HandlerRemoved(l) ==
    /\ Idle(l)
    /\ HeadIs(l, "removed")
    /\ TaskDone(l)
    /\ responseBody' = FALSE
    /\ UNCHANGED <<connVars, tableVars, reading, loopState, listening, nextLoop, trap>>

=============================================================================
