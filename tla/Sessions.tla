------------------------------ MODULE Sessions ------------------------------
(***************************************************************************)
(* What the application is promised of a running server, with no sockets,  *)
(* loops, batches or dictionary in it.  A session is announced once,       *)
(* before anything else is heard of it.  A text the application hears is   *)
(* answered: it is sent back to the session it came from, once and in its  *)
(* turn.  Only a session that is closed, or that the application has heard *)
(* leave, may be denied an answer.                                         *)
(***************************************************************************)
EXTENDS Naturals, Sequences

CONSTANTS
    Conn,       \* the connections that may become sessions
    MaxFrames   \* bound: frames one peer sends

VARIABLES
    alive,   \* the process runs
    closed,  \* [Conn -> nothing more can be sent to the peer]
    heard,   \* [Conn -> notifications the application has had, oldest first]
    owed,    \* [Conn -> texts on their way to the peer]
    sent     \* [Conn -> texts the peer has been sent]

sessionVars == <<alive, closed, heard, owed, sent>>

LeaveKind == {"disconnect", "close"}

\* A text is known by the frame it answers: the n-th of session from.
Text(c, i) == [from |-> c, n |-> i]

Init ==
    /\ alive = TRUE
    /\ closed = [c \in Conn |-> FALSE]
    /\ heard = [c \in Conn |-> << >>]
    /\ owed = [c \in Conn |-> {}]
    /\ sent = [c \in Conn |-> {}]

Hears(c, k, i) == heard' = [heard EXCEPT ![c] = Append(@, [kind |-> k, n |-> i])]

HasLeft(c) == \E j \in DOMAIN heard[c] : heard[c][j].kind \in LeaveKind

\* .connect, the first notification of a session.
Connect(c) ==
    /\ alive
    /\ heard[c] = << >>
    /\ Hears(c, "connect", 0)
    /\ UNCHANGED <<alive, closed, owed, sent>>

\* .text or .data, numbered by the peer's frames.
Receive(c, i) ==
    /\ alive
    /\ heard[c] # << >>
    /\ \A j \in DOMAIN heard[c] : heard[c][j].n < i
    /\ Hears(c, "text", i)
    /\ \/ owed' = [owed EXCEPT ![c] = @ \cup {Text(c, i)}]
       \/ (closed[c] \/ HasLeft(c)) /\ UNCHANGED owed
    /\ UNCHANGED <<alive, closed, sent>>

\* .disconnect or .close.
Leave(c, k) ==
    /\ alive
    /\ heard[c] # << >>
    /\ Hears(c, k, 0)
    /\ UNCHANGED <<alive, closed, owed, sent>>

\* Some of the texts owed to c are sent, no text before an older one, and with
\* the last of them the session may close, which may drop some of the others.
Settle(c) ==
    /\ alive
    /\ \E S \in SUBSET owed[c] :
          /\ \A s \in S : \A t \in owed[c] \ S : s.n < t.n
          /\ sent' = [sent EXCEPT ![c] = @ \cup S]
          /\ closed' \in {closed, [closed EXCEPT ![c] = TRUE]}
          /\ \E left \in IF closed'[c] THEN SUBSET (owed[c] \ S) ELSE {owed[c] \ S} :
                owed' = [owed EXCEPT ![c] = left]
    /\ owed' # owed
    /\ UNCHANGED <<alive, heard>>

\* The sessions in S close, which may drop what is owed to them.
Close(S) ==
    /\ alive
    /\ closed' = [c \in Conn |-> closed[c] \/ c \in S]
    /\ \E left \in [S -> UNION {SUBSET owed[c] : c \in S}] :
          /\ \A c \in S : left[c] \subseteq owed[c]
          /\ owed' = [c \in Conn |-> IF c \in S THEN left[c] ELSE owed[c]]
    /\ UNCHANGED <<alive, heard, sent>>

Crash ==
    /\ alive
    /\ alive' = FALSE
    /\ UNCHANGED <<closed, heard, owed, sent>>

Next ==
    \/ \E c \in Conn :
          \/ Connect(c)
          \/ \E i \in 1 .. MaxFrames : Receive(c, i)
          \/ \E k \in LeaveKind : Leave(c, k)
          \/ Settle(c)
    \/ \E S \in SUBSET Conn : Close(S)
    \/ Crash

Spec == Init /\ [][Next]_sessionVars

\* Every text owed is settled.
FairSpec == Spec /\ \A c \in Conn : WF_sessionVars(Settle(c))

=============================================================================
