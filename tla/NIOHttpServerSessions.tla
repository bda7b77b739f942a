----------------------- MODULE NIOHttpServerSessions -----------------------
(***************************************************************************)
(* NIOHttpServer, on one event loop, implements Sessions.  A text is owed  *)
(* from the moment sendServer has handed it to the loop until the socket   *)
(* takes it: some are still queued, the others written and pending.        *)
(***************************************************************************)
EXTENDS NIOHttpServer

TextOf(m) == [from |-> m.from, n |-> m.n]

\* The texts among the messages s.
TextsOf(s) == {TextOf(s[i]) : i \in {j \in 1 .. Len(s) : s[j].kind = "text"}}

\* The texts for c in the queue q.
QueuedFor(c, q) ==
    {TextOf(q[i]) : i \in {j \in 1 .. Len(q) : q[j].kind = "send" /\ q[j].conn = c}}

Service == INSTANCE Sessions WITH
    alive  <- trap = "none",
    closed <- [c \in Conn |-> sock[c] \notin {"none", "accepted", "open"}],
    heard  <- notes,
    owed   <- [c \in Conn |-> TextsOf(out[c]) \cup QueuedFor(c, tasks[loopOf[c]])],
    sent   <- [c \in Conn |-> TextsOf(wire[c])]

\* The server implements Sessions: whatever the frames of a batch, the closes
\* that wait for writes, the texts queued for a later tick and the addresses
\* that return, the application and each peer see sessions.
ImplementsSessions == Service!Spec

\* ... and, as long as loops run and peers read, every text is settled.
SettlesSessions == Service!FairSpec

=============================================================================
