-------------------------- MODULE ConnectedChannels --------------------------
(***************************************************************************)
(* NIOHttpServer.connectedChannels: the dictionary from a remote address   *)
(* to the WebSocket connection that has it, and the notifications sent     *)
(* when it changes.                                                        *)
(*                                                                         *)
(* Nothing synchronises the dictionary, and it is changed on every event   *)
(* loop and on LocalHttpServer's serverQueue.  A change is therefore two   *)
(* steps: BeginChange notes what the thread sees, and the commit writes,   *)
(* either on top of the present contents or on top of what was seen, which *)
(* loses every change made in between.  RaceCrash is the third outcome of  *)
(* two overlapping accesses: the process dies.                             *)
(***************************************************************************)
EXTENDS Channels

VARIABLES
    connectedChannels,  \* [Addr -> Conn, or None where there is no entry]
    access,             \* [Thread -> the change in progress, or None]
    notes               \* [Conn -> notifications about it, oldest first]

tableVars == <<connectedChannels, access, notes>>

serverQueue == NLoops               \* the thread that runs start and stop
Thread == Loop \cup {serverQueue}

NoteKind == {"connect", "disconnect", "close", "text"}
Notification == [kind : NoteKind, n : Nat]
Note(k, i) == [kind |-> k, n |-> i]

\* A change in progress: the connection whose entry is stored or removed (None
\* for all entries), the notification that follows, the dictionary as seen.
Change == [conn : Conn \cup {None}, note : NoteKind, seen : [Addr -> Conn \cup {None}]]

ASSUME ConnectedChannelsAssumption == None \notin Change

EmptyTable == [a \in Addr |-> None]

\* The loop is between two things it does.
Idle(l) ==
    /\ trap = "none"
    /\ access[l] = None
    /\ reading[l] = None
    /\ loopState[l] # "closed"

-----------------------------------------------------------------------------
\* Mutant: the entry is stored whatever the address.
ChangedAnyKey(table, change) ==
    IF change.note = "connect"
    THEN [a \in Addr |-> change.conn]
    ELSE [table EXCEPT ![addr[change.conn]] = None]

\* Mutant: cacheChannel keeps the entry it finds under the address.
ChangedKeepingOld(table, change) ==
    LET k == addr[change.conn] IN
    IF change.note = "connect" /\ table[k] # None
    THEN table
    ELSE [table EXCEPT ![k] = IF change.note = "connect" THEN change.conn ELSE None]

\* channelKey, the remote address, then cacheChannel or clearChannel; a change
\* that concerns no connection in particular is clearChannelAll.
Changed(table, change) ==
    IF change.conn = None
    THEN EmptyTable
    ELSE [table EXCEPT ![addr[change.conn]] =
             IF change.note = "connect" THEN change.conn ELSE None]

BeginChange(t, c, k) ==
    access' = [access EXCEPT ![t] = [conn |-> c, note |-> k, seen |-> connectedChannels]]

Commit(t) ==
    /\ access[t] # None
    /\ \E base \in {connectedChannels, access[t].seen} :
          connectedChannels' = Changed(base, access[t])
    /\ access' = [access EXCEPT ![t] = None]

\* Mutant: channelAdded caches the channel and notifies nobody.
EndChangeQuietly(l) ==
    /\ trap = "none"
    /\ Commit(l)
    /\ notes' = IF access[l].note = "connect" THEN notes
                ELSE [notes EXCEPT ![access[l].conn] = Append(@, Note(access[l].note, 0))]

\* The second half of channelAdded, channelClose and channelErrorClose: the
\* dictionary is written, then the notification goes out.
EndChange(l) ==
    /\ trap = "none"
    /\ Commit(l)
    /\ notes' = [notes EXCEPT ![access[l].conn] = Append(@, Note(access[l].note, 0))]

\* Mutant: the lookup ignores the key.
LookupAny(t, a) == {connectedChannels[b] : b \in Addr}

\* What thread t may read under a: the entry before or after every change
\* another thread is making.
Lookup(t, a) ==
    {connectedChannels[a]} \cup
    {Changed(connectedChannels, access[u])[a] : u \in {v \in Thread \ {t} : access[v] # None}}

\* Two threads in the dictionary at once, one of them writing.
RaceCrash ==
    /\ trap = "none"
    /\ \E t, u \in Thread :
          /\ t # u
          /\ access[t] # None
          /\ \/ access[u] # None
             \/ u \in Loop /\ reading[u] # None
    /\ trap' = "race"

=============================================================================
