------------------------ MODULE NIOSSLHandler_proofs ------------------------
(***************************************************************************)
(* No shutdown step and no timer finds the handler in a state that ends    *)
(* the process, every close is answered once, and what the peer says       *)
(* reaches the handlers as a SecureStream: for any number of records,      *)
(* writes and closes.                                                      *)
(***************************************************************************)
EXTENDS NIOSSLHandler, FiniteSetTheorems, TLAPS

\* Where a connection is tells whether it is open, whether the timer may
\* still run, and who began to close it; a shutdown step finds it closing.
Standing ==
    /\ open <=> state # "closed"
    /\ timer => state \in {"closing", "closed"}
    /\ write_shutdown # "none" => state \in {"closing", "closed"}
    /\ state = "closing" /\ closes = 0 => read_shutdown = "close_notify"
    /\ loop \in {"delivering", "shutting"} =>
          read_shutdown = "close_notify" /\ state \in {"closing", "closed"}

\* The peer sends nothing after its last record.
LastIsLast == \A i \in DOMAIN sent : sent[i] \in LastRecord => i = Len(sent)

\* The data records opened so far have been handed on or wait for it, in the
\* order in which they came.
Gathered ==
    /\ Places(delivered) \cup Places(plaintext) = {i \in 1 .. opened : sent[i] = "data"}
    /\ Increasing(delivered)
    /\ Increasing(plaintext)
    /\ \A i \in Places(delivered), j \in Places(plaintext) : i < j

\* The peer's close_notify was its last record, and is what had data wait no
\* longer.
EndRead ==
    read_shutdown = "close_notify" =>
        /\ opened = Len(sent) /\ opened >= 1
        /\ sent[opened] = "close_notify"
        /\ plaintext = << >>

Reading == LastIsLast /\ Gathered /\ EndRead

Data(s) == {i \in DOMAIN s : s[i] = "data"}

\* Nothing follows a close_notify of ours.
EndsWithNotify(s) == \A i \in DOMAIN s : s[i] = "close_notify" => i = Len(s)

\* The line of an open connection, what it was sent and what it will be, has
\* all the data that was encrypted, and ends with our close_notify if it has
\* one.  That of a closed one has all the data if it has the close_notify.
Written ==
    LET line == wire \o pending IN
    /\ ~open => pending = << >>
    /\ open \/ Has(line, "close_notify") => Cardinality(Data(line)) = accepted
    /\ open => EndsWithNotify(line)
    /\ open /\ write_shutdown = "none" => ~Has(line, "close_notify")

IInv == TypeOK /\ Standing /\ EndsAreReported /\ Reading /\ Written

-----------------------------------------------------------------------------
(* Sequences.                                                              *)

LEMMA SeqGrows ==
    ASSUME NEW m \in Nat, NEW n \in Nat, m <= n, NEW s \in Seq(1 .. m)
    PROVE  s \in Seq(1 .. n)
  OBVIOUS

LEMMA PlacesOfAppend ==
    ASSUME NEW s \in Seq(Nat), NEW e \in Nat
    PROVE  Places(Append(s, e)) = Places(s) \cup {e}
<1> DEFINE t == Append(s, e)
<1>1. /\ DOMAIN t = DOMAIN s \cup {Len(s) + 1}
      /\ t[Len(s) + 1] = e
      /\ \A i \in DOMAIN s : t[i] = s[i]
  OBVIOUS
<1> HIDE DEF t
<1> QED
  BY <1>1 DEF Places, t

LEMMA PlacesOfConcat ==
    ASSUME NEW s \in Seq(Nat), NEW t \in Seq(Nat)
    PROVE  Places(s \o t) = Places(s) \cup Places(t)
<1> DEFINE u == s \o t
<1>1. /\ \A i \in DOMAIN s : i \in DOMAIN u /\ u[i] = s[i]
      /\ \A i \in DOMAIN t : i + Len(s) \in DOMAIN u /\ u[i + Len(s)] = t[i]
      /\ \A i \in DOMAIN u : i \in DOMAIN s \/ (i - Len(s) \in DOMAIN t /\ u[i] = t[i - Len(s)])
  OBVIOUS
<1> HIDE DEF u
<1>2. Places(u) \subseteq Places(s) \cup Places(t)
  BY <1>1 DEF Places
<1>3. Places(s) \subseteq Places(u) /\ Places(t) \subseteq Places(u)
  BY <1>1 DEF Places
<1> QED
  BY <1>2, <1>3 DEF u

LEMMA IncreasingAppend ==
    ASSUME NEW s \in Seq(Nat), NEW e \in Nat, Increasing(s),
           \A i \in Places(s) : i < e
    PROVE  Increasing(Append(s, e))
  BY DEF Increasing, Places

LEMMA IncreasingConcat ==
    ASSUME NEW s \in Seq(Nat), NEW t \in Seq(Nat), Increasing(s), Increasing(t),
           \A i \in Places(s), j \in Places(t) : i < j
    PROVE  Increasing(s \o t)
<1> DEFINE u == s \o t
<1> SUFFICES ASSUME NEW i \in DOMAIN u, NEW j \in DOMAIN u, i < j
             PROVE  u[i] < u[j]
  BY DEF Increasing
<1>1. CASE j \in DOMAIN s
  BY <1>1 DEF Increasing
<1>2. CASE i \notin DOMAIN s
  <2>1. /\ i - Len(s) \in DOMAIN t /\ u[i] = t[i - Len(s)]
        /\ j - Len(s) \in DOMAIN t /\ u[j] = t[j - Len(s)]
        /\ i - Len(s) < j - Len(s)
    BY <1>2
  <2> QED
    BY <2>1 DEF Increasing
<1>3. CASE i \in DOMAIN s /\ j \notin DOMAIN s
  <2>1. u[i] = s[i] /\ u[i] \in Places(s)
    BY <1>3 DEF Places
  <2>2. j - Len(s) \in DOMAIN t /\ u[j] = t[j - Len(s)]
    BY <1>3
  <2>3. u[j] \in Places(t)
    BY <2>2 DEF Places
  <2> QED
    BY <2>1, <2>3
<1> QED
  BY <1>1, <1>2, <1>3

-----------------------------------------------------------------------------
(* Types.                                                                  *)

\* What the channel is given to write, and what a close leaves of it.
LEMMA ClosedOutput ==
    ASSUME NEW output \in Seq(Record), wire \in Seq(Record), ChannelCloses(output)
    PROVE  /\ open' = FALSE /\ pending' \in Seq(Record) /\ wire' \in Seq(Record)
           /\ bufferedWrites' = 0
<1>1. PICK n \in 0 .. Len(output) : wire' = wire \o SubSeq(output, 1, n)
  BY DEF ChannelCloses
<1>2. SubSeq(output, 1, n) \in Seq(Record)
  OBVIOUS
<1> QED
  BY <1>1, <1>2 DEF ChannelCloses

LEMMA CloseTypes ==
    ASSUME TypeOK, NEW output \in Seq(Record), NEW promises \in Nat,
           channelClose(output, promises)
    PROVE  /\ state' = "closed" /\ open' = FALSE
           /\ pending' \in Seq(Record) /\ wire' \in Seq(Record)
           /\ bufferedWrites' \in Nat /\ answered' \in Nat /\ closePromise' \in Nat
<1>1. wire \in Seq(Record) /\ answered \in Nat
  BY DEF TypeOK
<1>2. ChannelCloses(output)
  BY DEF channelClose
<1>3. open' = FALSE /\ pending' \in Seq(Record) /\ wire' \in Seq(Record) /\ bufferedWrites' = 0
  BY <1>1, <1>2, ClosedOutput
<1> QED
  BY <1>1, <1>3 DEF channelClose

LEMMA ShutdownTypes ==
    ASSUME TypeOK, NEW promises \in Nat, NEW scheduled \in BOOLEAN,
           doShutdownStep(promises, scheduled)
    PROVE  /\ state' \in {"closing", "closed"} /\ open' \in BOOLEAN /\ timer' \in BOOLEAN
           /\ write_shutdown' = "close_notify"
           /\ pending' \in Seq(Record) /\ wire' \in Seq(Record)
           /\ bufferedWrites' \in Nat /\ answered' \in Nat /\ closePromise' \in Nat
<1> DEFINE output == IF write_shutdown = "none" THEN Append(pending, "close_notify") ELSE pending
<1>1. output \in Seq(Record)
  BY DEF TypeOK, Record
<1>2. CASE read_shutdown = "close_notify"
  <2>1. channelClose(output, promises) /\ timer' = FALSE /\ write_shutdown' = "close_notify"
    BY <1>2 DEF doShutdownStep
  <2> QED
    BY <1>1, <2>1, CloseTypes
<1>3. CASE read_shutdown # "close_notify"
  <2> HIDE DEF output
  <2>1. /\ state' = "closing" /\ timer' = scheduled /\ pending' = output
        /\ closePromise' = promises /\ write_shutdown' = "close_notify"
        /\ UNCHANGED <<wire, bufferedWrites, answered, open>>
    BY <1>3 DEF doShutdownStep, output
  <2> QED
    BY <1>1, <2>1 DEF TypeOK
<1> QED
  BY <1>2, <1>3

LEMMA TypesOfInit ==
    ASSUME Init
    PROVE  TypeOK
<1>1. \A S : << >> \in Seq(S)
  OBVIOUS
<1>2. /\ plaintext \in Seq(1 .. Len(sent)) /\ delivered \in Seq(1 .. Len(sent))
      /\ pending \in Seq(Record) /\ wire \in Seq(Record)
      /\ sent \in Seq({"hello", "finished", "data"} \cup LastRecord) /\ Len(sent) = 0
  BY <1>1 DEF Init
<1>3. opened \in 0 .. taken /\ taken \in 0 .. Len(sent)
  BY <1>2 DEF Init
<1> QED
  BY <1>2, <1>3 DEF Init, TypeOK

LEMMA TypesOfPeer ==
    ASSUME TypeOK, NEW record \in {"hello", "finished", "data"} \cup LastRecord, PeerSends(record)
    PROVE  TypeOK'
<1> DEFINE Sent == {"hello", "finished", "data"} \cup LastRecord
<1>1. /\ sent' = Append(sent, record)
      /\ UNCHANGED <<sslVars, outVars, closeVars, inVars, errors, ended, taken, opened, loop>>
  BY DEF PeerSends
<1>2. sent \in Seq(Sent) /\ Len(sent) \in Nat
  BY DEF TypeOK
<1>3. sent' \in Seq(Sent) /\ Len(sent') = Len(sent) + 1
  BY <1>1, <1>2
<1>4. plaintext' \in Seq(1 .. Len(sent')) /\ delivered' \in Seq(1 .. Len(sent'))
  BY <1>1, <1>2, <1>3, SeqGrows DEF TypeOK, inVars
<1>5. opened' \in 0 .. taken' /\ taken' \in 0 .. Len(sent')
  BY <1>1, <1>2, <1>3 DEF TypeOK
<1>6. /\ state' \in {"handshaking", "active", "closing", "closed"}
      /\ timer' \in BOOLEAN /\ open' \in BOOLEAN /\ ended' \in BOOLEAN
      /\ read_shutdown' \in {"none", "close_notify", "error"}
      /\ write_shutdown' \in {"none", "close_notify", "error"}
      /\ loop' \in {"idle", "decoding", "reading", "delivering", "shutting"}
      /\ pending' \in Seq(Record) /\ wire' \in Seq(Record)
      /\ errors' \subseteq {"handshakeFailed", "uncleanShutdown", "readFailed"}
      /\ bufferedWrites' \in Nat /\ writes' \in Nat /\ accepted' \in Nat
      /\ closePromise' \in Nat /\ closes' \in Nat /\ answered' \in Nat
  BY <1>1 DEF TypeOK, sslVars, outVars, closeVars
<1> QED
  BY <1>3, <1>4, <1>5, <1>6 DEF TypeOK

\* The places of data keep their types when one more record is opened.
LEMMA TypesOfOpened ==
    ASSUME TypeOK, NEW records, NEW states, Opens(records, states)
    PROVE  /\ opened' = opened + 1 /\ opened' \in 1 .. Len(sent) /\ opened' \in 0 .. taken
           /\ UNCHANGED <<sent, ended, taken>>
           /\ sent[opened'] \in records
           /\ state \in states
           /\ loop = "decoding"
  BY DEF TypeOK, Opens, peerVars

LEMMA TypesOfStep ==
    ASSUME TypeOK, Standing, [Next]_vars
    PROVE  TypeOK'
<1> USE DEF sslVars, outVars, closeVars, inVars, peerVars
<1>1. pending \in Seq(Record) /\ wire \in Seq(Record) /\ closePromise \in Nat
  BY DEF TypeOK
<1>2. ASSUME NEW record \in {"hello", "finished", "data"} \cup LastRecord, PeerSends(record)
      PROVE  TypeOK'
  BY <1>2, TypesOfPeer
<1>3. CASE PeerEnds
  BY <1>3 DEF TypeOK, PeerEnds
<1>4. CASE Writable
  <2>1. /\ wire' = Append(wire, Head(pending)) /\ pending' = Tail(pending) /\ pending # << >>
        /\ UNCHANGED <<sslVars, bufferedWrites, writes, accepted, closeVars, inVars, errors,
                       peerVars, taken, opened, loop>>
    BY <1>4 DEF Writable
  <2>2. wire' \in Seq(Record) /\ pending' \in Seq(Record)
    BY <1>1, <2>1
  <2> QED
    BY <2>1, <2>2 DEF TypeOK
<1>5. ASSUME NEW n \in 1 .. MaxSent, channelRead(n)
      PROVE  TypeOK'
  <2>1. n \in Nat
    BY NIOSSLHandlerAssumption
  <2> QED
    BY <1>5, <2>1 DEF TypeOK, channelRead
<1>6. CASE doHandshakeStep
  <2>1. Opens({"hello", "finished"}, {"handshaking"})
    BY <1>6 DEF doHandshakeStep
  <2>2. opened' \in 0 .. taken /\ UNCHANGED <<sent, ended, taken>>
    BY <2>1, TypesOfOpened
  <2>3. pending' \in Seq(Record)
    BY <1>1, <1>6 DEF doHandshakeStep, Record
  <2> QED
    BY <1>6, <2>2, <2>3 DEF TypeOK, doHandshakeStep
<1>7. CASE HandshakeFails
  <2>1. Opens(LastRecord, {"handshaking"})
    BY <1>7 DEF HandshakeFails
  <2>2. opened' \in 0 .. taken /\ UNCHANGED <<sent, ended, taken>>
    BY <2>1, TypesOfOpened
  <2>3. PICK output \in Seq(Record) : channelClose(output, closePromise)
    <3>1. Append(pending, "alert") \in Seq(Record)
      BY <1>1 DEF Record
    <3> QED
      BY <1>1, <1>7, <3>1 DEF HandshakeFails
  <2>4. /\ state' = "closed" /\ open' = FALSE
        /\ pending' \in Seq(Record) /\ wire' \in Seq(Record)
        /\ bufferedWrites' \in Nat /\ answered' \in Nat /\ closePromise' \in Nat
    BY <1>1, <2>3, CloseTypes
  <2> QED
    BY <1>7, <2>2, <2>4 DEF TypeOK, HandshakeFails
<1>8. CASE ReadData
  <2>1. Opens({"data"}, {"active", "closing"})
    BY <1>8 DEF ReadData
  <2>2. opened' \in 0 .. taken /\ opened' \in 1 .. Len(sent) /\ UNCHANGED <<sent, ended, taken>>
    BY <2>1, TypesOfOpened
  <2>3. plaintext' \in Seq(1 .. Len(sent))
    BY <1>8, <2>2 DEF TypeOK, ReadData
  <2> QED
    BY <1>8, <2>2, <2>3 DEF TypeOK, ReadData
<1>9. CASE ReadCloseNotify
  <2>1. Opens({"close_notify"}, {"active", "closing"})
    BY <1>9 DEF ReadCloseNotify
  <2>2. opened' \in 0 .. taken /\ UNCHANGED <<sent, ended, taken>>
    BY <2>1, TypesOfOpened
  <2>3. plaintext' \in Seq(1 .. Len(sent)) /\ delivered' \in Seq(1 .. Len(sent))
    BY <1>9 DEF TypeOK, ReadCloseNotify, doFlushReadData
  <2> QED
    BY <1>9, <2>2, <2>3 DEF TypeOK, ReadCloseNotify
<1>10. CASE ReadFails
  <2>1. Opens({"alert", "bad"}, {"active", "closing"})
    BY <1>10 DEF ReadFails
  <2>2. opened' \in 0 .. taken /\ UNCHANGED <<sent, ended, taken>>
    BY <2>1, TypesOfOpened
  <2>3. /\ state' = "closed" /\ open' = FALSE
        /\ pending' \in Seq(Record) /\ wire' \in Seq(Record)
        /\ bufferedWrites' \in Nat /\ answered' \in Nat /\ closePromise' \in Nat
    BY <1>1, <1>10, CloseTypes DEF ReadFails
  <2> QED
    BY <1>10, <2>2, <2>3 DEF TypeOK, ReadFails
<1>11. CASE Decoded
  BY <1>11 DEF TypeOK, Decoded
<1>12. CASE ShutsDown
  <2>1. CASE state = "closing"
    <3>1. doShutdownStep(closePromise, timer)
      BY <1>12, <2>1 DEF ShutsDown
    <3>2. timer \in BOOLEAN
      BY DEF TypeOK
    <3>3. /\ state' \in {"closing", "closed"} /\ open' \in BOOLEAN /\ timer' \in BOOLEAN
          /\ write_shutdown' = "close_notify"
          /\ pending' \in Seq(Record) /\ wire' \in Seq(Record)
          /\ bufferedWrites' \in Nat /\ answered' \in Nat /\ closePromise' \in Nat
      BY <1>1, <3>1, <3>2, ShutdownTypes
    <3> QED
      BY <1>12, <3>3 DEF TypeOK, ShutsDown
  <2>2. CASE state = "closed"
    BY <1>12, <2>2 DEF TypeOK, ShutsDown
  <2> QED
    BY <1>12, <2>1, <2>2 DEF ShutsDown, Standing
<1>13. CASE channelReadComplete
  <2>1. plaintext' \in Seq(1 .. Len(sent)) /\ delivered' \in Seq(1 .. Len(sent))
    <3>1. plaintext \in Seq(1 .. Len(sent)) /\ delivered \in Seq(1 .. Len(sent))
      BY DEF TypeOK
    <3>2. delivered \o plaintext \in Seq(1 .. Len(sent)) /\ << >> \in Seq(1 .. Len(sent))
      BY <3>1
    <3>3. \/ delivered' = delivered \o plaintext /\ plaintext' = << >>
          \/ UNCHANGED inVars
      BY <1>13 DEF channelReadComplete, doFlushReadData
    <3> QED
      BY <3>1, <3>2, <3>3
  <2> QED
    BY <1>13, <2>1 DEF TypeOK, channelReadComplete
<1>14. CASE channelInactive
  <2>1. << >> \in Seq(Record)
    OBVIOUS
  <2>2. /\ state' = "closed" /\ open' = FALSE
        /\ pending' \in Seq(Record) /\ wire' \in Seq(Record)
        /\ bufferedWrites' \in Nat /\ answered' \in Nat /\ closePromise' \in Nat
    BY <1>1, <1>14, <2>1, CloseTypes DEF channelInactive
  <2> QED
    BY <1>14, <2>2 DEF TypeOK, channelInactive
<1>15. CASE timedOut
  <2>1. CASE state = "closing"
    <3>1. /\ state' = "closed" /\ open' = FALSE
          /\ pending' \in Seq(Record) /\ wire' \in Seq(Record)
          /\ bufferedWrites' \in Nat /\ answered' \in Nat /\ closePromise' \in Nat
      BY <1>1, <1>15, <2>1, CloseTypes DEF timedOut
    <3> QED
      BY <1>15, <3>1 DEF TypeOK, timedOut
  <2>2. CASE state = "closed"
    BY <1>15, <2>2 DEF TypeOK, timedOut
  <2> QED
    BY <1>15, <2>1, <2>2 DEF timedOut, Standing
<1>16. CASE write
  BY <1>16 DEF TypeOK, write
<1>17. CASE flush
  <2>1. CASE write_shutdown = "none"
    <3>1. pending' \in Seq(Record)
      <4>1. [i \in 1 .. bufferedWrites |-> "data"] \in Seq(Record)
        <5>1. bufferedWrites \in Nat /\ "data" \in Record
          BY DEF TypeOK, Record
        <5> QED
          BY <5>1
      <4>2. pending' = pending \o [i \in 1 .. bufferedWrites |-> "data"]
        BY <1>17, <2>1 DEF flush, Encrypts
      <4> QED
        BY <1>1, <4>1, <4>2
    <3> QED
      BY <1>17, <2>1, <3>1 DEF TypeOK, flush, Encrypts
  <2>2. CASE write_shutdown # "none"
    <3>1. /\ state' = "closed" /\ open' = FALSE
          /\ pending' \in Seq(Record) /\ wire' \in Seq(Record)
          /\ bufferedWrites' \in Nat /\ answered' \in Nat /\ closePromise' \in Nat
      BY <1>1, <1>17, <2>2, CloseTypes DEF flush
    <3> QED
      BY <1>17, <2>2, <3>1 DEF TypeOK, flush
  <2> QED
    BY <2>1, <2>2
<1>18. CASE closeHandshaking
  <2>1. /\ state' = "closed" /\ open' = FALSE
        /\ pending' \in Seq(Record) /\ wire' \in Seq(Record)
        /\ bufferedWrites' \in Nat /\ answered' \in Nat /\ closePromise' \in Nat
    BY <1>1, <1>18, CloseTypes DEF closeHandshaking
  <2>2. /\ closes' = closes + 1
        /\ UNCHANGED <<sslVars, timer, writes, accepted, inVars, errors, peerVars, taken, opened, loop>>
    BY <1>18 DEF closeHandshaking, AsksToClose
  <2>3. timer' \in BOOLEAN /\ open' \in BOOLEAN /\ ended' \in BOOLEAN
    BY <2>1, <2>2 DEF TypeOK
  <2>4. /\ plaintext' \in Seq(1 .. Len(sent')) /\ delivered' \in Seq(1 .. Len(sent'))
        /\ sent' \in Seq({"hello", "finished", "data"} \cup LastRecord)
        /\ opened' \in 0 .. taken' /\ taken' \in 0 .. Len(sent')
    BY <2>2 DEF TypeOK
  <2>5. /\ writes' \in Nat /\ accepted' \in Nat /\ closes' \in Nat
    BY <2>2 DEF TypeOK
  <2>6. /\ read_shutdown' \in {"none", "close_notify", "error"}
        /\ write_shutdown' \in {"none", "close_notify", "error"}
        /\ loop' \in {"idle", "decoding", "reading", "delivering", "shutting"}
        /\ errors' \subseteq {"handshakeFailed", "uncleanShutdown", "readFailed"}
    BY <2>2 DEF TypeOK
  <2> QED
    BY <2>1, <2>3, <2>4, <2>5, <2>6 DEF TypeOK
<1>19. CASE closeActive
  <2>1. /\ state' \in {"closing", "closed"} /\ open' \in BOOLEAN /\ timer' \in BOOLEAN
        /\ write_shutdown' = "close_notify"
        /\ pending' \in Seq(Record) /\ wire' \in Seq(Record)
        /\ bufferedWrites' \in Nat /\ answered' \in Nat /\ closePromise' \in Nat
    BY <1>19, ShutdownTypes DEF closeActive
  <2> QED
    BY <1>19, <2>1 DEF TypeOK, closeActive, AsksToClose
<1>20. CASE closeClosing
  BY <1>20 DEF TypeOK, closeClosing, AsksToClose
<1>21. CASE UNCHANGED vars
  BY <1>21 DEF TypeOK, vars
<1> QED
  BY <1>2, <1>3, <1>4, <1>5, <1>6, <1>7, <1>8, <1>9, <1>10, <1>11, <1>12, <1>13, <1>14, <1>15,
     <1>16, <1>17, <1>18, <1>19, <1>20, <1>21 DEF Next, LoopStep

-----------------------------------------------------------------------------
(* Ends.                                                                   *)

\* A close we make ends the connection for good, whatever it leaves unsaid.
LEMMA StandsClosed ==
    ASSUME Standing, NEW output, NEW promises, channelClose(output, promises),
           timer' => timer,
           read_shutdown = "close_notify" => read_shutdown' = "close_notify",
           loop' \in {"delivering", "shutting"} => loop' = loop
    PROVE  Standing'
  BY DEF Standing, channelClose, ChannelCloses

LEMMA StandsShutDown ==
    ASSUME Standing, NEW promises, NEW scheduled, doShutdownStep(promises, scheduled),
           open, closes' = 0 => read_shutdown = "close_notify",
           UNCHANGED read_shutdown,
           loop' \in {"delivering", "shutting"} => loop' = loop
    PROVE  /\ Standing'
           /\ state' = "closing" \/ (state' = "closed" /\ read_shutdown' = "close_notify")
<1>1. CASE read_shutdown = "close_notify"
  <2> DEFINE output == IF write_shutdown = "none" THEN Append(pending, "close_notify") ELSE pending
  <2>1. channelClose(output, promises) /\ timer' = FALSE
    BY <1>1 DEF doShutdownStep
  <2> HIDE DEF output
  <2>2. state' = "closed"
    BY <2>1 DEF channelClose
  <2> QED
    BY <1>1, <2>1, <2>2, StandsClosed
<1>2. CASE read_shutdown # "close_notify"
  BY <1>2 DEF Standing, doShutdownStep
<1> QED
  BY <1>1, <1>2

LEMMA StandsOfInit ==
    ASSUME Init
    PROVE  Standing /\ EndsAreReported
  BY DEF Init, Standing, EndsAreReported

LEMMA StandsOfStep ==
    ASSUME TypeOK, Standing, EndsAreReported, [Next]_vars
    PROVE  Standing' /\ EndsAreReported'
<1> USE DEF sslVars, outVars, closeVars, inVars, peerVars
<1>1. CASE \/ \E record \in {"hello", "finished", "data"} \cup LastRecord : PeerSends(record)
           \/ PeerEnds \/ Writable \/ write \/ ReadData \/ UNCHANGED vars
  <2>1. UNCHANGED <<sslVars, closeVars, errors, loop>>
    BY <1>1 DEF PeerSends, PeerEnds, Writable, write, ReadData, vars
  <2> QED
    BY <2>1 DEF Standing, EndsAreReported
<1>2. CASE \/ \E n \in 1 .. MaxSent : channelRead(n)
           \/ Decoded \/ channelReadComplete
  <2>1. UNCHANGED <<sslVars, closeVars, errors>> /\ loop' \notin {"delivering", "shutting"}
    BY <1>2 DEF channelRead, Decoded, channelReadComplete
  <2> QED
    BY <2>1 DEF Standing, EndsAreReported
<1>3. CASE doHandshakeStep
  <2>1. /\ state = "handshaking" /\ state' \in {"handshaking", "active"}
        /\ UNCHANGED <<sslVars, timer, closes, open, errors, loop>>
    BY <1>3 DEF doHandshakeStep, Opens
  <2> QED
    BY <2>1 DEF Standing, EndsAreReported
<1>4. CASE HandshakeFails
  <2>1. PICK output : channelClose(output, closePromise)
    BY <1>4 DEF HandshakeFails
  <2>2. errors' # {} /\ loop' = "reading" /\ UNCHANGED <<sslVars, timer, closes>>
    BY <1>4 DEF HandshakeFails
  <2>3. Standing'
    BY <2>1, <2>2, StandsClosed
  <2> QED
    BY <2>2, <2>3 DEF EndsAreReported
<1>5. CASE ReadCloseNotify
  <2>1. /\ state \in {"active", "closing"} /\ state' = "closing"
        /\ read_shutdown' = "close_notify"
        /\ UNCHANGED <<write_shutdown, closes, open, errors>>
    BY <1>5 DEF ReadCloseNotify, Opens
  <2> QED
    BY <2>1 DEF Standing, EndsAreReported
<1>6. CASE ReadFails
  <2>1. /\ channelClose(pending, closePromise)
        /\ state' = "closed" /\ open' = FALSE
        /\ errors' # {} /\ loop' = "reading"
        /\ UNCHANGED <<timer, closes>>
    BY <1>6 DEF ReadFails, channelClose, ChannelCloses
  <2> QED
    BY <2>1 DEF Standing, EndsAreReported
<1>7. CASE ShutsDown
  <2>1. /\ loop' = "reading" /\ read_shutdown = "close_notify"
        /\ UNCHANGED <<read_shutdown, closes, errors>>
    BY <1>7 DEF ShutsDown, Standing
  <2>2. CASE state = "closing"
    <3>1. doShutdownStep(closePromise, timer) /\ open
      BY <1>7, <2>2 DEF ShutsDown, Standing
    <3>2. Standing'
      BY <2>1, <3>1, StandsShutDown
    <3> QED
      BY <2>1, <3>2 DEF EndsAreReported
  <2>3. CASE state # "closing"
    BY <1>7, <2>1, <2>3 DEF ShutsDown, Standing, EndsAreReported
  <2> QED
    BY <2>2, <2>3
<1>8. CASE channelInactive
  <2>1. /\ channelClose(<< >>, closePromise)
        /\ errors' # {}
        /\ UNCHANGED <<sslVars, timer, closes, loop>>
    BY <1>8 DEF channelInactive
  <2>2. Standing'
    BY <2>1, StandsClosed
  <2> QED
    BY <2>1, <2>2 DEF EndsAreReported
<1>9. CASE timedOut
  <2>1. /\ loop = "idle" /\ timer /\ timer' = FALSE
        /\ UNCHANGED <<sslVars, closes, errors, loop>>
    BY <1>9 DEF timedOut
  <2>2. CASE state = "closing"
    <3>1. channelClose(pending, closePromise)
      BY <1>9, <2>2 DEF timedOut
    <3>2. Standing'
      BY <2>1, <3>1, StandsClosed
    <3> QED
      BY <2>1, <2>2, <3>2 DEF Standing, EndsAreReported
  <2>3. CASE state = "closed"
    <3>1. UNCHANGED <<state, open>>
      BY <1>9, <2>3 DEF timedOut
    <3> QED
      BY <2>1, <2>3, <3>1 DEF Standing, EndsAreReported
  <2> QED
    BY <2>1, <2>2, <2>3 DEF Standing
<1>10. CASE flush
  <2>1. UNCHANGED <<sslVars, errors, loop, timer, closes>> /\ open
    BY <1>10 DEF flush, HandlersRun, Encrypts
  <2>2. CASE write_shutdown = "none"
    <3>1. UNCHANGED <<state, open>>
      BY <1>10, <2>2 DEF flush, Encrypts
    <3> QED
      BY <2>1, <3>1 DEF Standing, EndsAreReported
  <2>3. CASE write_shutdown # "none"
    <3>1. channelClose(pending, closePromise)
      BY <1>10, <2>3 DEF flush
    <3>2. Standing'
      BY <2>1, <3>1, StandsClosed
    <3>3. state = "closing"
      BY <2>1, <2>3 DEF Standing
    <3> QED
      BY <2>1, <3>2, <3>3 DEF Standing, EndsAreReported
  <2> QED
    BY <2>2, <2>3
<1>11. CASE closeHandshaking
  <2>1. /\ channelClose(pending, 1)
        /\ closes' = closes + 1
        /\ UNCHANGED <<sslVars, timer, loop>>
    BY <1>11 DEF closeHandshaking, AsksToClose
  <2>2. Standing'
    BY <2>1, StandsClosed
  <2> QED
    BY <2>1, <2>2 DEF TypeOK, EndsAreReported
<1>12. CASE closeActive
  <2>1. /\ doShutdownStep(1, TRUE)
        /\ open
        /\ closes' = closes + 1 /\ closes \in Nat
        /\ UNCHANGED <<read_shutdown, loop>>
    BY <1>12 DEF closeActive, AsksToClose, HandlersRun, TypeOK
  <2>2. closes' # 0
    BY <2>1
  <2>3. Standing'
    BY <2>1, <2>2, StandsShutDown
  <2> QED
    BY <2>2, <2>3 DEF EndsAreReported
<1>13. CASE closeClosing
  <2>1. /\ closes' = closes + 1 /\ closes \in Nat
        /\ UNCHANGED <<sslVars, state, timer, open, loop>>
    BY <1>13 DEF closeClosing, AsksToClose, TypeOK
  <2>2. closes' # 0
    BY <2>1
  <2> QED
    BY <2>1, <2>2 DEF Standing, EndsAreReported
<1> QED
  BY <1>1, <1>2, <1>3, <1>4, <1>5, <1>6, <1>7, <1>8, <1>9, <1>10, <1>11, <1>12, <1>13
     DEF Next, LoopStep

-----------------------------------------------------------------------------
(* What was read.                                                          *)

LEMMA ReadingOfInit ==
    ASSUME Init
    PROVE  Reading
  BY DEF Init, Reading, LastIsLast, Gathered, EndRead, Places, Increasing

\* Positions of plaintext and delivered are numbers.
LEMMA PlacesAreNumbers ==
    ASSUME TypeOK
    PROVE  /\ plaintext \in Seq(Nat) /\ delivered \in Seq(Nat)
           /\ Places(plaintext) \subseteq Nat /\ Places(delivered) \subseteq Nat
<1>1. plaintext \in Seq(1 .. Len(sent)) /\ delivered \in Seq(1 .. Len(sent)) /\ Len(sent) \in Nat
  BY DEF TypeOK
<1>2. plaintext \in Seq(Nat) /\ delivered \in Seq(Nat)
  BY <1>1
<1> QED
  BY <1>2 DEF Places

\* Handing on what was read keeps it in order.
LEMMA GatheredWhenFlushed ==
    ASSUME TypeOK, Gathered, doFlushReadData
    PROVE  /\ Places(delivered') \cup Places(plaintext') = Places(delivered) \cup Places(plaintext)
           /\ Increasing(delivered')
           /\ Increasing(plaintext')
           /\ \A i \in Places(delivered'), j \in Places(plaintext') : i < j
<1>1. plaintext \in Seq(Nat) /\ delivered \in Seq(Nat)
  BY PlacesAreNumbers
<1>2. delivered' = delivered \o plaintext /\ plaintext' = << >>
  BY DEF doFlushReadData
<1>3. Places(delivered') = Places(delivered) \cup Places(plaintext)
  BY <1>1, <1>2, PlacesOfConcat
<1>4. Places(plaintext') = {} /\ Increasing(plaintext')
  BY <1>2 DEF Places, Increasing
<1>5. Increasing(delivered')
  BY <1>1, <1>2, IncreasingConcat DEF Gathered
<1> QED
  BY <1>3, <1>4, <1>5

\* Another record that is no data changes nothing of what is data.
LEMMA DataOpened ==
    ASSUME TypeOK, opened' = opened + 1, UNCHANGED sent, opened' \in 1 .. Len(sent)
    PROVE  {i \in 1 .. opened' : sent'[i] = "data"} =
           {i \in 1 .. opened : sent[i] = "data"}
              \cup (IF sent[opened'] = "data" THEN {opened'} ELSE {})
<1>1. opened \in Nat
  BY DEF TypeOK
<1> QED
  BY <1>1

LEMMA ReadingOfStep ==
    ASSUME TypeOK, Reading, [Next]_vars
    PROVE  Reading'
<1> USE DEF sslVars, outVars, closeVars, inVars, peerVars, Reading
<1>0. opened \in Nat /\ opened <= Len(sent) /\ Len(sent) \in Nat
  BY DEF TypeOK
<1>1. CASE UNCHANGED <<read_shutdown, inVars, sent, opened>>
  BY <1>1 DEF LastIsLast, Gathered, EndRead
<1>2. ASSUME NEW record \in {"hello", "finished", "data"} \cup LastRecord, PeerSends(record)
      PROVE  Reading'
  <2>1. /\ sent' = Append(sent, record)
        /\ \A i \in DOMAIN sent : sent[i] \notin LastRecord
        /\ UNCHANGED <<read_shutdown, inVars, opened>>
    BY <1>2 DEF PeerSends, Has
  <2>2. sent \in Seq({"hello", "finished", "data"} \cup LastRecord)
    BY DEF TypeOK
  <2>3. /\ Len(sent') = Len(sent) + 1 /\ DOMAIN sent' = 1 .. Len(sent) + 1
        /\ \A i \in 1 .. Len(sent) : sent'[i] = sent[i]
    BY <2>1, <2>2
  <2>4. LastIsLast'
    BY <1>0, <2>1, <2>3 DEF LastIsLast
  <2>5. {i \in 1 .. opened' : sent'[i] = "data"} = {i \in 1 .. opened : sent[i] = "data"}
    BY <1>0, <2>1, <2>3
  <2>6. Gathered'
    BY <2>1, <2>5 DEF Gathered
  <2>7. read_shutdown # "close_notify"
    BY <1>0, <2>1, <2>2 DEF EndRead, LastRecord
  <2> QED
    BY <2>1, <2>4, <2>6, <2>7 DEF EndRead
<1>3. ASSUME NEW records, NEW states, Opens(records, states),
             "data" \notin records, UNCHANGED inVars,
             read_shutdown' # "close_notify" \/ UNCHANGED read_shutdown
      PROVE  Reading'
  <2>1. /\ opened' = opened + 1 /\ opened' \in 1 .. Len(sent) /\ UNCHANGED sent
        /\ sent[opened'] # "data"
    BY <1>3, TypesOfOpened
  <2>2. {i \in 1 .. opened' : sent'[i] = "data"} = {i \in 1 .. opened : sent[i] = "data"}
    BY <2>1, DataOpened
  <2>3. Gathered'
    BY <1>3, <2>2 DEF Gathered
  <2>4. read_shutdown # "close_notify"
    BY <1>0, <2>1 DEF EndRead
  <2> QED
    BY <1>3, <2>1, <2>3, <2>4 DEF LastIsLast, EndRead
<1>4. CASE doHandshakeStep
  BY <1>3, <1>4 DEF doHandshakeStep
<1>5. CASE HandshakeFails
  BY <1>3, <1>5 DEF HandshakeFails, LastRecord
<1>6. CASE ReadFails
  BY <1>3, <1>6 DEF ReadFails
<1>7. CASE ReadData
  <2>1. Opens({"data"}, {"active", "closing"})
    BY <1>7 DEF ReadData
  <2>2. /\ opened' = opened + 1 /\ opened' \in 1 .. Len(sent) /\ UNCHANGED sent
        /\ sent[opened'] = "data"
    BY <2>1, TypesOfOpened
  <2>3. plaintext' = Append(plaintext, opened') /\ UNCHANGED <<read_shutdown, delivered>>
    BY <1>7 DEF ReadData
  <2>4. plaintext \in Seq(Nat) /\ delivered \in Seq(Nat) /\ opened' \in Nat
    BY <1>0, <2>2, PlacesAreNumbers
  <2>5. Places(plaintext') = Places(plaintext) \cup {opened'}
    BY <2>3, <2>4, PlacesOfAppend
  <2>6. \A i \in Places(delivered) \cup Places(plaintext) : i < opened'
    BY <1>0, <2>2 DEF Gathered
  <2>7. Increasing(plaintext')
    BY <2>3, <2>4, <2>6, IncreasingAppend DEF Gathered
  <2>8. {i \in 1 .. opened' : sent'[i] = "data"} =
        {i \in 1 .. opened : sent[i] = "data"} \cup {opened'}
    BY <2>2, DataOpened
  <2>9. Gathered'
    BY <2>3, <2>5, <2>6, <2>7, <2>8 DEF Gathered
  <2>10. read_shutdown # "close_notify"
    BY <1>0, <2>2 DEF EndRead
  <2> QED
    BY <2>2, <2>3, <2>9, <2>10 DEF LastIsLast, EndRead
<1>8. CASE ReadCloseNotify
  <2>1. Opens({"close_notify"}, {"active", "closing"}) /\ doFlushReadData
    BY <1>8 DEF ReadCloseNotify
  <2>2. /\ opened' = opened + 1 /\ opened' \in 1 .. Len(sent) /\ UNCHANGED sent
        /\ sent[opened'] = "close_notify"
    BY <2>1, TypesOfOpened
  <2>3. {i \in 1 .. opened' : sent'[i] = "data"} = {i \in 1 .. opened : sent[i] = "data"}
    BY <2>2, DataOpened
  <2>4. Gathered'
    BY <2>1, <2>3, GatheredWhenFlushed DEF Gathered
  <2>5. opened' = Len(sent)
    BY <2>2 DEF LastIsLast, LastRecord
  <2>6. plaintext' = << >>
    BY <2>1 DEF doFlushReadData
  <2> QED
    BY <2>2, <2>4, <2>5, <2>6 DEF LastIsLast, EndRead
<1>9. CASE channelReadComplete
  <2>1. UNCHANGED <<read_shutdown, sent, opened>>
    BY <1>9 DEF channelReadComplete
  <2>2. CASE open
    <3>1. doFlushReadData
      BY <1>9, <2>2 DEF channelReadComplete
    <3>2. Gathered'
      BY <2>1, <3>1, GatheredWhenFlushed DEF Gathered
    <3>3. plaintext' = << >>
      BY <3>1 DEF doFlushReadData
    <3> QED
      BY <2>1, <3>2, <3>3 DEF LastIsLast, EndRead
  <2>3. CASE ~open
    BY <1>1, <1>9, <2>1, <2>3 DEF channelReadComplete
  <2> QED
    BY <2>2, <2>3
<1>10. CASE \/ PeerEnds \/ Writable \/ (\E n \in 1 .. MaxSent : channelRead(n))
            \/ Decoded \/ ShutsDown \/ channelInactive \/ timedOut \/ write \/ flush
            \/ closeHandshaking \/ closeActive \/ closeClosing \/ UNCHANGED vars
  <2>1. UNCHANGED <<read_shutdown, inVars, sent, opened>>
    BY <1>10 DEF PeerEnds, Writable, channelRead, Decoded, ShutsDown, channelInactive, timedOut,
                 write, flush, closeHandshaking, closeActive, closeClosing, AsksToClose, vars
  <2> QED
    BY <1>1, <2>1
<1> QED
  BY <1>2, <1>4, <1>5, <1>6, <1>7, <1>8, <1>9, <1>10 DEF Next, LoopStep

-----------------------------------------------------------------------------
(* What is written.                                                        *)

LEMMA DataType ==
    ASSUME NEW s \in Seq(Record)
    PROVE  IsFiniteSet(Data(s)) /\ Cardinality(Data(s)) \in Nat
<1>1. Data(s) \subseteq 1 .. Len(s)
  BY DEF Data
<1>2. IsFiniteSet(1 .. Len(s))
  BY FS_Interval
<1>3. IsFiniteSet(Data(s))
  BY <1>1, <1>2, FS_Subset
<1> QED
  BY <1>3, FS_CardinalityType

LEMMA DataOfAppend ==
    ASSUME NEW s \in Seq(Record), NEW e \in Record \ {"data"}
    PROVE  Data(Append(s, e)) = Data(s)
<1> DEFINE t == Append(s, e)
<1>1. /\ DOMAIN t = DOMAIN s \cup {Len(s) + 1}
      /\ t[Len(s) + 1] = e
      /\ \A i \in DOMAIN s : t[i] = s[i]
  OBVIOUS
<1> HIDE DEF t
<1>2. Data(t) = Data(s)
  BY <1>1 DEF Data
<1> QED
  BY <1>2 DEF t

\* Encrypting n writes adds n records of data.
LEMMA DataOfConcat ==
    ASSUME NEW s \in Seq(Record), NEW n \in Nat
    PROVE  Cardinality(Data(s \o [i \in 1 .. n |-> "data"])) = Cardinality(Data(s)) + n
<1> DEFINE t == s \o [i \in 1 .. n |-> "data"]
           new == Len(s) + 1 .. Len(s) + n
<1>1. /\ DOMAIN t = 1 .. Len(s) + n
      /\ \A i \in DOMAIN s : t[i] = s[i]
      /\ \A i \in new : t[i] = "data"
  <2>1. [i \in 1 .. n |-> "data"] \in Seq({"data"}) /\ Len([i \in 1 .. n |-> "data"]) = n
    OBVIOUS
  <2> QED
    BY <2>1
<1>2. Data(s) \subseteq 1 .. Len(s) /\ DOMAIN s = 1 .. Len(s) /\ Len(s) \in Nat
  BY DEF Data
<1> HIDE DEF t
<1>3. Data(t) = Data(s) \cup new /\ Data(s) \cap new = {}
  BY <1>1, <1>2 DEF Data
<1>4. IsFiniteSet(new) /\ Cardinality(new) = n
  <2>1. \A a, b \in Int :
            IsFiniteSet(a .. b) /\ Cardinality(a .. b) = IF a > b THEN 0 ELSE b - a + 1
    BY FS_Interval
  <2>2. PICK a, b \in Int : a = Len(s) + 1 /\ b = Len(s) + n
    BY <1>2
  <2>3. new = a .. b
    BY <2>2
  <2>4. IsFiniteSet(new) /\ Cardinality(new) = IF a > b THEN 0 ELSE b - a + 1
    BY <2>1, <2>3
  <2> QED
    BY <1>2, <2>2, <2>4
<1>5. IsFiniteSet(Data(s)) /\ Cardinality(Data(s)) \in Nat
  BY DataType
<1> HIDE DEF new
<1>6. Cardinality(Data(s) \cup new) = Cardinality(Data(s)) + n
  <2>1. Cardinality(Data(s) \cup new) =
            Cardinality(Data(s)) + Cardinality(new) - Cardinality(Data(s) \cap new)
    BY <1>4, <1>5, FS_Union
  <2>2. Cardinality(Data(s) \cap new) = 0
    BY <1>3, FS_EmptySet
  <2> QED
    BY <1>4, <1>5, <2>1, <2>2
<1> QED
  BY <1>3, <1>6 DEF t

\* Whatever part of a line was sent before the channel closed: if the peer has
\* its close_notify, it has all of it.
LEMMA PrefixIsWhole ==
    ASSUME NEW line \in Seq(Record), EndsWithNotify(line),
           NEW n \in 0 .. Len(line), Has(SubSeq(line, 1, n), "close_notify")
    PROVE  SubSeq(line, 1, n) = line
<1>1. PICK i \in 1 .. n : line[i] = "close_notify"
  BY DEF Has
<1>2. n = Len(line)
  BY <1>1 DEF EndsWithNotify
<1> QED
  BY <1>2

\* A channel that closes has sent some of its line, and sends no more.
LEMMA WrittenWhenClosed ==
    ASSUME NEW output \in Seq(Record), wire \in Seq(Record),
           NEW promises, channelClose(output, promises),
           EndsWithNotify(wire \o output),
           Cardinality(Data(wire \o output)) = accepted,
           UNCHANGED accepted
    PROVE  Written'
<1>1. PICK n \in 0 .. Len(output) : wire' = wire \o SubSeq(output, 1, n)
  BY DEF channelClose, ChannelCloses
<1>2. pending' = << >> /\ open' = FALSE
  BY DEF channelClose, ChannelCloses
<1> DEFINE line == wire \o output
           m == Len(wire) + n
<1>3. line \in Seq(Record) /\ m \in 0 .. Len(line) /\ wire' = SubSeq(line, 1, m)
  BY <1>1
<1>4. wire' \o pending' = wire'
  BY <1>2, <1>3
<1> HIDE DEF line, m
<1>5. Has(wire', "close_notify") => wire' = line
  BY <1>3, PrefixIsWhole DEF line
<1> QED
  BY <1>2, <1>4, <1>5 DEF Written, line

LEMMA WrittenOfInit ==
    ASSUME Init
    PROVE  Written
<1>1. wire \o pending = << >> /\ open /\ accepted = 0
  BY DEF Init
<1>2. Data(wire \o pending) = {}
  BY <1>1 DEF Data
<1>3. Cardinality(Data(wire \o pending)) = 0
  BY <1>2, FS_EmptySet
<1> QED
  BY <1>1, <1>3 DEF Written, EndsWithNotify, Has

\* Our close_notify is put at the end of the line, once.
LEMMA NotifyIsLast ==
    ASSUME NEW line \in Seq(Record), ~Has(line, "close_notify"),
           NEW record \in Record \ {"data"}
    PROVE  /\ Append(line, record) \in Seq(Record)
           /\ EndsWithNotify(Append(line, record))
           /\ Data(Append(line, record)) = Data(line)
           /\ record # "close_notify" => ~Has(Append(line, record), "close_notify")
<1>1. Append(line, record) \in Seq(Record)
  OBVIOUS
<1>2. EndsWithNotify(Append(line, record))
  BY DEF EndsWithNotify, Has
<1>3. record # "close_notify" => ~Has(Append(line, record), "close_notify")
  BY DEF Has
<1> QED
  BY <1>1, <1>2, <1>3, DataOfAppend

LEMMA WrittenShutDown ==
    ASSUME TypeOK, Written, open, NEW promises, NEW scheduled,
           doShutdownStep(promises, scheduled), UNCHANGED accepted
    PROVE  Written'
<1> DEFINE line == wire \o pending
           output == IF write_shutdown = "none" THEN Append(pending, "close_notify") ELSE pending
<1>1. pending \in Seq(Record) /\ wire \in Seq(Record) /\ "close_notify" \in Record \ {"data"}
  BY DEF TypeOK, Record
<1>2. output \in Seq(Record) /\ line \in Seq(Record)
  BY <1>1
<1>3. EndsWithNotify(wire \o output) /\ Data(wire \o output) = Data(line)
  <2>1. CASE write_shutdown = "none"
    <3>1. ~Has(line, "close_notify")
      BY <2>1 DEF Written
    <3>2. wire \o output = Append(line, "close_notify")
      BY <1>1, <2>1
    <3> HIDE DEF line, output
    <3> QED
      BY <1>1, <1>2, <3>1, <3>2, NotifyIsLast
  <2>2. CASE write_shutdown # "none"
    BY <2>2 DEF Written
  <2> QED
    BY <2>1, <2>2
<1>4. Cardinality(Data(wire \o output)) = accepted
  BY <1>3 DEF Written
<1>5. CASE read_shutdown = "close_notify"
  <2>1. channelClose(output, promises)
    BY <1>5 DEF doShutdownStep
  <2> HIDE DEF output
  <2> QED
    BY <1>1, <1>2, <1>3, <1>4, <2>1, WrittenWhenClosed
<1>6. CASE read_shutdown # "close_notify"
  <2>1. pending' = output /\ UNCHANGED <<wire, open, accepted>> /\ write_shutdown' = "close_notify"
    BY <1>6 DEF doShutdownStep
  <2> HIDE DEF output
  <2> QED
    BY <1>3, <1>4, <2>1 DEF Written
<1> QED
  BY <1>5, <1>6

LEMMA WrittenOfStep ==
    ASSUME TypeOK, Standing, Written, [Next]_vars
    PROVE  Written'
<1> DEFINE line == wire \o pending
<1> USE DEF sslVars, outVars, closeVars, inVars, peerVars
<1>0. pending \in Seq(Record) /\ wire \in Seq(Record) /\ line \in Seq(Record)
  BY DEF TypeOK
<1>1. CASE UNCHANGED <<write_shutdown, pending, wire, open, accepted>>
  BY <1>1 DEF Written
\* A channel that closes with what it has to write.
<1>2. ASSUME open, NEW promises, channelClose(pending, promises), UNCHANGED accepted
      PROVE  Written'
  BY <1>0, <1>2, WrittenWhenClosed DEF Written
<1>3. CASE Writable
  <2>1. /\ pending # << >> /\ wire' = Append(wire, Head(pending)) /\ pending' = Tail(pending)
        /\ UNCHANGED <<write_shutdown, open, accepted>> /\ open
    BY <1>3 DEF Writable
  <2>2. wire' \o pending' = line
    BY <1>0, <2>1
  <2> QED
    BY <2>1, <2>2 DEF Written
<1>4. CASE doHandshakeStep
  <2>1. /\ open /\ write_shutdown = "none"
        /\ pending' = Append(pending, "handshake")
        /\ UNCHANGED <<write_shutdown, wire, open, accepted>>
    BY <1>4 DEF doHandshakeStep, Opens, Standing
  <2>2. ~Has(line, "close_notify") /\ Cardinality(Data(line)) = accepted
    BY <2>1 DEF Written
  <2>3. wire' \o pending' = Append(line, "handshake")
    BY <1>0, <2>1
  <2>4. "handshake" \in Record \ {"data"}
    BY DEF Record
  <2> HIDE DEF line
  <2> QED
    BY <1>0, <2>1, <2>2, <2>3, <2>4, NotifyIsLast DEF Written
<1>5. CASE HandshakeFails
  <2>1. state = "handshaking" /\ UNCHANGED accepted
    BY <1>5 DEF HandshakeFails, Opens
  <2>2. open /\ write_shutdown = "none"
    BY <2>1 DEF Standing
  <2>3. CASE channelClose(pending, closePromise)
    BY <1>2, <2>1, <2>2, <2>3
  <2>4. CASE channelClose(Append(pending, "alert"), closePromise)
    <3>1. ~Has(line, "close_notify") /\ Cardinality(Data(line)) = accepted
      BY <2>2 DEF Written
    <3>2. /\ wire \o Append(pending, "alert") = Append(line, "alert")
          /\ Append(pending, "alert") \in Seq(Record)
          /\ "alert" \in Record \ {"data"}
      BY <1>0 DEF Record
    <3> HIDE DEF line
    <3>3. /\ EndsWithNotify(Append(line, "alert"))
          /\ Data(Append(line, "alert")) = Data(line)
      BY <1>0, <3>1, <3>2, NotifyIsLast
    <3> QED
      BY <1>0, <2>1, <2>4, <3>1, <3>2, <3>3, WrittenWhenClosed
  <2> QED
    BY <1>5, <2>3, <2>4 DEF HandshakeFails
<1>6. CASE ReadFails
  <2>1. state \in {"active", "closing"} /\ channelClose(pending, closePromise) /\ UNCHANGED accepted
    BY <1>6 DEF ReadFails, Opens
  <2> QED
    BY <1>2, <2>1 DEF Standing
<1>7. CASE ShutsDown
  <2>1. CASE state = "closing"
    BY <1>7, <2>1, WrittenShutDown DEF ShutsDown, Standing
  <2>2. CASE state # "closing"
    BY <1>1, <1>7, <2>2 DEF ShutsDown
  <2> QED
    BY <2>1, <2>2
\* What is pending is dropped: the wire is the line without it.
<1>8. CASE channelInactive
  <2>1. channelClose(<< >>, closePromise) /\ open /\ UNCHANGED accepted
    BY <1>8 DEF channelInactive
  <2>2. wire' = wire /\ pending' = << >> /\ ~open'
    BY <1>0, <2>1 DEF channelClose, ChannelCloses
  <2>3. EndsWithNotify(line) /\ Cardinality(Data(line)) = accepted
    BY <2>1 DEF Written
  <2>4. Len(wire) \in 0 .. Len(line) /\ wire = SubSeq(line, 1, Len(wire))
    BY <1>0
  <2>5. wire' \o pending' = wire
    BY <1>0, <2>2
  <2> HIDE DEF line
  <2>6. Has(wire, "close_notify") => wire = line
    BY <1>0, <2>3, <2>4, PrefixIsWhole
  <2> QED
    BY <2>1, <2>2, <2>3, <2>5, <2>6 DEF Written
<1>9. CASE timedOut
  <2>1. CASE state = "closing"
    BY <1>2, <1>9, <2>1 DEF timedOut, Standing
  <2>2. CASE state # "closing"
    BY <1>1, <1>9, <2>2 DEF timedOut
  <2> QED
    BY <2>1, <2>2
<1>10. CASE flush
  <2>1. open
    BY <1>10 DEF flush, HandlersRun
  <2>2. CASE write_shutdown = "none"
    <3>1. /\ pending' = pending \o [i \in 1 .. bufferedWrites |-> "data"]
          /\ accepted' = accepted + bufferedWrites
          /\ UNCHANGED <<write_shutdown, wire, open>>
      BY <1>10, <2>2 DEF flush, Encrypts
    <3>2. bufferedWrites \in Nat /\ accepted \in Nat
      BY DEF TypeOK
    <3> DEFINE more == [i \in 1 .. bufferedWrites |-> "data"]
    <3>3. more \in Seq({"data"})
      BY <3>2
    <3>4. wire' \o pending' = line \o more
      <4> HIDE DEF more
      <4>1. more \in Seq(Record)
        BY <3>3 DEF Record
      <4>2. wire \o (pending \o more) = line \o more
        BY <1>0, <4>1
      <4> QED
        BY <3>1, <4>2 DEF more
    <3>5. ~Has(line, "close_notify") /\ Cardinality(Data(line)) = accepted
      BY <2>1, <2>2 DEF Written
    <3>6. Cardinality(Data(line \o more)) = accepted + bufferedWrites
      BY <1>0, <3>2, <3>5, DataOfConcat
    <3> HIDE DEF line, more
    <3>7. ~Has(line \o more, "close_notify")
      BY <1>0, <3>3, <3>5 DEF Has
    <3>8. EndsWithNotify(line \o more)
      BY <3>7 DEF Has, EndsWithNotify
    <3> QED
      BY <2>1, <3>1, <3>4, <3>6, <3>7, <3>8 DEF Written
  <2>3. CASE write_shutdown # "none"
    BY <1>2, <1>10, <2>1, <2>3 DEF flush
  <2> QED
    BY <2>2, <2>3
<1>11. CASE closeHandshaking
  BY <1>2, <1>11 DEF closeHandshaking, AsksToClose, HandlersRun
<1>12. CASE closeActive
  BY <1>12, WrittenShutDown DEF closeActive, AsksToClose, HandlersRun
<1>13. CASE \/ \E record \in {"hello", "finished", "data"} \cup LastRecord : PeerSends(record)
            \/ PeerEnds \/ (\E n \in 1 .. MaxSent : channelRead(n))
            \/ ReadData \/ ReadCloseNotify \/ Decoded \/ channelReadComplete \/ write
            \/ closeClosing \/ UNCHANGED vars
  <2>1. UNCHANGED <<write_shutdown, pending, wire, open, accepted>>
    BY <1>13 DEF PeerSends, PeerEnds, channelRead, ReadData, ReadCloseNotify, Decoded,
                 channelReadComplete, write, closeClosing, AsksToClose, vars
  <2> QED
    BY <1>1, <2>1
<1> QED
  BY <1>3, <1>4, <1>5, <1>6, <1>7, <1>8, <1>9, <1>10, <1>11, <1>12, <1>13 DEF Next, LoopStep

-----------------------------------------------------------------------------
LEMMA Invariant == Spec => []IInv
<1>1. Init => IInv
  BY TypesOfInit, StandsOfInit, ReadingOfInit, WrittenOfInit DEF IInv
<1>2. IInv /\ [Next]_vars => IInv'
  BY TypesOfStep, StandsOfStep, ReadingOfStep, WrittenOfStep DEF IInv
<1> QED
  BY <1>1, <1>2, PTL DEF Spec

\* TypeOK: every variable keeps its type, and whenever a shutdown step is
\* taken, or the timer fires, the handler is in a state in which it may
\* (NIOSSLHandler.swift 298, 334).
THEOREM ShutdownNeverTraps == Spec => []TypeOK
  BY Invariant, PTL DEF IInv

\* EndsAreReported: a connection the server did not close has ended with the
\* peer's close_notify, or an error was reported (95-134, 403-407).
THEOREM EveryEndIsReported == Spec => []EndsAreReported
  BY Invariant, PTL DEF IInv

\* CleanEndIsWhole: with the peer's close_notify the handlers have all the
\* data that was sent before it, once and in order (382-401).
THEOREM CleanEndsAreWhole == Spec => []CleanEndIsWhole
<1>1. IInv => CleanEndIsWhole
  <2> SUFFICES ASSUME IInv, read_shutdown = "close_notify"
               PROVE  /\ Places(delivered) = {i \in DOMAIN sent : sent[i] = "data"}
                      /\ Increasing(delivered)
    BY DEF CleanEndIsWhole
  <2>1. opened = Len(sent) /\ DOMAIN sent = 1 .. Len(sent) /\ plaintext = << >>
    BY DEF IInv, TypeOK, Reading, EndRead
  <2>2. Places(plaintext) = {}
    BY <2>1 DEF Places
  <2> QED
    BY <2>1, <2>2 DEF IInv, Reading, Gathered
<1> QED
  BY <1>1, Invariant, PTL

\* PeerKnowsTheEnd: a peer that is sent our close_notify has been sent all the
\* data that was encrypted before, whatever the channel had yet to write when
\* it was closed (298-334, 681-687).
THEOREM PeersKnowTheEnd == Spec => []PeerKnowsTheEnd
<1>1. IInv => PeerKnowsTheEnd
  <2> SUFFICES ASSUME IInv, Has(wire, "close_notify")
               PROVE  Cardinality(Data(wire)) = accepted
    BY DEF PeerKnowsTheEnd, Data
  <2> DEFINE line == wire \o pending
  <2>1. wire \in Seq(Record) /\ pending \in Seq(Record) /\ line \in Seq(Record)
    BY DEF IInv, TypeOK
  <2>2. Len(wire) \in 0 .. Len(line) /\ wire = SubSeq(line, 1, Len(wire))
    BY <2>1
  <2>3. Has(line, "close_notify")
    BY <2>1 DEF Has
  <2>4. Cardinality(Data(line)) = accepted
    BY <2>3 DEF IInv, Written
  <2>5. wire = line
    <3>1. CASE open
      <4>1. EndsWithNotify(line)
        BY <3>1 DEF IInv, Written
      <4> HIDE DEF line
      <4> QED
        BY <2>1, <2>2, <4>1, PrefixIsWhole
    <3>2. CASE ~open
      <4>1. pending = << >>
        BY <3>2 DEF IInv, Written
      <4> QED
        BY <2>1, <4>1
    <3> QED
      BY <3>1, <3>2
  <2> QED
    BY <2>4, <2>5
<1> QED
  BY <1>1, Invariant, PTL

-----------------------------------------------------------------------------
(* The handlers hear a SecureStream.                                       *)

Told == errors # {} \/ closes > 0

Over == Has(sent, "close_notify")

\* The abstract variables all stay.
LEMMA StreamStays ==
    ASSUME UNCHANGED <<sent, delivered, EndHeard, Told>>
    PROVE  UNCHANGED Stream!streamVars
  BY DEF Stream!streamVars, DataSent, Has, Told

\* A step that reads nothing and hands nothing on may end the connection, of
\* which the handlers know the reason, or tell them of a reason.
LEMMA StreamEnds ==
    ASSUME TypeOK, EndsAreReported', UNCHANGED <<sent, delivered>>,
           read_shutdown' = "close_notify" <=> read_shutdown = "close_notify",
           open' => open, Told => Told', closes' \in Nat
    PROVE  [Stream!Next]_(Stream!streamVars)
<1>1. UNCHANGED <<DataSent, Over, delivered>>
  BY DEF DataSent, Over, Has
<1>2. CASE EndHeard' = EndHeard /\ Told' = Told
  BY <1>2, StreamStays
<1>3. CASE EndHeard' = EndHeard /\ Told' # Told
  <2>1. Told' = TRUE
    BY <1>3 DEF Told
  <2>2. Stream!Learn
    BY <1>1, <1>3, <2>1 DEF Stream!Learn, Told, Over
  <2> QED
    BY <2>2 DEF Stream!Next
<1>4. CASE EndHeard' # EndHeard
  <2>1. EndHeard = "none" /\ EndHeard' = "cut" /\ ~open' /\ read_shutdown' # "close_notify"
    BY <1>4 DEF EndHeard
  <2>2. Told' = TRUE
    BY <2>1 DEF EndsAreReported, Told
  <2>3. Stream!Cut
    BY <1>1, <2>1, <2>2 DEF Stream!Cut, Told, Over
  <2> QED
    BY <2>3 DEF Stream!Next
<1> QED
  BY <1>2, <1>3, <1>4

\* Once what was read is handed on, what was heard goes on without a gap.
LEMMA HearsOn ==
    ASSUME IInv, IInv', UNCHANGED sent, doFlushReadData
    PROVE  Stream!HearsOn
<1>1. plaintext \in Seq(Nat) /\ delivered \in Seq(Nat)
  BY PlacesAreNumbers DEF IInv
<1>2. delivered' = delivered \o plaintext
  BY DEF doFlushReadData
<1>3. /\ Len(delivered) <= Len(delivered')
      /\ \A i \in DOMAIN delivered : delivered'[i] = delivered[i]
  BY <1>1, <1>2
<1>4. \A i, j \in DOMAIN delivered' : i < j => delivered'[i] < delivered'[j]
  BY DEF IInv, Reading, Gathered, Increasing
<1>5. Stream!Pieces(delivered') = Places(delivered')
  BY DEF Stream!Pieces, Places
<1>6. /\ Places(delivered') \cup Places(plaintext') = {i \in 1 .. opened' : sent'[i] = "data"}
      /\ \A i \in Places(delivered'), j \in Places(plaintext') : i < j
      /\ opened' \in Nat /\ opened' <= Len(sent) /\ DOMAIN sent = 1 .. Len(sent)
      /\ Len(sent) \in Nat
  <2>1. TypeOK /\ TypeOK' /\ Gathered'
    BY DEF IInv, Reading
  <2>2. DOMAIN sent = 1 .. Len(sent) /\ Len(sent) \in Nat
    <3>1. sent \in Seq({"hello", "finished", "data"} \cup LastRecord)
      BY <2>1 DEF TypeOK
    <3> HIDE DEF IInv
    <3> QED
      BY <3>1
  <2>3. opened' \in 0 .. taken' /\ taken' \in 0 .. Len(sent')
    BY <2>1 DEF TypeOK
  <2>4. opened' \in Nat /\ opened' <= Len(sent)
    BY <2>2, <2>3
  <2> QED
    BY <2>1, <2>2, <2>4 DEF Gathered
<1>7. Places(delivered') \subseteq DataSent
  BY <1>6 DEF DataSent
<1>8. ASSUME NEW i \in Places(delivered'), NEW j \in DataSent, j < i
      PROVE  j \in Places(delivered')
  <2>1. i \in 1 .. opened' /\ j \in 1 .. opened' /\ sent'[j] = "data"
    BY <1>6, <1>8 DEF DataSent
  <2>2. j \notin Places(plaintext')
    BY <1>6, <1>8, <2>1
  <2> QED
    BY <1>6, <2>1, <2>2
<1> QED
  BY <1>3, <1>4, <1>5, <1>7, <1>8 DEF Stream!HearsOn

\* Every step of the connection is a step of the stream, or none.
LEMMA StreamStep ==
    ASSUME IInv, IInv', [Next]_vars
    PROVE  [Stream!Next]_(Stream!streamVars)
<1> USE DEF sslVars, outVars, closeVars, inVars, peerVars
<1>0. TypeOK /\ Standing /\ Reading /\ EndsAreReported' /\ closes \in Nat /\ closes' \in Nat
  BY DEF IInv, TypeOK
<1>1. ASSUME NEW record \in {"hello", "finished", "data"} \cup LastRecord, PeerSends(record)
      PROVE  [Stream!Next]_(Stream!streamVars)
  <2> DEFINE n == Len(sent) + 1
  <2>1. /\ sent' = Append(sent, record)
        /\ Len(sent) < MaxSent
        /\ \A i \in DOMAIN sent : sent[i] # "close_notify"
        /\ UNCHANGED <<delivered, EndHeard, Told>>
    BY <1>1 DEF PeerSends, Has, LastRecord, EndHeard, Told
  <2>2. sent \in Seq({"hello", "finished", "data"} \cup LastRecord)
    BY <1>0 DEF TypeOK
  <2>3. /\ DOMAIN sent = 1 .. Len(sent) /\ DOMAIN sent' = DOMAIN sent \cup {n}
        /\ sent'[n] = record /\ n \notin DOMAIN sent
        /\ \A i \in DOMAIN sent : sent'[i] = sent[i] /\ i < n
        /\ n \in Nat \ {0}
    BY <2>1, <2>2
  <2> HIDE DEF n
  <2>4. CASE record = "data"
    <3>1. DataSent' = DataSent \cup {n} /\ \A j \in DataSent : j < n
      BY <2>3, <2>4 DEF DataSent
    <3>2. ~Over /\ Over' = Over
      BY <2>1, <2>3, <2>4 DEF Over, Has
    <3>3. n \in 1 .. MaxSent
      BY <2>1, <2>2, NIOSSLHandlerAssumption DEF n
    <3>4. Stream!Say(n)
      BY <2>1, <3>1, <3>2 DEF Stream!Say, Over, Told
    <3> QED
      BY <3>3, <3>4 DEF Stream!Next
  <2>5. CASE record = "close_notify"
    <3>1. DataSent' = DataSent
      BY <2>3, <2>5 DEF DataSent
    <3>2. ~Over /\ Over' = TRUE
      BY <2>1, <2>3, <2>5 DEF Over, Has
    <3>3. Stream!SayEnd
      BY <2>1, <3>1, <3>2 DEF Stream!SayEnd, Over, Told
    <3> QED
      BY <3>3 DEF Stream!Next
  <2>6. CASE record \notin {"data", "close_notify"}
    <3>1. DataSent' = DataSent
      BY <2>3, <2>6 DEF DataSent
    <3>2. Over' = Over
      BY <2>1, <2>3, <2>6 DEF Over, Has
    <3>3. UNCHANGED Stream!streamVars
      BY <2>1, <3>1, <3>2 DEF Stream!streamVars, Over, Told
    <3> QED
      BY <3>3
  <2> QED
    BY <2>4, <2>5, <2>6
<1>2. CASE channelReadComplete
  <2>1. UNCHANGED <<sent, Over, DataSent, EndHeard, Told>>
    BY <1>2 DEF channelReadComplete, Over, Has, DataSent, EndHeard, Told
  <2>2. CASE ~open \/ EndHeard # "none"
    <3>1. delivered' = delivered
      <4>1. CASE ~open
        BY <1>2, <4>1 DEF channelReadComplete
      <4>2. CASE open
        <5>1. plaintext = << >>
          BY <1>0, <2>2, <4>2 DEF EndHeard, Reading, EndRead
        <5>2. delivered' = delivered \o plaintext
          BY <1>2, <4>2 DEF channelReadComplete, doFlushReadData
        <5> QED
          BY <1>0, <5>1, <5>2 DEF TypeOK
      <4> QED
        BY <4>1, <4>2
    <3> QED
      BY <2>1, <3>1, StreamStays
  <2>3. CASE open /\ EndHeard = "none"
    <3>1. doFlushReadData
      BY <1>2, <2>3 DEF channelReadComplete
    <3>2. Stream!HearsOn
      BY <2>1, <3>1, HearsOn
    <3>3. Stream!Hear
      BY <2>1, <2>3, <3>2 DEF Stream!Hear, Over, Told
    <3> QED
      BY <3>3 DEF Stream!Next
  <2> QED
    BY <2>2, <2>3
<1>3. CASE ReadCloseNotify
  <2>1. /\ Opens({"close_notify"}, {"active", "closing"})
        /\ doFlushReadData /\ read_shutdown' = "close_notify"
        /\ UNCHANGED <<sent, Over, DataSent, Told>>
    BY <1>3 DEF ReadCloseNotify, Opens, Over, Has, DataSent, Told
  <2>2. /\ opened' = opened + 1 /\ opened' \in 1 .. Len(sent) /\ sent[opened'] = "close_notify"
    BY <1>0, <2>1, TypesOfOpened DEF Opens
  <2>3. open /\ read_shutdown # "close_notify"
    <3>1. opened # Len(sent)
      BY <1>0, <2>2 DEF TypeOK
    <3> QED
      BY <1>0, <2>1, <3>1 DEF Opens, Standing, Reading, EndRead
  <2>4. EndHeard = "none" /\ EndHeard' = "clean"
    BY <2>1, <2>3 DEF EndHeard
  <2>5. Over
    BY <1>0, <2>2 DEF Over, Has, TypeOK
  <2>6. Stream!Pieces(delivered') = DataSent
    <3>1. plaintext' = << >> /\ opened' = Len(sent') /\ DOMAIN sent' = 1 .. Len(sent')
      BY <2>1 DEF IInv, TypeOK, Reading, EndRead
    <3>2. Places(plaintext') = {}
      BY <3>1 DEF Places
    <3>3. Places(delivered') = {i \in DOMAIN sent' : sent'[i] = "data"}
      BY <3>1, <3>2 DEF IInv, Reading, Gathered
    <3> QED
      BY <2>1, <3>3 DEF Stream!Pieces, Places, DataSent
  <2>7. Stream!HearsOn
    BY <2>1, HearsOn
  <2>8. Stream!HearEnd
    BY <2>1, <2>4, <2>5, <2>6, <2>7 DEF Stream!HearEnd, Over, Told
  <2> QED
    BY <2>8 DEF Stream!Next
<1>4. CASE HandshakeFails \/ ReadFails
  <2>1. /\ UNCHANGED <<sent, delivered>> /\ Told' /\ ~open'
        /\ read_shutdown' = "error" \/ UNCHANGED read_shutdown
    BY <1>4 DEF HandshakeFails, ReadFails, Opens, channelClose, ChannelCloses, Told
  <2>2. PICK records, states : Opens(records, states)
    BY <1>4 DEF HandshakeFails, ReadFails
  <2>3. read_shutdown # "close_notify"
    <3>1. opened # Len(sent)
      BY <1>0, <2>2 DEF TypeOK, Opens
    <3> QED
      BY <1>0, <3>1 DEF Reading, EndRead
  <2> QED
    BY <1>0, <2>1, <2>3, StreamEnds
<1>5. CASE \/ ShutsDown \/ channelInactive \/ timedOut \/ flush
           \/ closeHandshaking \/ closeActive \/ closeClosing
  <2>1. UNCHANGED <<sent, delivered, read_shutdown>>
    BY <1>5 DEF ShutsDown, channelInactive, timedOut, flush, AsksToClose,
                closeHandshaking, closeActive, closeClosing
  <2>2. errors \subseteq errors' /\ (closes' = closes \/ closes' = closes + 1)
    BY <1>5 DEF ShutsDown, channelInactive, timedOut, flush, AsksToClose, doShutdownStep,
                channelClose, Encrypts, closeHandshaking, closeActive, closeClosing
  <2>3. open' => open
    BY <1>5 DEF ShutsDown, channelInactive, timedOut, flush, AsksToClose, doShutdownStep,
                channelClose, ChannelCloses, Encrypts, closeHandshaking, closeActive,
                closeClosing, HandlersRun
  <2>4. Told => Told'
    BY <1>0, <2>2 DEF Told
  <2> QED
    BY <1>0, <2>1, <2>3, <2>4, StreamEnds
<1>6. CASE \/ PeerEnds \/ Writable \/ (\E n \in 1 .. MaxSent : channelRead(n))
           \/ doHandshakeStep \/ ReadData \/ Decoded \/ write \/ UNCHANGED vars
  <2>1. UNCHANGED <<sent, delivered, read_shutdown, open, errors, closes>>
    BY <1>6 DEF PeerEnds, Writable, channelRead, doHandshakeStep, ReadData, Opens, Decoded,
                write, vars
  <2>2. UNCHANGED <<EndHeard, Told>>
    BY <2>1 DEF EndHeard, Told
  <2> QED
    BY <2>1, <2>2, StreamStays
<1> QED
  BY <1>1, <1>2, <1>3, <1>4, <1>5, <1>6 DEF Next, LoopStep

\* What the handlers are given of a TLS connection is a secure stream: the
\* peer's data in order, once and without gaps, all of it when the connection
\* ends properly, and no other end they do not know the reason of, for any
\* number of records, reads, writes and closes (NIOSSLHandler.swift 95-134,
\* 298-334, 382-407).
THEOREM ImplementsASecureStream == Spec => ImplementsStream
<1>1. Init => Stream!Init
  BY DEF Init, Stream!Init, DataSent, Has, EndHeard
<1>2. IInv /\ IInv' /\ [Next]_vars => [Stream!Next]_(Stream!streamVars)
  BY StreamStep
<1> QED
  BY <1>1, <1>2, Invariant, PTL DEF Spec, ImplementsStream, Stream!Spec

-----------------------------------------------------------------------------
(* Closes.                                                                 *)

\* Of the closes the handlers asked for, those not yet answered wait for the
\* connection to close; none is answered twice, and none is left when it has.
ClosesCounted ==
    /\ answered + closePromise = closes
    /\ ~open => answered = closes

\* Only a connection that is closing has closes that wait.
Waiting == closePromise # 0 => state = "closing"

LEMMA ClosedCounts ==
    ASSUME TypeOK, NEW output, NEW promises \in Nat, channelClose(output, promises),
           closes' = answered + promises
    PROVE  ClosesCounted' /\ Waiting'
  BY DEF TypeOK, channelClose, ChannelCloses, ClosesCounted, Waiting

LEMMA ShutDownCounts ==
    ASSUME TypeOK, open, NEW promises \in Nat, NEW scheduled, doShutdownStep(promises, scheduled),
           closes' = answered + promises
    PROVE  ClosesCounted' /\ Waiting'
<1>1. CASE read_shutdown = "close_notify"
  <2>1. PICK output : channelClose(output, promises)
    BY <1>1 DEF doShutdownStep
  <2> QED
    BY <2>1, ClosedCounts
<1>2. CASE read_shutdown # "close_notify"
  BY <1>2 DEF TypeOK, doShutdownStep, ClosesCounted, Waiting
<1> QED
  BY <1>1, <1>2

LEMMA CountsOfStep ==
    ASSUME IInv, ClosesCounted, Waiting, [Next]_vars
    PROVE  ClosesCounted' /\ Waiting'
<1> USE DEF sslVars, outVars, closeVars, inVars, peerVars
<1>0. /\ TypeOK /\ Standing
      /\ answered \in Nat /\ closePromise \in Nat /\ closes \in Nat
      /\ answered + closePromise = closes
  BY DEF IInv, TypeOK, ClosesCounted
<1>1. CASE HandshakeFails \/ ReadFails \/ channelInactive
  <2>1. UNCHANGED closes /\ \E output : channelClose(output, closePromise)
    BY <1>1 DEF HandshakeFails, ReadFails, channelInactive
  <2> QED
    BY <1>0, <2>1, ClosedCounts
<1>2. CASE ShutsDown
  <2>1. CASE state = "closing"
    <3>1. open /\ doShutdownStep(closePromise, timer) /\ UNCHANGED closes
      BY <1>0, <1>2, <2>1 DEF ShutsDown, Standing
    <3> QED
      BY <1>0, <3>1, ShutDownCounts
  <2>2. CASE state # "closing"
    BY <1>2, <2>2 DEF ShutsDown, ClosesCounted, Waiting
  <2> QED
    BY <2>1, <2>2
<1>3. CASE timedOut
  <2>1. CASE state = "closing"
    BY <1>0, <1>3, <2>1, ClosedCounts DEF timedOut
  <2>2. CASE state = "closed"
    BY <1>3, <2>2 DEF timedOut, ClosesCounted, Waiting
  <2> QED
    BY <1>0, <1>3, <2>1, <2>2 DEF timedOut, Standing
<1>4. CASE flush
  <2>1. CASE write_shutdown = "none"
    BY <1>4, <2>1 DEF flush, Encrypts, ClosesCounted, Waiting
  <2>2. CASE write_shutdown # "none"
    BY <1>0, <1>4, <2>2, ClosedCounts DEF flush
  <2> QED
    BY <2>1, <2>2
<1>5. CASE closeHandshaking
  <2>1. closePromise = 0 /\ closes' = closes + 1 /\ channelClose(pending, 1)
    BY <1>5 DEF closeHandshaking, AsksToClose, Waiting
  <2> QED
    BY <1>0, <2>1, ClosedCounts
<1>6. CASE closeActive
  <2>1. /\ closePromise = 0 /\ closes' = closes + 1 /\ open
        /\ doShutdownStep(1, TRUE)
    BY <1>6 DEF closeActive, AsksToClose, HandlersRun, Waiting
  <2>2. closes' = answered + 1 /\ 1 \in Nat
    BY <1>0, <2>1
  <2> QED
    BY Zenon, <1>0, <2>1, <2>2, ShutDownCounts
<1>7. CASE closeClosing
  BY <1>0, <1>7 DEF closeClosing, AsksToClose, HandlersRun, ClosesCounted, Waiting
<1>8. CASE doHandshakeStep \/ ReadCloseNotify
  BY <1>8 DEF doHandshakeStep, ReadCloseNotify, Opens, ClosesCounted, Waiting
<1>9. CASE \/ \E record \in {"hello", "finished", "data"} \cup LastRecord : PeerSends(record)
           \/ PeerEnds \/ Writable \/ (\E n \in 1 .. MaxSent : channelRead(n))
           \/ ReadData \/ Decoded \/ channelReadComplete \/ write \/ UNCHANGED vars
  <2>1. UNCHANGED closeVars
    BY <1>9 DEF PeerSends, PeerEnds, Writable, channelRead, ReadData, Decoded,
                channelReadComplete, write, vars
  <2> QED
    BY <2>1 DEF ClosesCounted, Waiting
<1> QED
  BY <1>1, <1>2, <1>3, <1>4, <1>5, <1>6, <1>7, <1>8, <1>9 DEF Next, LoopStep

\* ClosesCounted: every close the handlers or stop() ask for is answered once,
\* when the connection has closed at the latest, however it closes and
\* whichever of them came first (NIOSSLHandler.swift 178-217, 484-488).
THEOREM ClosesAnsweredOnce == Spec => []ClosesCounted
<1>1. Init => ClosesCounted /\ Waiting
  BY DEF Init, ClosesCounted, Waiting
<1>2. IInv /\ ClosesCounted /\ Waiting /\ [Next]_vars => (ClosesCounted /\ Waiting)'
  BY CountsOfStep
<1> QED
  BY <1>1, <1>2, Invariant, PTL DEF Spec

=============================================================================
