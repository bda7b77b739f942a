----------------------- MODULE FrameAggregator_proofs -----------------------
(***************************************************************************)
(* The buffer stays within its limits, only whole messages are handed on,  *)
(* in turn, and every message within the limits is, for every value of the *)
(* limits and any frames.                                                  *)
(***************************************************************************)
EXTENDS FrameAggregator, FiniteSetTheorems, TLAPS

\* What is in the buffer is the beginning of a message: a first fragment and
\* continuations, none final, none refused, and everything read since the
\* first is in the buffer or a frame that passes.
Gathering ==
    bufferedFrames # << >> =>
        /\ read[bufferedFrames[1]].opcode \in DataOpcode
        /\ \A k \in DOMAIN bufferedFrames :
              /\ bufferedFrames[k] \in DOMAIN read
              /\ ~read[bufferedFrames[k]].fin
              /\ bufferedFrames[k] \notin refused
        /\ \A k \in 2 .. Len(bufferedFrames) :
              /\ read[bufferedFrames[k]].opcode = "continuation"
              /\ bufferedFrames[k - 1] < bufferedFrames[k]
        /\ \A i \in DOMAIN read :
              bufferedFrames[1] < i /\ (\A k \in DOMAIN bufferedFrames : bufferedFrames[k] # i)
                  => read[i].opcode \in Passed

RefusedRead == refused \subseteq DOMAIN read

IInv == TypeOK /\ RefusedRead /\ BufferIsBounded /\ Gathering /\ AllWhole

\* A position of read keeps its frame when another is read.
LEMMA ReadKept ==
    ASSUME TypeOK, NEW f \in Frame, Reads(f)
    PROVE  /\ Len(read') = Len(read) + 1
           /\ DOMAIN read = 1 .. Len(read)
           /\ DOMAIN read' = DOMAIN read \cup {This}
           /\ This \in Nat
           /\ This \notin DOMAIN read
           /\ \A i \in DOMAIN read : i \in Nat /\ i < This /\ read'[i] = read[i]
           /\ read'[This] = f
           /\ read' \in Seq(Frame)
  BY DEF TypeOK, Reads, This

Message == [opcode : DataOpcode \cup Passed, frames : Seq(Nat)]

\* Fragments and Whole with what they read as parameters.
FragmentsIn(p, r) ==
    /\ \A k \in DOMAIN p : p[k] \in DOMAIN r
    /\ r[p[1]].opcode \in DataOpcode
    /\ \A k \in 2 .. Len(p) : r[p[k]].opcode = "continuation" /\ p[k - 1] < p[k]
    /\ \A i \in DOMAIN r :
          p[1] < i /\ i < p[Len(p)] /\ (\A k \in DOMAIN p : p[k] # i)
              => r[i].opcode \in Passed

WholeIn(m, r, x) ==
    \/ /\ Len(m.frames) = 1 /\ m.frames[1] \in DOMAIN r
       /\ m.opcode = r[m.frames[1]].opcode /\ m.opcode \in Passed
    \/ /\ m.frames # << >> /\ FragmentsIn(m.frames, r)
       /\ m.opcode = r[m.frames[1]].opcode
       /\ \A k \in DOMAIN m.frames : r[m.frames[k]].fin <=> k = Len(m.frames)
       /\ \A k \in DOMAIN m.frames : m.frames[k] \notin x
       /\ Len(m.frames) = 1 \/ Len(m.frames) <= maxAccumulatedFrameCount

LEMMA MessagesAre ==
    AllWhole <=> \A k \in DOMAIN forwarded : WholeIn(forwarded[k], read, refused)
  BY Zenon DEF AllWhole, Whole, Fragments, WholeIn, FragmentsIn

LEMMA MessagesAreNext ==
    AllWhole' <=> \A k \in DOMAIN forwarded' : WholeIn(forwarded'[k], read', refused')
  BY Zenon DEF AllWhole, Whole, Fragments, WholeIn, FragmentsIn

\* The fragments of a message stay that when another frame is read.
LEMMA FragmentsKept ==
    ASSUME NEW r \in Seq(Frame), NEW f \in Frame,
           NEW p \in Seq(Nat), p # << >>, FragmentsIn(p, r)
    PROVE  FragmentsIn(p, Append(r, f))
<1> DEFINE s == Append(r, f)
<1>1. /\ 1 \in DOMAIN p
      /\ Len(p) \in DOMAIN p
      /\ \A k \in 2 .. Len(p) : k \in DOMAIN p
  OBVIOUS
<1>2. /\ \A i \in DOMAIN s : i \in DOMAIN r \/ i = Len(r) + 1
      /\ \A i \in DOMAIN r : i \in Nat /\ i <= Len(r) /\ i \in DOMAIN s /\ s[i] = r[i]
  OBVIOUS
<1> HIDE DEF s
<1>3. \A k \in DOMAIN p : p[k] \in DOMAIN r /\ p[k] \in DOMAIN s /\ s[p[k]] = r[p[k]]
  BY <1>2 DEF FragmentsIn
<1>4. s[p[1]].opcode \in DataOpcode
  BY <1>1, <1>3 DEF FragmentsIn
<1>5. \A k \in 2 .. Len(p) : s[p[k]].opcode = "continuation" /\ p[k - 1] < p[k]
  BY <1>1, <1>3 DEF FragmentsIn
<1>6. ASSUME NEW i \in DOMAIN s,
             p[1] < i, i < p[Len(p)], \A k \in DOMAIN p : p[k] # i
      PROVE  s[i].opcode \in Passed
  <2>1. i # Len(r) + 1
    BY <1>1, <1>2, <1>3, <1>6
  <2>2. i \in DOMAIN r /\ s[i] = r[i]
    BY <1>2, <2>1
  <2> QED
    BY <1>6, <2>2 DEF FragmentsIn
<1> QED
  BY <1>3, <1>4, <1>5, <1>6 DEF FragmentsIn, s

\* A message that is whole stays whole, whatever is read and refused next.
LEMMA WholeKept ==
    ASSUME NEW r \in Seq(Frame), NEW f \in Frame, NEW x, NEW y,
           y \subseteq x \cup {Len(r) + 1},
           NEW m \in Message, WholeIn(m, r, x)
    PROVE  WholeIn(m, Append(r, f), y)
<1> DEFINE p == m.frames
           s == Append(r, f)
<1> DEFINE AsItCame == /\ Len(p) = 1 /\ p[1] \in DOMAIN r
                       /\ m.opcode = r[p[1]].opcode /\ m.opcode \in Passed
<1>1. CASE AsItCame
  <2>1. \A i \in DOMAIN r : i \in DOMAIN s /\ s[i] = r[i]
    OBVIOUS
  <2> QED
    BY <1>1, <2>1 DEF WholeIn
<1>2. CASE ~AsItCame
  <2>1. /\ p \in Seq(Nat) /\ p # << >> /\ FragmentsIn(p, r)
        /\ m.opcode = r[p[1]].opcode
        /\ \A k \in DOMAIN p : r[p[k]].fin <=> k = Len(p)
        /\ \A k \in DOMAIN p : p[k] \notin x
        /\ Len(p) = 1 \/ Len(p) <= maxAccumulatedFrameCount
    BY <1>2 DEF WholeIn, Message
  <2>2. FragmentsIn(p, s)
    BY <2>1, FragmentsKept
  <2>3. \A i \in DOMAIN r : i # Len(r) + 1 /\ s[i] = r[i]
    OBVIOUS
  <2>4. 1 \in DOMAIN p /\ \A k \in DOMAIN p : p[k] \in DOMAIN r
    BY <2>1 DEF FragmentsIn
  <2> HIDE DEF s, p
  <2>5. \A k \in DOMAIN p : p[k] \notin y
    BY <2>1, <2>3, <2>4
  <2>6. \A k \in DOMAIN p : s[p[k]].fin <=> k = Len(p)
    BY <2>1, <2>3, <2>4
  <2>7. m.opcode = s[p[1]].opcode
    BY <2>1, <2>3, <2>4
  <2> QED
    BY <2>1, <2>2, <2>5, <2>6, <2>7 DEF WholeIn, p, s
<1> QED
  BY <1>1, <1>2

\* The messages handed on stay whole when a frame is read, and one more whole
\* message may join them.
LEMMA MessagesKept ==
    ASSUME TypeOK, RefusedRead, AllWhole, NEW f \in Frame, Reads(f),
           refused' \subseteq refused \cup {This},
           \/ forwarded' = forwarded
           \/ \E n \in Message : /\ forwarded' = Append(forwarded, n)
                                 /\ WholeIn(n, read', refused')
    PROVE  AllWhole'
<1>1. read \in Seq(Frame) /\ read' = Append(read, f) /\ This = Len(read) + 1
  BY DEF TypeOK, Reads, This
<1>2. \A k \in DOMAIN forwarded : forwarded[k] \in Message
  <2>1. forwarded \in Seq(Message)
    BY Zenon DEF TypeOK, Message
  <2> QED
    BY <2>1
<1>3. \A k \in DOMAIN forwarded : WholeIn(forwarded[k], read, refused)
  BY MessagesAre
<1>4. \A k \in DOMAIN forwarded : WholeIn(forwarded[k], read', refused')
  BY <1>1, <1>2, <1>3, WholeKept
<1>5. CASE forwarded' = forwarded
  BY <1>4, <1>5, MessagesAreNext
<1>6. ASSUME NEW n \in Message, forwarded' = Append(forwarded, n), WholeIn(n, read', refused')
      PROVE  AllWhole'
  <2>1. forwarded \in Seq(Message)
    BY DEF TypeOK, Message
  <2>2. \A k \in DOMAIN forwarded' :
           \/ k \in DOMAIN forwarded /\ forwarded'[k] = forwarded[k]
           \/ forwarded'[k] = n
    BY <1>6, <2>1
  <2> QED
    BY <1>4, <1>6, <2>2, MessagesAreNext
<1> QED
  BY <1>5, <1>6

\* Initially nothing is read, gathered or handed on.
LEMMA InitIInv == Init => IInv
<1> SUFFICES ASSUME Init PROVE IInv
  OBVIOUS
<1>1. TypeOK
  BY DEF Init, TypeOK
<1>2. BufferIsBounded
  BY FrameAggregatorAssumption DEF Init, BufferIsBounded
<1> QED
  BY <1>1, <1>2 DEF Init, IInv, RefusedRead, Gathering, AllWhole

\* The fragments that are gathered, with the one just read, are the fragments
\* of one message.
LEMMA GatheredFragments ==
    ASSUME TypeOK, RefusedRead, Gathering, NEW f \in Frame, Reads(f), Gathers(f)
    PROVE  LET p == Append(bufferedFrames, This) IN
           /\ p \in Seq(Nat)
           /\ Len(p) = Len(bufferedFrames) + 1
           /\ \A k \in DOMAIN bufferedFrames : p[k] = bufferedFrames[k]
           /\ p[Len(p)] = This
           /\ DOMAIN p = DOMAIN bufferedFrames \cup {Len(p)}
           /\ Len(p) \notin DOMAIN bufferedFrames
           /\ \A k \in DOMAIN p : p[k] \in DOMAIN read'
           /\ \A k \in DOMAIN bufferedFrames :
                 ~read'[p[k]].fin /\ p[k] \notin refused /\ p[k] # This
           /\ This \notin refused
           /\ read'[p[1]].opcode \in DataOpcode
           /\ bufferedFrames # << >> => read'[p[1]].opcode = read[bufferedFrames[1]].opcode
           /\ \A k \in 2 .. Len(p) : read'[p[k]].opcode = "continuation" /\ p[k - 1] < p[k]
           /\ \A i \in DOMAIN read' :
                 p[1] < i /\ (\A k \in DOMAIN p : p[k] # i) => read'[i].opcode \in Passed
<1> DEFINE p == Append(bufferedFrames, This)
<1>0. bufferedFrames \in Seq(Nat) /\ This \in Nat
  BY ReadKept DEF TypeOK
<1>1. /\ p \in Seq(Nat)
      /\ Len(p) = Len(bufferedFrames) + 1
      /\ \A k \in DOMAIN bufferedFrames : p[k] = bufferedFrames[k]
      /\ p[Len(p)] = This
      /\ DOMAIN p = DOMAIN bufferedFrames \cup {Len(p)}
      /\ Len(p) \notin DOMAIN bufferedFrames
      /\ DOMAIN bufferedFrames = 1 .. Len(bufferedFrames)
      /\ Len(bufferedFrames) \in Nat
  BY <1>0
<1> HIDE DEF p
<1>2. \A k \in DOMAIN bufferedFrames :
         /\ bufferedFrames[k] \in DOMAIN read
         /\ ~read[bufferedFrames[k]].fin
         /\ bufferedFrames[k] \notin refused
  BY <1>0, <1>1 DEF Gathering
<1>3. \A k \in DOMAIN bufferedFrames :
         /\ p[k] \in DOMAIN read /\ p[k] \in DOMAIN read'
         /\ read'[p[k]] = read[bufferedFrames[k]]
         /\ p[k] < This
  BY <1>1, <1>2, ReadKept
<1>4. \A k \in DOMAIN p : p[k] \in DOMAIN read'
  BY <1>1, <1>3, ReadKept
<1>5. \A k \in DOMAIN bufferedFrames :
         ~read'[p[k]].fin /\ p[k] \notin refused /\ p[k] # This
  BY <1>1, <1>2, <1>3, ReadKept
<1>6. This \notin refused
  BY ReadKept DEF RefusedRead
<1>7. CASE bufferedFrames = << >>
  <2>1. Len(p) = 1 /\ p[1] = This /\ f.opcode \in DataOpcode
    BY <1>1, <1>7 DEF Gathers
  <2>2. read'[p[1]].opcode \in DataOpcode
    BY <2>1, ReadKept
  <2>3. \A i \in DOMAIN read' : ~(p[1] < i)
    BY <2>1, ReadKept
  <2> QED
    BY <1>1, <1>4, <1>5, <1>6, <1>7, <2>1, <2>2, <2>3 DEF p
<1>8. CASE bufferedFrames # << >>
  <2>1. 1 \in DOMAIN bufferedFrames /\ f.opcode = "continuation"
    BY <1>0, <1>8 DEF Gathers, DataOpcode
  <2>2. /\ read'[p[1]].opcode = read[bufferedFrames[1]].opcode
        /\ read'[p[1]].opcode \in DataOpcode
    BY <1>3, <1>8, <2>1 DEF Gathering
  <2>3. ASSUME NEW k \in 2 .. Len(p)
        PROVE  read'[p[k]].opcode = "continuation" /\ p[k - 1] < p[k]
    <3>1. CASE k = Len(p)
      <4>1. k - 1 \in DOMAIN bufferedFrames /\ p[k] = This
        BY <1>1, <2>3, <3>1
      <4> QED
        BY <1>3, <2>1, <4>1, ReadKept
    <3>2. CASE k # Len(p)
      <4>1. /\ k \in 2 .. Len(bufferedFrames)
            /\ k \in DOMAIN bufferedFrames /\ k - 1 \in DOMAIN bufferedFrames
        BY <1>1, <2>3, <3>2
      <4>2. /\ read[bufferedFrames[k]].opcode = "continuation"
            /\ bufferedFrames[k - 1] < bufferedFrames[k]
        BY <1>8, <4>1 DEF Gathering
      <4> QED
        BY <1>1, <1>3, <4>1, <4>2
    <3> QED
      BY <3>1, <3>2
  <2>4. ASSUME NEW i \in DOMAIN read', p[1] < i, \A k \in DOMAIN p : p[k] # i
        PROVE  read'[i].opcode \in Passed
    <3>1. i # This
      BY <1>1, <2>4
    <3>2. i \in DOMAIN read /\ read'[i] = read[i]
      BY <3>1, ReadKept
    <3>3. bufferedFrames[1] < i /\ \A k \in DOMAIN bufferedFrames : bufferedFrames[k] # i
      BY <1>1, <2>1, <2>4
    <3> QED
      BY <1>8, <3>2, <3>3 DEF Gathering
  <2> QED
    BY <1>1, <1>4, <1>5, <1>6, <2>2, <2>3, <2>4 DEF p
<1> QED
  BY <1>7, <1>8

\* A frame handed on as it came: it passes, or is a message of one frame.
LEMMA ForwardIInv == ASSUME IInv, NEW f \in Frame, Forward(f) PROVE IInv'
<1> USE DEF IInv
<1> DEFINE m == [opcode |-> f.opcode, frames |-> <<This>>]
<1>0. Reads(f) /\ Passes(f)
  BY DEF Forward
<1>1. m \in [opcode : DataOpcode \cup Passed, frames : Seq(Nat)]
  BY <1>0, ReadKept DEF Passes
<1>2. TypeOK'
  BY <1>0, <1>1, ReadKept DEF TypeOK, Forward
<1>3. RefusedRead'
  BY <1>0, ReadKept DEF RefusedRead, Forward
<1>4. BufferIsBounded'
  BY DEF BufferIsBounded, Forward
<1>5. Gathering'
  <2>1. CASE bufferedFrames = << >>
    BY <2>1 DEF Gathering, Forward
  <2>2. CASE bufferedFrames # << >>
    <3>1. f.opcode \in Passed
      BY <1>0, <2>2 DEF Passes
    <3>2. /\ bufferedFrames' = bufferedFrames /\ refused' = refused
          /\ 1 \in DOMAIN bufferedFrames
          /\ \A k \in 2 .. Len(bufferedFrames) : k \in DOMAIN bufferedFrames
      BY <2>2 DEF Forward, TypeOK
    <3>3. \A k \in DOMAIN bufferedFrames :
             /\ bufferedFrames[k] \in DOMAIN read'
             /\ read'[bufferedFrames[k]] = read[bufferedFrames[k]]
             /\ bufferedFrames[k] \in DOMAIN read
      BY <1>0, <2>2, ReadKept DEF Gathering
    <3>4. /\ read'[bufferedFrames[1]].opcode \in DataOpcode
          /\ \A k \in DOMAIN bufferedFrames :
                ~read'[bufferedFrames[k]].fin /\ bufferedFrames[k] \notin refused'
          /\ \A k \in 2 .. Len(bufferedFrames) :
                /\ read'[bufferedFrames[k]].opcode = "continuation"
                /\ bufferedFrames[k - 1] < bufferedFrames[k]
      BY <2>2, <3>2, <3>3 DEF Gathering
    <3>5. \A i \in DOMAIN read' :
             bufferedFrames[1] < i /\ (\A k \in DOMAIN bufferedFrames : bufferedFrames[k] # i)
                 => read'[i].opcode \in Passed
      BY <1>0, <2>2, <3>1, ReadKept DEF Gathering
    <3> QED
      BY <3>2, <3>3, <3>4, <3>5 DEF Gathering
  <2> QED
    BY <2>1, <2>2
<1>6. WholeIn(m, read', refused')
  <2>1. m.frames = <<This>> /\ Len(m.frames) = 1 /\ DOMAIN m.frames = {1} /\ m.frames[1] = This
    OBVIOUS
  <2>2. CASE f.opcode \in Passed
    <3>1. This \in DOMAIN read' /\ read'[This] = f
      BY <1>0, ReadKept
    <3> QED
      BY <2>1, <2>2, <3>1 DEF WholeIn
  <2>3. CASE f.opcode \notin Passed
    <3>1. f.opcode \in DataOpcode /\ f.fin
      BY <1>0, <2>3 DEF Passes
    <3>2. This \in DOMAIN read' /\ read'[This] = f /\ This \notin refused' /\ This \in Nat
      BY <1>0, ReadKept DEF RefusedRead, Forward
    <3> DEFINE q == m.frames
    <3> HIDE DEF q, m
    <3>3. \A i \in DOMAIN read' : ~(This < i)
      BY <1>0, ReadKept
    <3>4. FragmentsIn(q, read')
      BY <2>1, <3>1, <3>2, <3>3 DEF FragmentsIn, q
    <3>5. m.opcode = f.opcode /\ q # << >>
      BY <2>1 DEF m, q
    <3> QED
      BY <2>1, <3>1, <3>2, <3>4, <3>5 DEF WholeIn, q
  <2> QED
    BY <2>2, <2>3
<1>7. AllWhole'
  BY <1>0, <1>1, <1>6, MessagesKept DEF Message, Forward
<1> QED
  BY <1>2, <1>3, <1>4, <1>5, <1>7

\* A fragment that is gathered keeps the buffer the beginning of a message,
\* within its limits.
LEMMA BufferIInv == ASSUME IInv, NEW f \in Frame, Buffer(f) PROVE IInv'
<1> USE DEF IInv
<1> DEFINE p == Append(bufferedFrames, This)
<1>0. Reads(f) /\ Gathers(f) /\ ~f.fin /\ bufferedFrames' = p
  BY DEF Buffer
<1>1. TypeOK'
  <2>1. p \in Seq(Nat)
    BY <1>0, ReadKept DEF TypeOK
  <2>2. f.length \in Nat
    <3>1. \/ f \in [opcode : DataOpcode \cup {"continuation", "reserved"}, fin : BOOLEAN, length : Length]
          \/ f \in [opcode : {"ping"}, fin : {TRUE}, length : {0}]
      BY Zenon DEF Frame
    <3>2. f.length \in Length \/ f.length = 0
      BY <3>1
    <3>3. Length \subseteq Nat /\ 0 \in Nat
      BY FrameAggregatorAssumption
    <3> QED
      BY Zenon, <3>2, <3>3
  <2> QED
    BY <1>0, <2>1, <2>2, ReadKept DEF TypeOK, Buffer
<1>2. RefusedRead'
  BY <1>0, ReadKept DEF RefusedRead, Buffer
<1>3. BufferIsBounded'
  <2>1. bufferedFrames \in Seq(Nat) /\ This \in Nat
    BY <1>0, ReadKept DEF TypeOK
  <2>2. Len(p) = Len(bufferedFrames) + 1 /\ p # << >>
    BY <2>1
  <2>3. /\ Len(bufferedFrames) + 1 < maxAccumulatedFrameCount
        /\ accumulatedFrameSize + f.length <= maxAccumulatedFrameSize
    BY <1>0 DEF Gathers, Fits
  <2> QED
    BY <1>0, <2>2, <2>3 DEF BufferIsBounded, Buffer
<1>4. Gathering'
  <2>1. /\ \A k \in DOMAIN p : p[k] \in DOMAIN read'
        /\ read'[p[1]].opcode \in DataOpcode
        /\ \A k \in 2 .. Len(p) : read'[p[k]].opcode = "continuation" /\ p[k - 1] < p[k]
        /\ \A i \in DOMAIN read' :
              p[1] < i /\ (\A k \in DOMAIN p : p[k] # i) => read'[i].opcode \in Passed
    BY <1>0, GatheredFragments
  <2>2. \A k \in DOMAIN p : ~read'[p[k]].fin /\ p[k] \notin refused'
    <3>1. /\ DOMAIN p = DOMAIN bufferedFrames \cup {Len(p)} /\ p[Len(p)] = This
          /\ \A k \in DOMAIN bufferedFrames : ~read'[p[k]].fin /\ p[k] \notin refused
          /\ This \notin refused
      BY <1>0, GatheredFragments
    <3>2. read'[This] = f /\ refused' = refused
      BY <1>0, ReadKept DEF Buffer
    <3> QED
      BY <1>0, <3>1, <3>2
  <2> HIDE DEF p
  <2> QED
    BY <1>0, <2>1, <2>2 DEF Gathering
<1>5. AllWhole'
  BY <1>0, MessagesKept DEF Buffer
<1> QED
  BY <1>1, <1>2, <1>3, <1>4, <1>5

\* The last fragment makes the message whole.
LEMMA AggregateIInv == ASSUME IInv, NEW f \in Frame, Aggregate(f) PROVE IInv'
<1> USE DEF IInv
<1> DEFINE p == Append(bufferedFrames, This)
           m == [opcode |-> read[bufferedFrames[1]].opcode, frames |-> p]
<1>0. /\ Reads(f) /\ Gathers(f) /\ f.fin
      /\ forwarded' = Append(forwarded, m)
      /\ bufferedFrames' = << >> /\ accumulatedFrameSize' = 0 /\ refused' = refused
  BY DEF Aggregate, clearBuffer
<1>1. bufferedFrames # << >>
  BY <1>0 DEF Gathers
<1>2. m \in Message
  <2>1. p \in Seq(Nat)
    BY <1>0, ReadKept DEF TypeOK
  <2>2. read[bufferedFrames[1]].opcode \in DataOpcode
    BY <1>1 DEF Gathering
  <2> QED
    BY <2>1, <2>2 DEF Message
<1>3. TypeOK'
  BY <1>0, <1>2, ReadKept DEF TypeOK, Message
<1>4. RefusedRead'
  BY <1>0, ReadKept DEF RefusedRead
<1>5. BufferIsBounded' /\ Gathering'
  BY <1>0, FrameAggregatorAssumption DEF BufferIsBounded, Gathering
<1>6. WholeIn(m, read', refused')
  <2>1. /\ p \in Seq(Nat) /\ Len(p) = Len(bufferedFrames) + 1
        /\ DOMAIN p = DOMAIN bufferedFrames \cup {Len(p)} /\ p[Len(p)] = This
        /\ Len(p) \notin DOMAIN bufferedFrames
        /\ \A k \in DOMAIN p : p[k] \in DOMAIN read'
        /\ \A k \in DOMAIN bufferedFrames : ~read'[p[k]].fin /\ p[k] \notin refused
        /\ This \notin refused
        /\ read'[p[1]].opcode \in DataOpcode
        /\ read'[p[1]].opcode = read[bufferedFrames[1]].opcode
        /\ \A k \in 2 .. Len(p) : read'[p[k]].opcode = "continuation" /\ p[k - 1] < p[k]
        /\ \A i \in DOMAIN read' :
              p[1] < i /\ (\A k \in DOMAIN p : p[k] # i) => read'[i].opcode \in Passed
    BY <1>0, <1>1, GatheredFragments
  <2>2. read'[This] = f
    BY <1>0, ReadKept
  <2>3. Len(bufferedFrames) < maxAccumulatedFrameCount /\ Len(bufferedFrames) \in Nat
    BY <1>0 DEF Gathers, Fits, TypeOK
  <2> HIDE DEF p
  <2>4. FragmentsIn(p, read')
    BY <2>1 DEF FragmentsIn
  <2>5. \A k \in DOMAIN p : (read'[p[k]].fin <=> k = Len(p)) /\ p[k] \notin refused'
    BY <1>0, <2>1, <2>2
  <2>6. p # << >> /\ Len(p) <= maxAccumulatedFrameCount
    BY <2>1, <2>3, FrameAggregatorAssumption
  <2> QED
    BY <2>1, <2>4, <2>5, <2>6 DEF WholeIn
<1>7. AllWhole'
  BY <1>0, <1>2, <1>6, MessagesKept
<1> QED
  BY <1>3, <1>4, <1>5, <1>7

\* What was gathered does not survive an error.
LEMMA RefuseIInv == ASSUME IInv, NEW f \in Frame, Refuse(f) PROVE IInv'
<1> USE DEF IInv
<1>0. /\ Reads(f) /\ forwarded' = forwarded /\ refused' = refused \cup {This}
      /\ bufferedFrames' = << >> /\ accumulatedFrameSize' = 0
  BY DEF Refuse, clearBuffer
<1>1. TypeOK'
  <2>1. This \in Nat /\ read' \in Seq(Frame)
    BY <1>0, ReadKept
  <2>2. refused' \subseteq Nat
    BY <1>0, <2>1 DEF TypeOK
  <2> QED
    BY <1>0, <2>1, <2>2 DEF TypeOK
<1>2. RefusedRead'
  BY <1>0, ReadKept DEF RefusedRead
<1>3. BufferIsBounded' /\ Gathering'
  BY <1>0, FrameAggregatorAssumption DEF BufferIsBounded, Gathering
<1>4. AllWhole'
  BY <1>0, MessagesKept
<1> QED
  BY <1>1, <1>2, <1>3, <1>4

LEMMA NextIInv == IInv /\ [Next]_vars => IInv'
<1> SUFFICES ASSUME IInv, [Next]_vars PROVE IInv'
  OBVIOUS
<1>1. ASSUME NEW f \in Frame, channelRead(f) PROVE IInv'
  BY <1>1, ForwardIInv, BufferIInv, AggregateIInv, RefuseIInv DEF channelRead
<1>2. CASE UNCHANGED vars
  BY <1>2 DEF vars, IInv, TypeOK, RefusedRead, BufferIsBounded, Gathering,
              AllWhole, Whole, Fragments
<1> QED
  BY <1>1, <1>2 DEF Next

LEMMA IInvariant == Spec => []IInv
  BY InitIInv, NextIInv, PTL DEF Spec

\* Every variable keeps its type: text, binary, control and reserved frames are
\* handed on by NIOWebSocketFrameAggregator.channelRead, never a continuation.
THEOREM AggregatorTypeCorrect == Spec => []TypeOK
  BY IInvariant, PTL DEF IInv

\* bufferFrame and clearBuffer keep the buffer within both limits, whatever
\* the limits are and whatever the peer sends.
THEOREM AggregatorBounded == Spec => []BufferIsBounded
  BY IInvariant, PTL DEF IInv


-----------------------------------------------------------------------------
(* What was gathered is all there is of a message that is under way.       *)

Buffered == {bufferedFrames[k] : k \in DOMAIN bufferedFrames}

\* The two counts bufferFrame goes by are those of the frames in the buffer.
Sizes ==
    /\ Cardinality(Buffered) = Len(bufferedFrames)
    /\ accumulatedFrameSize = TotalLength(Buffered)

\* No data frame was read after the last one in the buffer.
LastBuffered ==
    bufferedFrames # << >> =>
        \A i \in DOMAIN read :
            bufferedFrames[Len(bufferedFrames)] < i => read[i].opcode \in Passed

\* Frame i began a message that is not complete and has kept to the rules and
\* the limits so far.
Started(i) ==
    LET p == DataFrames(i, Len(read)) IN
    /\ Fresh(i) /\ Follows(i, Len(read))
    /\ \A k \in p : ~read[k].fin /\ read[k].length >= minNonFinalFragmentSize
    /\ Cardinality(p) < maxAccumulatedFrameCount
    /\ TotalLength(p) <= maxAccumulatedFrameSize

\* All the fragments of such a message are in the buffer.
Underway == \A i \in DOMAIN read : Started(i) => Buffered = DataFrames(i, Len(read))

\* Every message was complete when some frame had been read.
CompletedRead == \A m \in DOMAIN forwarded : Completed(m) \in DOMAIN read

AInv == IInv /\ Sizes /\ LastBuffered /\ Underway /\ MessagesArrive /\ CompletedRead /\ InTurn

\* The definitions above with what they read as parameters.
DataIn(i, j, r) == {k \in i .. j : r[k].opcode \notin Passed}

BytesIn(p, r) == UNION {{k} \X (1 .. r[k].length) : k \in p}

FreshIn(i, r, x) ==
    \A k \in DataIn(1, i - 1, r) :
        DataIn(k + 1, i - 1, r) = {} => r[k].fin \/ k \in x

FollowsIn(i, j, r) ==
    /\ i \in DataIn(i, j, r) /\ r[i].opcode \in DataOpcode
    /\ \A k \in DataIn(i, j, r) \ {i} : r[k].opcode = "continuation"

StartedIn(i, r, x) ==
    LET p == DataIn(i, Len(r), r) IN
    /\ FreshIn(i, r, x) /\ FollowsIn(i, Len(r), r)
    /\ \A k \in p : ~r[k].fin /\ r[k].length >= minNonFinalFragmentSize
    /\ Cardinality(p) < maxAccumulatedFrameCount
    /\ Cardinality(BytesIn(p, r)) <= maxAccumulatedFrameSize

\* The message of frames i to j is complete and keeps to the rules and limits.
CompleteIn(i, j, r, x) ==
    LET p == DataIn(i, j, r) IN
    /\ i < j /\ FreshIn(i, r, x)
    /\ j \in p /\ FollowsIn(i, j, r)
    /\ \A k \in p : r[k].fin <=> k = j
    /\ \A k \in p \ {j} : r[k].length >= minNonFinalFragmentSize
    /\ Cardinality(p) <= maxAccumulatedFrameCount
    /\ Cardinality(BytesIn(p, r)) <= maxAccumulatedFrameSize

ArrivedIn(i, j, r, s) ==
    \E m \in DOMAIN s :
        /\ s[m].opcode = r[i].opcode
        /\ Lists(s[m].frames, DataIn(i, j, r))

LEMMA ArriveIs ==
    MessagesArrive <=>
        \A i, j \in DOMAIN read :
            CompleteIn(i, j, read, refused) => ArrivedIn(i, j, read, forwarded)
  BY Zenon DEF MessagesArrive, CompleteIn, ArrivedIn, DataFrames, DataIn, Fresh, FreshIn,
               Follows, FollowsIn, TotalLength, BytesIn

LEMMA ArriveIsNext ==
    MessagesArrive' <=>
        \A i, j \in DOMAIN read' :
            CompleteIn(i, j, read', refused') => ArrivedIn(i, j, read', forwarded')
  BY Zenon DEF MessagesArrive, CompleteIn, ArrivedIn, DataFrames, DataIn, Fresh, FreshIn,
               Follows, FollowsIn, TotalLength, BytesIn, Lists

LEMMA UnderwayIs ==
    Underway <=>
        \A i \in DOMAIN read :
            StartedIn(i, read, refused) => Buffered = DataIn(i, Len(read), read)
  BY Zenon DEF Underway, Started, StartedIn, DataFrames, DataIn, Fresh, FreshIn,
               Follows, FollowsIn, TotalLength, BytesIn

LEMMA UnderwayIsNext ==
    Underway' <=>
        \A i \in DOMAIN read' :
            StartedIn(i, read', refused') => Buffered' = DataIn(i, Len(read'), read')
  BY Zenon DEF Underway, Started, StartedIn, DataFrames, DataIn, Fresh, FreshIn,
               Follows, FollowsIn, TotalLength, BytesIn

LEMMA FrameLength == \A f \in Frame : f.length \in Nat
<1> SUFFICES ASSUME NEW f \in Frame PROVE f.length \in Nat
  OBVIOUS
<1>1. \/ f \in [opcode : DataOpcode \cup {"continuation", "reserved"}, fin : BOOLEAN, length : Length]
      \/ f \in [opcode : {"ping"}, fin : {TRUE}, length : {0}]
  BY Zenon DEF Frame
<1>2. f.length \in Length \/ f.length = 0
  BY <1>1
<1>3. Length \subseteq Nat /\ 0 \in Nat
  BY FrameAggregatorAssumption
<1> QED
  BY Zenon, <1>2, <1>3

\* A set of positions is finite, and so are the bytes of its frames.
LEMMA BytesFinite ==
    ASSUME NEW r \in Seq(Frame), NEW p \in SUBSET DOMAIN r
    PROVE  IsFiniteSet(p) /\ IsFiniteSet(BytesIn(p, r))
<1>1. Len(r) \in Nat /\ p \in SUBSET (1 .. Len(r))
  OBVIOUS
<1>2. \A a, b \in Int : IsFiniteSet(a .. b)
  BY FS_Interval
<1>3. IsFiniteSet(p)
  BY <1>1, <1>2, FS_Subset
<1>4. ASSUME NEW k \in p PROVE IsFiniteSet({k} \X (1 .. r[k].length))
  <2>1. r[k] \in Frame
    BY <1>1
  <2>2. r[k].length \in Nat
    BY Zenon, <2>1, FrameLength
  <2>3. 1 \in Int /\ r[k].length \in Int
    BY <2>2
  <2>4. IsFiniteSet(1 .. r[k].length)
    BY Zenon, <1>2, <2>3
  <2>5. IsFiniteSet({k})
    BY Zenon, FS_Singleton
  <2> QED
    BY <2>4, <2>5, FS_Product
<1> DEFINE Each(k) == {k} \X (1 .. r[k].length)
           E == {Each(k) : k \in p}
<1>5. IsFiniteSet(E)
  <2> DEFINE h == [k \in p |-> Each(k)]
  <2>1. h \in Surjection(p, E)
    BY DEF Surjection
  <2> QED
    BY <1>3, <2>1, FS_Surjection
<1>6. IsFiniteSet(UNION E)
  BY <1>4, <1>5, FS_UNION
<1> QED
  BY <1>3, <1>6 DEF BytesIn

\* One more frame adds its length to the length of a message.
LEMMA BytesAdd ==
    ASSUME NEW r \in Seq(Frame), NEW p \in SUBSET DOMAIN r, NEW k \in DOMAIN r \ p
    PROVE  /\ Cardinality(BytesIn(p \cup {k}, r)) = Cardinality(BytesIn(p, r)) + r[k].length
           /\ Cardinality(p \cup {k}) = Cardinality(p) + 1
           /\ Cardinality(BytesIn(p, r)) \in Nat
           /\ Cardinality(p) \in Nat
           /\ r[k].length \in Nat
<1> DEFINE B == BytesIn(p, r)
           C == {k} \X (1 .. r[k].length)
<1>1. r[k].length \in Nat
  <2>1. r[k] \in Frame
    OBVIOUS
  <2> QED
    BY Zenon, <2>1, FrameLength
<1>2. IsFiniteSet(p) /\ IsFiniteSet(B)
  BY BytesFinite
<1>3. IsFiniteSet(C) /\ Cardinality(C) = r[k].length
  <2>1. \A n \in Nat : IsFiniteSet(1 .. n) /\ Cardinality(1 .. n) = n
    <3> TAKE n \in Nat
    <3>1. 1 \in Int /\ n \in Int
      OBVIOUS
    <3>2. IsFiniteSet(1 .. n) /\ Cardinality(1 .. n) = IF 1 > n THEN 0 ELSE n - 1 + 1
      BY <3>1, FS_Interval
    <3> QED
      BY <3>2
  <2>2. /\ IsFiniteSet(1 .. r[k].length)
        /\ Cardinality(1 .. r[k].length) = r[k].length
    BY Zenon, <1>1, <2>1
  <2>3. IsFiniteSet({k}) /\ Cardinality({k}) = 1
    BY FS_Singleton
  <2>4. /\ IsFiniteSet(C)
        /\ Cardinality(C) = Cardinality({k}) * Cardinality(1 .. r[k].length)
    BY <2>2, <2>3, FS_Product
  <2> QED
    BY <1>1, <2>2, <2>3, <2>4
<1>4. BytesIn(p \cup {k}, r) = B \cup C
  BY DEF BytesIn
<1>5. B \cap C = {}
  BY DEF BytesIn
<1> HIDE DEF B, C
<1>6. Cardinality(B \cup C) = Cardinality(B) + Cardinality(C) - Cardinality(B \cap C)
  BY <1>2, <1>3, FS_Union
<1>7. Cardinality(B) \in Nat /\ Cardinality(p) \in Nat /\ Cardinality(B \cap C) = 0
  BY <1>2, <1>5, FS_CardinalityType, FS_EmptySet
<1>8. Cardinality(p \cup {k}) = Cardinality(p) + 1
  BY <1>2, FS_AddElement
<1>9. Cardinality(B \cup C) = Cardinality(B) + r[k].length
  BY <1>1, <1>3, <1>6, <1>7
<1> QED
  BY <1>1, <1>4, <1>7, <1>8, <1>9 DEF B

LEMMA BytesNone == \A r : Cardinality(BytesIn({}, r)) = 0 /\ Cardinality({}) = 0
  BY FS_EmptySet DEF BytesIn

\* The frames that are there stay the same when another is read.
LEMMA DataKept ==
    ASSUME NEW r \in Seq(Frame), NEW f \in Frame
    PROVE  /\ \A i \in Nat \ {0}, j \in 0 .. Len(r) :
                 DataIn(i, j, Append(r, f)) = DataIn(i, j, r)
           /\ \A p \in SUBSET DOMAIN r : BytesIn(p, Append(r, f)) = BytesIn(p, r)
           /\ \A i \in DOMAIN r :
                 DataIn(i, Len(r) + 1, Append(r, f)) =
                     IF f.opcode \in Passed THEN DataIn(i, Len(r), r)
                     ELSE DataIn(i, Len(r), r) \cup {Len(r) + 1}
<1> DEFINE s == Append(r, f)
           n == Len(r)
<1>1. /\ n \in Nat /\ DOMAIN r = 1 .. n
      /\ \A k \in 1 .. n : s[k] = r[k]
      /\ s[n + 1] = f
  OBVIOUS
<1> HIDE DEF s, n
<1>2. \A i \in Nat \ {0}, j \in 0 .. n : DataIn(i, j, s) = DataIn(i, j, r)
  <2> SUFFICES ASSUME NEW i \in Nat \ {0}, NEW j \in 0 .. n, NEW k
               PROVE  k \in DataIn(i, j, s) <=> k \in DataIn(i, j, r)
    OBVIOUS
  <2>1. k \in i .. j => k \in 1 .. n
    BY <1>1
  <2> QED
    BY <1>1, <2>1 DEF DataIn
<1>3. \A p \in SUBSET DOMAIN r : BytesIn(p, s) = BytesIn(p, r)
  BY <1>1 DEF BytesIn
<1>4. ASSUME NEW i \in DOMAIN r
      PROVE  DataIn(i, n + 1, s) =
                 IF f.opcode \in Passed THEN DataIn(i, n, r) ELSE DataIn(i, n, r) \cup {n + 1}
  <2>1. i .. n + 1 = (i .. n) \cup {n + 1} /\ n + 1 \notin i .. n
    BY <1>1
  <2>2. \A k \in i .. n : s[k] = r[k]
    BY <1>1
  <2> QED
    BY <1>1, <2>1, <2>2 DEF DataIn
<1> QED
  BY <1>2, <1>3, <1>4 DEF s, n

LEMMA DataWithin ==
    ASSUME NEW r, NEW i \in Nat \ {0}, NEW j \in Nat
    PROVE  \A k \in DataIn(i, j, r) : k \in Nat \ {0} /\ k <= j /\ k >= i /\ r[k].opcode \notin Passed
  BY DEF DataIn

\* Whether the buffer is empty before frame i is settled by what came before.
LEMMA FreshKept ==
    ASSUME NEW r \in Seq(Frame), NEW f \in Frame, NEW x, NEW y,
           x \subseteq y, y \subseteq x \cup {Len(r) + 1},
           NEW i \in 1 .. Len(r) + 1
    PROVE  FreshIn(i, Append(r, f), y) <=> FreshIn(i, r, x)
<1> DEFINE s == Append(r, f)
<1>1. Len(r) \in Nat /\ i - 1 \in 0 .. Len(r) /\ i - 1 \in Nat
  OBVIOUS
<1>2. \A k \in 1 .. Len(r) : s[k] = r[k]
  OBVIOUS
<1>3. \A a \in Nat \ {0} : DataIn(a, i - 1, s) = DataIn(a, i - 1, r)
  BY <1>1, DataKept
<1> HIDE DEF s
<1>4. \A k \in DataIn(1, i - 1, r) :
         /\ k \in 1 .. Len(r) /\ k # Len(r) + 1 /\ k + 1 \in Nat \ {0}
         /\ s[k] = r[k]
  BY <1>1, <1>2, DataWithin
<1>5. DataIn(1, i - 1, s) = DataIn(1, i - 1, r)
  BY <1>3
<1>6. \A k \in DataIn(1, i - 1, r) :
         /\ DataIn(k + 1, i - 1, s) = DataIn(k + 1, i - 1, r)
         /\ (s[k].fin \/ k \in y) <=> (r[k].fin \/ k \in x)
  BY <1>3, <1>4
<1> QED
  BY <1>5, <1>6 DEF FreshIn, s

\* A message that was under way keeps that when a frame is read, unless it is
\* one of its own: what it was before this one.
LEMMA StartedBefore ==
    ASSUME NEW r \in Seq(Frame), NEW f \in Frame, NEW x, NEW y,
           x \subseteq y, y \subseteq x \cup {Len(r) + 1},
           NEW i \in DOMAIN r,
           LET s == Append(r, f)
               p == DataIn(i, Len(s), s) IN
           /\ FreshIn(i, s, y) /\ FollowsIn(i, Len(s), s)
           /\ \A k \in p \ {Len(s)} : ~s[k].fin /\ s[k].length >= minNonFinalFragmentSize
           /\ f.opcode \in Passed => Cardinality(p) < maxAccumulatedFrameCount
           /\ Cardinality(p) <= maxAccumulatedFrameCount
           /\ Cardinality(BytesIn(p, s)) <= maxAccumulatedFrameSize
    PROVE  LET p == DataIn(i, Len(r), r) IN
           /\ StartedIn(i, r, x)
           /\ p \subseteq DOMAIN r
           /\ f.opcode \notin Passed =>
                 /\ f.opcode = "continuation"
                 /\ Cardinality(p) < maxAccumulatedFrameCount
                 /\ Cardinality(BytesIn(p, r)) + f.length <= maxAccumulatedFrameSize
<1> DEFINE s == Append(r, f)
           n == Len(r)
           p == DataIn(i, n, r)
           q == DataIn(i, Len(s), s)
<1>1. /\ n \in Nat /\ Len(s) = n + 1 /\ DOMAIN r = 1 .. n /\ DOMAIN s = 1 .. n + 1
      /\ s \in Seq(Frame) /\ s[n + 1] = f /\ n + 1 \notin DOMAIN r
      /\ i \in Nat \ {0} /\ i \in 1 .. n + 1 /\ i # n + 1
      /\ \A k \in 1 .. n : s[k] = r[k]
  OBVIOUS
<1>2. q = IF f.opcode \in Passed THEN p ELSE p \cup {n + 1}
  <2>1. DataIn(i, Len(r) + 1, Append(r, f)) =
            IF f.opcode \in Passed THEN DataIn(i, Len(r), r)
            ELSE DataIn(i, Len(r), r) \cup {Len(r) + 1}
    BY DataKept
  <2> QED
    BY <1>1, <2>1
<1>3. FreshIn(i, r, x)
  BY <1>1, FreshKept
<1>4. \A k \in p : k \in DOMAIN r /\ k # n + 1
  BY <1>1 DEF DataIn
<1>5. BytesIn(p, s) = BytesIn(p, r)
  BY <1>4, DataKept
<1>6. /\ FollowsIn(i, Len(s), s)
      /\ \A k \in q \ {Len(s)} : ~s[k].fin /\ s[k].length >= minNonFinalFragmentSize
      /\ f.opcode \in Passed => Cardinality(q) < maxAccumulatedFrameCount
      /\ Cardinality(q) <= maxAccumulatedFrameCount
      /\ Cardinality(BytesIn(q, s)) <= maxAccumulatedFrameSize
  OBVIOUS
<1>7. /\ i \in q /\ s[i].opcode \in DataOpcode
      /\ \A k \in q \ {i} : s[k].opcode = "continuation"
  BY <1>6 DEF FollowsIn
<1>8. /\ p \subseteq DOMAIN s /\ n + 1 \in DOMAIN s \ p
      /\ p \subseteq DOMAIN r
  BY <1>1, <1>4
<1>9. /\ Cardinality(BytesIn(p \cup {n + 1}, s)) = Cardinality(BytesIn(p, s)) + s[n + 1].length
      /\ Cardinality(p \cup {n + 1}) = Cardinality(p) + 1
      /\ Cardinality(BytesIn(p, s)) \in Nat
      /\ Cardinality(p) \in Nat
      /\ s[n + 1].length \in Nat
  BY <1>1, <1>8, BytesAdd
<1> HIDE DEF s, n, p, q
<1>10. FollowsIn(i, n, r)
  <2>1. i \in p
    BY <1>1, <1>2, <1>7
  <2>2. r[i].opcode \in DataOpcode
    BY <1>1, <1>7
  <2>3. \A k \in p \ {i} : r[k].opcode = "continuation"
    BY <1>1, <1>2, <1>4, <1>7
  <2> QED
    BY <2>1, <2>2, <2>3 DEF FollowsIn, p
<1>11. \A k \in p : ~r[k].fin /\ r[k].length >= minNonFinalFragmentSize
  BY <1>1, <1>2, <1>4, <1>6
<1>12. /\ Cardinality(p) < maxAccumulatedFrameCount
       /\ Cardinality(BytesIn(p, r)) <= maxAccumulatedFrameSize
  <2>1. CASE f.opcode \in Passed
    BY <1>2, <1>5, <1>6, <2>1
  <2>2. CASE f.opcode \notin Passed
    BY <1>2, <1>5, <1>6, <1>9, <2>2, FrameAggregatorAssumption
  <2> QED
    BY <2>1, <2>2
<1>13. StartedIn(i, r, x)
  BY <1>3, <1>10, <1>11, <1>12 DEF StartedIn, n, p
<1>14. ASSUME f.opcode \notin Passed
       PROVE  /\ f.opcode = "continuation"
              /\ Cardinality(BytesIn(p, r)) + f.length <= maxAccumulatedFrameSize
  <2>1. n + 1 \in q \ {i}
    BY <1>1, <1>2, <1>14
  <2>2. f.opcode = "continuation"
    BY <1>1, <1>7, <2>1
  <2>3. q = p \cup {n + 1}
    BY <1>2, <1>14
  <2> QED
    BY <1>1, <1>5, <1>6, <1>9, <2>2, <2>3
<1> QED
  BY <1>8, <1>12, <1>13, <1>14 DEF n, p

\* When a message is under way its fragments are in the buffer, the first one
\* in front.
LEMMA UnderwayBuffer ==
    ASSUME AInv, NEW i \in DOMAIN read, StartedIn(i, read, refused)
    PROVE  LET p == DataIn(i, Len(read), read) IN
           /\ Buffered = p /\ bufferedFrames # << >> /\ bufferedFrames[1] = i
           /\ Len(bufferedFrames) = Cardinality(p)
           /\ accumulatedFrameSize = Cardinality(BytesIn(p, read))
<1> DEFINE p == DataIn(i, Len(read), read)
<1>1. Buffered = p
  BY UnderwayIs DEF AInv
<1>2. /\ Len(bufferedFrames) = Cardinality(p)
      /\ accumulatedFrameSize = Cardinality(BytesIn(p, read))
  BY <1>1 DEF AInv, Sizes, TotalLength, BytesIn
<1>3. i \in p /\ read[i].opcode \in DataOpcode
  BY DEF StartedIn, FollowsIn
<1>4. PICK k \in DOMAIN bufferedFrames : bufferedFrames[k] = i
  BY <1>1, <1>3 DEF Buffered
<1>5. bufferedFrames \in Seq(Nat) /\ bufferedFrames # << >>
  BY <1>4 DEF AInv, IInv, TypeOK
<1>6. k \notin 2 .. Len(bufferedFrames)
  BY <1>3, <1>4, <1>5 DEF AInv, IInv, Gathering, DataOpcode
<1>7. k = 1
  BY <1>4, <1>5, <1>6
<1> QED
  BY <1>1, <1>2, <1>4, <1>5, <1>7

\* When the data frame before this one ended its message or was refused,
\* nothing is being gathered.
LEMMA FreshIsEmpty ==
    ASSUME AInv, FreshIn(This, read, refused)
    PROVE  bufferedFrames = << >>
<1> SUFFICES ASSUME bufferedFrames # << >> PROVE FALSE
  OBVIOUS
<1> DEFINE k == bufferedFrames[Len(bufferedFrames)]
           n == Len(read)
<1>1. /\ bufferedFrames \in Seq(Nat) /\ read \in Seq(Frame)
      /\ Len(bufferedFrames) \in DOMAIN bufferedFrames
      /\ n \in Nat /\ DOMAIN read = 1 .. n /\ This - 1 = n
  BY DEF AInv, IInv, TypeOK, This
<1>2. k \in DOMAIN read /\ ~read[k].fin /\ k \notin refused
  BY <1>1 DEF AInv, IInv, Gathering
<1>3. read[k].opcode \notin Passed
  <2>1. \A j \in DOMAIN bufferedFrames : j = 1 \/ j \in 2 .. Len(bufferedFrames)
    BY <1>1
  <2>2. /\ read[bufferedFrames[1]].opcode \in DataOpcode
        /\ \A j \in 2 .. Len(bufferedFrames) : read[bufferedFrames[j]].opcode = "continuation"
    BY DEF AInv, IInv, Gathering
  <2> QED
    BY <1>1, <2>1, <2>2 DEF DataOpcode, Passed
<1>4. \A i \in DOMAIN read : k < i => read[i].opcode \in Passed
  BY DEF AInv, LastBuffered
<1> HIDE DEF k, n
<1>5. k \in DataIn(1, n, read)
  BY <1>1, <1>2, <1>3 DEF DataIn
<1>6. DataIn(k + 1, n, read) = {}
  <2> SUFFICES ASSUME NEW i \in DataIn(k + 1, n, read) PROVE FALSE
    OBVIOUS
  <2>1. i \in k + 1 .. n /\ read[i].opcode \notin Passed
    BY DEF DataIn
  <2>2. i \in DOMAIN read /\ k < i
    BY <1>1, <1>2, <2>1
  <2> QED
    BY <1>4, <2>1, <2>2
<1> QED
  BY <1>1, <1>2, <1>5, <1>6 DEF FreshIn

\* What every reading of a frame does.
LEMMA ReadsOne ==
    ASSUME IInv, NEW f \in Frame, channelRead(f)
    PROVE  /\ Reads(f) /\ read \in Seq(Frame) /\ read' = Append(read, f)
           /\ This = Len(read) + 1 /\ Len(read') = Len(read) + 1
           /\ Len(read) \in Nat /\ DOMAIN read = 1 .. Len(read)
           /\ DOMAIN read' = 1 .. Len(read) + 1
           /\ \A k \in DOMAIN read : read'[k] = read[k]
           /\ read'[This] = f /\ read' \in Seq(Frame)
           /\ refused \subseteq refused' /\ refused' \subseteq refused \cup {This}
           /\ bufferedFrames \in Seq(Nat)
           /\ DOMAIN bufferedFrames = 1 .. Len(bufferedFrames)
           /\ Len(bufferedFrames) \in Nat
           /\ Buffered \subseteq DOMAIN read
<1>1. /\ Reads(f) /\ read \in Seq(Frame) /\ read' = Append(read, f)
      /\ This = Len(read) + 1 /\ bufferedFrames \in Seq(Nat)
      /\ refused \subseteq refused' /\ refused' \subseteq refused \cup {This}
  BY DEF channelRead, Forward, Buffer, Aggregate, Refuse, Reads, IInv, TypeOK, This
<1>2. Buffered \subseteq DOMAIN read
  BY <1>1 DEF Buffered, IInv, Gathering
<1> QED
  BY <1>1, <1>2

\* The buffer after a fragment is gathered.
LEMMA BufferedMore ==
    ASSUME NEW s \in Seq(Nat), NEW k \in Nat
    PROVE  LET t == Append(s, k) IN
           /\ {t[j] : j \in DOMAIN t} = {s[j] : j \in DOMAIN s} \cup {k}
           /\ Len(t) = Len(s) + 1 /\ t[Len(t)] = k
<1> DEFINE t == Append(s, k)
<1>1. /\ DOMAIN t = DOMAIN s \cup {Len(s) + 1} /\ t[Len(s) + 1] = k
      /\ \A j \in DOMAIN s : t[j] = s[j]
      /\ Len(t) = Len(s) + 1
  OBVIOUS
<1> HIDE DEF t
<1> QED
  BY <1>1 DEF t

LEMMA BufferedAppended ==
    ASSUME IInv, NEW f \in Frame, channelRead(f),
           bufferedFrames' = Append(bufferedFrames, This)
    PROVE  /\ Buffered' = Buffered \cup {This}
           /\ Len(bufferedFrames') = Len(bufferedFrames) + 1
           /\ bufferedFrames'[Len(bufferedFrames')] = This
<1>1. bufferedFrames \in Seq(Nat) /\ This \in Nat
  BY ReadsOne
<1>2. LET t == Append(bufferedFrames, This) IN
      /\ {t[j] : j \in DOMAIN t} = {bufferedFrames[j] : j \in DOMAIN bufferedFrames} \cup {This}
      /\ Len(t) = Len(bufferedFrames) + 1 /\ t[Len(t)] = This
  BY Zenon, <1>1, BufferedMore
<1> QED
  BY <1>2 DEF Buffered

LEMMA SizesNext == ASSUME AInv, NEW f \in Frame, channelRead(f) PROVE Sizes'
<1>0. Reads(f) /\ This \in DOMAIN read' \ DOMAIN read /\ This \in Nat
  BY ReadsOne DEF AInv
<1>1. /\ Buffered \subseteq DOMAIN read
      /\ BytesIn(Buffered, read') = BytesIn(Buffered, read)
      /\ Cardinality(Buffered) = Len(bufferedFrames)
      /\ accumulatedFrameSize = Cardinality(BytesIn(Buffered, read))
  BY ReadsOne, DataKept DEF AInv, Sizes, TotalLength, BytesIn
<1>2. Sizes' <=> /\ Cardinality(Buffered') = Len(bufferedFrames')
                 /\ accumulatedFrameSize' = Cardinality(BytesIn(Buffered', read'))
  BY DEF Sizes, TotalLength, BytesIn
<1>3. CASE Forward(f)
  <2>1. /\ bufferedFrames' = bufferedFrames /\ Buffered' = Buffered
        /\ accumulatedFrameSize' = accumulatedFrameSize
    BY <1>3 DEF Forward, Buffered
  <2> QED
    BY <1>1, <1>2, <2>1
<1>4. CASE Buffer(f)
  <2>1. /\ bufferedFrames' = Append(bufferedFrames, This)
        /\ accumulatedFrameSize' = accumulatedFrameSize + f.length
    BY <1>4 DEF Buffer
  <2>2. Buffered' = Buffered \cup {This} /\ Len(bufferedFrames') = Len(bufferedFrames) + 1
    BY <2>1, BufferedAppended DEF AInv
  <2>3. /\ Buffered \subseteq DOMAIN read' /\ This \in DOMAIN read' \ Buffered
        /\ read' \in Seq(Frame) /\ read'[This] = f
    BY <1>0, <1>1, ReadsOne DEF AInv
  <2>4. /\ Cardinality(BytesIn(Buffered \cup {This}, read')) =
               Cardinality(BytesIn(Buffered, read')) + f.length
        /\ Cardinality(Buffered \cup {This}) = Cardinality(Buffered) + 1
    BY <2>3, BytesAdd
  <2> QED
    BY <1>1, <1>2, <2>1, <2>2, <2>4
<1>5. CASE Aggregate(f) \/ Refuse(f)
  <2>1. bufferedFrames' = << >> /\ accumulatedFrameSize' = 0
    BY <1>5 DEF Aggregate, Refuse, clearBuffer
  <2>2. Buffered' = {} /\ Len(bufferedFrames') = 0
    BY <2>1 DEF Buffered
  <2> QED
    BY <1>2, <2>1, <2>2, BytesNone
<1> QED
  BY <1>3, <1>4, <1>5 DEF channelRead

LEMMA LastNext == ASSUME AInv, NEW f \in Frame, channelRead(f) PROVE LastBuffered'
<1> SUFFICES ASSUME bufferedFrames' # << >>, NEW i \in DOMAIN read',
                    bufferedFrames'[Len(bufferedFrames')] < i
             PROVE  read'[i].opcode \in Passed
  BY DEF LastBuffered
<1>0. Reads(f)
  BY ReadsOne DEF AInv
<1>1. CASE Forward(f)
  <2>1. bufferedFrames' = bufferedFrames /\ f.opcode \in Passed
    BY <1>1 DEF Forward, Passes
  <2>2. CASE i = This
    BY <2>1, <2>2, ReadsOne DEF AInv
  <2>3. CASE i # This
    <3>1. i \in DOMAIN read /\ read'[i] = read[i]
      BY <2>3, ReadsOne DEF AInv
    <3> QED
      BY <2>1, <3>1 DEF AInv, LastBuffered
  <2> QED
    BY <2>2, <2>3
<1>2. CASE Buffer(f)
  <2>1. bufferedFrames'[Len(bufferedFrames')] = This
    BY <1>2, BufferedAppended DEF Buffer, AInv
  <2> QED
    BY <2>1, ReadsOne DEF AInv
<1>3. CASE Aggregate(f) \/ Refuse(f)
  BY <1>3 DEF Aggregate, Refuse, clearBuffer
<1> QED
  BY <1>1, <1>2, <1>3 DEF channelRead

\* A fragment that keeps to the limits is gathered.
LEMMA UnderwayNext == ASSUME AInv, NEW f \in Frame, channelRead(f) PROVE Underway'
<1> DEFINE n == Len(read)
           p(i) == DataIn(i, n, read)
           q(i) == DataIn(i, n + 1, read')
<1>0. /\ read \in Seq(Frame) /\ read' = Append(read, f) /\ n \in Nat
      /\ This = n + 1 /\ Len(read') = n + 1
      /\ DOMAIN read = 1 .. n /\ DOMAIN read' = 1 .. n + 1
      /\ read'[This] = f /\ This \notin DOMAIN read
      /\ refused \subseteq refused' /\ refused' \subseteq refused \cup {This}
      /\ bufferedFrames \in Seq(Nat)
  BY ReadsOne DEF AInv
<1> SUFFICES ASSUME NEW i \in DOMAIN read', StartedIn(i, read', refused')
             PROVE  Buffered' = q(i)
  BY <1>0, UnderwayIsNext
<1>1. /\ FreshIn(i, read', refused') /\ FollowsIn(i, n + 1, read')
      /\ \A k \in q(i) : ~read'[k].fin /\ read'[k].length >= minNonFinalFragmentSize
      /\ Cardinality(q(i)) < maxAccumulatedFrameCount
      /\ Cardinality(BytesIn(q(i), read')) <= maxAccumulatedFrameSize
  BY <1>0 DEF StartedIn
<1>2. ASSUME f.opcode \notin Passed, This \in q(i), Gathers(f)
      PROVE  Buffered' = Buffered \cup {This}
  <2>1. ~f.fin
    BY <1>0, <1>1, <1>2
  <2>2. ~Passes(f)
    BY <1>2, <2>1 DEF Passes
  <2>3. bufferedFrames' = Append(bufferedFrames, This)
    BY <1>2, <2>1, <2>2 DEF channelRead, Forward, Buffer, Aggregate, Refuse
  <2> QED
    BY <2>3, BufferedAppended DEF AInv
<1>3. CASE i = This
  <2>1. FreshIn(This, read, refused)
    BY <1>0, <1>1, <1>3, FreshKept
  <2>2. bufferedFrames = << >> /\ accumulatedFrameSize = 0
    BY <2>1, FreshIsEmpty DEF AInv, IInv, BufferIsBounded
  <2>3. i \in q(i) /\ f.opcode \in DataOpcode
    BY <1>0, <1>1, <1>3 DEF FollowsIn
  <2>4. q(i) = {This} /\ f.opcode \notin Passed
    BY <1>0, <1>3, <2>3 DEF DataIn, DataOpcode
  <2>5. /\ Cardinality({} \cup {This}) = Cardinality({}) + 1
        /\ Cardinality(BytesIn({} \cup {This}, read')) = Cardinality(BytesIn({}, read')) + f.length
        /\ f.length \in Nat
    <3>1. read' \in Seq(Frame) /\ {} \subseteq DOMAIN read' /\ This \in DOMAIN read' \ {}
      BY <1>0, ReadsOne DEF AInv
    <3>2. /\ Cardinality({} \cup {This}) = Cardinality({}) + 1
          /\ Cardinality(BytesIn({} \cup {This}, read')) =
                 Cardinality(BytesIn({}, read')) + read'[This].length
          /\ read'[This].length \in Nat
      BY Zenon, <3>1, BytesAdd
    <3> QED
      BY <1>0, <3>2
  <2>6. Cardinality({This}) = 1 /\ Cardinality(BytesIn({This}, read')) = f.length
    BY <2>5, BytesNone
  <2>7. ~f.fin /\ f.length >= minNonFinalFragmentSize
    BY <1>0, <1>1, <2>4
  <2>8. 1 < maxAccumulatedFrameCount /\ f.length <= maxAccumulatedFrameSize
    BY <1>1, <2>4, <2>6
  <2>9. Fits(f)
    BY <2>2, <2>5, <2>7, <2>8, FrameAggregatorAssumption DEF Fits
  <2>10. Gathers(f)
    BY <2>2, <2>3, <2>7, <2>9 DEF Gathers
  <2>11. Buffered = {}
    BY <2>2 DEF Buffered
  <2> QED
    BY <1>2, <2>4, <2>10, <2>11
<1>4. CASE i # This
  <2>0. i \in DOMAIN read
    BY <1>0, <1>4
  <2>1. q(i) = IF f.opcode \in Passed THEN p(i) ELSE p(i) \cup {This}
    BY <1>0, <2>0, DataKept
  <2>2. Cardinality(q(i)) \in Nat
    <3>1. q(i) \subseteq DOMAIN read' /\ read' \in Seq(Frame)
      BY <1>0 DEF DataIn
    <3> QED
      BY <3>1, BytesFinite, FS_CardinalityType
  <2>3. /\ StartedIn(i, read, refused)
        /\ p(i) \subseteq DOMAIN read
        /\ f.opcode \notin Passed =>
              /\ f.opcode = "continuation"
              /\ Cardinality(p(i)) < maxAccumulatedFrameCount
              /\ Cardinality(BytesIn(p(i), read)) + f.length <= maxAccumulatedFrameSize
    <3> DEFINE s == Append(read, f)
               t == DataIn(i, Len(s), s)
    <3>1. /\ FreshIn(i, s, refused') /\ FollowsIn(i, Len(s), s)
          /\ \A k \in t \ {Len(s)} : ~s[k].fin /\ s[k].length >= minNonFinalFragmentSize
          /\ f.opcode \in Passed => Cardinality(t) < maxAccumulatedFrameCount
          /\ Cardinality(t) <= maxAccumulatedFrameCount
          /\ Cardinality(BytesIn(t, s)) <= maxAccumulatedFrameSize
      <4>1. s = read' /\ Len(s) = n + 1 /\ t = q(i)
        BY <1>0
      <4> HIDE DEF s, t, q
      <4>2. Cardinality(t) <= maxAccumulatedFrameCount
        BY <1>1, <2>2, <4>1, FrameAggregatorAssumption
      <4> QED
        BY <1>1, <4>1, <4>2
    <3> QED
      BY Zenon, <1>0, <2>0, <3>1, StartedBefore
  <2>4. /\ Buffered = p(i) /\ bufferedFrames # << >>
        /\ Len(bufferedFrames) = Cardinality(p(i))
        /\ accumulatedFrameSize = Cardinality(BytesIn(p(i), read))
    BY <2>0, <2>3, UnderwayBuffer
  <2>5. CASE f.opcode \in Passed
    <3>1. Passes(f) /\ ~Gathers(f)
      BY <2>5 DEF Passes, Gathers, DataOpcode, Passed
    <3>2. bufferedFrames' = bufferedFrames
      BY <3>1 DEF channelRead, Forward, Buffer, Aggregate, Refuse
    <3> QED
      BY <2>1, <2>4, <2>5, <3>2 DEF Buffered
  <2>6. CASE f.opcode \notin Passed
    <3>1. q(i) = p(i) \cup {This} /\ This \notin p(i)
      BY <1>0, <2>1, <2>3, <2>6
    <3>2. ~f.fin /\ f.length >= minNonFinalFragmentSize
      BY <1>0, <1>1, <3>1
    <3>3. Cardinality(p(i) \cup {This}) = Cardinality(p(i)) + 1 /\ Cardinality(p(i)) \in Nat
      <4>1. read' \in Seq(Frame) /\ p(i) \subseteq DOMAIN read' /\ This \in DOMAIN read' \ p(i)
        BY <1>0, <2>3, <3>1
      <4> QED
        BY <4>1, BytesAdd
    <3>4. Len(bufferedFrames) + 1 < maxAccumulatedFrameCount /\ Len(bufferedFrames) \in Nat
      BY <1>1, <2>4, <3>1, <3>3
    <3>5. Fits(f)
      BY <2>3, <2>4, <2>6, <3>2, <3>4, FrameAggregatorAssumption DEF Fits
    <3>6. Gathers(f)
      BY <2>3, <2>4, <2>6, <3>5 DEF Gathers
    <3> QED
      BY <1>2, <2>4, <2>6, <3>1, <3>6
  <2> QED
    BY <2>5, <2>6
<1> QED
  BY <1>3, <1>4

\* What is handed on stays that when another frame is read.
LEMMA ArrivedKept ==
    ASSUME AInv, NEW f \in Frame, channelRead(f),
           NEW i \in DOMAIN read, NEW j \in DOMAIN read,
           ArrivedIn(i, j, read, forwarded)
    PROVE  ArrivedIn(i, j, read', forwarded')
<1>1. PICK m \in DOMAIN forwarded :
         forwarded[m].opcode = read[i].opcode /\ Lists(forwarded[m].frames, DataIn(i, j, read))
  BY DEF ArrivedIn
<1>2. m \in DOMAIN forwarded' /\ forwarded'[m] = forwarded[m]
  <2>1. forwarded \in Seq(Message)
    BY DEF AInv, IInv, TypeOK, Message
  <2>2. forwarded' = forwarded \/ \E n : forwarded' = Append(forwarded, n)
    BY Zenon DEF channelRead, Forward, Buffer, Aggregate, Refuse
  <2> QED
    BY <2>1, <2>2
<1>3. DataIn(i, j, read') = DataIn(i, j, read)
  <2>1. i \in Nat \ {0} /\ j \in 0 .. Len(read)
    BY ReadsOne DEF AInv
  <2>2. read \in Seq(Frame) /\ read' = Append(read, f)
    BY ReadsOne DEF AInv
  <2> QED
    BY <2>1, <2>2, DataKept
<1>4. read'[i] = read[i]
  BY ReadsOne DEF AInv
<1> QED
  BY <1>1, <1>2, <1>3, <1>4 DEF ArrivedIn

\* The last fragment brings the message through, whole and in order.
LEMMA LastArrives ==
    ASSUME AInv, NEW f \in Frame, channelRead(f), NEW i \in DOMAIN read,
           CompleteIn(i, This, read', refused')
    PROVE  ArrivedIn(i, This, read', forwarded')
<1> DEFINE n == Len(read)
           p == DataIn(i, n, read)
           q == DataIn(i, n + 1, read')
<1>0. /\ read \in Seq(Frame) /\ read' = Append(read, f) /\ n \in Nat
      /\ This = n + 1 /\ Len(read') = n + 1
      /\ DOMAIN read = 1 .. n /\ DOMAIN read' = 1 .. n + 1
      /\ read'[This] = f /\ This \notin DOMAIN read /\ read'[i] = read[i]
      /\ refused \subseteq refused' /\ refused' \subseteq refused \cup {This}
      /\ bufferedFrames \in Seq(Nat) /\ Reads(f)
  BY ReadsOne DEF AInv
<1>1. /\ FreshIn(i, read', refused') /\ FollowsIn(i, n + 1, read') /\ This \in q
      /\ \A k \in q : read'[k].fin <=> k = This
      /\ \A k \in q \ {This} : read'[k].length >= minNonFinalFragmentSize
      /\ Cardinality(q) <= maxAccumulatedFrameCount
      /\ Cardinality(BytesIn(q, read')) <= maxAccumulatedFrameSize
  BY <1>0 DEF CompleteIn
<1>2. f.opcode \notin Passed /\ f.fin
  BY <1>0, <1>1 DEF DataIn
<1>3. /\ StartedIn(i, read, refused)
      /\ p \subseteq DOMAIN read
      /\ f.opcode = "continuation"
      /\ Cardinality(p) < maxAccumulatedFrameCount
      /\ Cardinality(BytesIn(p, read)) + f.length <= maxAccumulatedFrameSize
  <2> DEFINE s == Append(read, f)
             t == DataIn(i, Len(s), s)
  <2>1. /\ FreshIn(i, s, refused') /\ FollowsIn(i, Len(s), s)
        /\ \A k \in t \ {Len(s)} : ~s[k].fin /\ s[k].length >= minNonFinalFragmentSize
        /\ f.opcode \in Passed => Cardinality(t) < maxAccumulatedFrameCount
        /\ Cardinality(t) <= maxAccumulatedFrameCount
        /\ Cardinality(BytesIn(t, s)) <= maxAccumulatedFrameSize
    <3>1. s = read' /\ Len(s) = This /\ t = q
      BY <1>0
    <3> HIDE DEF s, t, q
    <3> QED
      BY <1>0, <1>1, <1>2, <3>1
  <2> QED
    BY Zenon, <1>0, <1>2, <2>1, StartedBefore
<1>4. /\ Buffered = p /\ bufferedFrames # << >> /\ bufferedFrames[1] = i
      /\ Len(bufferedFrames) = Cardinality(p)
      /\ accumulatedFrameSize = Cardinality(BytesIn(p, read))
  BY <1>3, UnderwayBuffer
<1>5. Gathers(f) /\ ~Passes(f)
  BY <1>2, <1>3, <1>4 DEF Gathers, Passes, Fits, DataOpcode
<1>6. Aggregate(f)
  BY <1>2, <1>5 DEF channelRead, Forward, Buffer, Refuse
<1> DEFINE l == Append(bufferedFrames, This)
           m == [opcode |-> read[bufferedFrames[1]].opcode, frames |-> l]
<1>7. Lists(l, q)
  <2>1. q = p \cup {This}
    <3>1. DataIn(i, Len(read) + 1, Append(read, f)) =
              IF f.opcode \in Passed THEN DataIn(i, Len(read), read)
              ELSE DataIn(i, Len(read), read) \cup {Len(read) + 1}
      BY Zenon, <1>0, DataKept
    <3> QED
      BY <1>0, <1>2, <3>1
  <2>2. {l[k] : k \in DOMAIN l} = Buffered \cup {This}
    <3>1. bufferedFrames \in Seq(Nat) /\ This \in Nat
      BY <1>0
    <3> QED
      BY Zenon, <3>1, BufferedMore DEF Buffered
  <2>3. \A k \in 2 .. Len(l) : l[k - 1] < l[k]
    BY <1>0, <1>5, GatheredFragments DEF AInv, IInv
  <2> HIDE DEF l, q, p
  <2> QED
    BY <1>4, <2>1, <2>2, <2>3 DEF Lists
<1>8. forwarded' = Append(forwarded, m) /\ forwarded \in Seq(Message)
  BY <1>6 DEF Aggregate, AInv, IInv, TypeOK, Message
<1>9. Len(forwarded) + 1 \in DOMAIN forwarded' /\ forwarded'[Len(forwarded) + 1] = m
  BY <1>8
<1>10. m.opcode = read'[i].opcode /\ m.frames = l
  BY <1>0, <1>4
<1> HIDE DEF m, l
<1> QED
  BY <1>0, <1>7, <1>9, <1>10 DEF ArrivedIn

LEMMA ArriveNext == ASSUME AInv, NEW f \in Frame, channelRead(f) PROVE MessagesArrive'
<1>0. /\ read \in Seq(Frame) /\ read' = Append(read, f) /\ Len(read) \in Nat
      /\ This = Len(read) + 1
      /\ DOMAIN read = 1 .. Len(read) /\ DOMAIN read' = 1 .. Len(read) + 1
      /\ refused \subseteq refused' /\ refused' \subseteq refused \cup {This}
      /\ \A k \in DOMAIN read : read'[k] = read[k]
  BY ReadsOne DEF AInv
<1> SUFFICES ASSUME NEW i \in DOMAIN read', NEW j \in DOMAIN read',
                    CompleteIn(i, j, read', refused')
             PROVE  ArrivedIn(i, j, read', forwarded')
  BY ArriveIsNext
<1>1. i < j
  BY DEF CompleteIn
<1>2. i \in DOMAIN read
  BY <1>0, <1>1
<1>3. CASE j = This
  BY <1>2, <1>3, LastArrives
<1>4. CASE j # This
  <2>1. j \in DOMAIN read
    BY <1>0, <1>4
  <2> DEFINE p == DataIn(i, j, read)
  <2>2. DataIn(i, j, read') = p
    <3>1. i \in Nat \ {0} /\ j \in 0 .. Len(read)
      BY <1>0, <1>2, <2>1
    <3> QED
      BY <1>0, <3>1, DataKept
  <2>3. p \subseteq DOMAIN read
    BY <1>0, <1>2, <2>1 DEF DataIn
  <2>4. BytesIn(p, read') = BytesIn(p, read)
    BY <1>0, <2>3, DataKept
  <2>5. FreshIn(i, read, refused)
    BY <1>0, FreshKept DEF CompleteIn
  <2> HIDE DEF p
  <2>6. CompleteIn(i, j, read, refused)
    <3>1. \A k \in p : read'[k] = read[k]
      BY <1>0, <2>3
    <3>2. FollowsIn(i, j, read)
      BY <1>0, <1>2, <2>2, <3>1 DEF CompleteIn, FollowsIn, p
    <3>3. /\ j \in p
          /\ \A k \in p : read'[k].fin <=> k = j
          /\ \A k \in p \ {j} : read'[k].length >= minNonFinalFragmentSize
          /\ Cardinality(p) <= maxAccumulatedFrameCount
          /\ Cardinality(BytesIn(p, read)) <= maxAccumulatedFrameSize
      BY <2>2, <2>4 DEF CompleteIn
    <3>4. /\ \A k \in p : read[k].fin <=> k = j
          /\ \A k \in p \ {j} : read[k].length >= minNonFinalFragmentSize
      BY <3>1, <3>3
    <3> QED
      BY <1>1, <2>5, <3>2, <3>3, <3>4 DEF CompleteIn, p
  <2>7. ArrivedIn(i, j, read, forwarded)
    BY <1>2, <2>1, <2>6, ArriveIs DEF AInv
  <2> QED
    BY <1>2, <2>1, <2>7, ArrivedKept
<1> QED
  BY <1>3, <1>4

\* A message that is handed on now was completed by the frame just read.
LEMMA TurnNext == ASSUME AInv, NEW f \in Frame, channelRead(f) PROVE CompletedRead' /\ InTurn'
<1>0. /\ forwarded \in Seq(Message) /\ This \in DOMAIN read' /\ DOMAIN read \subseteq DOMAIN read'
      /\ \A i \in DOMAIN read : i < This
  BY ReadsOne DEF AInv, IInv, TypeOK, Message
<1>1. CASE forwarded' = forwarded
  BY <1>0, <1>1 DEF AInv, CompletedRead, InTurn, Completed
<1>2. ASSUME NEW m, forwarded' = Append(forwarded, m), m.frames[Len(m.frames)] = This
      PROVE  CompletedRead' /\ InTurn'
  <2>1. /\ DOMAIN forwarded' = DOMAIN forwarded \cup {Len(forwarded) + 1}
        /\ forwarded'[Len(forwarded) + 1] = m
        /\ \A k \in DOMAIN forwarded :
              forwarded'[k] = forwarded[k] /\ k \in Nat /\ k < Len(forwarded) + 1
        /\ Len(forwarded) \in Nat
    BY <1>0, <1>2
  <2> DEFINE LastOf(s, k) == s[k].frames[Len(s[k].frames)]
  <2>2. /\ \A k : Completed(k)' = LastOf(forwarded', k) /\ Completed(k) = LastOf(forwarded, k)
        /\ \A k : k = Len(forwarded) + 1 => LastOf(forwarded', k) = This
        /\ \A k \in DOMAIN forwarded : LastOf(forwarded', k) = LastOf(forwarded, k)
    BY <1>2, <2>1 DEF Completed
  <2> HIDE DEF LastOf
  <2>3. CompletedRead'
    BY <1>0, <2>1, <2>2 DEF AInv, CompletedRead
  <2>4. ASSUME NEW j \in DOMAIN forwarded', NEW k \in DOMAIN forwarded', j < k
        PROVE  Completed(j)' < Completed(k)'
    <3>1. j \in DOMAIN forwarded
      BY <2>1, <2>4
    <3>2. Completed(j)' = Completed(j) /\ Completed(j) \in DOMAIN read
      BY <2>2, <3>1 DEF AInv, CompletedRead
    <3>3. CASE k \in DOMAIN forwarded
      BY <2>2, <2>4, <3>1, <3>2, <3>3 DEF AInv, InTurn
    <3>4. CASE k = Len(forwarded) + 1
      BY <1>0, <2>2, <3>2, <3>4
    <3> QED
      BY <2>1, <3>3, <3>4
  <2> QED
    BY <2>3, <2>4 DEF InTurn
<1>3. CASE Forward(f)
  <2> DEFINE m == [opcode |-> f.opcode, frames |-> <<This>>]
  <2>1. forwarded' = Append(forwarded, m) /\ m.frames[Len(m.frames)] = This
    BY <1>3 DEF Forward
  <2> HIDE DEF m
  <2> QED
    BY <1>2, <2>1
<1>4. CASE Aggregate(f)
  <2> DEFINE l == Append(bufferedFrames, This)
             m == [opcode |-> read[bufferedFrames[1]].opcode, frames |-> l]
  <2>1. l[Len(l)] = This
    BY ReadsOne DEF AInv
  <2>2. forwarded' = Append(forwarded, m) /\ m.frames[Len(m.frames)] = This
    BY <1>4, <2>1 DEF Aggregate
  <2> HIDE DEF m
  <2> QED
    BY <1>2, <2>2
<1>5. CASE Buffer(f) \/ Refuse(f)
  BY <1>1, <1>5 DEF Buffer, Refuse
<1> QED
  BY <1>3, <1>4, <1>5 DEF channelRead

LEMMA InitAInv == Init => AInv
<1> SUFFICES ASSUME Init PROVE AInv
  OBVIOUS
<1>1. Buffered = {} /\ Len(bufferedFrames) = 0
  BY DEF Init, Buffered
<1>2. Sizes
  BY <1>1, BytesNone DEF Init, Sizes, TotalLength, BytesIn
<1> QED
  BY <1>2, InitIInv DEF Init, AInv, LastBuffered, Underway, MessagesArrive, CompletedRead, InTurn

LEMMA NextAInv == AInv /\ [Next]_vars => AInv'
<1> SUFFICES ASSUME AInv, [Next]_vars PROVE AInv'
  OBVIOUS
<1>1. IInv'
  BY NextIInv DEF AInv
<1>2. ASSUME NEW f \in Frame, channelRead(f) PROVE AInv'
  BY Zenon, <1>1, <1>2, SizesNext, LastNext, UnderwayNext, ArriveNext, TurnNext DEF AInv
<1>3. CASE UNCHANGED vars
  <2>1. UNCHANGED <<Sizes, LastBuffered, Underway, MessagesArrive, CompletedRead, InTurn>>
    BY <1>3 DEF vars, Sizes, LastBuffered, Underway, Started, MessagesArrive, Buffered,
                DataFrames, TotalLength, Fresh, Follows, CompletedRead, InTurn, Completed
  <2> QED
    BY <1>1, <2>1 DEF AInv
<1> QED
  BY <1>2, <1>3 DEF Next

LEMMA AInvariant == Spec => []AInv
  BY InitAInv, NextAInv, PTL DEF Spec

\* Whatever channelRead hands on is a control or reserved frame just as it came
\* (a reserved one even unfinished) or one whole message under its own opcode,
\* each once and in turn, for any limits and any sequence of frames, refused
\* ones among them.
THEOREM AggregatorWhole == Spec => []MessagesAreWhole
<1>1. AInv => MessagesAreWhole
  BY DEF AInv, IInv, MessagesAreWhole
<1> QED
  BY <1>1, AInvariant, PTL

\* Every fragmented message that keeps to the rules and the limits is handed on
\* by channelRead with all its fragments in order, for any limits and whatever
\* was refused before it: bufferFrame and clearBuffer leave nothing behind.
THEOREM AggregatorArrives == Spec => []MessagesArrive
  BY AInvariant, PTL DEF AInv

=============================================================================
