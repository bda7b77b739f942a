--------------------------- MODULE FrameAggregator ---------------------------
(***************************************************************************)
(* NIOWebSocketFrameAggregator, which every WebSocket of the server has    *)
(* between the frame decoder and WebSocketHandler: it gathers the          *)
(* fragments of a message, within limits, and hands on whole messages.     *)
(* Frames of any other opcode it hands on as they come.                    *)
(*                                                                         *)
(* A frame that breaks a rule or a limit is dropped with what was gathered.*)
(* The error goes on down the pipeline, where no handler takes notice: the *)
(* peer is not answered, and its next frame is read as if nothing had been.*)
(***************************************************************************)
EXTENDS Naturals, Sequences, FiniteSets

CONSTANTS
    minNonFinalFragmentSize,
    maxAccumulatedFrameCount,
    maxAccumulatedFrameSize,
    Length,      \* lengths of the frames peers send
    MaxRead      \* bound: frames read on one connection

ASSUME FrameAggregatorAssumption ==
    /\ minNonFinalFragmentSize \in Nat
    /\ maxAccumulatedFrameCount \in Nat
    /\ maxAccumulatedFrameSize \in Nat
    /\ Length \subseteq Nat
    /\ MaxRead \in Nat

VARIABLES
    read,                  \* the frames read so far
    bufferedFrames,        \* the fragments gathered, as positions in read
    accumulatedFrameSize,
    forwarded,             \* the frames handed on: opcode and the positions
                           \* of the frames each was made of
    refused                \* the positions of the frames that raised an error

vars == <<read, bufferedFrames, accumulatedFrameSize, forwarded, refused>>

DataOpcode == {"text", "binary"}

\* The opcodes of the default branch.  "ping" stands for the control opcodes,
\* 8 to 15; "reserved" for 3 to 7, which are neither data nor control.
Passed == {"ping", "reserved"}

\* The decoder refuses a control frame that is not final, and no other frame
\* for its opcode or its fin bit.  No branch looks at a control frame's length.
Frame ==
    [opcode : DataOpcode \cup {"continuation", "reserved"}, fin : BOOLEAN, length : Length]
        \cup [opcode : {"ping"}, fin : {TRUE}, length : {0}]

Init ==
    /\ read = << >>
    /\ bufferedFrames = << >>
    /\ accumulatedFrameSize = 0
    /\ forwarded = << >>
    /\ refused = {}

-----------------------------------------------------------------------------
Reads(f) ==
    /\ Len(read) < MaxRead
    /\ read' = Append(read, f)

This == Len(read) + 1

\* Mutant: a message of just the largest size is refused.
FitsStrictly(f) ==
    /\ f.fin \/ f.length >= minNonFinalFragmentSize
    /\ Len(bufferedFrames) < maxAccumulatedFrameCount
    /\ f.fin \/ Len(bufferedFrames) + 1 < maxAccumulatedFrameCount
    /\ accumulatedFrameSize + f.length < maxAccumulatedFrameSize

\* Mutant: the size is looked at when the message is complete.
FitsWhenFinal(f) ==
    /\ f.fin \/ f.length >= minNonFinalFragmentSize
    /\ Len(bufferedFrames) < maxAccumulatedFrameCount
    /\ f.fin \/ Len(bufferedFrames) + 1 < maxAccumulatedFrameCount
    /\ f.fin => accumulatedFrameSize + f.length <= maxAccumulatedFrameSize

\* The limits of bufferFrame.
Fits(f) ==
    /\ f.fin \/ f.length >= minNonFinalFragmentSize
    /\ Len(bufferedFrames) < maxAccumulatedFrameCount
    /\ f.fin \/ Len(bufferedFrames) + 1 < maxAccumulatedFrameCount
    /\ accumulatedFrameSize + f.length <= maxAccumulatedFrameSize

\* Neither data nor continuation: passes.  A message in one frame passes when
\* none is being gathered.
Passes(f) ==
    \/ f.opcode \in Passed
    \/ f.opcode \in DataOpcode /\ f.fin /\ bufferedFrames = << >>

\* The first fragment of a message needs an empty buffer, the others need a
\* first one.
Gathers(f) ==
    /\ \/ f.opcode = "continuation" /\ bufferedFrames # << >>
       \/ f.opcode \in DataOpcode /\ ~f.fin /\ bufferedFrames = << >>
    /\ Fits(f)

Forward(f) ==
    /\ Passes(f)
    /\ Reads(f)
    /\ forwarded' = Append(forwarded, [opcode |-> f.opcode, frames |-> <<This>>])
    /\ UNCHANGED <<bufferedFrames, accumulatedFrameSize, refused>>

Buffer(f) ==
    /\ Gathers(f)
    /\ ~f.fin
    /\ Reads(f)
    /\ bufferedFrames' = Append(bufferedFrames, This)
    /\ accumulatedFrameSize' = accumulatedFrameSize + f.length
    /\ UNCHANGED <<forwarded, refused>>

clearBuffer == bufferedFrames' = << >> /\ accumulatedFrameSize' = 0

\* Mutant: the message is forwarded with the opcode of its last fragment.
AggregateUnderLast(f) ==
    /\ Gathers(f)
    /\ f.fin
    /\ Reads(f)
    /\ forwarded' = Append(forwarded, [opcode |-> f.opcode,
                                       frames |-> Append(bufferedFrames, This)])
    /\ clearBuffer
    /\ UNCHANGED refused

\* The final fragment: the message is forwarded with the opcode of its first.
Aggregate(f) ==
    /\ Gathers(f)
    /\ f.fin
    /\ Reads(f)
    /\ forwarded' = Append(forwarded, [opcode |-> read[bufferedFrames[1]].opcode,
                                       frames |-> Append(bufferedFrames, This)])
    /\ clearBuffer
    /\ UNCHANGED refused

\* Mutant: what was gathered survives an error.
RefuseFrameOnly(f) ==
    /\ ~Passes(f)
    /\ ~Gathers(f)
    /\ Reads(f)
    /\ refused' = refused \cup {This}
    /\ UNCHANGED <<bufferedFrames, accumulatedFrameSize, forwarded>>

Refuse(f) ==
    /\ ~Passes(f)
    /\ ~Gathers(f)
    /\ Reads(f)
    /\ refused' = refused \cup {This}
    /\ clearBuffer
    /\ UNCHANGED forwarded

channelRead(f) == Forward(f) \/ Buffer(f) \/ Aggregate(f) \/ Refuse(f)

Next == \E f \in Frame : channelRead(f)

Spec == Init /\ [][Next]_vars

-----------------------------------------------------------------------------
(* Properties.                                                             *)

\* Every variable has its type.
TypeOK ==
    /\ read \in Seq(Frame)
    /\ bufferedFrames \in Seq(Nat)
    /\ accumulatedFrameSize \in Nat
    /\ forwarded \in Seq([opcode : DataOpcode \cup Passed, frames : Seq(Nat)])
    /\ refused \subseteq Nat

\* Between two frames the buffer is within its limits, with room for one more
\* fragment; it never holds a size without frames.
BufferIsBounded ==
    /\ bufferedFrames # << >> => Len(bufferedFrames) < maxAccumulatedFrameCount
    /\ accumulatedFrameSize <= maxAccumulatedFrameSize
    /\ bufferedFrames = << >> => accumulatedFrameSize = 0

\* p holds, in order, the positions of a first fragment and of continuations,
\* and what came in between are frames that pass.
Fragments(p) ==
    /\ \A k \in DOMAIN p : p[k] \in DOMAIN read
    /\ read[p[1]].opcode \in DataOpcode
    /\ \A k \in 2 .. Len(p) : read[p[k]].opcode = "continuation" /\ p[k - 1] < p[k]
    /\ \A i \in DOMAIN read :
          p[1] < i /\ i < p[Len(p)] /\ (\A k \in DOMAIN p : p[k] # i)
              => read[i].opcode \in Passed

\* m is one control or reserved frame, or was made of one whole message.
Whole(m) ==
    LET p == m.frames IN
    \/ /\ Len(p) = 1 /\ p[1] \in DOMAIN read
       /\ m.opcode = read[p[1]].opcode /\ m.opcode \in Passed
    \/ /\ p # << >> /\ Fragments(p)
       /\ m.opcode = read[p[1]].opcode
       /\ \A k \in DOMAIN p : read[p[k]].fin <=> k = Len(p)
       /\ \A k \in DOMAIN p : p[k] \notin refused
       /\ Len(p) = 1 \/ Len(p) <= maxAccumulatedFrameCount

\* The position of the frame that made the m-th message whole.
Completed(m) == LET p == forwarded[m].frames IN p[Len(p)]

AllWhole == \A m \in DOMAIN forwarded : Whole(forwarded[m])

InTurn == \A m, n \in DOMAIN forwarded : m < n => Completed(m) < Completed(n)

\* Whatever is handed on is a control frame or a frame of a reserved opcode,
\* final or not, by itself and under its own opcode; or it is a whole message:
\* one frame, or the fragments of one message from first to last, under the
\* first one's opcode, no more of them than the limit.  Nothing a refused frame
\* belonged to gets into it.  All are handed on once each, in the order in
\* which their last frames came.
MessagesAreWhole == AllWhole /\ InTurn

\* The data frames from i to j, continuations among them, as positions.
DataFrames(i, j) == {k \in i .. j : read[k].opcode \notin Passed}

\* The length of the message that the frames at p make up: every frame with
\* each of its bytes.
TotalLength(p) == Cardinality(UNION {{k} \X (1 .. read[k].length) : k \in p})

\* Nothing is being gathered when frame i comes: the data frame before it
\* ended its message or was refused.
Fresh(i) ==
    \A k \in DataFrames(1, i - 1) :
        DataFrames(k + 1, i - 1) = {} => read[k].fin \/ k \in refused

\* s lists the positions in p, in the order they were read.
Lists(s, p) ==
    /\ {s[k] : k \in DOMAIN s} = p
    /\ \A k \in 2 .. Len(s) : s[k - 1] < s[k]

\* The data frames from i on, up to frame j, are a first fragment and the
\* continuations that follow it.
Follows(i, j) ==
    /\ i \in DataFrames(i, j) /\ read[i].opcode \in DataOpcode
    /\ \A k \in DataFrames(i, j) \ {i} : read[k].opcode = "continuation"

\* A fragmented message that keeps to the rules and the limits is handed on
\* with all its fragments in order, whatever was refused before it and
\* whatever control and reserved frames it is mixed with.
MessagesArrive ==
    \A i, j \in DOMAIN read :
        LET p == DataFrames(i, j) IN
        (/\ i < j /\ Fresh(i)
         /\ j \in p /\ Follows(i, j)
         /\ \A k \in p : read[k].fin <=> k = j
         /\ \A k \in p \ {j} : read[k].length >= minNonFinalFragmentSize
         /\ Cardinality(p) <= maxAccumulatedFrameCount
         /\ TotalLength(p) <= maxAccumulatedFrameSize)
        => \E m \in DOMAIN forwarded :
              /\ forwarded[m].opcode = read[i].opcode
              /\ Lists(forwarded[m].frames, p)

=============================================================================
