----------------------------- MODULE HTTPParser -----------------------------
(***************************************************************************)
(* How the bytes of a connection become requests: c_nio_http_parser, which *)
(* HTTPDecoder drives for every connection of the server, and the state    *)
(* HTTPDecoder keeps of its callbacks.                                     *)
(*                                                                         *)
(* The input is read by line where a line only sets a flag, by digit where *)
(* it counts, and by read where it is a body.  A line may be cut by a read *)
(* at any byte: the parser is resumed where it was, and the callback it    *)
(* has made for the first part leaves the decoder as the whole one would.  *)
(***************************************************************************)
EXTENDS Integers, FiniteSets

CONSTANTS
    ULLONG_MAX,     \* the largest content_length, and "no length given"
    DecimalDigit,   \* digits of the lengths peers give
    HexDigit,       \* digits of the sizes of their chunks
    Version,        \* versions they speak, of "0.9", "1.0" and "1.1"
    Header,         \* header lines they send, of those Line has flags for
    Available,      \* numbers of bytes a read may bring
    MaxMessages,    \* bound: requests on the connection
    MaxHeaders,     \* bound: different lines of a request, trailers included
    MaxBody         \* bound: length at which no further chunk has a size

Line ==
    [close       |-> {"F_CONNECTION_CLOSE"},
     keepAlive   |-> {"F_CONNECTION_KEEP_ALIVE"},
     upgradeTo   |-> {"F_UPGRADE"},
     upgrade     |-> {"F_CONNECTION_UPGRADE"},
     chunked     |-> {"F_CHUNKED"},
     otherCoding |-> {},
     general     |-> {}]

ASSUME HTTPParserAssumption ==
    /\ ULLONG_MAX \in Nat /\ ULLONG_MAX >= 16
    /\ DecimalDigit \subseteq 0 .. 9
    /\ HexDigit \subseteq 0 .. 15
    /\ Version \subseteq {"0.9", "1.0", "1.1"}
    /\ Header \subseteq DOMAIN Line
    /\ Available \subseteq Nat \ {0}
    /\ {MaxMessages, MaxHeaders, MaxBody} \subseteq Nat

VARIABLES
    state,                  \* http_parser.state, between two lines
    flags,
    uses_transfer_encoding,
    content_length,
    method, version,
    http_errno,
    decoder,      \* BetterHTTPParser.decodingState; HTTPDecoder's isUpgrade, an
                  \* optional, and stopParsing
    (* What the peer has said of the latest request.                         *)
    head, trailers,   \* the lines of its head and of its trailers
    number,           \* the value of the digits being read
    announced,        \* the lengths given by Content-Length or for chunks
    received,         \* the bytes handed to the application as its body
    messages          \* how many requests there were

parserVars == <<state, flags, uses_transfer_encoding, content_length, method, version, http_errno>>
peerVars == <<head, trailers, number, announced, received, messages>>
vars == <<parserVars, decoder, peerVars>>

Init ==
    /\ state = "s_start_req"
    /\ flags = {}
    /\ uses_transfer_encoding = FALSE
    /\ content_length = 0
    /\ method = "other" /\ version = "1.1"
    /\ http_errno = "HPE_OK"
    /\ decoder = [state |-> "beforeMessageBegin", isUpgrade |-> "nil", stopParsing |-> FALSE]
    /\ head = {} /\ trailers = {}
    /\ number = 0 /\ announced = 0 /\ received = 0
    /\ messages = 0

-----------------------------------------------------------------------------
(* The decoder's callbacks.  Each names the states it is prepared for; in  *)
(* another it ends the process.                                            *)

Expects(d, states, next) ==
    [d EXCEPT !.state = IF d.state \in states THEN next ELSE "trapped"]

\* on_message_begin and on_url, which always follow one another.
OnRequestLine(d) == Expects(d, {"beforeMessageBegin"}, "url")

OnHeaderField(d) ==
    IF d.state \in {"headersComplete", "trailerValue"}
    THEN Expects(d, {"headersComplete", "trailerValue"}, "trailerName")
    ELSE Expects(d, {"url", "headerValue"}, "headerName")

OnHeaderValue(d) ==
    IF d.state \in {"trailerName", "trailerValue"}
    THEN Expects(d, {"trailerName", "trailerValue"}, "trailerValue")
    ELSE Expects(d, {"headerName", "headerValue"}, "headerValue")

\* Only versions 1.x are accepted.
OnHeadersComplete(d, isUpgrade) ==
    LET completed == Expects(d, {"url", "headerValue"}, "headersComplete")
    IN  IF version = "0.9" THEN [completed EXCEPT !.stopParsing = TRUE]
        ELSE [completed EXCEPT !.isUpgrade = IF isUpgrade THEN "true" ELSE "false"]

OnMessageComplete(d) ==
    LET completed == Expects(d, {"headersComplete", "trailerValue"}, "beforeMessageBegin")
    IN  IF d.isUpgrade = "nil" THEN [completed EXCEPT !.state = "trapped"]
        ELSE [completed EXCEPT !.stopParsing = (d.isUpgrade = "true"), !.isUpgrade = "nil"]

-----------------------------------------------------------------------------
(* The parser.                                                             *)

\* The decoder feeds the parser, and the parser is in this state.
Reads(s) ==
    /\ ~decoder.stopParsing
    /\ decoder.state # "trapped"
    /\ http_errno = "HPE_OK"
    /\ state = s

Errs(e) ==
    /\ http_errno' = e
    /\ UNCHANGED <<state, flags, uses_transfer_encoding, content_length, method, version, peerVars>>

c_nio_http_should_keep_alive ==
    IF version = "1.1" THEN "F_CONNECTION_CLOSE" \notin flags
    ELSE "F_CONNECTION_KEEP_ALIVE" \in flags

\* Mutant: as NEW_MESSAGE is without HTTP_PARSER_STRICT.
NEW_MESSAGE_LAX == "s_start_req"

NEW_MESSAGE == IF c_nio_http_should_keep_alive THEN "s_start_req" ELSE "s_dead"

MessageComplete(d) ==
    /\ state' = NEW_MESSAGE
    /\ decoder' = OnMessageComplete(d)
    /\ UNCHANGED <<flags, uses_transfer_encoding, method, version, http_errno>>

\* Mutant: the flags of the request before are kept.
RequestLineKeepingFlags(m, v) ==
    /\ Reads("s_start_req")
    /\ messages < MaxMessages
    /\ state' = "s_header_field_start"
    /\ uses_transfer_encoding' = FALSE
    /\ content_length' = ULLONG_MAX
    /\ method' = m /\ version' = v
    /\ decoder' = OnRequestLine(decoder)
    /\ head' = {} /\ trailers' = {}
    /\ number' = 0 /\ announced' = 0 /\ received' = 0
    /\ messages' = messages + 1
    /\ UNCHANGED <<flags, http_errno>>

RequestLine(m, v) ==
    /\ Reads("s_start_req")
    /\ messages < MaxMessages
    /\ state' = "s_header_field_start"
    /\ flags' = {}
    /\ uses_transfer_encoding' = FALSE
    /\ content_length' = ULLONG_MAX
    /\ method' = m /\ version' = v
    /\ decoder' = OnRequestLine(decoder)
    /\ head' = {} /\ trailers' = {}
    /\ number' = 0 /\ announced' = 0 /\ received' = 0
    /\ messages' = messages + 1
    /\ UNCHANGED http_errno

\* A request after one that was the connection's last.
RequestAfterClose ==
    /\ Reads("s_dead")
    /\ Errs("HPE_CLOSED_CONNECTION")
    /\ UNCHANGED decoder

Trailing == "F_TRAILING" \in flags

\* A header or trailer line; one with several options does what several do.
HeaderLine(h) ==
    /\ Reads("s_header_field_start")
    /\ Cardinality(head) + Cardinality(trailers) < MaxHeaders
    /\ flags' = flags \cup Line[h]
    /\ uses_transfer_encoding' = (uses_transfer_encoding \/ h \in {"chunked", "otherCoding"})
    /\ decoder' = OnHeaderValue(OnHeaderField(decoder))
    /\ IF Trailing THEN trailers' = trailers \cup {h} /\ UNCHANGED head
       ELSE head' = head \cup {h} /\ UNCHANGED trailers
    /\ UNCHANGED <<state, content_length, method, version, http_errno,
                   number, announced, received, messages>>

\* Content-Length: its first digit, and that it may be given only once.
LengthStarts(d) ==
    /\ Reads("s_header_field_start")
    /\ decoder' = OnHeaderField(decoder)
    /\ IF "F_CONTENTLENGTH" \in flags THEN Errs("HPE_UNEXPECTED_CONTENT_LENGTH")
       ELSE /\ flags' = flags \cup {"F_CONTENTLENGTH"}
            /\ content_length' = d
            /\ number' = d
            /\ state' = "s_header_value"
            /\ UNCHANGED <<uses_transfer_encoding, method, version, http_errno,
                           head, trailers, announced, received, messages>>

\* Mutant: the limit is not conservative.
OverflowsLate(base) == ULLONG_MAX \div base < content_length

\* "Test against a conservative limit for simplicity."
Overflows(base) == (ULLONG_MAX - base) \div base < content_length

\* The next digit, in unsigned arithmetic.
Digit(base, d) ==
    IF Overflows(base) THEN Errs("HPE_INVALID_CONTENT_LENGTH")
    ELSE /\ content_length' = (content_length * base + d) % (ULLONG_MAX + 1)
         /\ number' = number * base + d
         /\ UNCHANGED <<state, flags, uses_transfer_encoding, method, version, http_errno,
                        head, trailers, announced, received, messages>>

LengthGoesOn(d) ==
    /\ Reads("s_header_value")
    /\ Digit(10, d)
    /\ UNCHANGED decoder

\* A length among the trailers announces nothing.
LengthEnds ==
    /\ Reads("s_header_value")
    /\ state' = "s_header_field_start"
    /\ decoder' = OnHeaderValue(decoder)
    /\ announced' = IF Trailing THEN announced ELSE number
    /\ UNCHANGED <<flags, uses_transfer_encoding, content_length, method, version, http_errno,
                   head, trailers, number, received, messages>>

Upgrades == {"F_UPGRADE", "F_CONNECTION_UPGRADE"} \subseteq flags \/ method = "CONNECT"

hasBody == "F_CHUNKED" \in flags \/ content_length \notin {0, ULLONG_MAX}

\* The rest of the connection is in a different protocol.
Leaves == Upgrades /\ (method = "CONNECT" \/ ~hasBody)

\* The empty line after a head that gives its length in two ways.
HeadConflicts ==
    /\ Reads("s_header_field_start")
    /\ ~Trailing
    /\ uses_transfer_encoding /\ "F_CONTENTLENGTH" \in flags
    /\ Errs("HPE_UNEXPECTED_CONTENT_LENGTH")
    /\ UNCHANGED decoder

\* Any other empty line after a head: on_headers_complete is called.
HeadEnds ==
    /\ Reads("s_header_field_start")
    /\ ~Trailing
    /\ ~(uses_transfer_encoding /\ "F_CONTENTLENGTH" \in flags)

WrongVersion ==
    /\ HeadEnds
    /\ version = "0.9"
    /\ Errs("HPE_INVALID_VERSION")
    /\ decoder' = OnHeadersComplete(decoder, Upgrades)

HeadIsAll ==
    /\ HeadEnds
    /\ version # "0.9"
    /\ Leaves \/ (~hasBody /\ ~uses_transfer_encoding)
    /\ MessageComplete(OnHeadersComplete(decoder, Upgrades))
    /\ UNCHANGED <<content_length, peerVars>>

ChunksFollow ==
    /\ HeadEnds
    /\ version # "0.9"
    /\ ~Leaves
    /\ "F_CHUNKED" \in flags
    /\ state' = "s_chunk_size_start"
    /\ decoder' = OnHeadersComplete(decoder, Upgrades)
    /\ UNCHANGED <<flags, uses_transfer_encoding, content_length, method, version, http_errno,
                   peerVars>>

NoLengthKnown ==
    /\ HeadEnds
    /\ version # "0.9"
    /\ ~Leaves
    /\ uses_transfer_encoding /\ "F_CHUNKED" \notin flags
    /\ Errs("HPE_INVALID_TRANSFER_ENCODING")
    /\ decoder' = OnHeadersComplete(decoder, Upgrades)

BodyFollows ==
    /\ HeadEnds
    /\ version # "0.9"
    /\ ~Leaves
    /\ hasBody /\ ~uses_transfer_encoding
    /\ state' = "s_body_identity"
    /\ decoder' = OnHeadersComplete(decoder, Upgrades)
    /\ UNCHANGED <<flags, uses_transfer_encoding, content_length, method, version, http_errno,
                   peerVars>>

MIN(a, b) == IF a < b THEN a ELSE b

\* Mutant: the body takes all there is.
TakesAll(n) ==
    /\ content_length' = content_length - n
    /\ received' = received + n
    /\ UNCHANGED <<head, trailers, number, announced, messages>>

\* A read with n bytes to come: those that belong to the body are handed on.
Takes(n) ==
    LET to_read == MIN(content_length, n) IN
    /\ content_length' = content_length - to_read
    /\ received' = received + to_read
    /\ UNCHANGED <<head, trailers, number, announced, messages>>

Body(n) ==
    /\ Reads("s_body_identity")
    /\ Takes(n)
    /\ IF content_length' = 0 THEN MessageComplete(decoder)
       ELSE UNCHANGED <<state, flags, uses_transfer_encoding, method, version, http_errno, decoder>>

ChunkSizeStarts(d) ==
    /\ Reads("s_chunk_size_start")
    /\ d = 0 \/ announced < MaxBody
    /\ content_length' = d
    /\ number' = d
    /\ state' = "s_chunk_size"
    /\ UNCHANGED <<flags, uses_transfer_encoding, method, version, http_errno, decoder,
                   head, trailers, announced, received, messages>>

ChunkSizeGoesOn(d) ==
    /\ Reads("s_chunk_size")
    /\ announced < MaxBody
    /\ Digit(16, d)
    /\ UNCHANGED decoder

\* A chunk of size 0 is the last; trailers may follow.
ChunkSizeEnds ==
    /\ Reads("s_chunk_size")
    /\ announced' = announced + number
    /\ IF content_length = 0
       THEN flags' = flags \cup {"F_TRAILING"} /\ state' = "s_header_field_start"
       ELSE state' = "s_chunk_data" /\ UNCHANGED flags
    /\ UNCHANGED <<uses_transfer_encoding, content_length, method, version, http_errno, decoder,
                   head, trailers, number, received, messages>>

\* The end of a chunk's data, and the line end behind it.
ChunkData(n) ==
    /\ Reads("s_chunk_data")
    /\ Takes(n)
    /\ state' = IF content_length' = 0 THEN "s_chunk_size_start" ELSE state
    /\ UNCHANGED <<flags, uses_transfer_encoding, method, version, http_errno, decoder>>

TrailersEnd ==
    /\ Reads("s_header_field_start")
    /\ Trailing
    /\ MessageComplete(decoder)
    /\ UNCHANGED <<content_length, peerVars>>

\* A byte that may not be there, or the end of the connection, in a request.
Malformed ==
    /\ \E s \in {"s_start_req", "s_header_field_start", "s_header_value",
                 "s_chunk_size_start", "s_chunk_size"} : Reads(s)
    /\ Errs("malformed")
    /\ UNCHANGED decoder

Eof ==
    /\ \E s \in {"s_header_field_start", "s_header_value", "s_chunk_size_start",
                 "s_chunk_size", "s_chunk_data", "s_body_identity"} : Reads(s)
    /\ Errs("HPE_INVALID_EOF_STATE")
    /\ UNCHANGED decoder

HeadStep ==
    \/ \E m \in {"CONNECT", "other"}, v \in Version : RequestLine(m, v)
    \/ RequestAfterClose
    \/ \E h \in Header : HeaderLine(h)
    \/ \E d \in DecimalDigit : LengthStarts(d) \/ LengthGoesOn(d)
    \/ LengthEnds
    \/ HeadConflicts \/ WrongVersion \/ HeadIsAll \/ ChunksFollow \/ NoLengthKnown \/ BodyFollows

BodyStep ==
    \/ \E n \in Available : Body(n) \/ ChunkData(n)
    \/ \E d \in HexDigit : ChunkSizeStarts(d) \/ ChunkSizeGoesOn(d)
    \/ ChunkSizeEnds
    \/ TrailersEnd

Next == HeadStep \/ BodyStep \/ Malformed \/ Eof

Spec == Init /\ [][Next]_vars

-----------------------------------------------------------------------------
(* Properties.                                                             *)

\* Every variable has its type: no arithmetic leaves 64 bits.
TypeOK ==
    /\ state \in {"s_start_req", "s_dead", "s_header_field_start", "s_header_value",
                  "s_body_identity", "s_chunk_size_start", "s_chunk_size", "s_chunk_data"}
    /\ flags \subseteq {"F_CHUNKED", "F_CONNECTION_KEEP_ALIVE", "F_CONNECTION_CLOSE",
                        "F_CONNECTION_UPGRADE", "F_TRAILING", "F_UPGRADE", "F_CONTENTLENGTH"}
    /\ uses_transfer_encoding \in BOOLEAN
    /\ content_length \in 0 .. ULLONG_MAX
    /\ method \in {"CONNECT", "other"}
    /\ version \in {"0.9", "1.0", "1.1"}
    /\ decoder \in [state : {"beforeMessageBegin", "url", "headerName", "headerValue",
                             "trailerName", "trailerValue", "headersComplete", "trapped"},
                    isUpgrade : {"nil", "true", "false"}, stopParsing : BOOLEAN]
    /\ head \subseteq DOMAIN Line
    /\ trailers \subseteq DOMAIN Line
    /\ number \in Nat /\ announced \in Nat /\ received \in Nat /\ messages \in Nat

\* The order in which the parser calls back is one the decoder is prepared
\* for, whatever the peer sends: trailers, bodies, upgrades, one request after
\* another.
DecoderNeverTraps == decoder.state # "trapped"

\* When a request has ended, the application has been given as many bytes as
\* the request announced, however they were cut into reads: no length is taken
\* for another, nor for "no length".  What follows CONNECT is no body.
BodyIsWhole ==
    decoder.state = "beforeMessageBegin" =>
        received = IF method = "CONNECT" THEN 0 ELSE announced

\* The request is the connection's last: it speaks 1.1 and says close among
\* its header lines or trailers, or speaks an older version and does not say
\* keep-alive there.  Close alone is not enough: a 1.0 request that says both
\* is not the last.
EndsConnection ==
    \/ version = "1.1" /\ "close" \in head \cup trailers
    \/ version # "1.1" /\ "keepAlive" \notin head \cup trailers

\* The request asked for another protocol to follow it.
SaysUpgrade == {"upgrade", "upgradeTo"} \subseteq head \/ method = "CONNECT"

\* No request is read after one that ends the connection or changes its
\* protocol, and what comes after a request is refused as coming too late only
\* if that request ended the connection.
LastIsLast ==
    [][/\ messages' # messages /\ messages > 0 => ~EndsConnection /\ ~SaysUpgrade
       /\ http_errno' # http_errno /\ http_errno' = "HPE_CLOSED_CONNECTION" => EndsConnection]_vars

=============================================================================
