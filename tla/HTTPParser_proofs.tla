-------------------------- MODULE HTTPParser_proofs --------------------------
(***************************************************************************)
(* That what HTTPParser promises holds for every sequence of bytes, of any *)
(* number of requests with any number of lines, chunks and digits, and for *)
(* every width of content_length.                                          *)
(*                                                                         *)
(* The parser and the decoder each keep their own state, and the parser's  *)
(* flags are its memory of the request: the invariant says how the two     *)
(* states belong together (Called), what the flags remember (Coded), where *)
(* the bytes announced are (Counted), and when a request may follow        *)
(* (Following).                                                            *)
(***************************************************************************)
EXTENDS HTTPParser, TLAPS

\* Unsigned arithmetic changes nothing below the limit.
LEMMA Remainder ==
    ASSUME NEW m \in Nat, NEW a \in Nat, a <= m
    PROVE  a % (m + 1) = a
  OBVIOUS

\* The conservative limit leaves room for another decimal digit, and below the
\* value that means "no length".
LEMMA DecimalFits ==
    ASSUME NEW l \in Nat, NEW d \in 0 .. 9, ULLONG_MAX \in Nat, ULLONG_MAX >= 16,
           ~((ULLONG_MAX - 10) \div 10 < l)
    PROVE  l * 10 + d \in Nat /\ l * 10 + d < ULLONG_MAX
  OBVIOUS

\* The same for a hexadecimal digit.
LEMMA HexFits ==
    ASSUME NEW l \in Nat, NEW d \in 0 .. 15, ULLONG_MAX \in Nat, ULLONG_MAX >= 16,
           ~((ULLONG_MAX - 16) \div 16 < l)
    PROVE  l * 16 + d \in Nat /\ l * 16 + d < ULLONG_MAX
  OBVIOUS

\* What the steps use of the assumption on the constants.
LEMMA Bounds ==
    /\ ULLONG_MAX \in Nat /\ ULLONG_MAX >= 16
    /\ 0 \in 0 .. ULLONG_MAX /\ ULLONG_MAX \in 0 .. ULLONG_MAX
    /\ \A d \in DecimalDigit : d \in 0 .. ULLONG_MAX /\ d \in Nat /\ d < ULLONG_MAX
    /\ Version \subseteq {"0.9", "1.0", "1.1"}
  BY HTTPParserAssumption

\* Each option of a header line has its own flag, and those of Content-Length and
\* of trailers have none.
LEMMA LineOf ==
    ASSUME NEW h \in DOMAIN Line
    PROVE  /\ h \in {"close", "keepAlive", "upgradeTo", "upgrade", "chunked", "otherCoding", "general"}
           /\ "F_CONNECTION_CLOSE" \in Line[h] <=> h = "close"
           /\ "F_CONNECTION_KEEP_ALIVE" \in Line[h] <=> h = "keepAlive"
           /\ "F_UPGRADE" \in Line[h] <=> h = "upgradeTo"
           /\ "F_CONNECTION_UPGRADE" \in Line[h] <=> h = "upgrade"
           /\ "F_CHUNKED" \in Line[h] <=> h = "chunked"
           /\ "F_CONTENTLENGTH" \notin Line[h]
           /\ "F_TRAILING" \notin Line[h]
           /\ Line[h] \subseteq {"F_CHUNKED", "F_CONNECTION_KEEP_ALIVE", "F_CONNECTION_CLOSE",
                        "F_CONNECTION_UPGRADE", "F_TRAILING", "F_UPGRADE", "F_CONTENTLENGTH"}
  BY DEF Line

\* The type of what the decoder keeps.
Decoder == [state : {"beforeMessageBegin", "url", "headerName", "headerValue",
                     "trailerName", "trailerValue", "headersComplete", "trapped"},
            isUpgrade : {"nil", "true", "false"}, stopParsing : BOOLEAN]

\* Each callback, made in a state it is prepared for, leads to the state the next
\* one is prepared for.  Here: the request line.
LEMMA RequestLineCall ==
    ASSUME NEW d \in Decoder, d.state = "beforeMessageBegin"
    PROVE  /\ OnRequestLine(d) \in Decoder
           /\ OnRequestLine(d).state = "url"
           /\ OnRequestLine(d).isUpgrade = d.isUpgrade
           /\ OnRequestLine(d).stopParsing = d.stopParsing
  BY DEF Decoder, OnRequestLine, Expects

\* The name of a header or of a trailer.
LEMMA FieldCall ==
    ASSUME NEW d \in Decoder
    PROVE  /\ OnHeaderField(d) \in Decoder
           /\ OnHeaderField(d).isUpgrade = d.isUpgrade
           /\ OnHeaderField(d).stopParsing = d.stopParsing
           /\ d.state \in {"url", "headerValue"} => OnHeaderField(d).state = "headerName"
           /\ d.state \in {"headersComplete", "trailerValue"} => OnHeaderField(d).state = "trailerName"
  BY DEF Decoder, OnHeaderField, Expects

\* Its value.
LEMMA ValueCall ==
    ASSUME NEW d \in Decoder
    PROVE  /\ OnHeaderValue(d) \in Decoder
           /\ OnHeaderValue(d).isUpgrade = d.isUpgrade
           /\ OnHeaderValue(d).stopParsing = d.stopParsing
           /\ d.state = "headerName" => OnHeaderValue(d).state = "headerValue"
           /\ d.state = "trailerName" => OnHeaderValue(d).state = "trailerValue"
  BY DEF Decoder, OnHeaderValue, Expects

\* The end of the head.
LEMMA HeadersCall ==
    ASSUME NEW d \in Decoder, d.state \in {"url", "headerValue"}, NEW u \in BOOLEAN
    PROVE  /\ OnHeadersComplete(d, u) \in Decoder
           /\ OnHeadersComplete(d, u).state = "headersComplete"
           /\ version = "0.9" => OnHeadersComplete(d, u).stopParsing
           /\ version # "0.9" => /\ OnHeadersComplete(d, u).stopParsing = d.stopParsing
                                 /\ OnHeadersComplete(d, u).isUpgrade = IF u THEN "true" ELSE "false"
  BY DEF Decoder, OnHeadersComplete, Expects

\* The end of the request, which stops a decoder that is to be replaced.
LEMMA MessageCall ==
    ASSUME NEW d \in Decoder, d.state \in {"headersComplete", "trailerValue"}, d.isUpgrade # "nil"
    PROVE  /\ OnMessageComplete(d) \in Decoder
           /\ OnMessageComplete(d).state = "beforeMessageBegin"
           /\ OnMessageComplete(d).isUpgrade = "nil"
           /\ OnMessageComplete(d).stopParsing = (d.isUpgrade = "true")
  BY DEF Decoder, OnMessageComplete, Expects

\* The type of what the parser keeps.
ParserOK ==
    /\ state \in {"s_start_req", "s_dead", "s_header_field_start", "s_header_value",
                  "s_body_identity", "s_chunk_size_start", "s_chunk_size", "s_chunk_data"}
    /\ flags \subseteq {"F_CHUNKED", "F_CONNECTION_KEEP_ALIVE", "F_CONNECTION_CLOSE",
                        "F_CONNECTION_UPGRADE", "F_TRAILING", "F_UPGRADE", "F_CONTENTLENGTH"}
    /\ uses_transfer_encoding \in BOOLEAN
    /\ content_length \in 0 .. ULLONG_MAX
    /\ method \in {"CONNECT", "other"}
    /\ version \in {"0.9", "1.0", "1.1"}

\* The type of what is kept of the peer.
PeerOK ==
    /\ head \subseteq DOMAIN Line
    /\ trailers \subseteq DOMAIN Line
    /\ number \in Nat /\ announced \in Nat /\ received \in Nat /\ messages \in Nat

\* Type correctness.
Typed == ParserOK /\ decoder \in Decoder /\ PeerOK

\* More of the input is going to be read.
Active == http_errno = "HPE_OK" /\ ~decoder.stopParsing
\* The parser is in the head of a request.
InHead == state \in {"s_header_field_start", "s_header_value"} /\ ~Trailing
\* The parser is behind the last chunk of a request.
InTrailers == state \in {"s_header_field_start", "s_header_value"} /\ Trailing
\* The parser is between the head of a request and the end of its body.
InBody == state \in {"s_body_identity", "s_chunk_size_start", "s_chunk_size", "s_chunk_data"}

\* The decoder is in the state the parser's next callback needs.
Called ==
    /\ decoder.state # "trapped"
    /\ Active =>
        /\ state \in {"s_start_req", "s_dead"} =>
              decoder.state = "beforeMessageBegin" /\ decoder.isUpgrade = "nil"
        /\ InHead /\ state = "s_header_field_start" => decoder.state \in {"url", "headerValue"}
        /\ InHead /\ state = "s_header_value" => decoder.state = "headerName"
        /\ InTrailers /\ state = "s_header_field_start" =>
              decoder.state \in {"headersComplete", "trailerValue"}
        /\ InTrailers /\ state = "s_header_value" => decoder.state = "trailerName"
        /\ InBody => decoder.state = "headersComplete" /\ ~Trailing
        /\ InBody \/ InTrailers =>
              decoder.isUpgrade = IF SaysUpgrade THEN "true" ELSE "false"

\* The flags say what the peer has said.
Coded ==
    /\ "F_CHUNKED" \in flags => uses_transfer_encoding
    /\ "F_CONNECTION_CLOSE" \in flags <=> "close" \in head \cup trailers
    /\ "F_CONNECTION_KEEP_ALIVE" \in flags <=> "keepAlive" \in head \cup trailers
    /\ InHead => /\ "F_UPGRADE" \in flags <=> "upgradeTo" \in head
                 /\ "F_CONNECTION_UPGRADE" \in flags <=> "upgrade" \in head

\* What has been announced has been received, or is still to come.
Counted ==
    Active =>
      /\ InHead => received = 0
      /\ InHead /\ state = "s_header_field_start" =>
            IF "F_CONTENTLENGTH" \in flags
            THEN content_length = announced /\ announced < ULLONG_MAX
            ELSE content_length = ULLONG_MAX /\ announced = 0
      /\ state = "s_header_value" =>
            /\ number = content_length /\ number < ULLONG_MAX
            /\ "F_CONTENTLENGTH" \in flags
      /\ InHead /\ state = "s_header_value" => announced = 0
      /\ InTrailers => received = announced
      /\ InBody \/ InTrailers => method # "CONNECT"
      /\ state \in {"s_body_identity", "s_chunk_data"} => received + content_length = announced
      /\ state \in {"s_chunk_size_start", "s_chunk_size"} => received = announced
      /\ state = "s_chunk_size" => number = content_length

\* A request is read next only if the last one allows it, and none is only if
\* the last one ended the connection.
Following ==
    Active =>
      /\ state = "s_start_req" /\ messages > 0 => ~EndsConnection /\ ~SaysUpgrade
      /\ state = "s_dead" => EndsConnection

\* The inductive invariant.
IInv == Typed /\ Called /\ Coded /\ Counted /\ BodyIsWhole /\ Following

\* It holds initially.
LEMMA Initially ==
    ASSUME Init
    PROVE  IInv
  <1> USE DEF Init
  <1>1. Typed
    <2>1. ParserOK
      BY Bounds DEF ParserOK
    <2>2. decoder \in Decoder
      BY DEF Decoder
    <2>3. PeerOK
      BY DEF PeerOK
    <2> QED
      BY <2>1, <2>2, <2>3 DEF Typed
  <1>2. Called
    BY DEF Called, InHead, InTrailers, InBody
  <1>3. Coded
    BY DEF Coded, InHead
  <1>4. Counted
    BY DEF Counted, InHead, InTrailers, InBody
  <1>5. BodyIsWhole /\ Following
    BY DEF BodyIsWhole, Following
  <1> QED
    BY <1>1, <1>2, <1>3, <1>4, <1>5 DEF IInv

\* A step that only raises an error.
LEMMA ErrsKeeps ==
    ASSUME IInv, NEW e, e # "HPE_OK", Errs(e), decoder' \in Decoder, decoder'.state # "trapped",
           decoder'.state = "beforeMessageBegin" => decoder.state = "beforeMessageBegin"
    PROVE  IInv'
  <1> USE DEF IInv, Errs, peerVars
  <1>1. Typed'
    <2>1. ParserOK'
      BY DEF Typed, ParserOK
    <2>2. PeerOK'
      BY DEF Typed, PeerOK
    <2> QED
      BY <2>1, <2>2 DEF Typed
  <1>2. ~Active'
    BY DEF Active
  <1>3. Called' /\ Counted' /\ Following'
    BY <1>2 DEF Called, Counted, Following
  <1>4. Coded'
    BY DEF Coded, InHead, Trailing
  <1>5. BodyIsWhole'
    BY DEF BodyIsWhole
  <1> QED
    BY <1>1, <1>3, <1>4, <1>5

\* A request line forgets what the request before has said.
LEMMA RequestLineKeeps ==
    ASSUME IInv, NEW m \in {"CONNECT", "other"}, NEW v \in Version, RequestLine(m, v)
    PROVE  IInv'
  <1> USE DEF IInv, RequestLine, Reads
  <1>1. decoder \in Decoder /\ decoder.state = "beforeMessageBegin"
    BY DEF Typed, Called, Active
  <1>2. /\ decoder' \in Decoder /\ decoder'.state = "url"
        /\ decoder'.isUpgrade = decoder.isUpgrade
        /\ decoder'.stopParsing = decoder.stopParsing
    BY <1>1, RequestLineCall
  <1>3. Typed'
    <2>1. ParserOK'
      BY Bounds DEF ParserOK
    <2>2. PeerOK'
      BY DEF Typed, PeerOK
    <2> QED
      BY <1>2, <2>1, <2>2 DEF Typed
  <1>4. Called'
    BY <1>2 DEF Called, InHead, InTrailers, InBody, Trailing
  <1>5. Coded'
    BY DEF Coded, InHead, Trailing
  <1>6. Counted'
    BY DEF Counted, InHead, InTrailers, InBody, Trailing
  <1>7. BodyIsWhole'
    BY <1>2 DEF BodyIsWhole
  <1>8. Following'
    BY DEF Following
  <1> QED
    BY <1>3, <1>4, <1>5, <1>6, <1>7, <1>8

\* A header line sets the flag of what it says.
LEMMA HeaderLineKeeps ==
    ASSUME IInv, NEW h \in Header, HeaderLine(h)
    PROVE  IInv'
  <1> USE DEF IInv, HeaderLine, Reads
  <1> DEFINE d == OnHeaderField(decoder)
  <1>1. h \in DOMAIN Line
    BY HTTPParserAssumption
  <1>2. Active
    BY DEF Active
  <1>3. decoder \in Decoder
    BY DEF Typed
  <1>4. /\ ~Trailing => decoder.state \in {"url", "headerValue"}
        /\ Trailing => decoder.state \in {"headersComplete", "trailerValue"}
    BY <1>2 DEF Called, InHead, InTrailers
  <1>5. /\ d \in Decoder /\ d.isUpgrade = decoder.isUpgrade
        /\ d.stopParsing = decoder.stopParsing
        /\ ~Trailing => d.state = "headerName"
        /\ Trailing => d.state = "trailerName"
    BY <1>3, <1>4, FieldCall
  <1>6. /\ decoder' \in Decoder
        /\ decoder'.isUpgrade = decoder.isUpgrade
        /\ decoder'.stopParsing = decoder.stopParsing
        /\ ~Trailing => decoder'.state = "headerValue"
        /\ Trailing => decoder'.state = "trailerValue"
    <2> HIDE DEF d
    <2>1. decoder' = OnHeaderValue(d)
      BY DEF d
    <2> QED
      BY <1>5, <2>1, ValueCall
  <1>7. Trailing' = Trailing
    BY <1>1, LineOf DEF Trailing
  <1>8. Typed'
    <2>1. ParserOK'
      BY <1>1, <1>6, LineOf DEF Typed, ParserOK
    <2>2. PeerOK'
      BY <1>1, <1>6, LineOf DEF Typed, PeerOK
    <2> QED
      BY <1>1, <1>6, LineOf, <2>1, <2>2 DEF Typed
  <1>9. Called'
    BY <1>2, <1>6, <1>7 DEF Called, Active, InHead, InTrailers, InBody, SaysUpgrade
  <1>10. Coded'
    BY <1>1, <1>7, LineOf DEF Coded, InHead
  <1>11. Counted'
    BY <1>1, <1>2, <1>7, LineOf DEF Counted, InHead, InTrailers, InBody
  <1>12. BodyIsWhole' /\ Following'
    BY <1>6 DEF BodyIsWhole, Following
  <1> QED
    BY <1>8, <1>9, <1>10, <1>11, <1>12

\* The first digit of a length.
LEMMA LengthStartsKeeps ==
    ASSUME IInv, NEW d \in DecimalDigit, LengthStarts(d)
    PROVE  IInv'
  <1> USE DEF IInv, LengthStarts, Reads
  <1>1. decoder \in Decoder /\ Active
    BY DEF Typed, Active
  <1>2. /\ ~Trailing => decoder.state \in {"url", "headerValue"}
        /\ Trailing => decoder.state \in {"headersComplete", "trailerValue"}
    BY <1>1 DEF Called, InHead, InTrailers
  <1>3. /\ decoder' \in Decoder
        /\ decoder'.isUpgrade = decoder.isUpgrade
        /\ decoder'.stopParsing = decoder.stopParsing
        /\ ~Trailing => decoder'.state = "headerName"
        /\ Trailing => decoder'.state = "trailerName"
    BY <1>1, <1>2, FieldCall
  <1>4. CASE "F_CONTENTLENGTH" \in flags
    BY <1>3, <1>4, ErrsKeeps
  <1>5. CASE "F_CONTENTLENGTH" \notin flags
    <2>1. Trailing' = Trailing
      BY <1>5 DEF Trailing
    <2>2. Typed'
      <3>1. ParserOK'
        BY <1>5, Bounds DEF Typed, ParserOK
      <3>2. PeerOK'
        BY <1>5, Bounds DEF Typed, PeerOK
      <3> QED
        BY <1>3, <3>1, <3>2 DEF Typed
    <2>3. Called'
      BY <1>1, <1>3, <1>5, <2>1 DEF Called, Active, InHead, InTrailers, InBody, SaysUpgrade
    <2>4. Coded'
      BY <1>5, <2>1 DEF Coded, InHead
    <2>5. Counted'
      BY <1>1, <1>5, <2>1, HTTPParserAssumption DEF Counted, InHead, InTrailers, InBody
    <2>6. BodyIsWhole' /\ Following'
      BY <1>3, <1>5 DEF BodyIsWhole, Following
    <2> QED
      BY <2>2, <2>3, <2>4, <2>5, <2>6
  <1> QED
    BY <1>4, <1>5

\* A further digit: the value read is the value the peer has written.
LEMMA LengthGoesOnKeeps ==
    ASSUME IInv, NEW d \in DecimalDigit, LengthGoesOn(d)
    PROVE  IInv'
  <1> USE DEF IInv, LengthGoesOn, Reads, Digit
  <1>1. decoder \in Decoder /\ Active
    BY DEF Typed, Active
  <1>2. CASE Overflows(10)
    BY <1>1, <1>2, ErrsKeeps DEF Called
  <1>3. CASE ~Overflows(10)
    <2>1. d \in 0 .. 9 /\ ULLONG_MAX \in Nat /\ ULLONG_MAX >= 16 /\ content_length \in Nat
      BY HTTPParserAssumption DEF Typed, ParserOK
    <2> DEFINE l == content_length * 10 + d
    <2>2. l \in Nat /\ l < ULLONG_MAX
      BY <1>3, <2>1, DecimalFits DEF Overflows
    <2>3. l % (ULLONG_MAX + 1) = l
      <3> HIDE DEF l
      <3> QED
        BY <2>1, <2>2, Remainder
    <2>4. content_length' = l /\ number' = l
      <3>1. number = content_length
        BY <1>1 DEF Counted
      <3> QED
        BY <1>3, <2>3, <3>1
    <2>5. UNCHANGED <<state, flags, uses_transfer_encoding, method, version, http_errno,
                      decoder, head, trailers, announced, received, messages>>
      BY <1>3
    <2> HIDE DEF l, LengthGoesOn, Digit
    <2>6. Typed'
      <3>1. ParserOK'
        BY <2>1, <2>2, <2>4, <2>5 DEF Typed, ParserOK
      <3>2. PeerOK'
        BY <2>2, <2>4, <2>5 DEF Typed, PeerOK
      <3> QED
        BY <1>1, <2>5, <3>1, <3>2 DEF Typed
    <2>7. Called'
      BY <2>5 DEF Called, Active, InHead, InTrailers, InBody, SaysUpgrade, Trailing
    <2>8. Coded'
      BY <2>5 DEF Coded, InHead, Trailing
    <2>9. Counted'
      BY <1>1, <2>2, <2>4, <2>5 DEF Counted, Active, InHead, InTrailers, InBody, Trailing,
                                    LengthGoesOn
    <2>10. BodyIsWhole' /\ Following'
      BY <2>5 DEF BodyIsWhole, Following, Active, EndsConnection, SaysUpgrade
    <2> QED
      BY <2>6, <2>7, <2>8, <2>9, <2>10
  <1> QED
    BY <1>2, <1>3

\* The end of a length: it is announced now.
LEMMA LengthEndsKeeps ==
    ASSUME IInv, LengthEnds
    PROVE  IInv'
  <1> USE DEF IInv, LengthEnds, Reads
  <1>1. decoder \in Decoder /\ Active
    BY DEF Typed, Active
  <1>2. /\ ~Trailing => decoder.state = "headerName"
        /\ Trailing => decoder.state = "trailerName"
    BY <1>1 DEF Called, InHead, InTrailers
  <1>3. /\ decoder' \in Decoder
        /\ decoder'.isUpgrade = decoder.isUpgrade
        /\ decoder'.stopParsing = decoder.stopParsing
        /\ ~Trailing => decoder'.state = "headerValue"
        /\ Trailing => decoder'.state = "trailerValue"
    BY <1>1, <1>2, ValueCall
  <1>4. Trailing' = Trailing
    BY DEF Trailing
  <1>5. Typed'
    <2>1. ParserOK'
      BY DEF Typed, ParserOK
    <2>2. PeerOK'
      BY DEF Typed, PeerOK
    <2> QED
      BY <1>3, <2>1, <2>2 DEF Typed
  <1>6. Called'
    BY <1>1, <1>3, <1>4 DEF Called, Active, InHead, InTrailers, InBody, SaysUpgrade
  <1>7. Coded'
    BY <1>4 DEF Coded, InHead
  <1>8. Counted'
    BY <1>1, <1>4 DEF Counted, InHead, InTrailers, InBody
  <1>9. BodyIsWhole' /\ Following'
    BY <1>3 DEF BodyIsWhole, Following
  <1> QED
    BY <1>5, <1>6, <1>7, <1>8, <1>9

\* What is known where on_headers_complete is called.
LEMMA HeadEnding ==
    ASSUME IInv, HeadEnds
    PROVE  /\ Active /\ InHead
           /\ decoder \in Decoder
           /\ decoder.state \in {"url", "headerValue"}
           /\ Upgrades \in BOOLEAN
           /\ Upgrades <=> SaysUpgrade
           /\ received = 0
           /\ announced = IF "F_CONTENTLENGTH" \in flags THEN content_length ELSE 0
           /\ "F_CONTENTLENGTH" \in flags => content_length < ULLONG_MAX
           /\ "F_CONTENTLENGTH" \notin flags => content_length = ULLONG_MAX
           /\ "F_CHUNKED" \in flags => uses_transfer_encoding
           /\ uses_transfer_encoding => "F_CONTENTLENGTH" \notin flags
  <1> USE DEF IInv, HeadEnds, Reads
  <1>1. Active /\ InHead /\ decoder \in Decoder
    BY DEF Active, InHead, Typed
  <1>2. decoder.state \in {"url", "headerValue"}
    BY <1>1 DEF Called
  <1>3. Upgrades \in BOOLEAN /\ (Upgrades <=> SaysUpgrade)
    BY <1>1 DEF Upgrades, SaysUpgrade, Coded
  <1>4. /\ received = 0
        /\ announced = IF "F_CONTENTLENGTH" \in flags THEN content_length ELSE 0
        /\ "F_CONTENTLENGTH" \in flags => content_length < ULLONG_MAX
        /\ "F_CONTENTLENGTH" \notin flags => content_length = ULLONG_MAX
    BY <1>1 DEF Counted
  <1>5. "F_CHUNKED" \in flags => uses_transfer_encoding
    BY DEF Coded
  <1> QED
    BY <1>1, <1>2, <1>3, <1>4, <1>5

\* A version that is refused.
LEMMA WrongVersionKeeps ==
    ASSUME IInv, WrongVersion
    PROVE  IInv'
  <1>1. decoder \in Decoder /\ decoder.state \in {"url", "headerValue"} /\ Upgrades \in BOOLEAN
    BY HeadEnding DEF WrongVersion
  <1>2. decoder' \in Decoder /\ decoder'.state = "headersComplete"
    BY <1>1, HeadersCall DEF WrongVersion
  <1> QED
    BY <1>2, ErrsKeeps DEF WrongVersion

\* A coding that leaves the length open.
LEMMA NoLengthKnownKeeps ==
    ASSUME IInv, NoLengthKnown
    PROVE  IInv'
  <1>1. decoder \in Decoder /\ decoder.state \in {"url", "headerValue"} /\ Upgrades \in BOOLEAN
    BY HeadEnding DEF NoLengthKnown
  <1>2. decoder' \in Decoder /\ decoder'.state = "headersComplete"
    BY <1>1, HeadersCall DEF NoLengthKnown
  <1> QED
    BY <1>2, ErrsKeeps DEF NoLengthKnown

\* The parser goes on just where the request did not end the connection.
LEMMA KeepAlive ==
    ASSUME IInv
    PROVE  c_nio_http_should_keep_alive <=> ~EndsConnection
  BY DEF IInv, Coded, c_nio_http_should_keep_alive, EndsConnection

\* The end of a request all of whose body has been received.
LEMMA CompleteKeeps ==
    ASSUME IInv, Active, NEW d \in Decoder,
           d.state \in {"headersComplete", "trailerValue"},
           d.isUpgrade = IF SaysUpgrade THEN "true" ELSE "false",
           MessageComplete(d),
           content_length' \in 0 .. ULLONG_MAX, received' \in Nat,
           UNCHANGED <<head, trailers, number, announced, messages>>,
           received' = IF method = "CONNECT" THEN 0 ELSE announced
    PROVE  IInv'
  <1> USE DEF IInv, MessageComplete
  <1>1. /\ decoder' \in Decoder
        /\ decoder'.state = "beforeMessageBegin"
        /\ decoder'.isUpgrade = "nil"
        /\ decoder'.stopParsing = (d.isUpgrade = "true")
    <2>1. d.isUpgrade # "nil"
      OBVIOUS
    <2> QED
      BY <2>1, MessageCall
  <1>2. state' \in {"s_start_req", "s_dead"}
    BY DEF NEW_MESSAGE
  <1>3. Typed'
    <2>1. ParserOK'
      BY <1>2 DEF Typed, ParserOK
    <2>2. PeerOK'
      BY DEF Typed, PeerOK
    <2> QED
      BY <1>1, <2>1, <2>2 DEF Typed
  <1>4. Called'
    BY <1>1, <1>2 DEF Called, InHead, InTrailers, InBody
  <1>5. Coded'
    BY <1>2 DEF Coded, InHead
  <1>6. Counted'
    BY <1>2 DEF Counted, InHead, InTrailers, InBody
  <1>7. BodyIsWhole'
    BY DEF BodyIsWhole
  <1>8. Following'
    <2>1. state' = IF EndsConnection THEN "s_dead" ELSE "s_start_req"
      BY KeepAlive DEF NEW_MESSAGE
    <2>2. Active' => ~SaysUpgrade
      BY <1>1 DEF Active
    <2> QED
      BY <2>1, <2>2 DEF Following, EndsConnection, SaysUpgrade
  <1> QED
    BY <1>3, <1>4, <1>5, <1>6, <1>7, <1>8

\* A request without a body.
LEMMA HeadIsAllKeeps ==
    ASSUME IInv, HeadIsAll
    PROVE  IInv'
  <1> DEFINE d == OnHeadersComplete(decoder, Upgrades)
  <1>1. HeadEnds /\ version # "0.9"
    BY DEF HeadIsAll
  <1>2. /\ d \in Decoder /\ d.state = "headersComplete"
        /\ d.isUpgrade = IF SaysUpgrade THEN "true" ELSE "false"
    BY <1>1, HeadEnding, HeadersCall
  <1>3. MessageComplete(d)
    BY DEF HeadIsAll
  <1>4. received = IF method = "CONNECT" THEN 0 ELSE announced
    BY <1>1, HeadEnding, Bounds DEF HeadIsAll, Leaves, hasBody
  <1>5. content_length \in 0 .. ULLONG_MAX /\ received \in Nat
    BY DEF IInv, Typed, ParserOK, PeerOK
  <1> HIDE DEF d
  <1> QED
    BY <1>1, <1>2, <1>3, <1>4, <1>5, HeadEnding, CompleteKeeps DEF HeadIsAll, peerVars,
                                                                   MessageComplete

\* A body follows the head.
LEMMA BodyStartsKeeps ==
    ASSUME IInv, HeadEnds, version # "0.9", ~Leaves,
           state' \in {"s_chunk_size_start", "s_body_identity"},
           state' = "s_chunk_size_start" => received = announced,
           state' = "s_body_identity" => received + content_length = announced,
           decoder' = OnHeadersComplete(decoder, Upgrades),
           UNCHANGED <<flags, uses_transfer_encoding, content_length, method, version, http_errno,
                       peerVars>>
    PROVE  IInv'
  <1> USE DEF IInv, peerVars
  <1>1. /\ decoder' \in Decoder /\ decoder'.state = "headersComplete"
        /\ decoder'.stopParsing = decoder.stopParsing
        /\ decoder'.isUpgrade = IF SaysUpgrade THEN "true" ELSE "false"
    BY HeadEnding, HeadersCall
  <1>2. ~Trailing'
    BY DEF HeadEnds, Trailing
  <1>3. method # "CONNECT"
    BY DEF Leaves, Upgrades
  <1>4. Typed'
    <2>1. ParserOK'
      BY DEF Typed, ParserOK
    <2>2. PeerOK'
      BY DEF Typed, PeerOK
    <2> QED
      BY <1>1, <2>1, <2>2 DEF Typed
  <1>5. Called'
    BY <1>1, <1>2 DEF Called, InHead, InTrailers, InBody, SaysUpgrade
  <1>6. Coded'
    BY DEF Coded, InHead
  <1>7. Counted'
    BY <1>2, <1>3 DEF Counted, InHead, InTrailers, InBody
  <1>8. BodyIsWhole' /\ Following'
    BY <1>1 DEF BodyIsWhole, Following
  <1> QED
    BY <1>4, <1>5, <1>6, <1>7, <1>8

\* A body in chunks: nothing has been announced yet.
LEMMA ChunksFollowKeeps ==
    ASSUME IInv, ChunksFollow
    PROVE  IInv'
  <1>1. received = announced
    BY HeadEnding DEF ChunksFollow
  <1> QED
    BY <1>1, BodyStartsKeeps DEF ChunksFollow

\* A body of the announced length.
LEMMA BodyFollowsKeeps ==
    ASSUME IInv, BodyFollows
    PROVE  IInv'
  <1>1. content_length \in Nat /\ received \in Nat
    BY DEF IInv, Typed, ParserOK, PeerOK
  <1>2. received + content_length = announced
    BY <1>1, HeadEnding DEF BodyFollows, hasBody
  <1> QED
    BY <1>2, BodyStartsKeeps DEF BodyFollows

\* What a read brings of a body is taken from what is still to come.
LEMMA Taken ==
    ASSUME IInv, Active, state \in {"s_body_identity", "s_chunk_data"}, NEW n \in Available, Takes(n)
    PROVE  /\ content_length' \in 0 .. ULLONG_MAX
           /\ received' \in Nat
           /\ received' + content_length' = announced
           /\ UNCHANGED <<head, trailers, number, announced, messages>>
  <1>1. n \in Nat /\ content_length \in 0 .. ULLONG_MAX /\ received \in Nat /\ ULLONG_MAX \in Nat
    BY HTTPParserAssumption DEF IInv, Typed, ParserOK, PeerOK
  <1>2. received + content_length = announced
    BY DEF IInv, Counted
  <1> QED
    BY <1>1, <1>2 DEF Takes, MIN

\* The callbacks during a body.
LEMMA InBodyCalls ==
    ASSUME IInv, Active, InBody
    PROVE  /\ decoder \in Decoder /\ decoder.state = "headersComplete"
           /\ decoder.isUpgrade = IF SaysUpgrade THEN "true" ELSE "false"
           /\ method # "CONNECT"
           /\ ~Trailing
  BY DEF IInv, Typed, Called, Counted

\* A step inside a body.
LEMMA InBodyKeeps ==
    ASSUME IInv, Active, InBody,
           state' \in {"s_body_identity", "s_chunk_size_start", "s_chunk_size", "s_chunk_data"},
           content_length' \in 0 .. ULLONG_MAX, number' \in Nat,
           announced' \in Nat, received' \in Nat,
           state' \in {"s_body_identity", "s_chunk_data"} =>
               received' + content_length' = announced',
           state' \in {"s_chunk_size_start", "s_chunk_size"} => received' = announced',
           state' = "s_chunk_size" => number' = content_length',
           UNCHANGED <<flags, uses_transfer_encoding, method, version, http_errno, decoder,
                       head, trailers, messages>>
    PROVE  IInv'
  <1> USE DEF IInv
  <1>1. /\ decoder \in Decoder /\ decoder.state = "headersComplete"
        /\ decoder.isUpgrade = IF SaysUpgrade THEN "true" ELSE "false"
        /\ method # "CONNECT" /\ ~Trailing'
    BY InBodyCalls DEF Trailing
  <1>2. Typed'
    <2>1. ParserOK'
      BY DEF Typed, ParserOK
    <2>2. PeerOK'
      BY DEF Typed, PeerOK
    <2> QED
      BY <1>1, <2>1, <2>2 DEF Typed
  <1>3. Called'
    BY <1>1 DEF Called, InHead, InTrailers, InBody, SaysUpgrade
  <1>4. Coded'
    BY DEF Coded, InHead
  <1>5. Counted'
    BY <1>1 DEF Counted, InHead, InTrailers, InBody
  <1>6. BodyIsWhole' /\ Following'
    BY <1>1 DEF BodyIsWhole, Following
  <1> QED
    BY <1>2, <1>3, <1>4, <1>5, <1>6

\* A read within a body of known length.
LEMMA BodyKeeps ==
    ASSUME IInv, NEW n \in Available, Body(n)
    PROVE  IInv'
  <1>1. Active /\ InBody /\ state = "s_body_identity"
    BY DEF Body, Reads, Active, InBody
  <1>2. /\ content_length' \in 0 .. ULLONG_MAX
        /\ received' \in Nat
        /\ received' + content_length' = announced
        /\ UNCHANGED <<head, trailers, number, announced, messages>>
    BY <1>1, Taken DEF Body
  <1>3. CASE content_length' = 0
    BY <1>1, <1>2, <1>3, InBodyCalls, CompleteKeeps DEF Body
  <1>4. CASE content_length' # 0
    <2>1. number \in Nat /\ announced \in Nat
      BY DEF IInv, Typed, PeerOK
    <2> QED
      BY <1>1, <1>2, <1>4, <2>1, InBodyKeeps DEF Body
  <1> QED
    BY <1>3, <1>4

\* A read within a chunk.
LEMMA ChunkDataKeeps ==
    ASSUME IInv, NEW n \in Available, ChunkData(n)
    PROVE  IInv'
  <1>1. Active /\ InBody /\ state = "s_chunk_data"
    BY DEF ChunkData, Reads, Active, InBody
  <1>2. /\ content_length' \in 0 .. ULLONG_MAX
        /\ received' \in Nat
        /\ received' + content_length' = announced
        /\ UNCHANGED <<head, trailers, number, announced, messages>>
    BY <1>1, Taken DEF ChunkData
  <1>3. number \in Nat /\ announced \in Nat
    BY DEF IInv, Typed, PeerOK
  <1>4. state' = IF content_length' = 0 THEN "s_chunk_size_start" ELSE "s_chunk_data"
    BY <1>1 DEF ChunkData
  <1>5. UNCHANGED <<flags, uses_transfer_encoding, method, version, http_errno, decoder>>
    BY DEF ChunkData
  <1>6. CASE content_length' = 0
    <2>1. state' = "s_chunk_size_start" /\ received' = announced'
      BY <1>2, <1>4, <1>6
    <2> QED
      BY <1>1, <1>2, <1>3, <1>5, <2>1, InBodyKeeps
  <1>7. CASE content_length' # 0
    <2>1. state' = "s_chunk_data"
      BY <1>4, <1>7
    <2> QED
      BY <1>1, <1>2, <1>3, <1>5, <2>1, InBodyKeeps
  <1> QED
    BY <1>6, <1>7

\* The first digit of a chunk's size.
LEMMA ChunkSizeStartsKeeps ==
    ASSUME IInv, NEW d \in HexDigit, ChunkSizeStarts(d)
    PROVE  IInv'
  <1>1. Active /\ InBody /\ state = "s_chunk_size_start"
    BY DEF ChunkSizeStarts, Reads, Active, InBody
  <1>2. d \in 0 .. ULLONG_MAX /\ d \in Nat
    BY HTTPParserAssumption
  <1>3. received = announced /\ received \in Nat
    BY <1>1 DEF IInv, Typed, PeerOK, Counted
  <1> QED
    BY <1>1, <1>2, <1>3, InBodyKeeps DEF ChunkSizeStarts

\* A further digit of it.
LEMMA ChunkSizeGoesOnKeeps ==
    ASSUME IInv, NEW d \in HexDigit, ChunkSizeGoesOn(d)
    PROVE  IInv'
  <1>1. Active /\ InBody /\ state = "s_chunk_size" /\ decoder \in Decoder
    BY DEF ChunkSizeGoesOn, Reads, Active, InBody, IInv, Typed
  <1>2. CASE Overflows(16)
    BY <1>1, <1>2, ErrsKeeps DEF ChunkSizeGoesOn, Digit, IInv, Called
  <1>3. CASE ~Overflows(16)
    <2>1. d \in 0 .. 15 /\ ULLONG_MAX \in Nat /\ ULLONG_MAX >= 16 /\ content_length \in Nat
      BY HTTPParserAssumption DEF IInv, Typed, ParserOK
    <2> DEFINE l == content_length * 16 + d
    <2>2. l \in Nat /\ l < ULLONG_MAX
      BY <1>3, <2>1, HexFits DEF Overflows
    <2>3. l % (ULLONG_MAX + 1) = l
      <3> HIDE DEF l
      <3> QED
        BY <2>1, <2>2, Remainder
    <2>4. received = announced /\ received \in Nat /\ number = content_length
      BY <1>1 DEF IInv, Typed, PeerOK, Counted
    <2>5. content_length' = l /\ number' = l
      BY <1>3, <2>3, <2>4 DEF ChunkSizeGoesOn, Digit
    <2>6. UNCHANGED <<state, flags, uses_transfer_encoding, method, version, http_errno,
                      decoder, head, trailers, announced, received, messages>>
      BY <1>3 DEF ChunkSizeGoesOn, Digit
    <2>7. content_length' \in 0 .. ULLONG_MAX /\ number' \in Nat
      <3> HIDE DEF l
      <3> QED
        BY <2>1, <2>2, <2>5
    <2> HIDE DEF l
    <2> QED
      BY <1>1, <2>4, <2>5, <2>6, <2>7, InBodyKeeps
  <1> QED
    BY <1>2, <1>3

\* The end of it: the chunk is announced, or was the last.
LEMMA ChunkSizeEndsKeeps ==
    ASSUME IInv, ChunkSizeEnds
    PROVE  IInv'
  <1>1. Active /\ InBody /\ state = "s_chunk_size"
    BY DEF ChunkSizeEnds, Reads, Active, InBody
  <1>2. /\ received = announced /\ received \in Nat /\ announced \in Nat
        /\ number = content_length /\ number \in Nat /\ content_length \in 0 .. ULLONG_MAX
    BY <1>1 DEF IInv, Typed, ParserOK, PeerOK, Counted
  <1>3. CASE content_length # 0
    BY <1>1, <1>2, <1>3, InBodyKeeps DEF ChunkSizeEnds
  <1>4. CASE content_length = 0
    <2> USE DEF IInv
    <2>1. /\ decoder \in Decoder /\ decoder.state = "headersComplete"
          /\ decoder.isUpgrade = IF SaysUpgrade THEN "true" ELSE "false"
          /\ method # "CONNECT"
      BY <1>1, InBodyCalls
    <2>2. /\ flags' = flags \cup {"F_TRAILING"} /\ state' = "s_header_field_start"
          /\ UNCHANGED <<uses_transfer_encoding, content_length, method, version, http_errno,
                         decoder, head, trailers, number, received, messages>>
          /\ announced' = announced
      BY <1>2, <1>4 DEF ChunkSizeEnds
    <2>3. Trailing'
      BY <2>2 DEF Trailing
    <2>4. Typed'
      <3>1. ParserOK'
        BY <2>2 DEF Typed, ParserOK
      <3>2. PeerOK'
        BY <2>2 DEF Typed, PeerOK
      <3> QED
        BY <2>1, <2>2, <3>1, <3>2 DEF Typed
    <2>5. Called'
      BY <2>1, <2>2, <2>3 DEF Called, InHead, InTrailers, InBody, SaysUpgrade
    <2>6. Coded'
      BY <2>2, <2>3 DEF Coded, InHead
    <2>7. Counted'
      BY <1>2, <2>1, <2>2, <2>3 DEF Counted, InHead, InTrailers, InBody
    <2>8. BodyIsWhole' /\ Following'
      BY <2>1, <2>2 DEF BodyIsWhole, Following
    <2> QED
      BY <2>4, <2>5, <2>6, <2>7, <2>8
  <1> QED
    BY <1>3, <1>4

\* The end of a request in chunks.
LEMMA TrailersEndKeeps ==
    ASSUME IInv, TrailersEnd
    PROVE  IInv'
  <1>1. Active /\ InTrailers /\ state = "s_header_field_start"
    BY DEF TrailersEnd, Reads, Active, InTrailers
  <1>2. /\ decoder \in Decoder /\ decoder.state \in {"headersComplete", "trailerValue"}
        /\ decoder.isUpgrade = IF SaysUpgrade THEN "true" ELSE "false"
        /\ method # "CONNECT" /\ received = announced
    BY <1>1 DEF IInv, Typed, Called, Counted
  <1>3. content_length \in 0 .. ULLONG_MAX /\ received \in Nat
    BY DEF IInv, Typed, ParserOK, PeerOK
  <1> QED
    BY <1>1, <1>2, <1>3, CompleteKeeps DEF TrailersEnd, peerVars

\* A step that changes nothing.
LEMMA Stutters ==
    ASSUME IInv, UNCHANGED vars
    PROVE  IInv'
  <1> USE DEF IInv, vars, parserVars, peerVars
  <1>1. Typed'
    <2>1. ParserOK'
      BY DEF Typed, ParserOK
    <2>2. PeerOK'
      BY DEF Typed, PeerOK
    <2> QED
      BY <2>1, <2>2 DEF Typed
  <1>2. Called'
    BY DEF Called, Active, InHead, InTrailers, InBody, SaysUpgrade, Trailing
  <1>3. Coded'
    BY DEF Coded, InHead, Trailing
  <1>4. Counted'
    BY DEF Counted, Active, InHead, InTrailers, InBody, Trailing
  <1>5. BodyIsWhole' /\ Following'
    BY DEF BodyIsWhole, Following, Active, EndsConnection, SaysUpgrade
  <1> QED
    BY <1>1, <1>2, <1>3, <1>4, <1>5

\* Every step preserves the inductive invariant.
LEMMA StepKeeps ==
    ASSUME IInv, [Next]_vars
    PROVE  IInv'
  <1>1. decoder \in Decoder /\ decoder.state # "trapped"
    BY DEF IInv, Typed, Called
  <1>2. CASE HeadStep
    <2>1. ASSUME NEW m \in {"CONNECT", "other"}, NEW v \in Version, RequestLine(m, v) PROVE IInv'
      BY <2>1, RequestLineKeeps
    <2>2. CASE RequestAfterClose
      BY <1>1, <2>2, ErrsKeeps DEF RequestAfterClose
    <2>3. ASSUME NEW h \in Header, HeaderLine(h) PROVE IInv'
      BY <2>3, HeaderLineKeeps
    <2>4. ASSUME NEW d \in DecimalDigit, LengthStarts(d) PROVE IInv'
      BY <2>4, LengthStartsKeeps
    <2>5. ASSUME NEW d \in DecimalDigit, LengthGoesOn(d) PROVE IInv'
      BY <2>5, LengthGoesOnKeeps
    <2>6. CASE HeadConflicts
      BY <1>1, <2>6, ErrsKeeps DEF HeadConflicts
    <2> QED
      BY <1>2, <2>1, <2>2, <2>3, <2>4, <2>5, <2>6, LengthEndsKeeps, WrongVersionKeeps,
         HeadIsAllKeeps, ChunksFollowKeeps, NoLengthKnownKeeps, BodyFollowsKeeps DEF HeadStep
  <1>3. CASE BodyStep
    <2>1. ASSUME NEW n \in Available, Body(n) \/ ChunkData(n) PROVE IInv'
      BY <2>1, BodyKeeps, ChunkDataKeeps
    <2>2. ASSUME NEW d \in HexDigit, ChunkSizeStarts(d) \/ ChunkSizeGoesOn(d) PROVE IInv'
      BY <2>2, ChunkSizeStartsKeeps, ChunkSizeGoesOnKeeps
    <2> QED
      BY <1>3, <2>1, <2>2, ChunkSizeEndsKeeps, TrailersEndKeeps DEF BodyStep
  <1>4. CASE Malformed
    BY <1>1, <1>4, ErrsKeeps DEF Malformed
  <1>5. CASE Eof
    BY <1>1, <1>5, ErrsKeeps DEF Eof
  <1> QED
    BY <1>2, <1>3, <1>4, <1>5, Stutters DEF Next

\* It is an invariant.
LEMMA Invariance == Spec => []IInv
  <1> QED
    BY Initially, StepKeeps, PTL DEF Spec

\* Type correctness; in particular content_length never leaves 64 bits, however
\* many digits a peer writes.
THEOREM ParserTypeCorrect == Spec => []TypeOK
  <1>1. IInv => TypeOK
    BY DEF IInv, Typed, ParserOK, PeerOK, Decoder, TypeOK
  <1> QED
    BY <1>1, Invariance, PTL

\* The parser calls the decoder back only in the order the decoder is prepared
\* for: HTTPDecoder never ends the process.
THEOREM DecoderIsPrepared == Spec => []DecoderNeverTraps
  <1>1. IInv => DecoderNeverTraps
    BY DEF IInv, Called, DecoderNeverTraps
  <1> QED
    BY <1>1, Invariance, PTL

\* A request that has ended was handed on with as many bytes as it announced.
THEOREM BodiesAreWhole == Spec => []BodyIsWhole
  <1>1. IInv => BodyIsWhole
    BY DEF IInv
  <1> QED
    BY <1>1, Invariance, PTL

\* No request is read after one that ends the connection (1.1 with close, 1.0
\* without keep-alive) or changes its protocol, and the parser refuses to go on
\* only after one that ends it.
THEOREM NothingFollowsTheLast == Spec => LastIsLast
  <1>1. ASSUME IInv, [Next]_vars, messages' # messages, messages > 0
        PROVE  ~EndsConnection /\ ~SaysUpgrade
    <2>1. UNCHANGED vars => UNCHANGED messages
      BY DEF vars, peerVars
    <2>2. HeadStep => \E m \in {"CONNECT", "other"}, v \in Version : RequestLine(m, v)
      BY <1>1
      DEF HeadStep, RequestAfterClose, HeaderLine, LengthStarts, LengthGoesOn, LengthEnds,
          HeadConflicts, WrongVersion, HeadIsAll, ChunksFollow, NoLengthKnown, BodyFollows,
          Digit, Errs, peerVars
    <2>3. ~BodyStep
      BY <1>1
      DEF BodyStep, Body, ChunkData, Takes, ChunkSizeStarts, ChunkSizeGoesOn, ChunkSizeEnds,
          TrailersEnd, Digit, Errs, peerVars
    <2>4. ~Malformed /\ ~Eof
      BY <1>1 DEF Malformed, Eof, Errs, peerVars
    <2>5. Active /\ state = "s_start_req"
      BY <1>1, <2>1, <2>2, <2>3, <2>4 DEF Next, RequestLine, Reads, Active
    <2> QED
      BY <1>1, <2>5 DEF IInv, Following
  <1>2. ASSUME IInv, [Next]_vars, http_errno' # http_errno, http_errno' = "HPE_CLOSED_CONNECTION"
        PROVE  EndsConnection
    <2>1. ~(UNCHANGED vars)
      BY <1>2 DEF vars, parserVars
    <2>2. HeadStep => RequestAfterClose
      BY <1>2
      DEF HeadStep, RequestLine, HeaderLine, LengthStarts, LengthGoesOn, LengthEnds,
          HeadConflicts, WrongVersion, HeadIsAll, ChunksFollow, NoLengthKnown, BodyFollows,
          MessageComplete, Digit, Errs
    <2>3. ~BodyStep
      BY <1>2
      DEF BodyStep, Body, ChunkData, ChunkSizeStarts, ChunkSizeGoesOn, ChunkSizeEnds,
          TrailersEnd, MessageComplete, Digit, Errs
    <2>4. ~Malformed /\ ~Eof
      BY <1>2 DEF Malformed, Eof, Errs
    <2>5. Active /\ state = "s_dead"
      BY <1>2, <2>1, <2>2, <2>3, <2>4 DEF Next, RequestAfterClose, Reads, Active
    <2> QED
      BY <1>2, <2>5 DEF IInv, Following
  <1> DEFINE Last ==
        /\ messages' # messages /\ messages > 0 => ~EndsConnection /\ ~SaysUpgrade
        /\ http_errno' # http_errno /\ http_errno' = "HPE_CLOSED_CONNECTION" => EndsConnection
  <1>3. IInv /\ [Next]_vars => [Last]_vars
    BY <1>1, <1>2
  <1> QED
    BY <1>3, Invariance, PTL DEF Spec, LastIsLast

=============================================================================
