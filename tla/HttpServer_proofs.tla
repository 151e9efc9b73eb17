-------------------------- MODULE HttpServer_proofs --------------------------
(***************************************************************************)
(* For any routes, middlewares and messages of the types HttpServer        *)
(* assumes: the variables have their types and no finished request is ever *)
(* parsed again; what onRequest() calls is the onion of the middlewares    *)
(* around the handler; route() gives each request the handler that was     *)
(* registered for it; however the stream is cut, the requests handled are  *)
(* those sent, in order; each gets one answer, in their order, and nothing *)
(* follows the answer that closes (HttpExchange).                          *)
(***************************************************************************)
EXTENDS HttpServer, Integers, SequenceTheorems, WellFoundedInduction, TLAPS

-----------------------------------------------------------------------------
\* A set of natural numbers has a least element, unless it is empty.
LEMMA SmallestOf ==
  ASSUME NEW T \in SUBSET Nat, T # {}
  PROVE  \E m \in T : \A k \in T : m <= k
<1> DEFINE R == {ss \in Nat \X Nat : ss[1] < ss[2]}
<1>1. IsWellFoundedOn(R, Nat)
  BY NatLessThanWellFounded DEF OpToRel
<1>2. \E x \in T : \A y \in T : ~ (<<y, x>> \in R)
  <2> HIDE DEF R
  <2> QED BY <1>1, WFMin
<1>3. PICK x \in T : \A y \in T : <<y, x>> \notin R
  BY <1>2
<1>4. ASSUME NEW y \in T PROVE x <= y
  <2>1. x \in Nat /\ y \in Nat
    OBVIOUS
  <2>2. ~(<<y, x>>[1] < <<y, x>>[2])
    BY <1>3, <2>1
  <2>3. QED
    BY <2>1, <2>2
<1>5. QED
  BY <1>3, <1>4

-----------------------------------------------------------------------------
(* Types.                                                                  *)

\* What a stream is made of.
StreamToken == {CRLF, BodyByte} \cup {m.line : m \in Messages}
                 \cup UNION {ToSet(m.headers) : m \in Messages}

RequestFields == {"method", "version", "path", "queryParameters", "headers",
                  "content", "contentLength"}

RequestType(req) == /\ DOMAIN req = RequestFields
                    /\ req.method \in Methods \cup {kInvalid}
                    /\ req.version \in Versions \cup {kInvalid}
                    /\ req.path \in Seq(STRING)
                    /\ req.contentLength \in Nat

ResponseType(resp) == /\ DOMAIN resp = {"version", "status", "close", "headers"}
                      /\ resp.close \in BOOLEAN

\* The index of the chain's loops.
NextInv == /\ next \in 0..(Len(chain) + 1)
           /\ pc = "before" => next # 0
           /\ pc = "after" => next # Len(chain) + 1

StateInv ==
    /\ pc \in {"setup", "listening", "idle", "parse", "parsed", "refused",
               "before", "handle", "after", "send", "aborted"}
    /\ state \in {"kExpectRequestLine", "kExpectHeaders", "kExpectBody", "kGotAll"}
    /\ pc \in {"idle", "parse", "refused"} => state # "kGotAll"
    /\ conn \in {"kConnecting", "kConnected", "kDisconnecting"}

TypeInv == /\ StateInv
           /\ NextInv
           /\ RequestType(request)
           /\ ResponseType(response)
           /\ chain \in Seq({"cors", "user"})
           /\ wire \in Seq(StreamToken) /\ input \in Seq(StreamToken)

-----------------------------------------------------------------------------
\* A token with a method is a request line.
LEMMA RequestLines ==
    ASSUME NEW t \in StreamToken, "method" \in DOMAIN t
    PROVE  t \in {m.line : m \in Messages} /\ t.path \in Seq(STRING)
<1>1. t # CRLF /\ t # BodyByte
  BY DEF CRLF, BodyByte
<1>2. ASSUME NEW m \in Messages, t \in ToSet(m.headers) PROVE FALSE
  <2>1. m.headers \in Seq([field : STRING, value : STRING])
    BY MessagesType
  <2>2. PICK i \in 1..Len(m.headers) : t = m.headers[i]
    BY <1>2, <2>1, LenProperties DEF ToSet
  <2>3. t \in [field : STRING, value : STRING]
    BY <2>1, <2>2, ElementOfSeq
  <2>4. QED
    BY <2>3
<1>3. PICK m \in Messages : t = m.line
  BY <1>1, <1>2 DEF StreamToken
<1>4. m.line.path \in Seq(STRING)
  BY MessagesType
<1>5. QED
  BY <1>3, <1>4

\* Tokens(m) is a stream.
LEMMA TokensType ==
    ASSUME NEW m \in Messages
    PROVE  Tokens(m) \in Seq(StreamToken)
<1> DEFINE h == HeaderTokens(m.headers)
           first == <<m.line, CRLF>>
           last == <<CRLF>>
           n == Len(m.headers)
<1>1. /\ m.headers \in Seq([field : STRING, value : STRING])
      /\ m.body \in Seq({BodyByte, CRLF})
  BY MessagesType
<1>2. CRLF \in StreamToken /\ BodyByte \in StreamToken /\ m.line \in StreamToken
  BY DEF StreamToken
<1>3. first \in Seq(StreamToken) /\ last \in Seq(StreamToken)
  BY <1>2
<1>4. m.body \in Seq(StreamToken)
  BY <1>1, <1>2, SeqMonotonic
<1>5. n \in Nat /\ \A i \in 1..n : m.headers[i] \in StreamToken
  <2>1. n \in Nat /\ DOMAIN m.headers = 1..n
    BY <1>1, LenProperties
  <2>2. \A i \in 1..n : m.headers[i] \in ToSet(m.headers)
    BY <2>1 DEF ToSet
  <2>3. QED
    BY <2>1, <2>2 DEF StreamToken
<1>6. h \in Seq(StreamToken)
  <2>1. 2 * n \in Nat
    BY <1>5
  <2>2. \A i \in 1..(2 * n) : i % 2 = 1 => (i + 1) \div 2 \in 1..n
    BY <1>5
  <2>3. h \in [1..(2 * n) -> StreamToken]
    BY <1>2, <1>5, <2>2 DEF HeaderTokens
  <2>4. QED
    BY <2>1, <2>3
<1> HIDE DEF h, first, last
<1> DEFINE a == first \o h
           b == a \o last
<1>7. a \in Seq(StreamToken)
  BY <1>3, <1>6, ConcatProperties
<1> HIDE DEF a
<1>8. b \in Seq(StreamToken)
  BY <1>3, <1>7, ConcatProperties
<1>9. Tokens(m) = b \o m.body
  BY DEF Tokens, a, h, first, last
<1> HIDE DEF b
<1>10. QED
  BY <1>4, <1>8, <1>9, ConcatProperties

-----------------------------------------------------------------------------
(* The parser.                                                             *)

\* A piece of a stream is a stream.
LEMMA PieceType ==
    ASSUME NEW T, NEW s \in Seq(T), NEW i \in Nat \ {0}, NEW n \in 0..Len(s)
    PROVE  SubSeq(s, i, n) \in Seq(T)
<1>1. \A k \in i..n : s[k] \in T
  BY LenProperties, ElementOfSeq
<1>2. QED
  BY <1>1, LenProperties, SubSeqProperties

\* What is set of a request by its line has its type.
LEMMA LineTyped ==
    ASSUME NEW req, RequestType(req), NEW line \in Seq(StreamToken)
    PROVE  RequestType(LineProcessed(req, line))
<1> DEFINE m == SetMethod(req, MethodOf(line))
           p == [m EXCEPT !.path = line[1].path]
           u == SetQueryParameters(p, line[1].query)
           v == [u EXCEPT !.version = line[1].version]
<1>1. RequestType(m)
  BY DEF RequestType, RequestFields, SetMethod
<1>2. CASE ~HasMethod(line)
  BY <1>2 DEF LineProcessed
<1>3. CASE HasMethod(line) /\ (m.method = kInvalid \/ ~HasUrl(line))
  BY <1>1, <1>3 DEF LineProcessed
<1>4. CASE HasMethod(line) /\ ~(m.method = kInvalid \/ ~HasUrl(line))
  <2>1. line[1].path \in Seq(STRING)
    <3>1. Len(line) = 1 /\ "method" \in DOMAIN line[1]
      BY <1>4 DEF HasUrl, IsA
    <3>2. line[1] \in StreamToken
      BY <3>1, ElementOfSeq
    <3>3. QED
      BY <3>1, <3>2, RequestLines
  <2> HIDE DEF m
  <2>2. RequestType(p)
    BY <1>1, <2>1 DEF RequestType, RequestFields
  <2> HIDE DEF p
  <2>3. RequestType(u)
    BY <2>2 DEF RequestType, RequestFields, SetQueryParameters
  <2> HIDE DEF u
  <2>4. line[1].version \in Versions => RequestType(v)
    BY <2>3 DEF RequestType, RequestFields
  <2> HIDE DEF v
  <2>5. LineProcessed(req, line) = IF line[1].version \in Versions THEN v ELSE u
    BY <1>4 DEF LineProcessed, m, p, u, v
  <2>6. QED
    BY <2>3, <2>4, <2>5
<1>5. QED
  BY <1>2, <1>3, <1>4

\* findCRLF() finds the first CRLF, if there is one.
LEMMA CrlfFound ==
    ASSUME input \in Seq(StreamToken)
    PROVE  /\ CrlfAt \in 0..Len(input)
           /\ CrlfAt # 0 => input[CrlfAt] = CRLF
           /\ CrlfAt # 0 => \A j \in 1..(CrlfAt - 1) : input[j] # CRLF
           /\ CrlfAt = 0 => \A j \in 1..Len(input) : input[j] # CRLF
<1> DEFINE S == {i \in DOMAIN input : input[i] = CRLF}
           IsFirst(i) == input[i] = CRLF /\ \A j \in 1..(i - 1) : input[j] # CRLF
<1>1. Len(input) \in Nat /\ DOMAIN input = 1..Len(input)
  BY LenProperties
<1>2. CASE S = {}
  <2>1. CrlfAt = 0
    BY <1>2 DEF CrlfAt
  <2>2. QED
    BY <1>1, <1>2, <2>1
<1>3. CASE S # {}
  <2>1. PICK i \in S : \A k \in S : i <= k
    <3>1. S \in SUBSET Nat
      BY <1>1
    <3> HIDE DEF S
    <3>2. QED
      BY <1>3, <3>1, SmallestOf
  <2>2. i \in DOMAIN input /\ IsFirst(i)
    <3>1. ASSUME NEW j \in 1..(i - 1), input[j] = CRLF PROVE FALSE
      <4>1. i \in 1..Len(input)
        BY <1>1
      <4>2. j \in S
        BY <1>1, <3>1, <4>1
      <4>3. i <= j
        BY <2>1, <4>2
      <4>4. QED
        BY <4>1, <4>3
    <3>2. QED
      BY <3>1
  <2>3. CrlfAt = CHOOSE k \in DOMAIN input : IsFirst(k)
    BY <1>3 DEF CrlfAt
  <2> HIDE DEF IsFirst
  <2>4. CrlfAt \in DOMAIN input /\ IsFirst(CrlfAt)
    BY <2>2, <2>3
  <2>5. QED
    BY <1>1, <2>4 DEF IsFirst
<1>4. QED
  BY <1>2, <1>3

\* The line and what is left behind it are streams.
LEMMA LineType ==
    ASSUME input \in Seq(StreamToken)
    PROVE  /\ CrlfAt # 0 => Line \in Seq(StreamToken)
           /\ \A n \in Nat : SubSeq(input, n + 1, Len(input)) \in Seq(StreamToken)
           /\ \A n \in Nat : Retrieve(n) => input' \in Seq(StreamToken)
<1>1. Len(input) \in Nat /\ CrlfAt \in 0..Len(input)
  BY LenProperties, CrlfFound
<1>2. CrlfAt # 0 => Line \in Seq(StreamToken)
  <2>1. SUFFICES ASSUME CrlfAt # 0 PROVE Line \in Seq(StreamToken)
    OBVIOUS
  <2>2. CrlfAt - 1 \in 0..Len(input)
    BY <1>1, <2>1
  <2>3. QED
    BY <2>2, PieceType DEF Line
<1>3. \A n \in Nat : SubSeq(input, n + 1, Len(input)) \in Seq(StreamToken)
  <2>1. TAKE n \in Nat
  <2>2. n + 1 \in Nat \ {0} /\ Len(input) \in 0..Len(input)
    BY <1>1
  <2>3. QED
    BY <2>2, PieceType
<1>4. QED
  BY <1>2, <1>3 DEF Retrieve

\* parseRequest() changes its own variables only, and keeps their types.
LEMMA ParseTyped ==
    ASSUME TypeInv, ParseStep
    PROVE  /\ input' \in Seq(StreamToken) /\ RequestType(request')
           /\ pc = "parse" /\ pc' \in {"parse", "parsed", "refused", "aborted"}
           /\ state' \in {"kExpectRequestLine", "kExpectHeaders", "kExpectBody", "kGotAll"}
           /\ pc' \in {"parse", "refused"} => state' # "kGotAll"
<1> USE DEF ExpectingLine, Expecting, Returns
<1>t. /\ input \in Seq(StreamToken) /\ RequestType(request) /\ StateInv
      /\ Len(input) \in Nat
  BY LenProperties DEF TypeInv
<1>c. CrlfAt \in Nat
  BY <1>t, CrlfFound
<1>1. CASE LineNotWhole
  BY <1>1, <1>t DEF LineNotWhole, StateInv
<1>2. CASE ParseRequestLine
  <2>1. request' = LineProcessed(request, Line) /\ Retrieve(CrlfAt) /\ CrlfAt # 0
    BY <1>2 DEF ParseRequestLine
  <2>2. RequestType(request') /\ input' \in Seq(StreamToken)
    BY <1>t, <1>c, <2>1, LineType, LineTyped
  <2>3. QED
    BY <1>2, <2>2 DEF ParseRequestLine
<1>3. CASE RefuseRequestLine
  <2>1. request' = LineProcessed(request, Line) /\ CrlfAt # 0
    BY <1>3 DEF RefuseRequestLine
  <2>2. RequestType(request')
    BY <1>t, <2>1, LineType, LineTyped
  <2>3. QED
    BY <1>3, <1>t, <2>2 DEF RefuseRequestLine
<1>4. CASE AssertFails \/ LengthThrows
  BY <1>4, <1>t DEF AssertFails, LengthThrows, StateInv
<1>5. CASE ParseHeader
  <2>1. RequestType(request')
    BY <1>5, <1>t DEF ParseHeader, AddHeader, RequestType, RequestFields
  <2>2. input' \in Seq(StreamToken)
    BY <1>5, <1>t, <1>c, LineType DEF ParseHeader
  <2>3. QED
    BY <1>5, <2>1, <2>2 DEF ParseHeader
<1>6. CASE EndHeaders
  <2>1. RequestType(request')
    BY <1>6, <1>t, NumeralType DEF EndHeaders, RequestType, RequestFields
  <2>2. input' \in Seq(StreamToken)
    BY <1>6, <1>t, <1>c, LineType DEF EndHeaders
  <2>3. QED
    BY <1>6, <2>1, <2>2 DEF EndHeaders
<1>7. CASE BodyNotWhole
  BY <1>7, <1>t DEF BodyNotWhole
<1>8. CASE ParseBody
  <2>1. RequestType(request')
    BY <1>8, <1>t DEF ParseBody, RequestType, RequestFields
  <2>2. input' \in Seq(StreamToken)
    <3>1. request.contentLength \in Nat
      BY <1>t DEF RequestType
    <3>2. QED
      BY <1>8, <1>t, <3>1, LineType DEF ParseBody
  <2>3. QED
    BY <1>8, <2>1, <2>2 DEF ParseBody
<1>9. QED
  BY <1>1, <1>2, <1>3, <1>4, <1>5, <1>6, <1>7, <1>8 DEF ParseStep
-----------------------------------------------------------------------------
(* Responses.                                                              *)

\* What the code and the program's code make of a response is one.
LEMMA ResponsesTyped ==
    /\ \A close \in BOOLEAN : ResponseType(NewResponse(close))
    /\ \A resp, status : ResponseType(resp) => ResponseType(WithStatus(resp, status))
    /\ \A resp, version : ResponseType(resp) => ResponseType([resp EXCEPT !.version = version])
    /\ \A resp : ResponseType(resp) => \A c \in Closing(resp) : ResponseType(c)
    /\ \A resp, f, v : ResponseType(resp) => ResponseType(AddResponseHeader(resp, f, v))
BY DEF ResponseType, NewResponse, WithStatus, Closing, AddResponseHeader

LEMMA CorsTyped ==
    ASSUME NEW resp, ResponseType(resp), NEW req
    PROVE  ResponseType(CorsAfter(resp)) /\ ResponseType(Preflight(req))
<1>1. \A r, origin : ResponseType(r) => ResponseType(AddCorsHeaders(r, origin))
  BY ResponsesTyped DEF AddCorsHeaders
<1>2. ResponseType(CorsAfter(resp))
  BY <1>1 DEF CorsAfter
<1>3. ResponseType(NewResponse(TRUE))
  BY ResponsesTyped
<1>4. ResponseType(Preflight(req))
  BY <1>1, <1>3, ResponsesTyped DEF Preflight
<1>5. QED
  BY <1>2, <1>4

-----------------------------------------------------------------------------
(* TypeInv.                                                                *)

\* A context and a response that are new, and an empty stream.
LEMMA InitTyped == Init => TypeInv
<1> SUFFICES ASSUME Init PROVE TypeInv
  OBVIOUS
<1>1. chain \in Seq({"cors", "user"})
  BY ChainsType DEF Init
<1>2. NextInv /\ StateInv
  <2>1. Len(chain) \in Nat
    BY <1>1, LenProperties
  <2>2. QED
    BY <2>1 DEF Init, NextInv, StateInv
<1>3. RequestType(request)
  BY EmptySeq DEF Init, RequestType, RequestFields, NewRequest
<1>4. ResponseType(response)
  BY ResponsesTyped DEF Init
<1>5. wire \in Seq(StreamToken) /\ input \in Seq(StreamToken)
  BY EmptySeq DEF Init
<1>6. QED
  BY <1>1, <1>2, <1>3, <1>4, <1>5 DEF TypeInv

\* Before a connection, and between the client and the loop.
LEMMA OutsideTyped ==
    ASSUME TypeInv,
           (\E r \in Routes : Register(r)) \/ Start \/ OnConnection
             \/ (\E m \in Messages : ClientSends(m))
             \/ (\E n \in 1..Len(wire) : OnMessage(n))
    PROVE  TypeInv'
<1> USE DEF TypeInv
<1>1. UNCHANGED <<chain, response, next>>
  BY DEF Register, Start, OnConnection, ClientSends, OnMessage, serverVars, requestVars
<1>2. RequestType(request')
  <2>1. RequestType(NewRequest)
    BY EmptySeq DEF RequestType, RequestFields, NewRequest
  <2>2. request' = request \/ request' = NewRequest
    BY DEF Register, Start, OnConnection, ClientSends, OnMessage, ResetContext,
           contextVars
  <2>3. QED
    BY <2>1, <2>2
<1>3. StateInv' /\ NextInv'
  BY <1>1 DEF Register, Start, OnConnection, ClientSends, OnMessage, ResetContext,
              contextVars, StateInv, NextInv
<1>4. wire' \in Seq(StreamToken) /\ input' \in Seq(StreamToken)
  <2>1. CASE \E n \in 1..Len(wire) : OnMessage(n)
    <3>1. PICK n \in 1..Len(wire) : OnMessage(n)
      BY <2>1
    <3>2. Len(wire) \in Nat
      BY LenProperties
    <3>3. SubSeq(wire, 1, n) \in Seq(StreamToken)
      <4>1. n \in 0..Len(wire)
        BY <3>2
      <4>2. QED
        BY <4>1, PieceType
    <3>4. SubSeq(wire, n + 1, Len(wire)) \in Seq(StreamToken)
      <4>1. n + 1 \in Nat \ {0} /\ Len(wire) \in 0..Len(wire)
        BY <3>2
      <4>2. QED
        BY <4>1, PieceType
    <3> DEFINE piece == SubSeq(wire, 1, n)
    <3>5. input' = input \o piece /\ piece \in Seq(StreamToken)
      BY <3>1, <3>3 DEF OnMessage
    <3> HIDE DEF piece
    <3>6. input' \in Seq(StreamToken)
      BY <3>5, ConcatProperties
    <3>7. QED
      BY <3>1, <3>4, <3>6 DEF OnMessage
  <2>2. CASE \E m \in Messages : ClientSends(m)
    <3>1. PICK m \in Messages : ClientSends(m)
      BY <2>2
    <3>2. wire' = wire \o Tokens(m) /\ UNCHANGED input
      BY <3>1 DEF ClientSends, contextVars
    <3>3. Tokens(m) \in Seq(StreamToken)
      BY TokensType
    <3>4. QED
      BY <3>2, <3>3, ConcatProperties
  <2>3. CASE (\E r \in Routes : Register(r)) \/ Start \/ OnConnection
    BY <2>3 DEF Register, Start, OnConnection, contextVars
  <2>4. QED
    BY <2>1, <2>2, <2>3
<1>5. QED
  BY <1>1, <1>2, <1>3, <1>4

\* A call of parseRequest(), round by round, and what follows it.
LEMMA ParsingTyped ==
    ASSUME TypeInv, Parse \/ Refuse \/ RequestNotWhole
    PROVE  TypeInv'
<1> USE DEF TypeInv
<1>1. UNCHANGED <<chain, response, next, wire>>
  BY DEF Parse, Refuse, RequestNotWhole, serverVars, requestVars
<1>2. CASE Parse
  <2>1. ParseStep /\ UNCHANGED conn
    BY <1>2 DEF Parse
  <2>2. /\ input' \in Seq(StreamToken) /\ RequestType(request')
        /\ pc = "parse" /\ pc' \in {"parse", "parsed", "refused", "aborted"}
        /\ state' \in {"kExpectRequestLine", "kExpectHeaders", "kExpectBody", "kGotAll"}
        /\ pc' \in {"parse", "refused"} => state' # "kGotAll"
    BY <2>1, ParseTyped
  <2>3. StateInv' /\ NextInv'
    BY <1>1, <2>1, <2>2 DEF StateInv, NextInv
  <2>4. QED
    BY <1>1, <2>2, <2>3
<1>3. CASE Refuse \/ RequestNotWhole
  <2>1. /\ UNCHANGED <<input, request, state>>
        /\ pc' = "idle" /\ state # "kGotAll"
        /\ conn' \in {conn, "kDisconnecting"}
    BY <1>3 DEF Refuse, RequestNotWhole, Shutdown, StateInv
  <2>2. StateInv' /\ NextInv'
    BY <1>1, <2>1 DEF StateInv, NextInv
  <2>3. QED
    BY <1>1, <2>1, <2>2
<1>4. QED
  BY <1>2, <1>3

\* onRequest() and the end of onMessage().
LEMMA RequestTyped == TypeInv /\ RequestStep => TypeInv'
<1> SUFFICES ASSUME TypeInv, RequestStep PROVE TypeInv'
  OBVIOUS
<1> USE DEF TypeInv
<1>1. UNCHANGED <<chain, wire, input>>
  BY DEF RequestStep, OnRequest, CorsBefore, UserBefore, RouteRequest, UserHandler,
         DefaultCallback, CorsAfterCalled, UserAfter, AftersDone, Send, CallBefore,
         CallHandler, CallAfter, onRequestUnchanged, serverVars
<1>2. CASE Send
  <2>1. /\ pc' = "idle" /\ state' = "kExpectRequestLine" /\ request' = NewRequest
        /\ conn' \in {conn, "kDisconnecting"} /\ next' = 0
        /\ response' = NewResponse(TRUE)
    BY <1>2 DEF Send, ResetContext, Shutdown
  <2>2. RequestType(request')
    BY <2>1, EmptySeq DEF RequestType, RequestFields, NewRequest
  <2>3. StateInv' /\ NextInv'
    <3>1. Len(chain) \in Nat
      BY LenProperties
    <3>2. QED
      BY <1>1, <2>1, <3>1 DEF StateInv, NextInv
  <2>4. ResponseType(response')
    BY <2>1, ResponsesTyped
  <2>5. QED
    BY <1>1, <2>2, <2>3, <2>4
<1>3. CASE ~Send
  <2>0. Len(chain) \in Nat /\ DOMAIN chain = 1..Len(chain)
    BY LenProperties
  <2>1. UNCHANGED <<state, request, conn>>
    BY <1>3 DEF RequestStep, OnRequest, CorsBefore, UserBefore, RouteRequest,
           UserHandler, DefaultCallback, CorsAfterCalled, UserAfter, AftersDone,
           CallBefore, CallHandler, CallAfter, onRequestUnchanged
  <2>2. /\ pc' \in {"before", "handle", "after", "send", "aborted"}
        /\ NextInv'
    <3>1. CASE OnRequest
      BY <1>1, <2>0, <3>1 DEF OnRequest, NextInv
    <3>2. CASE CorsBefore \/ UserBefore
      BY <1>1, <2>0, <3>2 DEF CorsBefore, UserBefore, CallBefore, BeforeReturns, Throw,
         ThrowException, ThrowResponse, ThrowOther, NextInv
    <3>3. CASE RouteRequest
      BY <1>1, <2>0, <3>3 DEF RouteRequest, NextInv
    <3>4. CASE UserHandler \/ DefaultCallback
      BY <1>1, <2>0, <3>4 DEF UserHandler, DefaultCallback, CallHandler, Answered, Throw,
         ThrowResponse, ThrowOther, NextInv, FirstAfter
    <3>5. CASE CorsAfterCalled \/ UserAfter
      BY <1>1, <2>0, <3>5 DEF CorsAfterCalled, UserAfter, CallAfter, Throw, ThrowResponse,
         ThrowOther, NextInv
    <3>6. CASE AftersDone
      BY <1>1, <2>0, <3>6 DEF AftersDone, requestVars, NextInv
    <3>7. QED
      BY <1>3, <3>1, <3>2, <3>3, <3>4, <3>5, <3>6 DEF RequestStep
  <2>3. StateInv'
    BY <2>1, <2>2 DEF StateInv
  <2>4. ResponseType(response')
    <3>1. CASE OnRequest
      <4>1. AsksToClose(request) \in BOOLEAN
        BY DEF AsksToClose
      <4>2. ResponseType(NewResponse(AsksToClose(request)))
        BY <4>1, ResponsesTyped
      <4>3. QED
        BY <3>1, <4>2, ResponsesTyped DEF OnRequest
    <3>2. CASE CorsBefore \/ UserBefore
      BY <3>2, CorsTyped, ResponsesTyped DEF CorsBefore, UserBefore, BeforeReturns,
         Throw, ThrowException, ThrowResponse, ThrowOther
    <3>3. CASE RouteRequest \/ AftersDone
      BY <3>3 DEF RouteRequest, AftersDone, requestVars
    <3>4. CASE UserHandler
      BY <3>4, ResponsesTyped DEF UserHandler, Answered, Throw, ThrowResponse, ThrowOther
    <3>5. CASE DefaultCallback
      <4>1. ResponseType([response EXCEPT !.close = TRUE])
        BY DEF ResponseType
      <4>2. QED
        BY <3>5, <4>1, ResponsesTyped DEF DefaultCallback, Answered
    <3>6. CASE CorsAfterCalled
      BY <3>6, CorsTyped DEF CorsAfterCalled
    <3>7. CASE UserAfter
      BY <3>7, ResponsesTyped DEF UserAfter, Throw, ThrowResponse, ThrowOther
    <3>8. QED
      BY <1>3, <3>1, <3>2, <3>3, <3>4, <3>5, <3>6, <3>7 DEF RequestStep
  <2>5. QED
    BY <1>1, <2>1, <2>2, <2>3, <2>4
<1>4. QED
  BY <1>2, <1>3

\* Every step keeps the types.
LEMMA StepTyped == TypeInv /\ [Next]_vars => TypeInv'
<1> SUFFICES ASSUME TypeInv, [Next]_vars PROVE TypeInv'
  OBVIOUS
<1>1. CASE (\E r \in Routes : Register(r)) \/ Start \/ OnConnection
             \/ (\E m \in Messages : ClientSends(m))
             \/ (\E n \in 1..Len(wire) : OnMessage(n))
  BY <1>1, OutsideTyped
<1>2. CASE Parse \/ Refuse \/ RequestNotWhole
  BY <1>2, ParsingTyped
<1>3. CASE RequestStep
  BY <1>3, RequestTyped
<1>4. CASE UNCHANGED vars
  BY <1>4 DEF vars, contextVars, serverVars, requestVars, TypeInv, StateInv, NextInv
<1>5. QED
  BY <1>1, <1>2, <1>3, <1>4 DEF Next, LoopStep

LEMMA TypeInvariant == Spec => []TypeInv
BY InitTyped, StepTyped, PTL DEF Spec

\* TypeOK in every state: in particular parseRequest() is never called with a
\* context that holds a finished request, where it would loop for ever.
THEOREM TypeCorrect == Spec => []TypeOK
<1>1. TypeInv => TypeOK
  BY DEF TypeInv, StateInv, NextInv, RequestType, ResponseType, TypeOK
<1>2. QED
  BY <1>1, TypeInvariant, PTL
-----------------------------------------------------------------------------
(* The onion.                                                              *)

CallType == {"before", "handler", "after"} \X Nat

\* How far onRequest() is in Layers is told by pc and next; it leaves them early
\* when a call has thrown.  Before it runs nothing is called.
OnionInv ==
    /\ pc \notin {"before", "handle", "after", "send", "aborted"} => calls = <<>>
    /\ pc \in {"before", "handle", "after", "send"} =>
        /\ calls \in Seq(CallType)
        /\ Len(calls) <= Len(Layers)
        /\ \A i \in 1..Len(calls) : calls[i] = Layers[i]
        /\ pc = "before" => Len(calls) = next - 1
        /\ pc = "handle" => Len(calls) = Len(chain)
        /\ pc = "after"  => Len(calls) = (Len(chain) + 1) + (Len(chain) - next)
        /\ pc = "send"   => Len(calls) = Len(Layers) \/ threw

\* The layers, one by one.
LEMMA LayersAre ==
    ASSUME chain \in Seq({"cors", "user"})
    PROVE  /\ Len(chain) \in Nat /\ DOMAIN chain = 1..Len(chain)
           /\ Layers \in Seq(CallType) /\ Len(Layers) = 2 * Len(chain) + 1
           /\ \A i \in 1..Len(chain) : Layers[i] = <<"before", i>>
           /\ Layers[Len(chain) + 1] = <<"handler", 0>>
           /\ \A i \in 1..Len(chain) :
                 Layers[((Len(chain) + 1) + (Len(chain) - i)) + 1] = <<"after", i>>
<1> DEFINE n == Len(chain)
           b == [i \in 1..n |-> <<"before", i>>]
           h == <<<<"handler", 0>>>>
           a == [i \in 1..n |-> <<"after", n + 1 - i>>]
           bh == b \o h
<1>1. n \in Nat /\ DOMAIN chain = 1..n
  BY LenProperties
<1>2. Layers = bh \o a
  BY <1>1 DEF Layers
<1>3. /\ b \in Seq(CallType) /\ Len(b) = n
      /\ \A i \in 1..n : b[i] = <<"before", i>>
  <2>1. b \in [1..n -> CallType]
    BY <1>1 DEF CallType
  <2>2. QED
    BY <1>1, <2>1
<1>4. h \in Seq(CallType) /\ Len(h) = 1 /\ h[1] = <<"handler", 0>>
  BY DEF CallType
<1>5. /\ a \in Seq(CallType) /\ Len(a) = n
      /\ \A i \in 1..n : a[i] = <<"after", n + 1 - i>>
  <2>1. ASSUME NEW i \in 1..n PROVE a[i] = <<"after", n + 1 - i>> /\ a[i] \in CallType
    BY <1>1 DEF CallType
  <2>2. a = [i \in 1..n |-> a[i]]
    OBVIOUS
  <2> HIDE DEF a
  <2>3. a \in [1..n -> CallType]
    BY <2>1, <2>2
  <2>4. QED
    BY <1>1, <2>1, <2>3
<1> HIDE DEF b, h, a
<1>6. /\ bh \in Seq(CallType) /\ Len(bh) = n + 1
      /\ \A i \in 1..(n + 1) : bh[i] = IF i <= n THEN b[i] ELSE h[i - n]
  <2>1. b \in Seq(CallType) /\ h \in Seq(CallType)
    BY <1>3, <1>4
  <2>2. /\ bh \in Seq(CallType) /\ Len(bh) = Len(b) + Len(h)
        /\ \A i \in 1..(Len(b) + Len(h)) : bh[i] = IF i <= Len(b) THEN b[i] ELSE h[i - Len(b)]
    BY <2>1, ConcatProperties
  <2> HIDE DEF bh
  <2>3. QED
    BY <1>3, <1>4, <2>2
<1> HIDE DEF bh
<1>7. /\ Layers \in Seq(CallType) /\ Len(Layers) = (n + 1) + n
      /\ \A i \in 1..((n + 1) + n) : Layers[i] = IF i <= n + 1 THEN bh[i] ELSE a[i - (n + 1)]
  <2>1. bh \in Seq(CallType) /\ a \in Seq(CallType)
    BY <1>5, <1>6
  <2>2. /\ Layers \in Seq(CallType) /\ Len(Layers) = Len(bh) + Len(a)
        /\ \A i \in 1..(Len(bh) + Len(a)) :
              Layers[i] = IF i <= Len(bh) THEN bh[i] ELSE a[i - Len(bh)]
    BY <1>2, <2>1, ConcatProperties
  <2>3. QED
    BY <1>5, <1>6, <2>2
<1> HIDE DEF n
<1>8. \A i \in 1..n : Layers[i] = <<"before", i>>
  <2>1. TAKE i \in 1..n
  <2>2. i \in 1..((n + 1) + n) /\ i \in 1..(n + 1) /\ i <= n + 1 /\ i <= n
    BY <1>1
  <2>3. QED
    BY <1>3, <1>6, <1>7, <2>2
<1>9. Layers[n + 1] = <<"handler", 0>>
  <2>1. n + 1 \in 1..((n + 1) + n) /\ n + 1 \in 1..(n + 1) /\ ~(n + 1 <= n)
        /\ (n + 1) - n = 1 /\ n + 1 <= n + 1
    BY <1>1
  <2>2. Layers[n + 1] = bh[n + 1]
    BY <1>7, <2>1
  <2>3. bh[n + 1] = h[(n + 1) - n]
    BY <1>6, <2>1
  <2>4. QED
    BY <1>4, <2>1, <2>2, <2>3
<1>10. \A i \in 1..n : Layers[((n + 1) + (n - i)) + 1] = <<"after", i>>
  <2>1. TAKE i \in 1..n
  <2> DEFINE k == ((n + 1) + (n - i)) + 1
             j == (n + 1) - i
  <2>2. /\ k \in 1..((n + 1) + n) /\ ~(k <= n + 1) /\ k - (n + 1) = j
        /\ j \in 1..n /\ (n + 1) - j = i
    BY <1>1
  <2> HIDE DEF k, j
  <2>3. Layers[k] = a[k - (n + 1)]
    BY <1>7, <2>2
  <2>4. a[j] = <<"after", (n + 1) - j>>
    BY <1>5, <2>2
  <2>5. QED
    BY <2>2, <2>3, <2>4 DEF k
<1>11. QED
  BY <1>1, <1>7, <1>8, <1>9, <1>10 DEF n

\* The call of the next layer.
LEMMA NextLayer ==
    ASSUME chain \in Seq({"cors", "user"}), calls \in Seq(CallType),
           Len(calls) < Len(Layers), \A i \in 1..Len(calls) : calls[i] = Layers[i],
           NEW c, Called(c), c = Layers[Len(calls) + 1], UNCHANGED chain
    PROVE  /\ calls' \in Seq(CallType) /\ Len(calls') = Len(calls) + 1
           /\ Len(calls') <= Len(Layers') /\ Layers' = Layers
           /\ \A i \in 1..Len(calls') : calls'[i] = Layers'[i]
           /\ calls'[Len(calls')] = c
<1>1. Layers' = Layers
  BY DEF Layers
<1>2. Len(calls) \in Nat /\ Len(Layers) \in Nat /\ Layers \in Seq(CallType)
  BY LayersAre, LenProperties
<1>3. c \in CallType
  <2>1. Len(calls) + 1 \in 1..Len(Layers)
    BY <1>2
  <2>2. QED
    BY <1>2, <2>1, ElementOfSeq
<1>4. /\ calls' \in Seq(CallType) /\ Len(calls') = Len(calls) + 1
      /\ \A i \in 1..Len(calls) : calls'[i] = calls[i]
      /\ calls'[Len(calls) + 1] = c
  BY <1>3, AppendProperties DEF Called
<1>5. ASSUME NEW i \in 1..(Len(calls) + 1) PROVE calls'[i] = Layers[i]
  <2>1. CASE i = Len(calls) + 1
    BY <1>4, <2>1
  <2>2. CASE i # Len(calls) + 1
    <3>1. i \in 1..Len(calls)
      BY <1>2, <2>2
    <3>2. QED
      BY <1>4, <3>1
  <2>3. QED
    BY <2>1, <2>2
<1>6. QED
  BY <1>1, <1>2, <1>4, <1>5

\* onRequest() enters a layer, or leaves.
LEMMA RequestOnion == TypeInv /\ OnionInv /\ RequestStep => OnionInv'
<1> SUFFICES ASSUME TypeInv, OnionInv, RequestStep PROVE OnionInv'
  OBVIOUS
<1> DEFINE n == Len(chain)
<1>1. /\ chain \in Seq({"cors", "user"})
      /\ n \in Nat /\ DOMAIN chain = 1..n
      /\ Layers \in Seq(CallType) /\ Len(Layers) = 2 * n + 1
      /\ NextInv
  BY LayersAre DEF TypeInv
<1>2. UNCHANGED chain
  BY DEF RequestStep, OnRequest, CorsBefore, UserBefore, RouteRequest, UserHandler,
         DefaultCallback, CorsAfterCalled, UserAfter, AftersDone, Send, CallBefore,
         CallHandler, CallAfter, onRequestUnchanged, serverVars
<1>3. Layers' = Layers /\ n' = n
  BY <1>2 DEF Layers
<1>4. CASE OnRequest
  <2>1. pc' = "before" /\ calls' = <<>> /\ next' = 1
    BY <1>4 DEF OnRequest, OnionInv
  <2>2. calls' \in Seq(CallType) /\ Len(calls') = 0
    BY <2>1, EmptySeq
  <2>3. QED
    BY <1>1, <1>3, <2>1, <2>2 DEF OnionInv
<1>5. CASE CorsBefore \/ UserBefore
  <2>1. /\ pc = "before" /\ next \in 1..n
        /\ Called(<<"before", next>>) /\ next' = next + 1
        /\ UNCHANGED routed
    BY <1>1, <1>5 DEF CorsBefore, UserBefore, CallBefore, NextInv
  <2>2. /\ calls \in Seq(CallType) /\ Len(calls) = next - 1
        /\ \A i \in 1..Len(calls) : calls[i] = Layers[i]
    BY <2>1 DEF OnionInv
  <2>3. Len(calls) < Len(Layers) /\ <<"before", next>> = Layers[Len(calls) + 1]
    <3>1. Len(calls) + 1 = next /\ Len(calls) < Len(Layers)
      BY <1>1, <2>1, <2>2
    <3>2. QED
      BY <1>1, <2>1, <3>1, LayersAre
  <2>4. /\ calls' \in Seq(CallType) /\ Len(calls') = Len(calls) + 1
        /\ Len(calls') <= Len(Layers')
        /\ \A i \in 1..Len(calls') : calls'[i] = Layers'[i]
        /\ calls'[Len(calls')] = <<"before", next>>
    BY <1>1, <1>2, <2>1, <2>2, <2>3, NextLayer
  <2>5. Len(calls') = next /\ Len(calls') # 0 /\ Len(calls') = next' - 1
    BY <1>1, <2>1, <2>2, <2>4
  <2>6. pc' \in {"before", "aborted"} \/ (pc' = "send" /\ threw')
    BY <1>5, <2>1 DEF CorsBefore, UserBefore, BeforeReturns, Throw, ThrowException,
       ThrowResponse, ThrowOther
  <2>7. QED
    BY <2>4, <2>5, <2>6 DEF OnionInv
<1>6. CASE RouteRequest
  <2>1. /\ pc = "before" /\ pc' = "handle" /\ UNCHANGED calls /\ ~(next <= n)
    BY <1>1, <1>6 DEF RouteRequest, NextInv
  <2>2. next = n + 1 /\ Len(calls) = n
    BY <1>1, <2>1 DEF NextInv, OnionInv
  <2>3. QED
    BY <1>3, <2>1, <2>2 DEF OnionInv
<1>7. CASE UserHandler \/ DefaultCallback
  <2>1. /\ pc = "handle" /\ Called(<<"handler", 0>>) /\ UNCHANGED routed
    BY <1>7 DEF UserHandler, DefaultCallback, CallHandler
  <2>2. /\ calls \in Seq(CallType) /\ Len(calls) = n
        /\ \A i \in 1..Len(calls) : calls[i] = Layers[i]
    BY <2>1 DEF OnionInv
  <2>3. Len(calls) < Len(Layers) /\ <<"handler", 0>> = Layers[Len(calls) + 1]
    BY <1>1, <2>2, LayersAre
  <2>4. /\ calls' \in Seq(CallType) /\ Len(calls') = Len(calls) + 1
        /\ Len(calls') <= Len(Layers')
        /\ \A i \in 1..Len(calls') : calls'[i] = Layers'[i]
        /\ calls'[Len(calls')] = <<"handler", 0>>
    BY <1>1, <1>2, <2>1, <2>2, <2>3, NextLayer
  <2>5. \/ pc' = "after" /\ next' = n
        \/ pc' = "send" /\ threw'
        \/ pc' = "aborted"
    BY <1>7 DEF UserHandler, DefaultCallback, Answered, Throw, ThrowResponse, ThrowOther, FirstAfter
  <2>6. next' = n => Len(calls') = (n + 1) + (n - next')
    BY <1>1, <2>2, <2>4
  <2>7. QED
    BY <1>3, <2>4, <2>5, <2>6 DEF OnionInv
<1>8. CASE CorsAfterCalled \/ UserAfter
  <2>1. /\ pc = "after" /\ next \in 1..n
        /\ Called(<<"after", next>>) /\ next' = next - 1
        /\ UNCHANGED routed
    BY <1>1, <1>8 DEF CorsAfterCalled, UserAfter, CallAfter
  <2>2. /\ calls \in Seq(CallType) /\ Len(calls) = (n + 1) + (n - next)
        /\ \A i \in 1..Len(calls) : calls[i] = Layers[i]
    BY <2>1 DEF OnionInv
  <2>3. Len(calls) < Len(Layers) /\ <<"after", next>> = Layers[Len(calls) + 1]
    <3>1. Len(calls) < Len(Layers)
      BY <1>1, <2>1, <2>2
    <3>2. QED
      BY <1>1, <2>1, <2>2, <3>1, LayersAre
  <2>4. /\ calls' \in Seq(CallType) /\ Len(calls') = Len(calls) + 1
        /\ Len(calls') <= Len(Layers')
        /\ \A i \in 1..Len(calls') : calls'[i] = Layers'[i]
        /\ calls'[Len(calls')] = <<"after", next>>
    BY <1>1, <1>2, <2>1, <2>2, <2>3, NextLayer
  <2>5. Len(calls') # 0 /\ Len(calls') = (n + 1) + (n - next')
    BY <1>1, <2>1, <2>2, <2>4
  <2>6. pc' \in {"after", "aborted"} \/ (pc' = "send" /\ threw')
    BY <1>8, <2>1 DEF CorsAfterCalled, UserAfter, Throw, ThrowResponse, ThrowOther
  <2>7. QED
    BY <1>3, <2>4, <2>5, <2>6 DEF OnionInv
<1>9. CASE AftersDone
  <2>1. /\ pc = "after" /\ pc' = "send" /\ UNCHANGED calls /\ next \notin 1..n
    BY <1>1, <1>9 DEF AftersDone, requestVars
  <2>2. next = 0
    BY <1>1, <2>1 DEF NextInv
  <2>3. Len(calls) = Len(Layers)
    BY <1>1, <2>1, <2>2 DEF OnionInv
  <2>4. QED
    BY <1>3, <2>1, <2>3 DEF OnionInv
<1>10. CASE Send
  BY <1>10 DEF Send, OnionInv
<1>11. QED
  BY <1>4, <1>5, <1>6, <1>7, <1>8, <1>9, <1>10 DEF RequestStep

\* Every step keeps the onion.
LEMMA StepOnion == TypeInv /\ OnionInv /\ [Next]_vars => OnionInv'
<1> SUFFICES ASSUME TypeInv, OnionInv, [Next]_vars PROVE OnionInv'
  OBVIOUS
<1>1. CASE RequestStep
  BY <1>1, RequestOnion
<1>2. CASE (\E m \in Messages : ClientSends(m)) \/ UNCHANGED vars
  <2>1. UNCHANGED <<pc, chain, calls, next, threw>>
    BY <1>2 DEF ClientSends, vars, contextVars, serverVars, requestVars
  <2>2. Layers' = Layers
    BY <2>1 DEF Layers
  <2>3. QED
    BY <2>1, <2>2 DEF OnionInv
<1>3. CASE (\E r \in Routes : Register(r)) \/ Start \/ OnConnection
  BY <1>3 DEF Register, Start, OnConnection, contextVars, requestVars, OnionInv
<1>4. CASE (\E n \in 1..Len(wire) : OnMessage(n)) \/ Refuse \/ RequestNotWhole
  BY <1>4 DEF OnMessage, Refuse, RequestNotWhole, requestVars, OnionInv
<1>5. CASE Parse
  <2>1. pc = "parse" /\ pc' \in {"parse", "parsed", "refused", "aborted"} /\ UNCHANGED calls
    BY <1>5, ParseTyped DEF Parse, requestVars
  <2>2. QED
    BY <2>1 DEF OnionInv
<1>6. QED
  BY <1>1, <1>2, <1>3, <1>4, <1>5 DEF Next, LoopStep

LEMMA OnionInvariant == Spec => []OnionInv
<1>1. Init => OnionInv
  BY DEF Init, OnionInv
<1>2. QED
  BY <1>1, StepOnion, TypeInvariant, PTL DEF Spec

\* Onion in every state: for any chain, what onRequest() has called is the start
\* of its middlewares' befores, the handler and the afters backwards, and the
\* response goes out only at their end or when the last of them has thrown.
THEOREM OnionAlways == Spec => []Onion
<1>1. TypeInv /\ OnionInv => Onion
  <2> SUFFICES ASSUME TypeInv, OnionInv PROVE Onion
    OBVIOUS
  <2>1. Layers \in Seq(CallType) /\ Len(Layers) \in Nat
    BY LayersAre, LenProperties DEF TypeInv
  <2> SUFFICES ASSUME pc \in {"before", "handle", "after", "send"} PROVE Onion
    BY DEF Onion
  <2>2. /\ calls \in Seq(CallType) /\ Len(calls) \in Nat
        /\ Len(calls) <= Len(Layers)
        /\ \A i \in 1..Len(calls) : calls[i] = Layers[i]
    BY LenProperties DEF OnionInv
  <2>3. IsPrefix(calls, Layers)
    <3> DEFINE n == Len(calls)
               s == SubSeq(Layers, 1, n)
    <3>1. \A i \in 1..n : Layers[i] \in CallType
      BY <2>1, <2>2, ElementOfSeq
    <3>2. /\ s \in Seq(CallType) /\ Len(s) = n
          /\ \A i \in 1..n : s[i] = Layers[i]
      BY <2>2, <3>1, SubSeqProperties
    <3> HIDE DEF s
    <3>3. s = calls
      BY <2>2, <3>2, SeqEqual
    <3>4. SubSeq(calls, 1, n) = calls
      BY <2>2, SubSeqFull
    <3>5. QED
      BY <2>2, <3>3, <3>4 DEF IsPrefix, s
  <2>4. Len(calls) = Len(Layers) => calls = Layers
    BY <2>1, <2>2, SeqEqual
  <2>5. pc = "send" => calls = Layers \/ threw
    BY <2>4 DEF OnionInv
  <2>6. QED
    BY <2>3, <2>5 DEF Onion
<1>2. QED
  BY <1>1, TypeInvariant, OnionInvariant, PTL
-----------------------------------------------------------------------------
(* The router.                                                             *)

KeyOf(r) == RouteKey(r.method, r.path)

EntryOf(r) == [method |-> r.method, pattern |-> ConvertToRegex(r.path), to |-> r.to]

Entries == {EntryOf(r) : r \in Routes}

RegsOf(t) == {i \in DOMAIN regs : regs[i].table = t}

\* A static table has the keys of its routes, each with its last one.
StaticOK(t) ==
    /\ \A i \in RegsOf(t) : KeyOf(regs[i]) \in DOMAIN tables[t]
    /\ \A k \in DOMAIN tables[t] : \E i \in RegsOf(t) :
          /\ KeyOf(regs[i]) = k /\ tables[t][k] = regs[i].to
          /\ \A j \in RegsOf(t) : KeyOf(regs[j]) = k => j <= i

\* The list of a table of patterns has its routes in the order they came.
IsListing(f, t) ==
    /\ f \in [1..Len(tables[t]) -> RegsOf(t)]
    /\ \A m, n \in 1..Len(tables[t]) : m < n => f[m] < f[n]
    /\ \A i \in RegsOf(t) : \E n \in 1..Len(tables[t]) : f[n] = i
    /\ \A n \in 1..Len(tables[t]) : tables[t][n] = EntryOf(regs[f[n]])

RegexOK(t) == tables[t] \in Seq(Entries) /\ \E f : IsListing(f, t)

RoutesInv ==
    /\ regs \in Seq(Routes)
    /\ DOMAIN tables = Tables
    /\ \A t \in Tables : IF IsStatic(t) THEN StaticOK(t) ELSE RegexOK(t)

\* The routes of a table after one more registration.
LEMMA RegsGrow ==
    ASSUME regs \in Seq(Routes), NEW r \in Routes, regs' = Append(regs, r), NEW t
    PROVE  /\ regs' \in Seq(Routes)
           /\ Len(regs) + 1 \in Nat
           /\ RegsOf(t) \subseteq 1..Len(regs) /\ RegsOf(t) \subseteq Nat
           /\ \A i \in RegsOf(t) : regs'[i] = regs[i] /\ i < Len(regs) + 1
           /\ regs'[Len(regs) + 1] = r
           /\ RegsOf(t)' = RegsOf(t) \cup (IF r.table = t THEN {Len(regs) + 1} ELSE {})
<1>1. /\ Len(regs) \in Nat /\ DOMAIN regs = 1..Len(regs)
      /\ regs' \in Seq(Routes) /\ Len(regs') = Len(regs) + 1
      /\ \A i \in 1..Len(regs) : regs'[i] = regs[i]
      /\ regs'[Len(regs) + 1] = r
  BY LenProperties, AppendProperties
<1>2. DOMAIN regs' = 1..(Len(regs) + 1)
  BY <1>1, LenProperties
<1>3. ASSUME NEW i \in 1..(Len(regs) + 1)
      PROVE  i \in 1..Len(regs) \/ i = Len(regs) + 1
  BY <1>1
<1>4. RegsOf(t) = {i \in 1..Len(regs) : regs[i].table = t}
  BY <1>1 DEF RegsOf
<1>5. RegsOf(t)' = {i \in 1..(Len(regs) + 1) : regs'[i].table = t}
  BY <1>2 DEF RegsOf
<1>6. Len(regs) + 1 \in 1..(Len(regs) + 1) /\ 1..Len(regs) \subseteq 1..(Len(regs) + 1)
  BY <1>1
<1>7. RegsOf(t)' = RegsOf(t) \cup (IF r.table = t THEN {Len(regs) + 1} ELSE {})
  <2>1. ASSUME NEW i \in RegsOf(t)'
        PROVE  i \in RegsOf(t) \cup (IF r.table = t THEN {Len(regs) + 1} ELSE {})
    <3>1. i \in 1..(Len(regs) + 1) /\ regs'[i].table = t
      BY <1>5, <2>1
    <3>2. QED
      BY <1>1, <1>3, <1>4, <3>1
  <2>2. ASSUME NEW i \in RegsOf(t) \cup (IF r.table = t THEN {Len(regs) + 1} ELSE {})
        PROVE  i \in RegsOf(t)'
    BY <1>1, <1>4, <1>5, <1>6
  <2>3. QED
    BY <2>1, <2>2
<1>8. QED
  BY <1>1, <1>4, <1>7

\* A table the route is not of keeps what it says.
LEMMA OtherTable ==
    ASSUME RoutesInv, NEW r \in Routes, regs' = Append(regs, r),
           NEW t \in Tables, t # r.table, tables'[t] = tables[t]
    PROVE  IF IsStatic(t) THEN StaticOK(t)' ELSE RegexOK(t)'
<1>1. /\ \A i \in RegsOf(t) : regs'[i] = regs[i]
      /\ RegsOf(t)' = RegsOf(t)
  BY RegsGrow DEF RoutesInv
<1>2. CASE IsStatic(t)
  <2>1. StaticOK(t)
    BY <1>2 DEF RoutesInv
  <2>2. ASSUME NEW i \in RegsOf(t)' PROVE KeyOf(regs'[i]) \in DOMAIN tables'[t]
    BY <1>1, <2>1 DEF StaticOK
  <2>3. ASSUME NEW k \in DOMAIN tables'[t]
        PROVE  \E i \in RegsOf(t)' :
                  /\ KeyOf(regs'[i]) = k /\ tables'[t][k] = regs'[i].to
                  /\ \A j \in RegsOf(t)' : KeyOf(regs'[j]) = k => j <= i
    <3>1. PICK i \in RegsOf(t) :
             /\ KeyOf(regs[i]) = k /\ tables[t][k] = regs[i].to
             /\ \A j \in RegsOf(t) : KeyOf(regs[j]) = k => j <= i
      BY <2>1 DEF StaticOK
    <3>2. i \in RegsOf(t)' /\ KeyOf(regs'[i]) = k /\ tables'[t][k] = regs'[i].to
      BY <1>1, <3>1
    <3>3. \A j \in RegsOf(t)' : KeyOf(regs'[j]) = k => j <= i
      BY <1>1, <3>1
    <3>4. QED
      BY <3>2, <3>3
  <2>4. StaticOK(t)'
    BY <2>2, <2>3 DEF StaticOK
  <2>5. QED
    BY <1>2, <2>4
<1>3. CASE ~IsStatic(t)
  <2>1. RegexOK(t)
    BY <1>3 DEF RoutesInv
  <2>2. PICK f : IsListing(f, t)
    BY <2>1 DEF RegexOK
  <2>3. IsListing(f, t)'
    <3>1. /\ f \in [1..Len(tables[t]) -> RegsOf(t)]
          /\ \A n \in 1..Len(tables[t]) : tables[t][n] = EntryOf(regs[f[n]])
      BY <2>2 DEF IsListing
    <3>2. \A n \in 1..Len(tables'[t]) : tables'[t][n] = EntryOf(regs'[f[n]])
      BY <1>1, <3>1
    <3>3. QED
      BY <1>1, <2>2, <3>2 DEF IsListing
  <2>4. RegexOK(t)'
    BY <2>1, <2>3 DEF RegexOK
  <2>5. QED
    BY <1>3, <2>4
<1>4. QED
  BY <1>2, <1>3

\* registerCallback(), registerHandler().
LEMMA StaticRegistered ==
    ASSUME RoutesInv, NEW r \in Routes, IsStatic(r.table), r.table \in Tables,
           RegisterRoute(r), regs' = Append(regs, r)
    PROVE  StaticOK(r.table)'
<1> DEFINE t == r.table
           n == Len(regs) + 1
<1>1. /\ n \in Nat /\ RegsOf(t) \subseteq Nat
      /\ \A i \in RegsOf(t) : regs'[i] = regs[i] /\ i < n
      /\ regs'[n] = r
      /\ RegsOf(t)' = RegsOf(t) \cup {n}
  BY RegsGrow DEF RoutesInv
<1>2. StaticOK(t)
  BY DEF RoutesInv
<1>3. tables'[t] = WithStatic(tables[t], KeyOf(r), r.to)
  BY DEF RegisterRoute, RoutesInv, KeyOf
<1>4. /\ DOMAIN tables'[t] = DOMAIN tables[t] \cup {KeyOf(r)}
      /\ tables'[t][KeyOf(r)] = r.to
      /\ \A k \in DOMAIN tables[t] : k # KeyOf(r) => tables'[t][k] = tables[t][k]
  BY <1>3 DEF WithStatic
<1> HIDE DEF n
<1>5. ASSUME NEW i \in RegsOf(t)' PROVE KeyOf(regs'[i]) \in DOMAIN tables'[t]
  BY <1>1, <1>2, <1>4 DEF StaticOK
<1>6. ASSUME NEW k \in DOMAIN tables'[t]
      PROVE  \E i \in RegsOf(t)' :
                /\ KeyOf(regs'[i]) = k /\ tables'[t][k] = regs'[i].to
                /\ \A j \in RegsOf(t)' : KeyOf(regs'[j]) = k => j <= i
  <2>1. CASE k = KeyOf(r)
    <3>1. n \in RegsOf(t)' /\ KeyOf(regs'[n]) = k /\ tables'[t][k] = regs'[n].to
      BY <1>1, <1>4, <2>1
    <3>2. \A j \in RegsOf(t)' : j <= n
      BY <1>1
    <3>3. QED
      BY <3>1, <3>2
  <2>2. CASE k # KeyOf(r)
    <3>1. k \in DOMAIN tables[t]
      BY <1>4, <2>2
    <3>2. PICK i \in RegsOf(t) :
             /\ KeyOf(regs[i]) = k /\ tables[t][k] = regs[i].to
             /\ \A j \in RegsOf(t) : KeyOf(regs[j]) = k => j <= i
      BY <1>2, <3>1 DEF StaticOK
    <3>3. i \in RegsOf(t)' /\ KeyOf(regs'[i]) = k /\ tables'[t][k] = regs'[i].to
      BY <1>1, <1>4, <2>2, <3>1, <3>2
    <3>4. \A j \in RegsOf(t)' : KeyOf(regs'[j]) = k => j <= i
      BY <1>1, <2>2, <3>2
    <3>5. QED
      BY <3>3, <3>4
  <2>3. QED
    BY <2>1, <2>2
<1>7. QED
  BY <1>5, <1>6 DEF StaticOK

\* addRegexCallback(), addRegexHandler().
LEMMA RegexRegistered ==
    ASSUME RoutesInv, NEW r \in Routes, ~IsStatic(r.table), r.table \in Tables,
           RegisterRoute(r), regs' = Append(regs, r)
    PROVE  RegexOK(r.table)'
<1> DEFINE t == r.table
           n == Len(regs) + 1
           N == Len(tables[t])
<1>1. /\ n \in Nat /\ RegsOf(t) \subseteq Nat
      /\ \A i \in RegsOf(t) : regs'[i] = regs[i] /\ i < n
      /\ regs'[n] = r
      /\ RegsOf(t)' = RegsOf(t) \cup {n}
  BY RegsGrow DEF RoutesInv
<1>2. RegexOK(t)
  BY DEF RoutesInv
<1>3. tables'[t] = Append(tables[t], EntryOf(r))
  BY DEF RegisterRoute, RoutesInv, EntryOf, WithRegex
<1>4. /\ N \in Nat /\ tables'[t] \in Seq(Entries) /\ Len(tables'[t]) = N + 1
      /\ \A m \in 1..N : tables'[t][m] = tables[t][m]
      /\ tables'[t][N + 1] = EntryOf(r)
  <2>1. tables[t] \in Seq(Entries) /\ EntryOf(r) \in Entries
    BY <1>2 DEF RegexOK, Entries
  <2>2. QED
    BY <1>3, <2>1, AppendProperties, LenProperties
<1>5. PICK f : IsListing(f, t)
  BY <1>2 DEF RegexOK
<1> HIDE DEF n
<1>6. /\ f \in [1..N -> RegsOf(t)]
      /\ \A m1, m2 \in 1..N : m1 < m2 => f[m1] < f[m2]
      /\ \A i \in RegsOf(t) : \E m \in 1..N : f[m] = i
      /\ \A m \in 1..N : tables[t][m] = EntryOf(regs[f[m]])
  BY <1>5 DEF IsListing
<1> HIDE DEF N
<1> DEFINE g == [m \in 1..(N + 1) |-> IF m = N + 1 THEN n ELSE f[m]]
<1>7. \A m \in 1..(N + 1) : m = N + 1 \/ (m \in 1..N /\ m # N + 1)
  BY <1>4
<1>8. /\ \A m \in 1..N : g[m] = f[m] /\ g[m] \in RegsOf(t)
      /\ g[N + 1] = n
  BY <1>4, <1>6
<1>9. g \in [1..(N + 1) -> RegsOf(t)']
  BY <1>1, <1>6, <1>7
<1> HIDE DEF g
<1>10. \A m1, m2 \in 1..(N + 1) : m1 < m2 => g[m1] < g[m2]
  <2>1. ASSUME NEW m1 \in 1..(N + 1), NEW m2 \in 1..(N + 1), m1 < m2
        PROVE  g[m1] < g[m2]
    <3>1. m1 \in 1..N
      BY <1>4, <2>1
    <3>2. CASE m2 = N + 1
      BY <1>1, <1>8, <3>1, <3>2
    <3>3. CASE m2 \in 1..N
      BY <1>6, <1>8, <2>1, <3>1, <3>3
    <3>4. QED
      BY <1>7, <3>2, <3>3
  <2>2. QED
    BY <2>1
<1>11. \A i \in RegsOf(t)' : \E m \in 1..(N + 1) : g[m] = i
  <2>1. ASSUME NEW i \in RegsOf(t)' PROVE \E m \in 1..(N + 1) : g[m] = i
    <3>1. CASE i = n
      <4>1. N + 1 \in 1..(N + 1)
        BY <1>4
      <4>2. QED
        BY <1>8, <3>1, <4>1
    <3>2. CASE i \in RegsOf(t)
      <4>1. PICK m \in 1..N : f[m] = i
        BY <1>6, <3>2
      <4>2. m \in 1..(N + 1)
        BY <1>4
      <4>3. QED
        BY <1>8, <4>1, <4>2
    <3>3. QED
      BY <1>1, <3>1, <3>2
  <2>2. QED
    BY <2>1
<1>12. \A m \in 1..(N + 1) : tables'[t][m] = EntryOf(regs'[g[m]])
  <2>1. ASSUME NEW m \in 1..(N + 1) PROVE tables'[t][m] = EntryOf(regs'[g[m]])
    <3>1. CASE m = N + 1
      BY <1>1, <1>4, <1>8, <3>1
    <3>2. CASE m \in 1..N
      <4>1. tables'[t][m] = EntryOf(regs[f[m]])
        BY <1>4, <1>6, <3>2
      <4>2. g[m] = f[m] /\ f[m] \in RegsOf(t)
        BY <1>8, <3>2
      <4>3. regs'[g[m]] = regs[f[m]]
        BY <1>1, <4>2
      <4>4. QED
        BY <4>1, <4>3
    <3>3. QED
      BY <1>7, <3>1, <3>2
  <2>2. QED
    BY <2>1
<1>13. PICK h : h = g
  OBVIOUS
<1>14. IsListing(h, t)'
  <2>1. 1..Len(tables'[t]) = 1..(N + 1)
    BY <1>4
  <2>2. QED
    BY <2>1, <1>9, <1>10, <1>11, <1>12, <1>13 DEF IsListing
<1>15. QED
  BY <1>4, <1>14 DEF RegexOK

\* Every step keeps the tables true to what was registered.
LEMMA StepRoutes == RoutesInv /\ [Next]_vars => RoutesInv'
<1> SUFFICES ASSUME RoutesInv, [Next]_vars PROVE RoutesInv'
  OBVIOUS
<1>1. ASSUME NEW r \in Routes, Register(r) PROVE RoutesInv'
  <2>1. RegisterRoute(r) /\ regs' = Append(regs, r)
    BY <1>1 DEF Register
  <2>2. r.table \in Tables
    BY RoutesType
  <2>3. DOMAIN tables' = Tables
    BY <2>1 DEF RegisterRoute, RoutesInv
  <2>4. \A t \in Tables : t # r.table => tables'[t] = tables[t]
    BY <2>1 DEF RegisterRoute, RoutesInv
  <2>5. regs' \in Seq(Routes)
    BY <2>1, RegsGrow DEF RoutesInv
  <2>6. ASSUME NEW t \in Tables PROVE IF IsStatic(t) THEN StaticOK(t)' ELSE RegexOK(t)'
    <3>1. CASE t # r.table
      BY <2>1, <2>4, <3>1, OtherTable
    <3>2. CASE t = r.table /\ IsStatic(t)
      <4>1. StaticOK(t)'
        BY <2>1, <2>2, <3>2, StaticRegistered
      <4>2. QED
        BY <3>2, <4>1
    <3>3. CASE t = r.table /\ ~IsStatic(t)
      <4>1. RegexOK(t)'
        BY <2>1, <2>2, <3>3, RegexRegistered
      <4>2. QED
        BY <3>3, <4>1
    <3>4. QED
      BY <3>1, <3>2, <3>3
  <2>7. QED
    BY <2>3, <2>5, <2>6 DEF RoutesInv, IsStatic
<1>2. ASSUME UNCHANGED <<tables, regs>> PROVE RoutesInv'
  BY <1>2 DEF RoutesInv, StaticOK, RegexOK, IsListing, RegsOf
<1>3. CASE Start \/ OnConnection \/ (\E m \in Messages : ClientSends(m)) \/ UNCHANGED vars
  BY <1>2, <1>3 DEF Start, OnConnection, ClientSends, vars, serverVars
<1>4. CASE LoopStep
  <2>1. UNCHANGED serverVars
    BY <1>4 DEF LoopStep, RequestStep, OnMessage, Parse, Refuse, RequestNotWhole,
           OnRequest, CorsBefore, UserBefore, RouteRequest, UserHandler,
           DefaultCallback, CorsAfterCalled, UserAfter, AftersDone, Send, CallBefore,
           CallHandler, CallAfter, onRequestUnchanged
  <2>2. QED
    BY <1>2, <2>1 DEF serverVars
<1>5. QED
  BY <1>1, <1>3, <1>4 DEF Next

LEMMA InitRoutes == Init => RoutesInv
<1> SUFFICES ASSUME Init PROVE RoutesInv
  OBVIOUS
<1>1. regs = <<>> /\ tables = NoRoutes
  BY DEF Init
<1>2. regs \in Seq(Routes) /\ DOMAIN regs = {}
  BY <1>1, EmptySeq
<1>3. DOMAIN tables = Tables /\ \A t \in Tables : tables[t] = <<>>
  BY <1>1 DEF NoRoutes, Tables
<1>4. \A t \in Tables : RegsOf(t) = {}
  BY <1>2 DEF RegsOf
<1>5. ASSUME NEW t \in Tables PROVE StaticOK(t)
  BY <1>3, <1>4 DEF StaticOK
<1>6. ASSUME NEW t \in Tables PROVE RegexOK(t)
  <2>1. tables[t] \in Seq(Entries) /\ Len(tables[t]) = 0
    BY <1>3, EmptySeq
  <2>2. IsListing([n \in 1..0 |-> n], t)
    BY <1>4, <2>1 DEF IsListing
  <2>3. QED
    BY <2>1, <2>2 DEF RegexOK
<1>7. QED
  BY <1>2, <1>3, <1>5, <1>6 DEF RoutesInv
\* A static route fits the requests of its key.
LEMMA StaticFits ==
    ASSUME NEW r \in Routes, IsStatic(r.table), NEW m, NEW path \in Seq(STRING)
    PROVE  Fits(r, m, path) <=> KeyOf(r) = RouteKey(m, path)
<1>1. r.path \in Seq(STRING)
  BY RoutesType
<1>2. /\ DOMAIN r.path = 1..Len(r.path) /\ Len(r.path) \in Nat
      /\ DOMAIN path = 1..Len(path) /\ Len(path) \in Nat
  BY <1>1, LenProperties
<1>3. Fits(r, m, path) => r.path = path
  <2>1. SUFFICES ASSUME Fits(r, m, path) PROVE r.path = path
    OBVIOUS
  <2>2. Len(r.path) = Len(path) /\ \A i \in 1..Len(r.path) : r.path[i] = path[i]
    BY <1>2, <2>1 DEF Fits
  <2>3. QED
    BY <1>1, <2>2, SeqEqual
<1>4. QED
  BY <1>3 DEF Fits, KeyOf, RouteKey

\* A pattern fits the requests its expression matches.
LEMMA RegexFits ==
    ASSUME NEW r \in Routes, ~IsStatic(r.table), NEW m, NEW path \in Seq(STRING)
    PROVE  Fits(r, m, path)
             <=> EntryOf(r).method = m /\ RegexMatch(path, EntryOf(r).pattern)
<1> DEFINE pattern == ConvertToRegex(r.path)
<1>1. r.path \in Seq(STRING)
  BY RoutesType
<1>2. /\ DOMAIN r.path = 1..Len(r.path) /\ Len(r.path) \in Nat
      /\ DOMAIN path = 1..Len(path) /\ Len(path) \in Nat
  BY <1>1, LenProperties
<1>3. /\ DOMAIN pattern = 1..Len(r.path)
      /\ \A i \in 1..Len(r.path) :
            pattern[i] = IF r.path[i] \in Parameters THEN AnySegment ELSE r.path[i]
  BY <1>2 DEF ConvertToRegex
<1>4. Len(pattern) = Len(r.path)
  BY <1>2 DEF ConvertToRegex
<1> HIDE DEF pattern
<1>5. EntryOf(r).method = r.method /\ EntryOf(r).pattern = pattern
  BY DEF EntryOf, pattern
<1>6. ASSUME Len(path) = Len(r.path), NEW i \in DOMAIN path
      PROVE  IF r.path[i] \in Parameters \cup {AnySegment}
             THEN path[i] # "" <=> (pattern[i] = path[i] \/ Captures(pattern[i], path[i]))
             ELSE r.path[i] = path[i]
                    <=> (pattern[i] = path[i] \/ Captures(pattern[i], path[i]))
  <2>1. pattern[i] = IF r.path[i] \in Parameters THEN AnySegment ELSE r.path[i]
    BY <1>2, <1>3, <1>6
  <2>2. AnySegment # ""
    BY DEF AnySegment
  <2>3. CASE r.path[i] \in Parameters \cup {AnySegment}
    <3>1. pattern[i] = AnySegment
      BY <2>1, <2>3
    <3>2. path[i] # "" <=> (pattern[i] = path[i] \/ Captures(pattern[i], path[i]))
      BY <2>2, <3>1 DEF Captures
    <3>3. QED
      BY <2>3, <3>2
  <2>4. CASE r.path[i] \notin Parameters \cup {AnySegment}
    <3>1. pattern[i] = r.path[i] /\ pattern[i] # AnySegment
      BY <2>1, <2>4
    <3>2. r.path[i] = path[i] <=> (pattern[i] = path[i] \/ Captures(pattern[i], path[i]))
      BY <3>1 DEF Captures
    <3>3. QED
      BY <2>4, <3>2
  <2>5. QED
    BY <2>3, <2>4
<1>7. QED
  BY <1>4, <1>5, <1>6 DEF Fits, RegexMatch

\* What a static table says of a request is what its routes promise.
LEMMA StaticLookup ==
    ASSUME RoutesInv, NEW t \in Tables, IsStatic(t), NEW m, NEW path \in Seq(STRING)
    PROVE  LET key == RouteKey(m, path)
               C   == Candidates(t, m, path)
           IN  /\ key \in DOMAIN tables[t] <=> C # {}
               /\ C # {} => tables[t][key] = regs[Best(t, C)].to
<1> DEFINE key == RouteKey(m, path)
           C   == Candidates(t, m, path)
<1>1. StaticOK(t)
  BY DEF RoutesInv
<1>2. RegsOf(t) \subseteq Nat /\ \A i \in RegsOf(t) : regs[i] \in Routes /\ regs[i].table = t
  BY LenProperties, ElementOfSeq DEF RegsOf, RoutesInv
<1>3. C = {i \in RegsOf(t) : KeyOf(regs[i]) = key}
  <2>1. C = {i \in RegsOf(t) : Fits(regs[i], m, path)}
    BY DEF Candidates, RegsOf
  <2>2. \A i \in RegsOf(t) : Fits(regs[i], m, path) <=> KeyOf(regs[i]) = key
    BY <1>2, StaticFits
  <2>3. QED
    BY <2>1, <2>2
<1> HIDE DEF key, C
<1>4. C # {} => key \in DOMAIN tables[t]
  BY <1>1, <1>3 DEF StaticOK
<1>5. ASSUME key \in DOMAIN tables[t]
      PROVE  C # {} /\ tables[t][key] = regs[Best(t, C)].to
  <2>1. PICK i \in RegsOf(t) :
           /\ KeyOf(regs[i]) = key /\ tables[t][key] = regs[i].to
           /\ \A j \in RegsOf(t) : KeyOf(regs[j]) = key => j <= i
    BY <1>1, <1>5 DEF StaticOK
  <2>2. i \in C /\ C \subseteq Nat /\ \A j \in C : j <= i
    BY <1>2, <1>3, <2>1
  <2>3. Newest(C) \in C /\ \A j \in C : j <= Newest(C)
    BY <2>2 DEF Newest
  <2>4. Newest(C) = i
    <3>1. Newest(C) \in Nat /\ i \in Nat
      BY <2>2, <2>3
    <3>2. i <= Newest(C) /\ Newest(C) <= i
      BY <2>2, <2>3
    <3>3. QED
      BY <3>1, <3>2
  <2>5. Best(t, C) = i
    BY <2>4 DEF Best
  <2>6. QED
    BY <2>1, <2>2, <2>5
<1>6. QED
  BY <1>4, <1>5 DEF key, C

\* The first entry of a list of patterns that matches is of the route registered first.
LEMMA RegexLookup ==
    ASSUME RoutesInv, NEW t \in Tables, ~IsStatic(t), NEW m, NEW path \in Seq(STRING)
    PROVE  LET M == Matching(tables[t], m, path)
               C == Candidates(t, m, path)
           IN  /\ M # {} <=> C # {}
               /\ C # {} => ChosenIn(tables[t], m, path).to = regs[Best(t, C)].to
<1> DEFINE M == Matching(tables[t], m, path)
           C == Candidates(t, m, path)
           N == Len(tables[t])
<1>1. tables[t] \in Seq(Entries) /\ \E f : IsListing(f, t)
  BY DEF RoutesInv, RegexOK
<1>2. PICK f : IsListing(f, t)
  BY <1>1
<1>3. N \in Nat /\ DOMAIN tables[t] = 1..N
  BY <1>1, LenProperties
<1>4. /\ f \in [1..N -> RegsOf(t)]
      /\ \A n1, n2 \in 1..N : n1 < n2 => f[n1] < f[n2]
      /\ \A i \in RegsOf(t) : \E n \in 1..N : f[n] = i
      /\ \A n \in 1..N : tables[t][n] = EntryOf(regs[f[n]])
  BY <1>2 DEF IsListing
<1>5. RegsOf(t) \subseteq Nat /\ \A i \in RegsOf(t) : regs[i] \in Routes /\ regs[i].table = t
  BY LenProperties, ElementOfSeq DEF RegsOf, RoutesInv
<1>6. C = {i \in RegsOf(t) : Fits(regs[i], m, path)}
  BY DEF Candidates, RegsOf
<1>7. M = {n \in 1..N : /\ tables[t][n].method = m
                        /\ RegexMatch(path, tables[t][n].pattern)}
  BY <1>3 DEF Matching
<1>8. ASSUME NEW n \in 1..N PROVE n \in M <=> f[n] \in C
  <2>1. f[n] \in RegsOf(t) /\ tables[t][n] = EntryOf(regs[f[n]])
    BY <1>4
  <2>2. Fits(regs[f[n]], m, path)
          <=> tables[t][n].method = m /\ RegexMatch(path, tables[t][n].pattern)
    BY <1>5, <2>1, RegexFits
  <2> HIDE DEF M, C, N
  <2>3. QED
    BY <1>6, <1>7, <2>1, <2>2
<1>9. M \subseteq 1..N /\ C \subseteq RegsOf(t)
  BY <1>6, <1>7
<1> HIDE DEF M, C, N
<1>10. ASSUME NEW i \in C PROVE \E n \in M : f[n] = i
  BY <1>4, <1>8, <1>9
<1>11. M # {} <=> C # {}
  BY <1>8, <1>9, <1>10
<1>12. ASSUME C # {} PROVE ChosenIn(tables[t], m, path).to = regs[Best(t, C)].to
  <2>1. M # {} /\ M \in SUBSET Nat
    BY <1>3, <1>9, <1>11, <1>12
  <2>2. First(M) \in M /\ \A k \in M : First(M) <= k
    BY <2>1, SmallestOf DEF First
  <2>3. f[First(M)] \in C /\ C \subseteq Nat
    BY <1>5, <1>8, <1>9, <2>2
  <2>4. ASSUME NEW i \in C PROVE f[First(M)] <= i
    <3>1. PICK n \in M : f[n] = i
      BY <1>10
    <3>2. First(M) \in 1..N /\ n \in 1..N /\ First(M) <= n
      BY <1>9, <2>2
    <3>3. First(M) = n \/ First(M) < n
      BY <1>3, <3>2
    <3>4. f[First(M)] \in Nat
      BY <2>3
    <3>5. CASE First(M) = n
      BY <3>1, <3>4, <3>5
    <3>6. CASE First(M) < n
      <4>1. f[First(M)] < f[n]
        BY <1>4, <3>2, <3>6
      <4>2. f[n] \in Nat
        BY <2>3, <3>1
      <4>3. QED
        BY <3>1, <3>4, <4>1, <4>2
    <3>7. QED
      BY <3>3, <3>5, <3>6
  <2>5. First(C) \in C /\ \A i \in C : First(C) <= i
    BY <2>3, <2>4 DEF First
  <2>6. First(C) = f[First(M)]
    <3>1. First(C) \in Nat /\ f[First(M)] \in Nat
      BY <2>3, <2>5
    <3>2. First(C) <= f[First(M)] /\ f[First(M)] <= First(C)
      BY <2>3, <2>4, <2>5
    <3>3. QED
      BY <3>1, <3>2
  <2>7. tables[t][First(M)] = EntryOf(regs[First(C)])
    BY <1>4, <1>9, <2>2, <2>6
  <2>8. Best(t, C) = First(C)
    BY DEF Best
  <2>9. QED
    BY <2>7, <2>8 DEF ChosenIn, Chosen, EntryOf, M
<1>13. QED
  BY <1>11, <1>12 DEF M, C

\* route() finds what was registered.
LEMMA RouteWanted ==
    ASSUME RoutesInv, NEW m, NEW path \in Seq(STRING)
    PROVE  Route(m, path).to = Wanted(m, path)
<1> DEFINE C(n) == Candidates(Priority[n], m, path)
           met  == {n \in 1..4 : C(n) # {}}
           to(n) == regs[Best(Priority[n], C(n))].to
           key  == RouteKey(m, path)
<1>1. /\ Priority[1] = "staticCallbacks" /\ Priority[2] = "staticHandlers"
      /\ Priority[3] = "regexCallbacks" /\ Priority[4] = "regexHandlers"
  BY DEF Priority
<1>2. /\ IsStatic(Priority[1]) /\ IsStatic(Priority[2])
      /\ ~IsStatic(Priority[3]) /\ ~IsStatic(Priority[4])
      /\ \A n \in 1..4 : Priority[n] \in Tables
  <2>1. \A n \in 1..4 : n \in {1, 2, 3, 4}
    OBVIOUS
  <2>2. QED
    BY <1>1, <2>1 DEF IsStatic, Tables
<1> HIDE DEF C
<1>3. /\ key \in DOMAIN tables.staticCallbacks <=> C(1) # {}
      /\ C(1) # {} => tables.staticCallbacks[key] = to(1)
  BY <1>1, <1>2, StaticLookup DEF C
<1>4. /\ key \in DOMAIN tables.staticHandlers <=> C(2) # {}
      /\ C(2) # {} => tables.staticHandlers[key] = to(2)
  BY <1>1, <1>2, StaticLookup DEF C
<1>5. /\ Matching(tables.regexCallbacks, m, path) # {} <=> C(3) # {}
      /\ C(3) # {} => ChosenIn(tables.regexCallbacks, m, path).to = to(3)
  <2>1. Priority[3] \in Tables /\ ~IsStatic(Priority[3])
    BY <1>2
  <2>2. /\ Matching(tables[Priority[3]], m, path) # {} <=> C(3) # {}
        /\ C(3) # {} => ChosenIn(tables[Priority[3]], m, path).to = to(3)
    BY <2>1, RegexLookup DEF C
  <2> HIDE DEF to
  <2>3. QED
    BY <1>1, <2>2
<1>6. /\ Matching(tables.regexHandlers, m, path) # {} <=> C(4) # {}
      /\ C(4) # {} => ChosenIn(tables.regexHandlers, m, path).to = to(4)
  <2>1. Priority[4] \in Tables /\ ~IsStatic(Priority[4])
    BY <1>2
  <2>2. /\ Matching(tables[Priority[4]], m, path) # {} <=> C(4) # {}
        /\ C(4) # {} => ChosenIn(tables[Priority[4]], m, path).to = to(4)
    BY <2>1, RegexLookup DEF C
  <2> HIDE DEF to
  <2>3. QED
    BY <1>1, <2>2
<1>7. Wanted(m, path) = IF met = {} THEN Fallback ELSE to(First(met))
  BY DEF Wanted, C
<1>8. Route(m, path).to =
        IF C(1) # {} THEN to(1) ELSE IF C(2) # {} THEN to(2)
        ELSE IF C(3) # {} THEN to(3) ELSE IF C(4) # {} THEN to(4) ELSE Fallback
  <2> HIDE DEF to, key
  <2>1. QED
    BY <1>3, <1>4, <1>5, <1>6 DEF Route, Chosen, key
<1> HIDE DEF to
<1>9. ASSUME NEW n \in 1..4, C(n) # {}, \A k \in 1..4 : k < n => C(k) = {}
      PROVE  met # {} /\ First(met) = n
  <2>1. n \in met /\ met \subseteq Nat /\ \A k \in met : n <= k
    BY <1>9
  <2> HIDE DEF met
  <2>2. First(met) \in met /\ \A k \in met : First(met) <= k
    BY <2>1 DEF First
  <2>3. First(met) \in Nat /\ n \in Nat /\ First(met) <= n /\ n <= First(met)
    BY <2>1, <2>2
  <2>4. First(met) = n
    BY <2>3
  <2>5. QED
    BY <2>1, <2>4
<1>10. CASE C(1) # {}
  <2>1. met # {} /\ First(met) = 1
    BY <1>9, <1>10
  <2> HIDE DEF met
  <2>2. QED
    BY <1>7, <1>8, <1>10, <2>1
<1>11. CASE C(1) = {} /\ C(2) # {}
  <2>1. \A k \in 1..4 : k < 2 => k = 1
    OBVIOUS
  <2>2. met # {} /\ First(met) = 2
    BY <1>9, <1>11, <2>1
  <2> HIDE DEF met
  <2>3. QED
    BY <1>7, <1>8, <1>11, <2>2
<1>12. CASE C(1) = {} /\ C(2) = {} /\ C(3) # {}
  <2>1. \A k \in 1..4 : k < 3 => k \in {1, 2}
    OBVIOUS
  <2>2. met # {} /\ First(met) = 3
    BY <1>9, <1>12, <2>1
  <2> HIDE DEF met
  <2>3. QED
    BY <1>7, <1>8, <1>12, <2>2
<1>13. CASE C(1) = {} /\ C(2) = {} /\ C(3) = {} /\ C(4) # {}
  <2>1. \A k \in 1..4 : k < 4 => k \in {1, 2, 3}
    OBVIOUS
  <2>2. met # {} /\ First(met) = 4
    BY <1>9, <1>13, <2>1
  <2> HIDE DEF met
  <2>3. QED
    BY <1>7, <1>8, <1>13, <2>2
<1>14. CASE C(1) = {} /\ C(2) = {} /\ C(3) = {} /\ C(4) = {}
  <2>1. \A k \in 1..4 : k \in {1, 2, 3, 4}
    OBVIOUS
  <2>2. met = {}
    BY <1>14, <2>1
  <2> HIDE DEF met
  <2>3. QED
    BY <1>7, <1>8, <1>14, <2>2
<1>15. QED
  BY <1>10, <1>11, <1>12, <1>13, <1>14

\* No step between route() and the handler changes what is wanted.
LEMMA StepRouted ==
    TypeInv /\ RoutesInv /\ RoutedAsRegistered /\ [Next]_vars => RoutedAsRegistered'
<1> SUFFICES ASSUME TypeInv, RoutesInv, RoutedAsRegistered, [Next]_vars
             PROVE  RoutedAsRegistered'
  OBVIOUS
<1>1. ASSUME UNCHANGED <<tables, regs, request, routed>>, pc' = "handle" => pc = "handle"
      PROVE  RoutedAsRegistered'
  <2>1. \A t, m, path : Candidates(t, m, path)' = Candidates(t, m, path)
    BY <1>1 DEF Candidates
  <2>2. Wanted(request.method, request.path)' = Wanted(request.method, request.path)
    BY <1>1, <2>1 DEF Wanted
  <2>3. QED
    BY <1>1, <2>2 DEF RoutedAsRegistered
<1>2. CASE RouteRequest
  <2>1. request.path \in Seq(STRING)
    BY DEF TypeInv, RequestType
  <2>2. Route(request.method, request.path).to = Wanted(request.method, request.path)
    BY <2>1, RouteWanted
  <2>3. UNCHANGED <<tables, regs, request>>
    BY <1>2 DEF RouteRequest, onRequestUnchanged, serverVars
  <2>4. routed' = Route(request.method, request.path)
    BY <1>2 DEF RouteRequest
  <2>5. Wanted(request.method, request.path)' = Wanted(request.method, request.path)
    BY <2>3 DEF Wanted, Candidates
  <2>6. QED
    BY <2>2, <2>4, <2>5 DEF RoutedAsRegistered
<1>3. CASE (\E m \in Messages : ClientSends(m)) \/ UNCHANGED vars
  BY <1>1, <1>3 DEF ClientSends, vars, serverVars, contextVars, requestVars
<1>4. CASE RequestStep /\ ~RouteRequest
  <2>1. pc' # "handle"
    <3>1. CASE OnRequest \/ AftersDone \/ Send
      BY <3>1 DEF OnRequest, AftersDone, Send
    <3>2. CASE CorsBefore \/ UserBefore
      BY <3>2 DEF CorsBefore, UserBefore, CallBefore, BeforeReturns, Throw,
             ThrowException, ThrowResponse, ThrowOther
    <3>3. CASE UserHandler \/ DefaultCallback
      BY <3>3 DEF UserHandler, DefaultCallback, Answered, Throw, ThrowResponse, ThrowOther
    <3>4. CASE CorsAfterCalled \/ UserAfter
      BY <3>4 DEF CorsAfterCalled, UserAfter, CallAfter, Throw, ThrowResponse, ThrowOther
    <3>5. QED
      BY <1>4, <3>1, <3>2, <3>3, <3>4 DEF RequestStep
  <2>2. QED
    BY <2>1 DEF RoutedAsRegistered
<1>5. CASE (\E r \in Routes : Register(r)) \/ Start \/ OnConnection
  BY <1>5 DEF Register, Start, OnConnection, contextVars, RoutedAsRegistered
<1>6. CASE (\E n \in 1..Len(wire) : OnMessage(n)) \/ Refuse \/ RequestNotWhole
  BY <1>6 DEF OnMessage, Refuse, RequestNotWhole, RoutedAsRegistered
<1>7. CASE Parse
  <2>1. pc' \in {"parse", "parsed", "refused", "aborted"}
    BY <1>7, ParseTyped DEF Parse
  <2>2. QED
    BY <2>1 DEF RoutedAsRegistered
<1>8. QED
  BY <1>2, <1>3, <1>4, <1>5, <1>6, <1>7 DEF Next, LoopStep

\* The tables in every state.
LEMMA RoutesInvariant == Spec => []RoutesInv
BY InitRoutes, StepRoutes, PTL DEF Spec

\* RoutedAsRegistered in every state: whatever was registered, in any order and
\* with any paths, the handler route() gives a request is the one its comment
\* promises: static before pattern, callback before handler, the last registered
\* of static routes, the first of patterns.
THEOREM RoutesAlwaysHonoured == Spec => []RoutedAsRegistered
<1>1. Init => RoutedAsRegistered
  BY DEF Init, RoutedAsRegistered
<1>2. QED
  BY <1>1, StepRouted, TypeInvariant, RoutesInvariant, PTL DEF Spec

-----------------------------------------------------------------------------
(* Of the values that a query or the headers give a key the last counts.   *)

\* What a sequence of pairs, of which only those of s are looked at, makes of keys.
KeysIn(q, s) == {q[i][1] : i \in s}

IsLast(q, k, s, i) == /\ i \in s /\ q[i][1] = k
                      /\ \A j \in s : j > i => q[j][1] # k

LastPlace(q, k, s) == CHOOSE i : IsLast(q, k, s, i)

LastIn(q, s) == [k \in KeysIn(q, s) |-> q[LastPlace(q, k, s)][2]]

\* FoldLeft's recursive function, over the sets of indices.
Folding(q, g) ==
  g = [s \in SUBSET DOMAIN q |->
         IF s = {} THEN <<>> ELSE Put(g[s \ {Max(s)}], q[Max(s)][1], q[Max(s)][2])]

LEMMA FoldDef ==
  ASSUME NEW req, NEW q, req.queryParameters = <<>>
  PROVE SetQueryParameters(req, q)
          = [req EXCEPT !.queryParameters = (CHOOSE g : Folding(q, g))[DOMAIN q]]
BY DEF SetQueryParameters, FoldLeft, MapThenFoldSet, Folding

\* A set of indices has a greatest.
LEMMA MaxOf ==
  ASSUME NEW n \in Nat, NEW s \in SUBSET (1..n), s # {}
  PROVE  Max(s) \in s /\ \A i \in s : i <= Max(s)
<1> DEFINE T == {n - i : i \in s}
<1>1. PICK m \in T : \A k \in T : m <= k
  <2>1. \A i \in s : i \in 1..n /\ n - i \in Nat
    OBVIOUS
  <2>2. T \in SUBSET Nat /\ T # {}
    BY <2>1
  <2> HIDE DEF T
  <2>3. QED
    BY <2>2, SmallestOf
<1>2. PICK x \in s : m = n - x
  OBVIOUS
<1>3. \A i \in s : n - x <= n - i
  BY <1>1, <1>2
<1>4. \A i \in s : x >= i
  BY <1>3
<1>5. QED
  BY <1>4 DEF Max

\* The last of the indices of a key.
LEMMA LastIs ==
  ASSUME NEW q, NEW n \in Nat, NEW s \in SUBSET (1..n), NEW k \in KeysIn(q, s)
  PROVE  /\ IsLast(q, k, s, LastPlace(q, k, s))
         /\ \A i : IsLast(q, k, s, i) => i = LastPlace(q, k, s)
<1> DEFINE T == {i \in s : q[i][1] = k}
<1>1. T \in SUBSET (1..n) /\ T # {}
  BY DEF KeysIn
<1>2. Max(T) \in T /\ \A i \in T : i <= Max(T)
  <2> HIDE DEF T
  <2>1. QED
    BY <1>1, MaxOf
<1>3. PICK m : m = Max(T)
  OBVIOUS
<1>4. IsLast(q, k, s, m)
  <2>1. m \in s /\ q[m][1] = k
    BY <1>2, <1>3
  <2>2. ASSUME NEW j \in s, j > m, q[j][1] = k PROVE FALSE
    <3>1. j \in T /\ j \in Nat /\ m \in Nat
      BY <1>1, <2>1, <2>2
    <3>2. j <= m
      BY <1>2, <1>3, <3>1
    <3>3. QED
      BY <2>2, <3>1, <3>2
  <2>3. QED
    BY <2>1, <2>2 DEF IsLast
<1>5. IsLast(q, k, s, LastPlace(q, k, s))
  BY <1>4 DEF LastPlace
<1>6. ASSUME NEW i, NEW l, IsLast(q, k, s, i), IsLast(q, k, s, l) PROVE i = l
  <2>1. i \in Nat /\ l \in Nat /\ ~(i > l) /\ ~(l > i)
    BY <1>6 DEF IsLast
  <2>2. QED
    BY <2>1
<1>7. QED
  BY <1>5, <1>6

\* Looking at one more pair is putting it.
LEMMA LastPut ==
  ASSUME NEW q, NEW n \in Nat, NEW s \in SUBSET (1..n), NEW m \in 1..n,
         \A i \in s : i < m
  PROVE  LastIn(q, s \cup {m}) = Put(LastIn(q, s), q[m][1], q[m][2])
<1> DEFINE t == s \cup {m}
           p == Put(LastIn(q, s), q[m][1], q[m][2])
<1>1. KeysIn(q, t) = KeysIn(q, s) \cup {q[m][1]}
  BY DEF KeysIn
<1>2. p = [k \in KeysIn(q, s) \cup {q[m][1]} |->
             IF k = q[m][1] THEN q[m][2] ELSE q[LastPlace(q, k, s)][2]]
  BY DEF Put, LastIn
<1>3. t \in SUBSET (1..n)
  OBVIOUS
<1>4. LastPlace(q, q[m][1], t) = m
  <2>1. m \in t /\ \A j \in t : ~(j > m)
    OBVIOUS
  <2>2. IsLast(q, q[m][1], t, m)
    BY <2>1 DEF IsLast
  <2> HIDE DEF t
  <2>3. QED
    BY <1>1, <1>3, <2>2, LastIs
<1>5. ASSUME NEW k \in KeysIn(q, s), k # q[m][1] PROVE LastPlace(q, k, t) = LastPlace(q, k, s)
  <2>1. IsLast(q, k, s, LastPlace(q, k, s))
    BY LastIs
  <2>2. IsLast(q, k, t, LastPlace(q, k, s))
    BY <1>5, <2>1 DEF IsLast
  <2> HIDE DEF t
  <2>3. QED
    BY <1>1, <1>3, <2>2, LastIs
<1> HIDE DEF t
<1>6. \A k \in KeysIn(q, s) \cup {q[m][1]} :
         q[LastPlace(q, k, t)][2] = IF k = q[m][1] THEN q[m][2] ELSE q[LastPlace(q, k, s)][2]
  BY <1>4, <1>5
<1>7. LastIn(q, t) = [k \in KeysIn(q, s) \cup {q[m][1]} |-> q[LastPlace(q, k, t)][2]]
  BY <1>1 DEF LastIn
<1>8. QED
  BY <1>2, <1>6, <1>7 DEF t

LEMMA LastOfNone == ASSUME NEW q PROVE LastIn(q, {}) = <<>>
<1> DEFINE f == LastIn(q, {})
<1>1. f = [k \in {} |-> q[LastPlace(q, k, {})][2]]
  BY DEF LastIn, KeysIn
<1>2. f \in [1..0 -> {}]
  <2>1. 1..0 = {}
    OBVIOUS
  <2> HIDE DEF f
  <2>2. DOMAIN f = {} /\ f = [k \in DOMAIN f |-> f[k]]
    BY <1>1
  <2>3. QED
    BY <2>1, <2>2
<1>3. f \in Seq({}) /\ Len(f) = 0
  <2> HIDE DEF f
  <2>1. QED
    BY <1>2
<1>4. QED
  BY <1>3, EmptySeq

\* SetQueryParameters() leaves each key its last value.
LEMMA QueryIs ==
  ASSUME NEW req, req.queryParameters = <<>>, NEW q \in Seq(STRING \X STRING)
  PROVE  SetQueryParameters(req, q) = [req EXCEPT !.queryParameters = LastIn(q, DOMAIN q)]
<1> DEFINE D == DOMAIN q
           g == [s \in SUBSET D |-> LastIn(q, s)]
<1>1. Len(q) \in Nat /\ D = 1..Len(q)
  BY LenProperties
<1> HIDE DEF D
<1>2. ASSUME NEW s \in SUBSET D, s # {}
      PROVE  /\ Max(s) \in s /\ s \ {Max(s)} \in SUBSET D
             /\ LastIn(q, s)
                  = Put(LastIn(q, s \ {Max(s)}), q[Max(s)][1], q[Max(s)][2])
  <2>1. PICK m : m = Max(s)
    OBVIOUS
  <2>2. m \in s /\ \A i \in s : i <= m
    BY <1>1, <1>2, <2>1, MaxOf
  <2>3. PICK r : r = s \ {m}
    OBVIOUS
  <2>4. r \in SUBSET (1..Len(q)) /\ m \in 1..Len(q) /\ s = r \cup {m}
        /\ \A i \in r : i < m
    BY <1>1, <2>2, <2>3
  <2>5. LastIn(q, r \cup {m}) = Put(LastIn(q, r), q[m][1], q[m][2])
    BY <1>1, <2>4, LastPut
  <2>6. QED
    BY <1>1, <2>1, <2>2, <2>3, <2>4, <2>5
<1>3. \A s \in SUBSET D :
         g[s] = IF s = {} THEN <<>>
                ELSE Put(g[s \ {Max(s)}], q[Max(s)][1], q[Max(s)][2])
  <2>1. TAKE s \in SUBSET D
  <2>2. CASE s = {}
    BY <2>2, LastOfNone
  <2>3. CASE s # {}
    <3>1. g[s \ {Max(s)}] = LastIn(q, s \ {Max(s)}) /\ g[s] = LastIn(q, s)
      BY <1>2, <2>3
    <3> HIDE DEF g
    <3>2. QED
      BY <1>2, <2>3, <3>1
  <2>4. QED
    BY <2>2, <2>3
<1>4. Folding(q, g)
  <2> DEFINE h == [s \in SUBSET D |->
         IF s = {} THEN <<>> ELSE Put(g[s \ {Max(s)}], q[Max(s)][1], q[Max(s)][2])]
  <2>1. \A s \in SUBSET D : g[s] = h[s]
    BY <1>3
  <2>2. g = [s \in SUBSET D |-> g[s]] /\ h = [s \in SUBSET D |-> h[s]]
    OBVIOUS
  <2>3. g = h
    <3> HIDE DEF g, h
    <3>1. QED
      BY <2>1, <2>2
  <2> HIDE DEF g
  <2>4. QED
    BY <2>3 DEF Folding, D
<1>5. PICK f : f = CHOOSE e : Folding(q, e)
  OBVIOUS
<1> HIDE DEF g
<1>6. Folding(q, f)
  BY <1>4, <1>5
<1>7. \A s \in SUBSET D :
         f[s] = IF s = {} THEN <<>>
                ELSE Put(f[s \ {Max(s)}], q[Max(s)][1], q[Max(s)][2])
  BY <1>6 DEF Folding, D
<1> DEFINE P(n) == \A s \in SUBSET D : (\A i \in s : i <= n) => f[s] = LastIn(q, s)
           Bad == {n \in Nat : ~P(n)}
<1>8. Bad = {}
  <2>1. SUFFICES ASSUME Bad # {} PROVE FALSE
    OBVIOUS
  <2>2. PICK n \in Bad : \A k \in Bad : n <= k
    <3>1. Bad \in SUBSET Nat
      OBVIOUS
    <3> HIDE DEF Bad
    <3>2. QED
      BY <2>1, <3>1, SmallestOf
  <2>3. PICK s \in SUBSET D : (\A i \in s : i <= n) /\ f[s] # LastIn(q, s)
    BY <2>2
  <2>4. CASE s = {}
    BY <1>7, <2>3, <2>4, LastOfNone
  <2>5. CASE s # {}
    <3>1. PICK m : m = Max(s)
      OBVIOUS
    <3>2. m \in s /\ \A i \in s : i <= m
      BY <1>1, <2>5, <3>1, MaxOf
    <3>3. m - 1 \in Nat /\ m - 1 < n
      BY <1>1, <2>2, <2>3, <3>2
    <3>4. P(m - 1)
      <4>1. m - 1 \notin Bad
        <5> HIDE DEF Bad
        <5>1. n \in Nat
          BY <2>2 DEF Bad
        <5>2. QED
          BY <2>2, <3>3, <5>1
      <4>2. QED
        BY <3>3, <4>1
    <3>5. PICK r : r = s \ {m}
      OBVIOUS
    <3>6. r \in SUBSET D /\ \A i \in r : i <= m - 1
      BY <1>1, <3>2, <3>5
    <3>7. f[r] = LastIn(q, r)
      BY <3>4, <3>6
    <3>8. f[s] = Put(f[r], q[m][1], q[m][2])
      BY <1>7, <2>5, <3>1, <3>5
    <3>9. LastIn(q, s) = Put(LastIn(q, r), q[m][1], q[m][2])
      BY <1>2, <2>5, <3>1, <3>5
    <3>10. QED
      BY <2>3, <3>7, <3>8, <3>9
  <2>6. QED
    BY <2>4, <2>5
<1>9. f[D] = LastIn(q, D)
  <2>1. P(Len(q))
    BY <1>1, <1>8
  <2>2. QED
    BY <1>1, <2>1
<1>10. QED
  BY <1>5, <1>9, FoldDef DEF D

\* LastOf() is LastIn() of all indices.
LEMMA LastOfIs ==
  ASSUME NEW T, NEW q \in Seq(T)
  PROVE  LastOf(q) = LastIn(q, 1..Len(q))
<1> DEFINE D == 1..Len(q)
<1>1. Len(q) \in Nat /\ DOMAIN q = D
  BY LenProperties
<1>2. ASSUME NEW k \in KeysIn(q, D)
      PROVE  (CHOOSE i \in DOMAIN q :
                 q[i][1] = k /\ \A j \in (i + 1)..Len(q) : q[j][1] # k) = LastPlace(q, k, D)
  <2> DEFINE P(i) == q[i][1] = k /\ \A j \in (i + 1)..Len(q) : q[j][1] # k
  <2>1. IsLast(q, k, D, LastPlace(q, k, D)) /\ \A i : IsLast(q, k, D, i) => i = LastPlace(q, k, D)
    BY <1>1, LastIs
  <2>2. \A i \in D : P(i) <=> IsLast(q, k, D, i)
    <3>1. TAKE i \in D
    <3>2. \A j : j \in (i + 1)..Len(q) <=> j \in D /\ j > i
      BY <1>1
    <3>3. QED
      BY <3>2 DEF IsLast
  <2>3. LastPlace(q, k, D) \in D /\ P(LastPlace(q, k, D))
    <3>1. LastPlace(q, k, D) \in D
      BY <2>1 DEF IsLast
    <3> HIDE DEF P
    <3>2. QED
      BY <2>1, <2>2, <3>1
  <2> HIDE DEF P
  <2>4. \A i \in D : P(i) => i = LastPlace(q, k, D)
    BY <2>1, <2>2
  <2>5. (CHOOSE i \in D : P(i)) = LastPlace(q, k, D)
    BY <2>3, <2>4
  <2>6. QED
    BY <1>1, <2>5 DEF P
<1>3. LastOf(q) = [k \in KeysIn(q, D) |->
         q[CHOOSE i \in DOMAIN q :
              q[i][1] = k /\ \A j \in (i + 1)..Len(q) : q[j][1] # k][2]]
  BY <1>1 DEF LastOf, KeysIn
<1>4. QED
  BY <1>2, <1>3 DEF LastIn

-----------------------------------------------------------------------------
(* The stream: what has been read and what is on the wire.                 *)

Total == Len(input) + Len(wire)

At(x) == IF x <= Len(input) THEN input[x] ELSE wire[x - Len(input)]

\* c[i] is where in the stream the message i begins, counted from the first token
\* not yet consumed, and c[i + 1] where it ends.
Aligned(c) ==
    /\ c \in [1..(Len(sent) + 1) -> Int]
    /\ c[Len(sent) + 1] = Total
    /\ \A i \in 1..Len(sent) :
          /\ c[i + 1] = c[i] + Len(Tokens(sent[i]))
          /\ c[i + 1] <= Total
          /\ \A j \in 1..Len(Tokens(sent[i])) :
                c[i] + j >= 1 => At(c[i] + j) = Tokens(sent[i])[j]

StreamTypes == /\ input \in Seq(StreamToken) /\ wire \in Seq(StreamToken)
               /\ sent \in Seq(Messages)

\* What is where in a message.
LEMMA TokensAre ==
    ASSUME NEW m \in Messages
    PROVE  /\ Tokens(m) \in Seq(StreamToken)
           /\ Len(m.headers) \in Nat /\ Len(m.body) \in Nat
           /\ Len(Tokens(m)) = (2 * Len(m.headers) + 3) + Len(m.body)
           /\ Tokens(m)[1] = m.line /\ Tokens(m)[2] = CRLF
           /\ \A h \in 1..Len(m.headers) : /\ Tokens(m)[2 * h + 1] = m.headers[h]
                                           /\ Tokens(m)[2 * h + 2] = CRLF
           /\ Tokens(m)[2 * Len(m.headers) + 3] = CRLF
           /\ \A j \in 1..Len(m.body) : Tokens(m)[(2 * Len(m.headers) + 3) + j] = m.body[j]
<1> DEFINE hs == HeaderTokens(m.headers)
           first == <<m.line, CRLF>>
           last == <<CRLF>>
           n == Len(m.headers)
           b == m.body
           S == {m.line, CRLF, BodyByte} \cup ToSet(m.headers)
<1>1. /\ m.headers \in Seq([field : STRING, value : STRING])
      /\ b \in Seq({BodyByte, CRLF})
  BY MessagesType
<1>2. first \in Seq(S) /\ Len(first) = 2 /\ first[1] = m.line /\ first[2] = CRLF
  OBVIOUS
<1>3. last \in Seq(S) /\ Len(last) = 1 /\ last[1] = CRLF
  OBVIOUS
<1>4. b \in Seq(S) /\ Len(b) \in Nat
  BY <1>1, SeqMonotonic, LenProperties
<1>5. n \in Nat /\ \A i \in 1..n : m.headers[i] \in S
  <2>1. n \in Nat /\ DOMAIN m.headers = 1..n
    BY <1>1, LenProperties
  <2>2. \A i \in 1..n : m.headers[i] \in ToSet(m.headers)
    BY <2>1 DEF ToSet
  <2>3. QED
    BY <2>1, <2>2
<1>6. /\ hs \in Seq(S) /\ Len(hs) = 2 * n
      /\ \A i \in 1..(2 * n) :
            hs[i] = IF i % 2 = 1 THEN m.headers[(i + 1) \div 2] ELSE CRLF
  <2>1. 2 * n \in Nat
    BY <1>5
  <2>2. \A i \in 1..(2 * n) : i % 2 = 1 => (i + 1) \div 2 \in 1..n
    BY <1>5
  <2>3. hs = [i \in 1..(2 * n) |-> IF i % 2 = 1 THEN m.headers[(i + 1) \div 2] ELSE CRLF]
    BY DEF HeaderTokens
  <2>4. CRLF \in S
    OBVIOUS
  <2> HIDE DEF hs, S
  <2>5. hs \in [1..(2 * n) -> S]
    BY <1>5, <2>2, <2>3, <2>4
  <2>6. QED
    BY <2>1, <2>3, <2>5
<1>7. ASSUME NEW h \in 1..n
      PROVE  /\ 2 * h - 1 \in 1..(2 * n) /\ 2 * h \in 1..(2 * n)
             /\ hs[2 * h - 1] = m.headers[h] /\ hs[2 * h] = CRLF
  <2>1. 2 * h - 1 \in 1..(2 * n) /\ 2 * h \in 1..(2 * n)
    BY <1>5
  <2>2. (2 * h - 1) % 2 = 1 /\ ((2 * h - 1) + 1) \div 2 = h /\ (2 * h) % 2 # 1
    BY <1>5
  <2> HIDE DEF hs
  <2>3. QED
    BY <1>6, <2>1, <2>2
<1> HIDE DEF hs, first, last, S, b
<1> DEFINE fh == first \o hs
           fhl == fh \o last
           all == fhl \o b
<1>8. /\ fh \in Seq(S) /\ Len(fh) = 2 + 2 * n
      /\ \A i \in 1..(2 + 2 * n) : fh[i] = IF i <= 2 THEN first[i] ELSE hs[i - 2]
  <2>1. /\ fh \in Seq(S) /\ Len(fh) = Len(first) + Len(hs)
        /\ \A i \in 1..(Len(first) + Len(hs)) :
              fh[i] = IF i <= Len(first) THEN first[i] ELSE hs[i - Len(first)]
    BY <1>2, <1>6, ConcatProperties
  <2> HIDE DEF fh
  <2>2. QED
    BY <1>2, <1>6, <2>1
<1> HIDE DEF fh
<1>9. /\ fhl \in Seq(S) /\ Len(fhl) = 2 * n + 3
      /\ \A i \in 1..(2 * n + 3) : fhl[i] = IF i <= 2 + 2 * n THEN fh[i]
                                            ELSE last[i - (2 + 2 * n)]
  <2>1. /\ fhl \in Seq(S) /\ Len(fhl) = Len(fh) + Len(last)
        /\ \A i \in 1..(Len(fh) + Len(last)) :
              fhl[i] = IF i <= Len(fh) THEN fh[i] ELSE last[i - Len(fh)]
    BY <1>3, <1>8, ConcatProperties
  <2>2. (2 + 2 * n) + 1 = 2 * n + 3
    BY <1>5
  <2> HIDE DEF fhl
  <2>3. QED
    BY <1>3, <1>8, <2>1, <2>2
<1> HIDE DEF fhl
<1>10. /\ Len(all) = (2 * n + 3) + Len(b)
       /\ \A i \in 1..((2 * n + 3) + Len(b)) :
             all[i] = IF i <= 2 * n + 3 THEN fhl[i] ELSE b[i - (2 * n + 3)]
  <2>1. /\ Len(all) = Len(fhl) + Len(b)
        /\ \A i \in 1..(Len(fhl) + Len(b)) :
              all[i] = IF i <= Len(fhl) THEN fhl[i] ELSE b[i - Len(fhl)]
    BY <1>4, <1>9, ConcatProperties
  <2> HIDE DEF all
  <2>2. QED
    BY <1>9, <2>1
<1>11. Tokens(m) = all
  BY DEF Tokens, all, fhl, fh, first, hs, last, b
<1> HIDE DEF all
<1>12. ASSUME NEW i \in 1..(2 + 2 * n) PROVE all[i] = fh[i]
  <2>1. i \in 1..((2 * n + 3) + Len(b)) /\ i \in 1..(2 * n + 3) /\ i <= 2 * n + 3 /\ i <= 2 + 2 * n
    BY <1>4, <1>5
  <2>2. QED
    BY <1>9, <1>10, <2>1
<1>13. all[1] = m.line /\ all[2] = CRLF
  <2>1. 1 \in 1..(2 + 2 * n) /\ 2 \in 1..(2 + 2 * n)
    BY <1>5
  <2>2. QED
    BY <1>2, <1>8, <1>12, <2>1
<1>14. ASSUME NEW h \in 1..n PROVE all[2 * h + 1] = m.headers[h] /\ all[2 * h + 2] = CRLF
  <2>1. /\ 2 * h + 1 \in 1..(2 + 2 * n) /\ ~(2 * h + 1 <= 2) /\ (2 * h + 1) - 2 = 2 * h - 1
        /\ 2 * h + 2 \in 1..(2 + 2 * n) /\ ~(2 * h + 2 <= 2) /\ (2 * h + 2) - 2 = 2 * h
    BY <1>5
  <2>2. fh[2 * h + 1] = hs[2 * h - 1] /\ fh[2 * h + 2] = hs[2 * h]
    BY <1>8, <2>1
  <2>3. QED
    BY <1>7, <1>12, <2>1, <2>2
<1>15. all[2 * n + 3] = CRLF
  <2>1. /\ 2 * n + 3 \in 1..((2 * n + 3) + Len(b)) /\ 2 * n + 3 <= 2 * n + 3
        /\ 2 * n + 3 \in 1..(2 * n + 3) /\ ~(2 * n + 3 <= 2 + 2 * n)
        /\ (2 * n + 3) - (2 + 2 * n) = 1
    BY <1>4, <1>5
  <2>2. all[2 * n + 3] = fhl[2 * n + 3]
    BY <1>10, <2>1
  <2>3. fhl[2 * n + 3] = last[1]
    BY <1>9, <2>1
  <2>4. QED
    BY <1>3, <2>2, <2>3
<1>16. ASSUME NEW j \in 1..Len(b) PROVE all[(2 * n + 3) + j] = b[j]
  <2>1. /\ (2 * n + 3) + j \in 1..((2 * n + 3) + Len(b)) /\ ~((2 * n + 3) + j <= 2 * n + 3)
        /\ ((2 * n + 3) + j) - (2 * n + 3) = j
    BY <1>4, <1>5
  <2>2. QED
    BY <1>10, <2>1
<1>17. Tokens(m) \in Seq(StreamToken)
  BY TokensType
<1>18. QED
  BY <1>4, <1>5, <1>10, <1>11, <1>13, <1>14, <1>15, <1>16, <1>17 DEF n, b

\* What the client sends comes last.
LEMMA AlignedSend ==
    ASSUME StreamTypes, NEW c, Aligned(c), NEW m \in Messages,
           sent' = Append(sent, m), wire' = wire \o Tokens(m), UNCHANGED input
    PROVE  \E d : Aligned(d)' /\ \A i \in 1..(Len(sent) + 1) : d[i] = c[i]
<1> DEFINE N == Len(sent)
           L == Len(Tokens(m))
           D == [i \in 1..(N + 2) |-> IF i = N + 2 THEN Total + L ELSE c[i]]
<1>1. /\ N \in Nat /\ Len(input) \in Nat /\ Len(wire) \in Nat
      /\ Tokens(m) \in Seq(StreamToken) /\ L \in Nat
  BY TokensAre, LenProperties DEF StreamTypes
<1>2. /\ Len(sent') = N + 1 /\ sent'[N + 1] = m
      /\ \A i \in 1..N : sent'[i] = sent[i]
  BY AppendProperties DEF StreamTypes
<1>3. /\ Len(wire') = Len(wire) + L
      /\ \A i \in 1..Len(wire) : wire'[i] = wire[i]
      /\ \A j \in 1..L : wire'[Len(wire) + j] = Tokens(m)[j]
  <2> DEFINE w == wire \o Tokens(m)
  <2>1. /\ Len(w) = Len(wire) + L
        /\ \A i \in 1..(Len(wire) + L) :
              w[i] = IF i <= Len(wire) THEN wire[i] ELSE Tokens(m)[i - Len(wire)]
    BY <1>1, ConcatProperties DEF StreamTypes
  <2> HIDE DEF w, L
  <2>2. \A i \in 1..Len(wire) : i \in 1..(Len(wire) + L) /\ i <= Len(wire)
    BY <1>1
  <2>3. \A j \in 1..L : /\ Len(wire) + j \in 1..(Len(wire) + L)
                        /\ ~(Len(wire) + j <= Len(wire)) /\ (Len(wire) + j) - Len(wire) = j
    BY <1>1
  <2>4. w = wire'
    BY DEF w
  <2>5. QED
    BY <2>1, <2>2, <2>3, <2>4
<1> HIDE DEF N, L
<1>4. Total' = Total + L /\ Total \in Nat
  BY <1>1, <1>3 DEF Total
<1>5. \A x \in 1..Total : At(x)' = At(x)
  <2>1. TAKE x \in 1..Total
  <2>2. CASE x <= Len(input)
    BY <2>2 DEF At
  <2>3. CASE ~(x <= Len(input))
    <3>1. x - Len(input) \in 1..Len(wire)
      BY <1>1, <2>3 DEF Total
    <3>2. QED
      BY <1>3, <2>3, <3>1 DEF At
  <2>4. QED
    BY <2>2, <2>3
<1>6. \A j \in 1..L, x \in Int : x = Total + j => At(x)' = Tokens(m)[j]
  <2>1. TAKE j \in 1..L, x \in Int
  <2>2. HAVE x = Total + j
  <2>3. ~(x <= Len(input)) /\ x - Len(input) = Len(wire) + j
    BY <1>1, <2>2 DEF Total
  <2>4. At(x)' = Tokens(m)[j]
    BY <1>3, <2>3 DEF At
  <2>5. QED
    BY <2>4
<1>7. PICK d : d = D
  OBVIOUS
<1>8. /\ d \in [1..(N + 2) -> Int] /\ d[N + 2] = Total + L
      /\ \A i \in 1..(N + 1) : d[i] = c[i] /\ i + 1 \in 1..(N + 2)
  <2>1. Aligned(c)
    OBVIOUS
  <2>2. c \in [1..(N + 1) -> Int]
    BY DEF Aligned, N
  <2>3. \A i \in 1..(N + 2) : i = N + 2 \/ i \in 1..(N + 1)
    BY <1>1
  <2>4. \A i \in 1..(N + 1) : i \in 1..(N + 2) /\ i # N + 2
    BY <1>1
  <2>5. N + 2 \in 1..(N + 2) /\ Total + L \in Int
    BY <1>1, <1>4
  <2>6. \A i \in 1..(N + 1) : i + 1 \in 1..(N + 2)
    BY <1>1
  <2>7. QED
    BY <1>7, <2>2, <2>3, <2>4, <2>5, <2>6
<1>9. ASSUME NEW i \in 1..(N + 1)
      PROVE  /\ d[i + 1] = d[i] + Len(Tokens(sent'[i])) /\ d[i + 1] <= Total'
             /\ \A j \in 1..Len(Tokens(sent'[i])) :
                   d[i] + j >= 1 => At(d[i] + j)' = Tokens(sent'[i])[j]
  <2>1. CASE i = N + 1
    <3>1. d[i] = Total /\ d[i + 1] = Total + L
      <4>1. c[N + 1] = Total /\ i + 1 = N + 2
        BY <1>1, <2>1 DEF Aligned, N
      <4>2. QED
        BY <1>8, <2>1, <4>1
    <3>2. sent'[i] = m
      BY <1>2, <2>1
    <3>3. \A j \in 1..L : At(d[i] + j)' = Tokens(m)[j]
      <4>1. TAKE j \in 1..L
      <4>2. d[i] + j \in Int /\ d[i] + j = Total + j
        BY <1>1, <1>4, <3>1
      <4>3. QED
        BY <1>6, <4>2
    <3>4. QED
      BY <1>1, <1>4, <3>1, <3>2, <3>3 DEF L
  <2>2. CASE i \in 1..N
    <3>1. /\ c[i + 1] = c[i] + Len(Tokens(sent[i])) /\ c[i + 1] <= Total
          /\ \A j \in 1..Len(Tokens(sent[i])) :
                c[i] + j >= 1 => At(c[i] + j) = Tokens(sent[i])[j]
          /\ c[i] \in Int /\ c[i + 1] \in Int
      <4>1. i \in 1..(N + 1) /\ i + 1 \in 1..(N + 1)
        BY <1>1, <2>2
      <4>2. QED
        BY <2>2, <4>1 DEF Aligned, N
    <3>2. d[i] = c[i] /\ d[i + 1] = c[i + 1] /\ sent'[i] = sent[i]
      <4>1. i \in 1..(N + 1) /\ i + 1 \in 1..(N + 1)
        BY <1>1, <2>2
      <4>2. QED
        BY <1>2, <1>8, <2>2, <4>1
    <3>3. Len(Tokens(sent[i])) \in Nat
      BY <1>1, <2>2, ElementOfSeq, TokensAre, LenProperties DEF StreamTypes, N
    <3>4. ASSUME NEW j \in 1..Len(Tokens(sent[i])), c[i] + j >= 1
          PROVE  At(c[i] + j)' = Tokens(sent[i])[j]
      <4>1. PICK x : x = c[i] + j
        OBVIOUS
      <4>2. x \in 1..Total
        BY <1>4, <3>1, <3>3, <3>4, <4>1
      <4>3. At(x)' = At(x)
        BY <1>5, <4>2
      <4>4. QED
        BY <3>1, <3>4, <4>1, <4>3
    <3>5. d[i + 1] <= Total'
      BY <1>1, <1>4, <3>1, <3>2
    <3>6. QED
      BY <3>1, <3>2, <3>4, <3>5
  <2>3. i = N + 1 \/ i \in 1..N
    BY <1>1
  <2>4. QED
    BY <2>1, <2>2, <2>3
<1>10. Aligned(d)'
  <2>1. Len(sent') + 1 = N + 2 /\ 1..Len(sent') = 1..(N + 1)
    BY <1>1, <1>2
  <2>2. QED
    BY <1>4, <1>8, <1>9, <2>1 DEF Aligned
<1>11. QED
  BY <1>8, <1>10 DEF N

\* A message callback moves tokens from the wire to the buffer.
LEMMA AlignedRead ==
    ASSUME StreamTypes, NEW c, Aligned(c), NEW n \in 1..Len(wire), OnMessage(n)
    PROVE  Aligned(c)'
<1> DEFINE a == SubSeq(wire, 1, n)
           I == Len(input)
           W == Len(wire)
<1>1. I \in Nat /\ W \in Nat /\ n \in 1..W
  BY LenProperties DEF StreamTypes
<1>2. /\ a \in Seq(StreamToken) /\ Len(a) = n /\ \A x \in 1..n : a[x] = wire[x]
  <2>1. \A x \in 1..n : wire[x] \in StreamToken
    BY <1>1, ElementOfSeq DEF StreamTypes
  <2>2. a = [x \in 1..n |-> wire[x]]
    BY <1>1
  <2> HIDE DEF a
  <2>3. QED
    BY <1>1, <2>1, <2>2
<1>3. Len(wire') = W - n /\ \A x \in 1..(W - n) : wire'[x] = wire[x + n]
  <2>1. wire' = SubSeq(wire, n + 1, W)
    BY DEF OnMessage
  <2>2. wire' = [x \in 1..(W - n) |-> wire[x + n]]
    BY <1>1, <2>1
  <2>3. QED
    BY <1>1, <2>2
<1> HIDE DEF a
<1>4. /\ Len(input') = I + n
      /\ \A x \in 1..(I + n) : input'[x] = IF x <= I THEN input[x] ELSE wire[x - I]
  <2>1. input' = input \o a
    BY DEF OnMessage, a
  <2>2. /\ Len(input') = I + Len(a)
        /\ \A x \in 1..(I + Len(a)) : input'[x] = IF x <= I THEN input[x] ELSE a[x - I]
    BY <1>2, <2>1, ConcatProperties DEF StreamTypes
  <2>3. \A x \in 1..(I + n) : ~(x <= I) => x - I \in 1..n
    BY <1>1
  <2> HIDE DEF I
  <2>4. QED
    BY <1>2, <2>2, <2>3
<1>5. UNCHANGED sent
  BY DEF OnMessage
<1>6. Total' = Total
  BY <1>1, <1>3, <1>4 DEF Total
<1>7. ASSUME NEW x \in 1..Total PROVE At(x)' = At(x)
  <2>1. x \in 1..(I + W)
    BY DEF Total
  <2>2. CASE x <= I + n
    <3>1. x \in 1..(I + n)
      BY <1>1, <2>1, <2>2
    <3>2. At(x)' = input'[x]
      BY <1>4, <2>2 DEF At
    <3>3. QED
      BY <1>4, <3>1, <3>2 DEF At
  <2>3. CASE ~(x <= I + n)
    <3>1. ~(x <= I) /\ x - (I + n) \in 1..(W - n) /\ (x - (I + n)) + n = x - I
      BY <1>1, <2>1, <2>3
    <3>2. At(x)' = wire'[x - (I + n)]
      BY <1>4, <2>3 DEF At
    <3>3. At(x) = wire[x - I]
      BY <3>1 DEF At
    <3>4. QED
      BY <1>3, <3>1, <3>2, <3>3
  <2>4. QED
    BY <2>2, <2>3
<1> HIDE DEF I, W
<1>8. ASSUME NEW i \in 1..Len(sent), NEW j \in 1..Len(Tokens(sent[i])), c[i] + j >= 1
      PROVE  At(c[i] + j)' = Tokens(sent[i])[j]
  <2>1. Len(sent) \in Nat /\ Len(Tokens(sent[i])) \in Nat /\ Total \in Nat
    BY <1>1, <1>5, ElementOfSeq, TokensAre, LenProperties DEF StreamTypes, Total, I, W
  <2>2. /\ c[i] \in Int /\ c[i] + Len(Tokens(sent[i])) <= Total
        /\ At(c[i] + j) = Tokens(sent[i])[j]
    <3>1. /\ c[i + 1] = c[i] + Len(Tokens(sent[i])) /\ c[i + 1] <= Total
          /\ At(c[i] + j) = Tokens(sent[i])[j]
      BY <1>8 DEF Aligned
    <3>2. i \in 1..(Len(sent) + 1)
      BY <2>1
    <3>3. c[i] \in Int
      BY <3>2 DEF Aligned
    <3>4. QED
      BY <3>1, <3>3
  <2>3. c[i] + j \in 1..Total
    BY <1>8, <2>1, <2>2
  <2>4. QED
    BY <1>7, <2>2, <2>3
<1>9. QED
  BY <1>5, <1>6, <1>8 DEF Aligned

\* The parser consumes tokens.
LEMMA AlignedRetrieve ==
    ASSUME StreamTypes, NEW c, Aligned(c), NEW n \in 0..Len(input), Retrieve(n),
           UNCHANGED <<wire, sent>>
    PROVE  \E d : Aligned(d)' /\ \A i \in 1..(Len(sent) + 1) : d[i] = c[i] - n
<1> DEFINE I == Len(input)
           W == Len(wire)
           N == Len(sent)
<1>1. I \in Nat /\ W \in Nat /\ N \in Nat /\ n \in 0..I
  BY LenProperties DEF StreamTypes
<1>2. Len(input') = I - n /\ \A x \in 1..(I - n) : input'[x] = input[x + n]
  <2>1. input' = SubSeq(input, n + 1, I)
    BY DEF Retrieve
  <2>2. input' = [x \in 1..(I - n) |-> input[x + n]]
    BY <1>1, <2>1
  <2>3. QED
    BY <1>1, <2>2
<1>3. Total' = Total - n /\ Total \in Nat
  BY <1>1, <1>2 DEF Total
<1>4. ASSUME NEW x \in Int, x >= 1 PROVE At(x)' = At(x + n)
  <2>1. CASE x <= I - n
    <3>1. x \in 1..(I - n) /\ x + n <= I
      BY <1>1, <1>4, <2>1
    <3>2. QED
      BY <1>2, <2>1, <3>1 DEF At
  <2>2. CASE ~(x <= I - n)
    <3>1. ~(x + n <= I) /\ x - (I - n) = (x + n) - I
      BY <1>1, <1>4, <2>2
    <3>2. At(x)' = wire[x - (I - n)]
      BY <1>2, <2>2 DEF At
    <3>3. At(x + n) = wire[(x + n) - I]
      BY <3>1 DEF At
    <3>4. QED
      BY <3>1, <3>2, <3>3
  <2>3. QED
    BY <2>1, <2>2
<1>5. PICK d : d = [i \in 1..(N + 1) |-> c[i] - n]
  OBVIOUS
<1> HIDE DEF I, W
<1>6. /\ d \in [1..(N + 1) -> Int] /\ c \in [1..(N + 1) -> Int]
      /\ \A i \in 1..(N + 1) : d[i] = c[i] - n
  <2>1. c \in [1..(N + 1) -> Int]
    BY DEF Aligned
  <2>2. QED
    BY <1>1, <1>5, <2>1
<1>7. ASSUME NEW i \in 1..N
      PROVE  /\ d[i + 1] = d[i] + Len(Tokens(sent[i])) /\ d[i + 1] <= Total'
             /\ \A j \in 1..Len(Tokens(sent[i])) :
                   d[i] + j >= 1 => At(d[i] + j)' = Tokens(sent[i])[j]
  <2>1. /\ c[i + 1] = c[i] + Len(Tokens(sent[i])) /\ c[i + 1] <= Total
        /\ \A j \in 1..Len(Tokens(sent[i])) :
              c[i] + j >= 1 => At(c[i] + j) = Tokens(sent[i])[j]
    BY DEF Aligned
  <2>2. /\ c[i] \in Int /\ c[i + 1] \in Int
        /\ d[i] = c[i] - n /\ d[i + 1] = c[i + 1] - n
    <3>1. i \in 1..(N + 1) /\ i + 1 \in 1..(N + 1)
      BY <1>1
    <3>2. QED
      BY <1>6, <3>1
  <2>3. Len(Tokens(sent[i])) \in Nat
    BY <1>1, ElementOfSeq, TokensAre, LenProperties DEF StreamTypes
  <2>4. ASSUME NEW j \in 1..Len(Tokens(sent[i])), d[i] + j >= 1
        PROVE  At(d[i] + j)' = Tokens(sent[i])[j]
    <3>1. d[i] + j \in Int /\ (d[i] + j) + n = c[i] + j /\ c[i] + j >= 1
      <4>1. PICK x, y : x = c[i] /\ y = d[i]
        OBVIOUS
      <4>2. x \in Int /\ j \in Nat /\ n \in Nat /\ y = x - n
        BY <1>1, <2>2, <2>3, <4>1
      <4>3. y + j >= 1
        BY <2>4, <4>1
      <4>4. y + j \in Int /\ (y + j) + n = x + j /\ x + j >= 1
        BY <4>2, <4>3
      <4>5. QED
        BY <4>1, <4>4
    <3>2. At(d[i] + j)' = At((d[i] + j) + n)
      BY <1>4, <2>4, <3>1
    <3>3. QED
      BY <2>1, <3>1, <3>2
  <2>5. d[i + 1] = d[i] + Len(Tokens(sent[i])) /\ d[i + 1] <= Total'
    BY <1>1, <1>3, <2>1, <2>2, <2>3
  <2>6. QED
    BY <2>4, <2>5
<1>8. d[N + 1] = Total'
  <2>1. c[N + 1] = Total /\ N + 1 \in 1..(N + 1)
    BY <1>1 DEF Aligned
  <2>2. QED
    BY <1>3, <1>6, <2>1
<1>9. Aligned(d)'
  BY <1>6, <1>7, <1>8 DEF Aligned
<1>10. QED
  BY <1>6, <1>9

\* What is in the buffer while a message is being parsed is the rest of it.
LEMMA Facing ==
    ASSUME StreamTypes, NEW c, Aligned(c), NEW k \in 1..Len(sent), NEW p \in Nat,
           c[k] = 0 - p
    PROVE  /\ \A x \in 1..Len(input) :
                 p + x <= Len(Tokens(sent[k])) => input[x] = Tokens(sent[k])[p + x]
           /\ c[k + 1] = Len(Tokens(sent[k])) - p
<1>1. /\ Len(sent) \in Nat /\ Len(input) \in Nat /\ Len(Tokens(sent[k])) \in Nat
  BY ElementOfSeq, TokensAre, LenProperties DEF StreamTypes
<1>2. ASSUME NEW x \in 1..Len(input), p + x <= Len(Tokens(sent[k]))
      PROVE  input[x] = Tokens(sent[k])[p + x]
  <2>1. p + x \in 1..Len(Tokens(sent[k])) /\ c[k] + (p + x) = x /\ x >= 1 /\ x <= Len(input)
    BY <1>1, <1>2
  <2>2. At(x) = Tokens(sent[k])[p + x]
    BY <2>1 DEF Aligned
  <2>3. QED
    BY <2>1, <2>2 DEF At
<1>3. c[k + 1] = Len(Tokens(sent[k])) - p
  BY <1>1 DEF Aligned
<1>4. QED
  BY <1>2, <1>3

\* With all messages consumed nothing is in the buffer.
LEMMA NothingLeft ==
    ASSUME StreamTypes, NEW c, Aligned(c), c[Len(sent) + 1] = 0
    PROVE  Len(input) = 0 /\ CrlfAt = 0
<1>1. Len(input) = 0
  BY LenProperties DEF StreamTypes, Aligned, Total
<1>2. CrlfAt \in 0..0
  BY <1>1, CrlfFound DEF StreamTypes
<1>3. QED
  BY <1>1, <1>2

\* A line is the tokens before the first CRLF.
LEMMA LineFound ==
    ASSUME input \in Seq(StreamToken), CrlfAt # 0
    PROVE  /\ Len(input) >= 1
           /\ input[1] = CRLF => CrlfAt = 1 /\ Line = <<>>
           /\ input[1] # CRLF /\ (2 <= Len(input) => input[2] = CRLF)
                => Len(input) >= 2 /\ CrlfAt = 2 /\ Line = <<input[1]>>
<1>1. /\ CrlfAt \in 1..Len(input) /\ input[CrlfAt] = CRLF /\ Len(input) \in Nat
      /\ \A j \in 1..(CrlfAt - 1) : input[j] # CRLF
  BY CrlfFound, LenProperties
<1>2. ASSUME input[1] = CRLF PROVE CrlfAt = 1 /\ Line = <<>>
  <2>1. CrlfAt = 1
    BY <1>1, <1>2
  <2>2. QED
    BY <2>1 DEF Line
<1>3. ASSUME input[1] # CRLF, 2 <= Len(input) => input[2] = CRLF
      PROVE  Len(input) >= 2 /\ CrlfAt = 2 /\ Line = <<input[1]>>
  <2>1. CrlfAt >= 2 /\ Len(input) >= 2
    BY <1>1, <1>3
  <2>2. CrlfAt = 2
    BY <1>1, <1>3, <2>1
  <2>3. Line = SubSeq(input, 1, 1)
    BY <2>2 DEF Line
  <2>4. SubSeq(input, 1, 1) = <<input[1]>>
    <3> DEFINE a == SubSeq(input, 1, 1)
    <3>1. a = [x \in 1..1 |-> input[x]]
      BY <1>1
    <3>2. input[1] \in StreamToken /\ 1..1 = {1}
      BY <2>1, ElementOfSeq
    <3> HIDE DEF a
    <3>3. a \in Seq(StreamToken) /\ Len(a) = 1 /\ a[1] = input[1]
      BY <3>1, <3>2
    <3>4. <<input[1]>> \in Seq(StreamToken)
      BY <3>2
    <3>5. a = <<input[1]>>
      BY <3>3, <3>4, SeqEqual
    <3>6. QED
      BY <3>5 DEF a
  <2>5. QED
    BY <2>1, <2>2, <2>3, <2>4
<1>4. QED
  BY <1>1, <1>2, <1>3

-----------------------------------------------------------------------------
(* How far the parser is.                                                  *)

\* What is known of m when h of its headers have been read.
RequestOf(m, h, length) ==
    [method |-> m.line.method, version |-> m.line.version, path |-> m.line.path,
     queryParameters |-> LastOf(m.line.query), headers |-> LastIn(HeaderPairs(m), 1..h),
     content |-> <<>>, contentLength |-> length]

\* The message that is parsed next or at present.
Asked == Len(handled) + 1
Current == sent[Asked]

AtLine(c) ==
    /\ c[Asked] = 0
    /\ request = NewRequest \/ (Asked <= Len(sent) /\ ~GoodLine(<<Current.line>>))

AtHeaders(c) ==
    /\ Asked <= Len(sent)
    /\ \E h \in 0..Len(Current.headers) :
          c[Asked] = 0 - (2 * h + 2) /\ request = RequestOf(Current, h, 0)

AtBody(c) ==
    /\ Asked <= Len(sent)
    /\ c[Asked] = 0 - (2 * Len(Current.headers) + 3)
    /\ request = RequestOf(Current, Len(Current.headers), Len(Current.body))

AtEnd(c) ==
    Asked <= Len(sent) /\ c[Asked + 1] = 0 /\ request = Meaning(Current)

\* A request line that was refused stays where it is, and is bad for ever.
Progress(c) ==
    /\ state = "kExpectRequestLine" => AtLine(c)
    /\ state = "kExpectHeaders" => AtHeaders(c)
    /\ state = "kExpectBody" => AtBody(c)
    /\ state = "kGotAll" /\ pc = "parsed" => AtEnd(c)
    /\ state = "kGotAll" /\ pc # "parsed" => c[Asked] = 0

Busy == pc \in {"before", "handle", "after", "send"}

HandledInv == /\ sent \in Seq(Messages)
              /\ handled \in Seq({Meaning(m) : m \in Messages})
              /\ Len(handled) <= Len(sent)
              /\ RequestsAsSent
              /\ pc = "refused" => Asked <= Len(sent)
              /\ Busy => state = "kGotAll"
              /\ pc \in {"setup", "listening"} => state = "kExpectRequestLine"

ProgressInv == \E c : Aligned(c) /\ Progress(c)

StreamInv == HandledInv /\ ProgressInv

\* The message being parsed.
LEMMA CurrentIs ==
    ASSUME HandledInv
    PROVE  /\ Len(handled) \in Nat /\ Len(sent) \in Nat
           /\ Asked \in 1..(Len(sent) + 1)
           /\ Asked <= Len(sent) => /\ Asked \in 1..Len(sent)
                                    /\ Asked + 1 \in 1..(Len(sent) + 1)
                                    /\ Current \in Messages
BY LenProperties, ElementOfSeq DEF HandledInv, Asked, Current

\* Steps that neither read nor write the stream.
LEMMA StreamSame ==
    ASSUME UNCHANGED <<input, wire, sent>>, NEW c, Aligned(c)
    PROVE  Aligned(c)'
BY DEF Aligned, At, Total

\* The first line of a request; the fields it sets.
LEMMA LineRead ==
    ASSUME NEW m \in Messages, GoodLine(<<m.line>>)
    PROVE  LineProcessed(NewRequest, <<m.line>>) = RequestOf(m, 0, 0)
<1> DEFINE line == <<m.line>>
           r0 == SetMethod(NewRequest, MethodOf(line))
           r1 == [r0 EXCEPT !.path = line[1].path]
           r2 == SetQueryParameters(r1, line[1].query)
           r3 == [r2 EXCEPT !.version = line[1].version]
           q  == m.line.query
<1>1. /\ m.line \in [method : STRING, path : Seq(STRING),
                     query : Seq(STRING \X STRING), version : STRING]
      /\ q \in Seq(STRING \X STRING)
  BY MessagesType
<1>2. Len(line) = 1 /\ line[1] = m.line /\ line # <<>>
  OBVIOUS
<1>3. m.line.method \in Methods /\ m.line.version \in Versions /\ HasUrl(line)
      /\ MethodOf(line) = m.line.method /\ HasMethod(line)
  <2>1. /\ HasUrl(line) /\ m.line.method \in Methods /\ m.line.version \in Versions
    BY <1>2 DEF GoodLine
  <2>2. IsA("method", line)
    BY <2>1 DEF HasUrl
  <2>3. "byte" \notin DOMAIN m.line
    BY <1>1
  <2>4. HasMethod(line)
    BY <1>2, <2>3 DEF HasMethod, IsA
  <2> HIDE DEF line
  <2>5. QED
    BY <1>2, <2>1, <2>2, <2>4 DEF MethodOf
<1>4. m.line.method # kInvalid
  BY <1>3, KInvalidApart
<1> HIDE DEF line
<1>5. /\ r0 = [NewRequest EXCEPT !.method = m.line.method] /\ r0.method = m.line.method
  BY <1>3 DEF SetMethod, NewRequest
<1>6. LineProcessed(NewRequest, line) = r3
  <2> HIDE DEF r0
  <2>1. r0.method # kInvalid /\ line[1].version \in Versions
    BY <1>2, <1>3, <1>4, <1>5
  <2>2. LineProcessed(NewRequest, line)
          = IF ~HasMethod(line) THEN NewRequest
            ELSE IF r0.method = kInvalid \/ ~HasUrl(line) THEN r0
            ELSE IF line[1].version \in Versions THEN r3 ELSE r2
    BY DEF LineProcessed, r0
  <2> HIDE DEF r3
  <2>3. QED
    BY <1>3, <2>1, <2>2
<1>7. r1 = [method |-> m.line.method, version |-> kInvalid, path |-> m.line.path,
            queryParameters |-> <<>>, headers |-> <<>>,
            content |-> <<>>, contentLength |-> 0]
  BY <1>2, <1>5 DEF NewRequest
<1>8. r2 = [r1 EXCEPT !.queryParameters = LastOf(q)]
  <2>1. r1.queryParameters = <<>>
    BY <1>7
  <2> HIDE DEF r1
  <2>2. r2 = [r1 EXCEPT !.queryParameters = LastIn(q, DOMAIN q)]
    BY <1>1, <1>2, <2>1, QueryIs
  <2>3. DOMAIN q = 1..Len(q)
    BY <1>1, LenProperties
  <2>4. LastOf(q) = LastIn(q, 1..Len(q))
    BY <1>1, LastOfIs
  <2>5. QED
    BY <2>2, <2>3, <2>4
<1> HIDE DEF r1, r2
<1>9. r3 = [method |-> m.line.method, version |-> m.line.version, path |-> m.line.path,
            queryParameters |-> LastOf(q), headers |-> <<>>,
            content |-> <<>>, contentLength |-> 0]
  <2>1. r2 = [method |-> m.line.method, version |-> kInvalid, path |-> m.line.path,
              queryParameters |-> LastOf(q), headers |-> <<>>,
              content |-> <<>>, contentLength |-> 0]
    BY <1>7, <1>8
  <2>2. r3 = [r2 EXCEPT !.version = m.line.version]
    BY <1>2
  <2> HIDE DEF r3
  <2>3. QED
    BY <2>1, <2>2
<1>10. LastIn(HeaderPairs(m), 1..0) = <<>>
  <2>1. 1..0 = {}
    OBVIOUS
  <2>2. QED
    BY <2>1, LastOfNone
<1>11. RequestOf(m, 0, 0) = r3
  BY <1>9, <1>10 DEF RequestOf
<1>12. QED
  BY <1>6, <1>11 DEF line

\* A header read is a pair more.
LEMMA HeaderRead ==
    ASSUME NEW m \in Messages, NEW h \in 1..Len(m.headers)
    PROVE  AddHeader(RequestOf(m, h - 1, 0), m.headers[h]) = RequestOf(m, h, 0)
<1> DEFINE q == HeaderPairs(m)
           n == Len(m.headers)
<1>1. n \in Nat /\ DOMAIN m.headers = 1..n
  BY MessagesType, LenProperties
<1>2. q[h][1] = m.headers[h].field /\ q[h][2] = m.headers[h].value
  BY <1>1 DEF HeaderPairs
<1> HIDE DEF q
<1>3. LastIn(q, 1..h) = Put(LastIn(q, 1..(h - 1)), q[h][1], q[h][2])
  <2>1. /\ 1..(h - 1) \in SUBSET (1..n) /\ \A i \in 1..(h - 1) : i < h
        /\ h \in 1..n
    BY <1>1
  <2>2. 1..h = 1..(h - 1) \cup {h}
    BY <1>1
  <2>3. LastIn(q, 1..(h - 1) \cup {h}) = Put(LastIn(q, 1..(h - 1)), q[h][1], q[h][2])
    BY <1>1, <2>1, LastPut
  <2>4. QED
    BY <2>2, <2>3
<1>4. QED
  BY <1>2, <1>3 DEF AddHeader, RequestOf, q

\* With all headers read, only the body is missing.
LEMMA HeadersRead ==
    ASSUME NEW m \in Messages
    PROVE  LET r == RequestOf(m, Len(m.headers), 0)
           IN  /\ r.headers = Meaning(m).headers /\ r.method = Meaning(m).method
               /\ \A k : [r EXCEPT !.contentLength = k] = RequestOf(m, Len(m.headers), k)
               /\ [RequestOf(m, Len(m.headers), Len(m.body)) EXCEPT !.content = m.body]
                     = Meaning(m)
               /\ m.body = <<>> => r = Meaning(m)
<1> DEFINE q == HeaderPairs(m)
           n == Len(m.headers)
<1>1. n \in Nat /\ DOMAIN m.headers = 1..n
      /\ \A i \in 1..n : m.headers[i].field \in STRING /\ m.headers[i].value \in STRING
  <2>1. m.headers \in Seq([field : STRING, value : STRING])
    BY MessagesType
  <2>2. n \in Nat /\ DOMAIN m.headers = 1..n
    BY <2>1, LenProperties
  <2>3. \A i \in 1..n : m.headers[i] \in [field : STRING, value : STRING]
    BY <2>1, ElementOfSeq
  <2>4. QED
    BY <2>2, <2>3
<1>2. q \in Seq(STRING \X STRING) /\ Len(q) = n
  <2>1. q = [i \in 1..n |-> <<m.headers[i].field, m.headers[i].value>>]
    BY <1>1 DEF HeaderPairs
  <2> HIDE DEF q
  <2>2. q \in [1..n -> STRING \X STRING]
    BY <1>1, <2>1
  <2>3. QED
    BY <1>1, <2>1, <2>2
<1> HIDE DEF q
<1>3. LastIn(q, 1..n) = LastOf(q)
  BY <1>2, LastOfIs
<1>4. m.body = <<>> => Len(m.body) = 0
  OBVIOUS
<1> DEFINE r == RequestOf(m, n, 0)
<1>5. r.headers = Meaning(m).headers /\ r.method = Meaning(m).method
  BY <1>3 DEF RequestOf, Meaning, q
<1>6. \A k : [r EXCEPT !.contentLength = k] = RequestOf(m, n, k)
  BY DEF RequestOf
<1>7. [RequestOf(m, n, Len(m.body)) EXCEPT !.content = m.body] = Meaning(m)
  BY <1>3 DEF RequestOf, Meaning, q
<1>8. m.body = <<>> => r = Meaning(m)
  BY <1>3, <1>4 DEF RequestOf, Meaning, q
<1>9. QED
  BY <1>5, <1>6, <1>7, <1>8

\* The length that parseRequest() finds is the one the message says.
LEMMA LengthFound ==
    ASSUME NEW m \in Messages, request = RequestOf(m, Len(m.headers), 0)
    PROVE  LengthText = LengthSaid(m)
<1>1. request.headers = Meaning(m).headers /\ request.method = Meaning(m).method
  BY HeadersRead
<1>2. Meaning(m).method = m.line.method
  BY DEF Meaning
<1>3. GetHeader(request, "Content-Length") = GetHeader(Meaning(m), "Content-Length")
  BY <1>1 DEF GetHeader
<1>4. QED
  BY <1>1, <1>2, <1>3 DEF LengthText, LengthSaid

\* Neither a request line nor a header line is a line end.
LEMMA LinesAreNoEnds ==
    ASSUME NEW m \in Messages
    PROVE  /\ m.line # CRLF /\ "field" \notin DOMAIN m.line
           /\ \A h \in 1..Len(m.headers) :
                 m.headers[h] # CRLF /\ "field" \in DOMAIN m.headers[h]
<1>1. /\ m.line \in [method : STRING, path : Seq(STRING),
                     query : Seq(STRING \X STRING), version : STRING]
      /\ m.headers \in Seq([field : STRING, value : STRING])
  BY MessagesType
<1>2. \A h \in 1..Len(m.headers) : m.headers[h] \in [field : STRING, value : STRING]
  BY <1>1, ElementOfSeq
<1>3. DOMAIN CRLF = {"eol"}
  BY DEF CRLF
<1>4. m.line # CRLF /\ "field" \notin DOMAIN m.line
  BY <1>1, <1>3
<1>5. \A h \in 1..Len(m.headers) :
         m.headers[h] # CRLF /\ "field" \in DOMAIN m.headers[h]
  BY <1>2, <1>3
<1>6. QED
  BY <1>4, <1>5

\* Facing() of the message being parsed.
LEMMA FacingCurrent ==
    ASSUME StreamTypes, HandledInv, NEW c, Aligned(c), Asked <= Len(sent), NEW p \in Nat,
           c[Asked] = 0 - p
    PROVE  /\ \A x \in 1..Len(input) :
                 p + x <= Len(Tokens(Current)) => input[x] = Tokens(Current)[p + x]
           /\ c[Asked + 1] = Len(Tokens(Current)) - p
<1>1. PICK k \in 1..Len(sent) : k = Asked
  BY CurrentIs
<1>2. c[k] = 0 - p
  BY <1>1
<1>3. /\ \A x \in 1..Len(input) :
            p + x <= Len(Tokens(sent[k])) => input[x] = Tokens(sent[k])[p + x]
      /\ c[k + 1] = Len(Tokens(sent[k])) - p
  BY <1>2, Facing
<1>4. Current = sent[k]
  BY <1>1 DEF Current
<1>5. QED
  BY <1>1, <1>3, <1>4

\* Its tokens, of which those of the headers are n.
LEMMA CurrentTokens ==
    ASSUME NEW m \in Messages, NEW n, n = Len(m.headers)
    PROVE  /\ n \in Nat /\ Len(Tokens(m)) \in Nat /\ Len(Tokens(m)) >= 2 * n + 3
           /\ Tokens(m)[1] = m.line /\ Tokens(m)[2] = CRLF
           /\ \A h \in 1..n : /\ Tokens(m)[2 * h + 1] = m.headers[h]
                              /\ Tokens(m)[2 * h + 2] = CRLF
           /\ Tokens(m)[2 * n + 3] = CRLF
<1>1. /\ n \in Nat /\ Len(m.body) \in Nat
      /\ Len(Tokens(m)) = (2 * n + 3) + Len(m.body)
  BY TokensAre
<1>2. Len(Tokens(m)) \in Nat /\ Len(Tokens(m)) >= 2 * n + 3
  <2>1. PICK b, l : b = Len(m.body) /\ l = Len(Tokens(m))
    OBVIOUS
  <2>2. n \in Nat /\ b \in Nat /\ l = (2 * n + 3) + b
    BY <1>1, <2>1
  <2>3. l \in Nat /\ l >= 2 * n + 3
    BY <2>2
  <2>4. QED
    BY <2>1, <2>3
<1>3. /\ Tokens(m)[1] = m.line /\ Tokens(m)[2] = CRLF
      /\ \A h \in 1..n : Tokens(m)[2 * h + 1] = m.headers[h] /\ Tokens(m)[2 * h + 2] = CRLF
      /\ Tokens(m)[2 * n + 3] = CRLF
  BY TokensAre
<1>4. QED
  BY <1>1, <1>2, <1>3

\* The line that parseRequest() finds where a request line is due.
LEMMA RequestLineIs ==
    ASSUME StreamTypes, HandledInv, NEW c, Aligned(c), c[Asked] = 0, CrlfAt # 0
    PROVE  Asked <= Len(sent) /\ CrlfAt = 2 /\ Line = <<Current.line>>
<1>1. Asked \in 1..(Len(sent) + 1) /\ Len(sent) \in Nat
  BY CurrentIs
<1>2. Asked <= Len(sent)
  <2>1. Asked # Len(sent) + 1
    BY NothingLeft
  <2>2. QED
    BY <1>1, <2>1
<1>3. Asked \in 1..Len(sent) /\ Current \in Messages /\ Current = sent[Asked]
  BY <1>2, CurrentIs DEF Current
<1>4. \A x \in 1..Len(input) :
         0 + x <= Len(Tokens(Current)) => input[x] = Tokens(Current)[0 + x]
  <2>1. 0 \in Nat /\ c[Asked] = 0 - 0
    OBVIOUS
  <2>2. QED
    BY <1>2, <2>1, FacingCurrent
<1>5. /\ Tokens(Current)[1] = Current.line /\ Tokens(Current)[2] = CRLF
      /\ Len(Tokens(Current)) >= 2 /\ Len(Tokens(Current)) \in Nat
  <2>1. PICK n : n = Len(Current.headers)
    OBVIOUS
  <2>2. /\ n \in Nat /\ Len(Tokens(Current)) \in Nat /\ Len(Tokens(Current)) >= 2 * n + 3
        /\ Tokens(Current)[1] = Current.line /\ Tokens(Current)[2] = CRLF
    BY <1>3, <2>1, CurrentTokens
  <2>3. QED
    BY <2>2
<1>6. Len(input) >= 1 /\ Len(input) \in Nat
  BY LineFound, LenProperties DEF StreamTypes
<1>7. input[1] = Current.line
  BY <1>4, <1>5, <1>6
<1>8. 2 <= Len(input) => input[2] = CRLF
  BY <1>4, <1>5, <1>6
<1>9. input[1] # CRLF
  BY <1>3, <1>7, LinesAreNoEnds
<1>10. QED
  BY <1>2, <1>7, <1>8, <1>9, LineFound DEF StreamTypes

\* The line that it finds when h headers have been read.
LEMMA HeaderLineIs ==
    ASSUME StreamTypes, HandledInv, NEW c, Aligned(c), Asked <= Len(sent),
           NEW h \in 0..Len(Current.headers), c[Asked] = 0 - (2 * h + 2), CrlfAt # 0
    PROVE  /\ h < Len(Current.headers) =>
                 CrlfAt = 2 /\ Line = <<Current.headers[h + 1]>> /\ IsA("field", Line)
           /\ h = Len(Current.headers) => CrlfAt = 1 /\ Line = <<>> /\ ~IsA("field", Line)
<1> DEFINE t == Tokens(Current)
           n == Len(Current.headers)
<1>1. Asked \in 1..Len(sent) /\ Current \in Messages /\ Current = sent[Asked]
  BY CurrentIs DEF Current
<1>2. /\ n \in Nat /\ Len(t) \in Nat /\ Len(t) >= 2 * n + 3 /\ h \in 0..n
      /\ \A i \in 1..n : t[2 * i + 1] = Current.headers[i] /\ t[2 * i + 2] = CRLF
      /\ t[2 * n + 3] = CRLF
  <2>1. PICK k : k = n
    OBVIOUS
  <2>2. /\ k \in Nat /\ Len(t) \in Nat /\ Len(t) >= 2 * k + 3
        /\ \A i \in 1..k : t[2 * i + 1] = Current.headers[i] /\ t[2 * i + 2] = CRLF
        /\ t[2 * k + 3] = CRLF
    BY <1>1, <2>1, CurrentTokens
  <2> HIDE DEF t
  <2>3. QED
    BY <2>1, <2>2
<1> HIDE DEF t
<1>3. \A x \in 1..Len(input) :
         (2 * h + 2) + x <= Len(t) => input[x] = t[(2 * h + 2) + x]
  <2>1. 2 * h + 2 \in Nat
    BY <1>2
  <2>2. QED
    BY <2>1, FacingCurrent DEF t
<1>4. Len(input) >= 1 /\ Len(input) \in Nat
  BY LineFound, LenProperties DEF StreamTypes
<1>5. ASSUME h < n
      PROVE  CrlfAt = 2 /\ Line = <<Current.headers[h + 1]>> /\ IsA("field", Line)
  <2>1. /\ h + 1 \in 1..n
        /\ (2 * h + 2) + 1 = 2 * (h + 1) + 1 /\ (2 * h + 2) + 2 = 2 * (h + 1) + 2
        /\ (2 * h + 2) + 1 <= Len(t) /\ (2 * h + 2) + 2 <= Len(t)
    BY <1>2, <1>5
  <2>2. input[1] = Current.headers[h + 1]
    <3>1. 1 \in 1..Len(input)
      BY <1>4
    <3>2. input[1] = t[(2 * h + 2) + 1]
      BY <1>3, <2>1, <3>1
    <3>3. t[2 * (h + 1) + 1] = Current.headers[h + 1]
      BY <1>2, <2>1
    <3>4. QED
      BY <2>1, <3>2, <3>3
  <2>3. 2 <= Len(input) => input[2] = CRLF
    <3>1. 2 <= Len(input) => 2 \in 1..Len(input)
      BY <1>4
    <3>2. 2 <= Len(input) => input[2] = t[(2 * h + 2) + 2]
      BY <1>3, <2>1, <3>1
    <3>3. t[2 * (h + 1) + 2] = CRLF
      BY <1>2, <2>1
    <3>4. QED
      BY <2>1, <3>2, <3>3
  <2>4. input[1] # CRLF /\ "field" \in DOMAIN input[1]
    BY <1>1, <2>1, <2>2, LinesAreNoEnds
  <2>5. CrlfAt = 2 /\ Line = <<input[1]>>
    BY <2>3, <2>4, LineFound DEF StreamTypes
  <2>6. QED
    BY <2>2, <2>4, <2>5 DEF IsA
<1>6. ASSUME h = n PROVE CrlfAt = 1 /\ Line = <<>> /\ ~IsA("field", Line)
  <2>1. (2 * h + 2) + 1 = 2 * n + 3 /\ (2 * h + 2) + 1 <= Len(t)
    BY <1>2, <1>6
  <2>2. input[1] = CRLF
    BY <1>2, <1>3, <1>4, <2>1
  <2>3. CrlfAt = 1 /\ Line = <<>>
    BY <2>2, LineFound DEF StreamTypes
  <2>4. QED
    BY <2>3 DEF IsA
<1>7. QED
  BY <1>5, <1>6

\* parseRequest() goes on in the message it is in, and into no other.
LEMMA ParseProgress ==
    ASSUME TypeInv, HandledInv, ProgressInv, ParseStep, UNCHANGED <<wire, sent, handled>>
    PROVE  /\ ProgressInv'
           /\ pc' = "refused" => Asked <= Len(sent)
<1> USE DEF ExpectingLine, Expecting, Returns
<1>1. PICK c : Aligned(c) /\ Progress(c)
  BY DEF ProgressInv
<1>2. StreamTypes
  BY DEF TypeInv, HandledInv, StreamTypes
<1>3. /\ UNCHANGED <<Asked, Current>>
      /\ Asked \in 1..(Len(sent) + 1)
      /\ Asked <= Len(sent) => /\ Asked \in 1..Len(sent) /\ Current = sent[Asked]
                               /\ Asked + 1 \in 1..(Len(sent) + 1)
                               /\ Current \in Messages
  BY CurrentIs DEF Asked, Current
<1>4. CrlfAt \in 0..Len(input) /\ Len(input) \in Nat
  BY <1>2, CrlfFound, LenProperties DEF StreamTypes
\* A step that consumes nothing and leaves the state.
<1>5. ASSUME UNCHANGED <<input, state>>, pc = "parse", state # "kGotAll",
             (state = "kExpectRequestLine" => AtLine(c)') ,
             (state # "kExpectRequestLine" => UNCHANGED request)
      PROVE  ProgressInv'
  <2>1. Aligned(c)'
    BY <1>1, <1>5, StreamSame
  <2>2. Progress(c)'
    <3>1. state = "kExpectHeaders" => AtHeaders(c)'
      BY <1>1, <1>3, <1>5 DEF Progress, AtHeaders
    <3>2. state = "kExpectBody" => AtBody(c)'
      BY <1>1, <1>3, <1>5 DEF Progress, AtBody
    <3>3. QED
      BY <1>5, <3>1, <3>2 DEF Progress
  <2>3. QED
    BY <2>1, <2>2 DEF ProgressInv
<1>6. CASE LineNotWhole \/ AssertFails \/ LengthThrows \/ BodyNotWhole
  <2>1. /\ UNCHANGED <<input, state, request>> /\ pc = "parse" /\ state # "kGotAll"
        /\ pc' # "refused"
    BY <1>6 DEF LineNotWhole, AssertFails, LengthThrows, BodyNotWhole
  <2>2. state = "kExpectRequestLine" => AtLine(c)'
    BY <1>1, <1>3, <2>1 DEF Progress, AtLine
  <2>3. QED
    BY <1>5, <2>1, <2>2
<1>7. CASE RefuseRequestLine
  <2>1. /\ UNCHANGED <<input, state>> /\ pc = "parse" /\ state = "kExpectRequestLine"
        /\ CrlfAt # 0 /\ ~GoodLine(Line)
    BY <1>7 DEF RefuseRequestLine
  <2>2. AtLine(c)
    BY <1>1, <2>1 DEF Progress
  <2>3. Asked <= Len(sent) /\ Line = <<Current.line>>
    BY <1>1, <1>2, <2>1, <2>2, RequestLineIs DEF AtLine
  <2>4. AtLine(c)'
    BY <1>3, <2>1, <2>2, <2>3 DEF AtLine, GoodLine, HasUrl, IsA
  <2>5. ProgressInv'
    BY <1>5, <2>1, <2>4
  <2>6. QED
    BY <2>3, <2>5
<1>8. CASE ParseRequestLine
  <2>1. /\ state = "kExpectRequestLine" /\ CrlfAt # 0 /\ GoodLine(Line)
        /\ request' = LineProcessed(request, Line) /\ Retrieve(CrlfAt)
        /\ state' = "kExpectHeaders" /\ pc' = "parse"
    BY <1>8 DEF ParseRequestLine
  <2>2. AtLine(c)
    BY <1>1, <2>1 DEF Progress
  <2>3. Asked <= Len(sent) /\ CrlfAt = 2 /\ Line = <<Current.line>>
    BY <1>1, <1>2, <2>1, <2>2, RequestLineIs DEF AtLine
  <2>4. request = NewRequest
    BY <2>1, <2>2, <2>3 DEF AtLine
  <2>5. request' = RequestOf(Current, 0, 0)
    BY <1>3, <2>1, <2>3, <2>4, LineRead
  <2>6. PICK d : Aligned(d)' /\ \A i \in 1..(Len(sent) + 1) : d[i] = c[i] - 2
    BY <1>1, <1>2, <1>4, <2>1, <2>3, AlignedRetrieve
  <2>7. d[Asked] = 0 - (2 * 0 + 2)
    BY <1>3, <2>2, <2>6 DEF AtLine
  <2>8. 0 \in 0..Len(Current.headers)
    BY <1>3, <2>3, TokensAre
  <2>9. AtHeaders(d)'
    BY <1>3, <2>3, <2>5, <2>7, <2>8 DEF AtHeaders
  <2>10. Progress(d)'
    BY <2>1, <2>9 DEF Progress
  <2>11. QED
    BY <2>1, <2>6, <2>10 DEF ProgressInv
<1>9. CASE ParseHeader
  <2>1. /\ state = "kExpectHeaders" /\ CrlfAt # 0 /\ IsA("field", Line)
        /\ request' = AddHeader(request, Line[1]) /\ Retrieve(CrlfAt)
        /\ state' = "kExpectHeaders" /\ pc' = "parse"
    BY <1>9 DEF ParseHeader
  <2>2. AtHeaders(c)
    BY <1>1, <2>1 DEF Progress
  <2>3. PICK h \in 0..Len(Current.headers) :
           c[Asked] = 0 - (2 * h + 2) /\ request = RequestOf(Current, h, 0)
    BY <2>2 DEF AtHeaders
  <2>4. Asked <= Len(sent) /\ Len(Current.headers) \in Nat
    BY <1>3, <2>2, TokensAre DEF AtHeaders
  <2>5. h # Len(Current.headers)
    BY <1>1, <1>2, <2>1, <2>3, <2>4, HeaderLineIs
  <2>6. h < Len(Current.headers)
    BY <2>3, <2>4, <2>5
  <2>7. CrlfAt = 2 /\ Line = <<Current.headers[h + 1]>>
    BY <1>1, <1>2, <2>1, <2>3, <2>4, <2>6, HeaderLineIs
  <2>8. h + 1 \in 1..Len(Current.headers) /\ (h + 1) - 1 = h /\ h \in Nat
    BY <2>3, <2>4, <2>6
  <2>9. request' = RequestOf(Current, h + 1, 0)
    <3>1. Line[1] = Current.headers[h + 1]
      BY <2>7
    <3>2. AddHeader(RequestOf(Current, (h + 1) - 1, 0), Current.headers[h + 1])
            = RequestOf(Current, h + 1, 0)
      BY <1>3, <2>4, <2>8, HeaderRead
    <3>3. QED
      BY <2>1, <2>3, <2>8, <3>1, <3>2
  <2>10. PICK d : Aligned(d)' /\ \A i \in 1..(Len(sent) + 1) : d[i] = c[i] - 2
    BY <1>1, <1>2, <1>4, <2>1, <2>7, AlignedRetrieve
  <2>11. d[Asked] = 0 - (2 * (h + 1) + 2) /\ h + 1 \in 0..Len(Current.headers)
    BY <1>3, <2>3, <2>4, <2>8, <2>10
  <2>12. AtHeaders(d)'
    BY <1>3, <2>4, <2>9, <2>11 DEF AtHeaders
  <2>13. Progress(d)'
    BY <2>1, <2>12 DEF Progress
  <2>14. QED
    BY <2>1, <2>10, <2>13 DEF ProgressInv
<1>10. CASE EndHeaders
  <2>1. /\ state = "kExpectHeaders" /\ CrlfAt # 0 /\ ~IsA("field", Line)
        /\ Retrieve(CrlfAt)
    BY <1>10 DEF EndHeaders
  <2>2. AtHeaders(c)
    BY <1>1, <2>1 DEF Progress
  <2>3. PICK h \in 0..Len(Current.headers) :
           c[Asked] = 0 - (2 * h + 2) /\ request = RequestOf(Current, h, 0)
    BY <2>2 DEF AtHeaders
  <2> DEFINE n == Len(Current.headers)
             b == Current.body
  <2>4. /\ Asked <= Len(sent) /\ n \in Nat /\ Len(b) \in Nat
        /\ Len(Tokens(Current)) = (2 * n + 3) + Len(b)
    BY <1>3, <2>2, TokensAre DEF AtHeaders
  <2>5. h = n
    <3>1. ~(h < n)
      BY <1>1, <1>2, <2>1, <2>3, <2>4, HeaderLineIs
    <3>2. QED
      BY <2>3, <2>4, <3>1
  <2>6. CrlfAt = 1
    BY <1>1, <1>2, <2>1, <2>3, <2>4, <2>5, HeaderLineIs
  <2>7. PICK d : Aligned(d)' /\ \A i \in 1..(Len(sent) + 1) : d[i] = c[i] - 1
    BY <1>1, <1>2, <1>4, <2>1, <2>6, AlignedRetrieve
  <2>8. c[Asked] = 0 - (2 * n + 2)
    BY <2>3, <2>5
  <2>9. d[Asked] = 0 - (2 * n + 3)
    BY <1>3, <2>4, <2>7, <2>8
  <2>10. d[Asked + 1] = Len(b)
    <3>1. c[Asked + 1] = Len(Tokens(Current)) - (2 * n + 2)
      <4>1. 2 * n + 2 \in Nat
        BY <2>4
      <4>2. QED
        BY <1>1, <1>2, <2>4, <2>8, <4>1, FacingCurrent
    <3>2. d[Asked + 1] = c[Asked + 1] - 1
      BY <1>3, <2>4, <2>7
    <3>3. PICK l, m : l = Len(b) /\ m = n
      OBVIOUS
    <3>4. l \in Nat /\ m \in Nat /\ c[Asked + 1] = ((2 * m + 3) + l) - (2 * m + 2)
      BY <2>4, <3>1, <3>3
    <3>5. ((2 * m + 3) + l) - (2 * m + 2) = l + 1 /\ (l + 1) - 1 = l
      BY <3>4
    <3>6. QED
      BY <3>2, <3>3, <3>4, <3>5
  <2>11. request = RequestOf(Current, n, 0)
    BY <2>3, <2>5
  <2>12. LengthText = LengthSaid(Current)
    BY <1>3, <2>4, <2>11, LengthFound
  <2>13. ASSUME b = <<>>, request' = request, state' = "kGotAll", pc' = "parsed"
         PROVE  Progress(d)'
    <3>1. request = Meaning(Current) /\ Len(b) = 0
      BY <1>3, <2>4, <2>11, <2>13, HeadersRead
    <3>2. AtEnd(d)'
      BY <1>3, <2>4, <2>10, <2>13, <3>1 DEF AtEnd
    <3>3. QED
      BY <2>13, <3>2 DEF Progress
  <2>14. CASE LengthText = "" /\ state' = "kGotAll" /\ pc' = "parsed" /\ UNCHANGED request
    <3>1. b = <<>>
      BY <1>3, <2>4, <2>12, <2>14, MessagesFramed
    <3>2. Progress(d)'
      BY <2>13, <2>14, <3>1
    <3>3. QED
      BY <2>7, <2>14, <3>2 DEF ProgressInv
  <2>15. CASE /\ LengthText \in DOMAIN Numeral
              /\ request' = [request EXCEPT !.contentLength = Numeral[LengthText]]
              /\ IF request'.contentLength > 0
                 THEN state' = "kExpectBody" /\ UNCHANGED pc
                 ELSE state' = "kGotAll" /\ pc' = "parsed"
    <3>1. Numeral[LengthText] = Len(b)
      BY <1>3, <2>4, <2>12, <2>15, MessagesFramed
    <3>2. request' = RequestOf(Current, n, Len(b))
      <4>1. \A k : [RequestOf(Current, n, 0) EXCEPT !.contentLength = k]
                      = RequestOf(Current, n, k)
        BY <1>3, <2>4, HeadersRead
      <4>2. QED
        BY <2>11, <2>15, <3>1, <4>1
    <3>3. request'.contentLength = Len(b)
      BY <3>2 DEF RequestOf
    <3>4. CASE Len(b) > 0
      <4>1. state' = "kExpectBody" /\ pc' = "parse"
        BY <2>15, <3>3, <3>4, <1>10 DEF EndHeaders
      <4>2. AtBody(d)'
        BY <1>3, <2>4, <2>9, <3>2 DEF AtBody
      <4>3. Progress(d)'
        BY <4>1, <4>2 DEF Progress
      <4>4. QED
        BY <2>7, <4>1, <4>3 DEF ProgressInv
    <3>5. CASE ~(Len(b) > 0)
      <4>1. state' = "kGotAll" /\ pc' = "parsed"
        BY <2>15, <3>3, <3>5
      <4>2. Len(b) = 0
        BY <2>4, <3>5
      <4>3. b = <<>>
        BY <1>3, <2>4, <4>2, MessagesType, EmptySeq
      <4>4. request' = request
        BY <2>11, <3>2, <4>2
      <4>5. Progress(d)'
        BY <2>13, <4>1, <4>3, <4>4
      <4>6. QED
        BY <2>7, <4>1, <4>5 DEF ProgressInv
    <3>6. QED
      BY <3>4, <3>5
  <2>16. QED
    BY <1>10, <2>14, <2>15 DEF EndHeaders
<1>11. CASE ParseBody
  <2> DEFINE n == Len(Current.headers)
             b == Current.body
  <2>1. /\ state = "kExpectBody" /\ state' = "kGotAll" /\ pc' = "parsed"
        /\ Len(input) >= request.contentLength
        /\ request' = [request EXCEPT !.content = SubSeq(input, 1, request.contentLength)]
        /\ Retrieve(request.contentLength)
    BY <1>11 DEF ParseBody, BodyWhole
  <2>2. AtBody(c)
    BY <1>1, <2>1 DEF Progress
  <2>3. /\ Asked <= Len(sent) /\ c[Asked] = 0 - (2 * n + 3)
        /\ request = RequestOf(Current, n, Len(b))
    BY <2>2 DEF AtBody
  <2>4. request.contentLength = Len(b)
    BY <2>3 DEF RequestOf
  <2>5. /\ n \in Nat /\ Len(b) \in Nat
        /\ Len(Tokens(Current)) = (2 * n + 3) + Len(b)
        /\ \A j \in 1..Len(b) : Tokens(Current)[(2 * n + 3) + j] = b[j]
    BY <1>3, <2>3, TokensAre
  <2>6. /\ \A x \in 1..Len(input) :
              (2 * n + 3) + x <= Len(Tokens(Current))
                 => input[x] = Tokens(Current)[(2 * n + 3) + x]
        /\ c[Asked + 1] = Len(Tokens(Current)) - (2 * n + 3)
    <3>1. 2 * n + 3 \in Nat
      BY <2>5
    <3>2. QED
      BY <1>1, <1>2, <2>3, <3>1, FacingCurrent
  <2>7. SubSeq(input, 1, Len(b)) = b
    <3> DEFINE a == SubSeq(input, 1, Len(b))
    <3>1. a = [x \in 1..Len(b) |-> input[x]]
      BY <1>4, <2>1, <2>4, <2>5
    <3>2. ASSUME NEW x \in 1..Len(b) PROVE input[x] = b[x]
      <4>1. x \in 1..Len(input) /\ (2 * n + 3) + x <= Len(Tokens(Current))
        <5>1. PICK l, m : l = Len(b) /\ m = n
          OBVIOUS
        <5>2. /\ l \in Nat /\ m \in Nat /\ Len(input) >= l /\ x \in 1..l
              /\ Len(Tokens(Current)) = (2 * m + 3) + l
          BY <2>1, <2>4, <2>5, <5>1
        <5>3. x \in 1..Len(input) /\ (2 * m + 3) + x <= (2 * m + 3) + l
          BY <1>4, <5>2
        <5>4. QED
          BY <5>1, <5>2, <5>3
      <4>2. QED
        BY <2>5, <2>6, <4>1
    <3>3. b \in Seq({BodyByte, CRLF})
      BY <1>3, <2>3, MessagesType
    <3>4. b = [x \in 1..Len(b) |-> b[x]]
      BY <3>3
    <3> HIDE DEF a, b
    <3>5. a = b
      BY <3>1, <3>2, <3>4
    <3>6. QED
      BY <3>5 DEF a
  <2>8. request' = Meaning(Current)
    BY <1>3, <2>1, <2>3, <2>4, <2>7, HeadersRead
  <2>9. PICK d : Aligned(d)' /\ \A i \in 1..(Len(sent) + 1) : d[i] = c[i] - Len(b)
    <3>1. Len(b) \in 0..Len(input) /\ Retrieve(Len(b))
      BY <1>4, <2>1, <2>4, <2>5
    <3>2. QED
      BY <1>1, <1>2, <3>1, AlignedRetrieve
  <2>10. d[Asked + 1] = 0
    BY <1>3, <2>3, <2>5, <2>6, <2>9
  <2>11. AtEnd(d)'
    BY <1>3, <2>3, <2>8, <2>10 DEF AtEnd
  <2>12. Progress(d)'
    BY <2>1, <2>11 DEF Progress
  <2>13. QED
    BY <2>1, <2>9, <2>12 DEF ProgressInv
<1>12. QED
  BY <1>6, <1>7, <1>8, <1>9, <1>10, <1>11 DEF ParseStep

\* Steps that leave the messages and what was handled of them.
LEMMA HandledSame ==
    ASSUME HandledInv, UNCHANGED <<sent, handled>>,
           pc' = "refused" => Asked <= Len(sent),
           Busy' => state' = "kGotAll",
           pc' \in {"setup", "listening"} => state' = "kExpectRequestLine"
    PROVE  HandledInv'
BY DEF HandledInv, RequestsAsSent, Asked

\* Steps that leave the stream and the context, but for the return of parseRequest().
LEMMA ProgressSame ==
    ASSUME ProgressInv, UNCHANGED <<input, wire, sent, handled, state, request>>,
           state = "kGotAll" => pc # "parsed" /\ pc' # "parsed"
    PROVE  ProgressInv'
<1>1. PICK c : Aligned(c) /\ Progress(c)
  BY DEF ProgressInv
<1>2. Aligned(c)'
  BY <1>1, StreamSame
<1>3. UNCHANGED <<Asked, Current>>
  BY DEF Asked, Current
<1>4. Progress(c)'
  BY <1>1, <1>3 DEF Progress, AtLine, AtHeaders, AtBody
<1>5. QED
  BY <1>2, <1>4 DEF ProgressInv

\* One more message: none that came before it moves.
LEMMA SendStream ==
    ASSUME TypeInv, StreamInv, NEW m \in Messages, ClientSends(m)
    PROVE  StreamInv'
<1>1. HandledInv /\ StreamTypes
  BY DEF StreamInv, HandledInv, TypeInv, StreamTypes
<1>2. /\ UNCHANGED <<pc, input, state, request, handled>>
      /\ sent' = Append(sent, m) /\ wire' = wire \o Tokens(m)
  BY DEF ClientSends, contextVars
<1>3. /\ Len(sent') = Len(sent) + 1 /\ sent' \in Seq(Messages)
      /\ \A i \in 1..Len(sent) : sent'[i] = sent[i]
  BY <1>1, <1>2, AppendProperties DEF HandledInv
<1>4. /\ Len(handled) \in Nat /\ Len(sent) \in Nat /\ Len(handled) <= Len(sent)
      /\ DOMAIN handled = 1..Len(handled)
  BY <1>1, LenProperties DEF HandledInv
<1>5. /\ UNCHANGED Asked /\ Asked \in Nat /\ Asked <= Len(sent) + 1
      /\ Asked \in 1..(Len(sent) + 1)
      /\ Asked <= Len(sent) => Asked + 1 \in 1..(Len(sent) + 1)
      /\ Asked <= Len(sent) => UNCHANGED Current /\ Asked <= Len(sent')
  BY <1>2, <1>3, <1>4 DEF Asked, Current
<1>6. HandledInv'
  <2>1. RequestsAsSent'
    <3>1. \A i \in DOMAIN handled : /\ i \in 1..Len(sent) /\ i <= Len(sent')
                                    /\ handled[i] = Meaning(sent[i])
      BY <1>1, <1>3, <1>4 DEF HandledInv, RequestsAsSent
    <3>2. QED
      BY <1>2, <1>3, <3>1 DEF RequestsAsSent
  <2>2. Len(handled') <= Len(sent')
    BY <1>2, <1>3, <1>4
  <2>3. pc' = "refused" => Asked' <= Len(sent')
    BY <1>1, <1>2, <1>5 DEF HandledInv
  <2>4. QED
    BY <1>1, <1>2, <1>3, <2>1, <2>2, <2>3 DEF HandledInv, Busy
<1>7. PICK c : Aligned(c) /\ Progress(c)
  BY DEF StreamInv, ProgressInv
<1>8. PICK d : Aligned(d)' /\ \A i \in 1..(Len(sent) + 1) : d[i] = c[i]
  BY <1>1, <1>2, <1>7, AlignedSend
<1>9. d[Asked] = c[Asked] /\ (Asked <= Len(sent) => d[Asked + 1] = c[Asked + 1])
  BY <1>5, <1>8
<1>10. Progress(d)'
  <2>1. AtLine(c) => AtLine(d)'
    BY <1>2, <1>5, <1>9 DEF AtLine, GoodLine, HasUrl, IsA
  <2>2. AtHeaders(c) => AtHeaders(d)'
    BY <1>2, <1>5, <1>9 DEF AtHeaders
  <2>3. AtBody(c) => AtBody(d)'
    BY <1>2, <1>5, <1>9 DEF AtBody
  <2>4. AtEnd(c) => AtEnd(d)'
    BY <1>2, <1>5, <1>9 DEF AtEnd
  <2>5. QED
    BY <1>2, <1>5, <1>7, <1>9, <2>1, <2>2, <2>3, <2>4 DEF Progress
<1>11. QED
  BY <1>6, <1>8, <1>10 DEF StreamInv, ProgressInv

\* A message callback begins.
LEMMA ReadStream ==
    ASSUME TypeInv, StreamInv, NEW n \in 1..Len(wire), OnMessage(n)
    PROVE  StreamInv'
<1>1. HandledInv /\ StreamTypes
  BY DEF StreamInv, HandledInv, TypeInv, StreamTypes
<1>2. /\ UNCHANGED <<state, request, sent, handled>> /\ pc = "idle" /\ pc' = "parse"
      /\ state # "kGotAll"
  BY DEF OnMessage, TypeInv, StateInv
<1>3. HandledInv'
  BY <1>1, <1>2, HandledSame DEF Busy
<1>4. PICK c : Aligned(c) /\ Progress(c)
  BY DEF StreamInv, ProgressInv
<1>5. Aligned(c)'
  BY <1>1, <1>4, AlignedRead
<1>6. UNCHANGED <<Asked, Current>>
  BY <1>2 DEF Asked, Current
<1>7. Progress(c)'
  BY <1>2, <1>4, <1>6 DEF Progress, AtLine, AtHeaders, AtBody
<1>8. QED
  BY <1>3, <1>5, <1>7 DEF StreamInv, ProgressInv

\* parseRequest() and what onMessage() makes of its result.
LEMMA ParseStream ==
    ASSUME TypeInv, StreamInv, Parse \/ Refuse \/ RequestNotWhole
    PROVE  StreamInv'
<1>1. HandledInv /\ ProgressInv /\ UNCHANGED <<wire, sent, handled>>
  BY DEF StreamInv, Parse, Refuse, RequestNotWhole
<1>2. CASE Parse
  <2>1. ParseStep
    BY <1>2 DEF Parse
  <2>2. ProgressInv' /\ (pc' = "refused" => Asked <= Len(sent))
    BY <1>1, <2>1, ParseProgress
  <2>3. pc' \in {"parse", "parsed", "refused", "aborted"}
    BY <2>1, ParseTyped DEF TypeInv, StateInv
  <2>4. HandledInv'
    BY <1>1, <2>2, <2>3, HandledSame DEF Busy
  <2>5. QED
    BY <2>2, <2>4 DEF StreamInv
<1>3. CASE Refuse \/ RequestNotWhole
  <2>1. /\ UNCHANGED <<input, state, request>> /\ pc' = "idle" /\ state # "kGotAll"
    BY <1>3 DEF Refuse, RequestNotWhole, TypeInv, StateInv
  <2>2. ProgressInv'
    BY <1>1, <2>1, ProgressSame
  <2>3. HandledInv'
    BY <1>1, <2>1, HandledSame DEF Busy
  <2>4. QED
    BY <2>2, <2>3 DEF StreamInv
<1>4. QED
  BY <1>2, <1>3

\* onRequest() is given what the message says.
LEMMA OnRequestStream ==
    ASSUME TypeInv, StreamInv, OnRequest
    PROVE  StreamInv'
<1>1. HandledInv
  BY DEF StreamInv
<1>2. /\ UNCHANGED <<input, wire, sent, state, request>>
      /\ pc = "parsed" /\ pc' = "before" /\ state = "kGotAll"
      /\ handled' = Append(handled, request)
  BY DEF OnRequest
<1>3. PICK c : Aligned(c) /\ Progress(c)
  BY DEF StreamInv, ProgressInv
<1>4. Asked <= Len(sent) /\ c[Asked + 1] = 0 /\ request = Meaning(Current)
  BY <1>2, <1>3 DEF Progress, AtEnd
<1>5. Len(handled) \in Nat /\ Len(sent) \in Nat /\ Asked \in 1..Len(sent)
      /\ Current \in Messages
  BY <1>1, <1>4, CurrentIs
<1> DEFINE M == {Meaning(m) : m \in Messages}
<1>6. /\ handled' \in Seq(M) /\ Len(handled') = Asked /\ DOMAIN handled' = 1..Asked
      /\ handled'[Asked] = Meaning(Current)
      /\ \A i \in 1..Len(handled) : handled'[i] = handled[i]
  <2>1. handled \in Seq(M) /\ request \in M
    BY <1>1, <1>4, <1>5 DEF HandledInv
  <2> HIDE DEF M
  <2>2. /\ handled' \in Seq(M) /\ Len(handled') = Len(handled) + 1
        /\ handled'[Len(handled) + 1] = request
        /\ \A i \in 1..Len(handled) : handled'[i] = handled[i]
    BY <1>2, <2>1, AppendProperties
  <2>3. DOMAIN handled' = 1..Len(handled')
    BY <2>2, LenProperties
  <2>4. QED
    BY <1>4, <2>2, <2>3 DEF Asked
<1>7. RequestsAsSent'
  <2>1. ASSUME NEW i \in 1..Asked PROVE i <= Len(sent) /\ handled'[i] = Meaning(sent[i])
    <3>1. CASE i = Asked
      BY <1>4, <1>6, <3>1 DEF Current
    <3>2. CASE i # Asked
      <4>1. i \in 1..Len(handled) /\ DOMAIN handled = 1..Len(handled)
        BY <1>1, <1>5, <3>2, LenProperties DEF Asked, HandledInv
      <4>2. QED
        BY <1>1, <1>6, <4>1 DEF HandledInv, RequestsAsSent
    <3>3. QED
      BY <3>1, <3>2
  <2>2. QED
    BY <1>2, <1>6, <2>1 DEF RequestsAsSent
<1>8. HandledInv'
  BY <1>1, <1>2, <1>4, <1>6, <1>7 DEF HandledInv
<1>9. Aligned(c)'
  BY <1>2, <1>3, StreamSame
<1>10. Asked' = Asked + 1
  BY <1>6 DEF Asked
<1>11. Progress(c)'
  BY <1>2, <1>4, <1>10 DEF Progress
<1>12. QED
  BY <1>8, <1>9, <1>11 DEF StreamInv, ProgressInv

\* Answering leaves the stream; when the answer is sent the context is new.
LEMMA AnswerStream ==
    ASSUME TypeInv, StreamInv, RequestStep, ~OnRequest
    PROVE  StreamInv'
<1>1. HandledInv /\ ProgressInv
  BY DEF StreamInv
<1>2. CASE Send
  <2>1. /\ UNCHANGED <<input, wire, sent, handled>> /\ pc = "send" /\ pc' = "idle"
        /\ state' = "kExpectRequestLine" /\ request' = NewRequest
    BY <1>2 DEF Send, ResetContext
  <2>2. state = "kGotAll"
    BY <1>1, <2>1 DEF HandledInv, Busy
  <2>3. PICK c : Aligned(c) /\ Progress(c)
    BY <1>1 DEF ProgressInv
  <2>4. c[Asked] = 0 /\ UNCHANGED Asked
    BY <2>1, <2>2, <2>3 DEF Progress, Asked
  <2>5. Aligned(c)' /\ Progress(c)'
    BY <2>1, <2>3, <2>4, StreamSame DEF Progress, AtLine
  <2>6. HandledInv'
    BY <1>1, <2>1, HandledSame DEF Busy
  <2>7. QED
    BY <2>5, <2>6 DEF StreamInv, ProgressInv
<1>3. CASE ~Send
  <2>1. /\ UNCHANGED <<input, wire, sent, handled, state, request>>
        /\ Busy /\ pc' \in {"before", "handle", "after", "send", "aborted"}
    BY <1>3 DEF RequestStep, CorsBefore, UserBefore, RouteRequest, UserHandler,
                DefaultCallback, CorsAfterCalled, UserAfter, AftersDone, CallBefore,
                CallHandler, CallAfter, onRequestUnchanged, BeforeReturns, Busy,
                ThrowResponse, ThrowException, ThrowOther, Throw, Answered
  <2>2. state = "kGotAll"
    BY <1>1, <2>1 DEF HandledInv
  <2>3. ProgressInv'
    BY <1>1, <2>1, ProgressSame DEF Busy
  <2>4. HandledInv'
    BY <1>1, <2>1, <2>2, HandledSame DEF Busy
  <2>5. QED
    BY <2>3, <2>4 DEF StreamInv
<1>4. QED
  BY <1>2, <1>3

\* Before the first message the stream is at the start of it.
LEMMA SetupStream ==
    ASSUME TypeInv, StreamInv, (\E r \in Routes : Register(r)) \/ Start \/ OnConnection
    PROVE  StreamInv'
<1>1. HandledInv /\ ProgressInv
  BY DEF StreamInv
<1>2. /\ UNCHANGED <<input, wire, sent, handled>> /\ pc \in {"setup", "listening"}
      /\ pc' \in {"setup", "listening", "idle"}
      /\ UNCHANGED <<state, request>>
           \/ (state' = "kExpectRequestLine" /\ request' = NewRequest)
  BY DEF Register, Start, OnConnection, ResetContext, contextVars
<1>3. state = "kExpectRequestLine"
  BY <1>1, <1>2 DEF HandledInv
<1>4. PICK c : Aligned(c) /\ Progress(c)
  BY <1>1 DEF ProgressInv
<1>5. UNCHANGED <<Asked, Current>>
  BY <1>2 DEF Asked, Current
<1>6. AtLine(c)'
  BY <1>2, <1>3, <1>4, <1>5 DEF Progress, AtLine
<1>7. Aligned(c)' /\ Progress(c)'
  BY <1>2, <1>3, <1>4, <1>6, StreamSame DEF Progress
<1>8. HandledInv'
  BY <1>1, <1>2, <1>3, HandledSame DEF Busy
<1>9. QED
  BY <1>7, <1>8 DEF StreamInv, ProgressInv

LEMMA InitStream == Init => StreamInv
<1> SUFFICES ASSUME Init PROVE StreamInv
  OBVIOUS
<1>1. /\ pc = "setup" /\ input = <<>> /\ wire = <<>> /\ sent = <<>> /\ handled = <<>>
      /\ state = "kExpectRequestLine" /\ request = NewRequest
  BY DEF Init
<1>2. Len(sent) = 0 /\ Len(handled) = 0 /\ Total = 0 /\ Asked = 1
  BY <1>1 DEF Total, Asked
<1>3. PICK c : c = [i \in 1..1 |-> 0]
  OBVIOUS
<1>4. Aligned(c)
  <2>1. c \in [1..1 -> Int] /\ c[1] = 0
    BY <1>3
  <2>2. QED
    BY <1>2, <2>1 DEF Aligned
<1>5. Progress(c)
  BY <1>1, <1>2, <1>3 DEF Progress, AtLine
<1>6. HandledInv
  <2>1. DOMAIN handled = {}
    BY <1>1
  <2>2. sent \in Seq(Messages) /\ handled \in Seq({Meaning(m) : m \in Messages})
    BY <1>1
  <2>3. QED
    BY <1>1, <1>2, <2>1, <2>2 DEF HandledInv, RequestsAsSent, Busy
<1>7. QED
  BY <1>4, <1>5, <1>6 DEF StreamInv, ProgressInv

LEMMA StepStream == TypeInv /\ StreamInv /\ [Next]_vars => StreamInv'
<1> SUFFICES ASSUME TypeInv, StreamInv, [Next]_vars PROVE StreamInv'
  OBVIOUS
<1>1. CASE (\E r \in Routes : Register(r)) \/ Start \/ OnConnection
  BY <1>1, SetupStream
<1>2. CASE \E m \in Messages : ClientSends(m)
  BY <1>2, SendStream
<1>3. CASE \E n \in 1..Len(wire) : OnMessage(n)
  BY <1>3, ReadStream
<1>4. CASE Parse \/ Refuse \/ RequestNotWhole
  BY <1>4, ParseStream
<1>5. CASE RequestStep
  BY <1>5, OnRequestStream, AnswerStream
<1>6. CASE UNCHANGED vars
  <2>1. UNCHANGED <<pc, input, wire, sent, handled, state, request>>
    BY <1>6 DEF vars, contextVars
  <2>2. HandledInv'
    BY <2>1, HandledSame DEF StreamInv, HandledInv, Busy
  <2>3. PICK c : Aligned(c) /\ Progress(c)
    BY DEF StreamInv, ProgressInv
  <2>4. UNCHANGED <<Asked, Current>>
    BY <2>1 DEF Asked, Current
  <2>5. Aligned(c)' /\ Progress(c)'
    BY <2>1, <2>3, <2>4, StreamSame DEF Progress, AtLine, AtHeaders, AtBody, AtEnd
  <2>6. QED
    BY <2>2, <2>5 DEF StreamInv, ProgressInv
<1>7. QED
  BY <1>1, <1>2, <1>3, <1>4, <1>5, <1>6 DEF Next, LoopStep

LEMMA StreamInvariant == Spec => []StreamInv
BY TypeInvariant, InitStream, StepStream, PTL DEF Spec

\* However the bytes of the requests are cut into messages, HttpServer's
\* onRequest() is given the requests that the client sent, in order.
THEOREM RequestsAlwaysAsSent == Spec => []RequestsAsSent
<1>1. StreamInv => RequestsAsSent
  BY DEF StreamInv, HandledInv
<1>2. QED
  BY <1>1, StreamInvariant, PTL

-----------------------------------------------------------------------------
(* HttpServer implements HttpExchange.                                     *)

\* While the connection is open there is an answer to each request handled, but
\* for the one that onRequest() is at, or was at when the process ended.
ExchangeInv ==
    /\ \E S : out \in Seq(S)
    /\ pc \in {"setup", "listening"} <=> conn = "kConnecting"
    /\ conn # "kDisconnecting" /\ pc # "aborted" =>
          Len(out) = Len(handled) - (IF Busy THEN 1 ELSE 0)

\* What HttpExchange is told of an answer.
AnswerOf(o) == [of |-> o.of, last |-> o.text.connection # "Keep-Alive"]

AnswersOf(s) == [i \in DOMAIN s |-> AnswerOf(s[i])]

LEMMA AnswersGrow ==
    ASSUME NEW S, NEW s \in Seq(S), NEW o
    PROVE  /\ Append(s, o) \in Seq(S \cup {o})
           /\ Len(Append(s, o)) = Len(s) + 1
           /\ AnswersOf(Append(s, o)) = Append(AnswersOf(s), AnswerOf(o))
           /\ Len(AnswersOf(s)) = Len(s)
<1> DEFINE T == S \cup {o}
           U == {AnswerOf(x) : x \in T}
           a == AnswersOf(s)
           n == Len(s)
<1>1. s \in Seq(T) /\ o \in T /\ n \in Nat /\ DOMAIN s = 1..n
  BY SeqMonotonic, LenProperties
<1>2. PICK t : t = Append(s, o)
  OBVIOUS
<1>3. /\ t \in Seq(T) /\ Len(t) = n + 1 /\ t[n + 1] = o
      /\ \A i \in 1..n : t[i] = s[i]
  <2> HIDE DEF T, n
  <2>1. QED
    BY <1>1, <1>2, AppendProperties DEF n
<1>4. a \in Seq(U) /\ Len(a) = n /\ \A i \in 1..n : a[i] = AnswerOf(s[i])
  <2>1. a = [i \in 1..n |-> AnswerOf(s[i])]
    BY <1>1 DEF AnswersOf
  <2>2. \A i \in 1..n : AnswerOf(s[i]) \in U
    <3>1. \A i \in 1..n : s[i] \in T
      BY <1>1, ElementOfSeq
    <3>2. QED
      BY <3>1
  <2> HIDE DEF a, U
  <2>3. QED
    BY <1>1, <2>1, <2>2
<1>5. PICK b : b = Append(a, AnswerOf(o))
  OBVIOUS
<1>6. /\ b \in Seq(U) /\ Len(b) = n + 1 /\ b[n + 1] = AnswerOf(o)
      /\ \A i \in 1..n : b[i] = a[i]
  <2>1. AnswerOf(o) \in U
    OBVIOUS
  <2> HIDE DEF a, U
  <2>2. QED
    BY <1>4, <1>5, <2>1, AppendProperties
<1>7. b = [i \in 1..(n + 1) |-> b[i]]
  BY <1>6
<1>8. AnswersOf(t) = [i \in 1..(n + 1) |-> AnswerOf(t[i])]
  <2>1. DOMAIN t = 1..(n + 1)
    BY <1>3, LenProperties
  <2>2. QED
    BY <2>1 DEF AnswersOf
<1>9. \A i \in 1..(n + 1) : b[i] = AnswerOf(t[i])
  <2>1. TAKE i \in 1..(n + 1)
  <2>2. i \in 1..n \/ i = n + 1
    BY <1>1
  <2>3. QED
    BY <1>3, <1>4, <1>6, <2>2
<1>10. AnswersOf(t) = b
  BY <1>7, <1>8, <1>9
<1>11. QED
  BY <1>2, <1>3, <1>4, <1>5, <1>10

\* An answer goes out, while the connection is open.
LEMMA AnswerSent ==
    ASSUME TypeInv, HandledInv, ExchangeInv, Refuse \/ Send
    PROVE  /\ ExchangeInv'
           /\ Exchange!Next \/ UNCHANGED Exchange!vars
<1> DEFINE of == IF Busy THEN Len(handled) ELSE Len(handled) + 1
           text == IF Busy THEN Serialized(response) ELSE BadRequest
           last == text.connection # "Keep-Alive"
<1>1. /\ SendAs(of, text) /\ UNCHANGED <<sent, handled>> /\ pc' = "idle"
      /\ pc \notin {"setup", "listening", "aborted"} /\ ~Busy'
  BY DEF Refuse, Send, Busy
<1>2. /\ conn' = IF conn = "kConnected" /\ last THEN "kDisconnecting" ELSE conn
      /\ last \in BOOLEAN
  <2>1. CASE Refuse
    <3>1. ~Busy /\ Shutdown
      BY <2>1 DEF Refuse, Busy
    <3>2. last
      BY <3>1 DEF BadRequest
    <3>3. QED
      BY <3>1, <3>2 DEF Shutdown
  <2>2. CASE Send
    <3>1. Busy /\ response.close \in BOOLEAN
      BY <2>2 DEF Send, Busy, TypeInv, ResponseType
    <3>2. last <=> response.close
      BY <3>1 DEF Serialized
    <3>3. conn' = IF conn = "kConnected" /\ response.close THEN "kDisconnecting" ELSE conn
      BY <2>2, <3>1 DEF Send, Shutdown
    <3>4. QED
      BY <3>2, <3>3
  <2>3. QED
    BY <2>1, <2>2
<1>3. conn \in {"kConnected", "kDisconnecting"}
  BY <1>1 DEF ExchangeInv, TypeInv, StateInv
<1>4. Len(handled) \in Nat /\ Len(sent) \in Nat /\ of \in Nat /\ of <= Len(sent)
  <2>1. Len(handled) \in Nat /\ Len(sent) \in Nat /\ Len(handled) <= Len(sent)
    BY CurrentIs DEF HandledInv
  <2>2. ~Busy => Len(handled) + 1 <= Len(sent)
    <3>1. ~Busy => pc = "refused"
      BY DEF Refuse, Send, Busy
    <3>2. QED
      BY <3>1 DEF HandledInv, Asked
  <2>3. QED
    BY <2>1, <2>2
<1>5. PICK S : out \in Seq(S)
  BY DEF ExchangeInv
<1> HIDE DEF text
<1>6. CASE conn = "kDisconnecting"
  <2>1. UNCHANGED <<out, conn, sent>>
    BY <1>1, <1>2, <1>6 DEF SendAs
  <2>2. ExchangeInv'
    BY <1>1, <1>5, <1>6, <2>1 DEF ExchangeInv
  <2>3. UNCHANGED Exchange!vars
    BY <2>1 DEF Exchange!vars
  <2>4. QED
    BY <2>2, <2>3
<1>7. CASE conn = "kConnected"
  <2> DEFINE o == [of |-> of, text |-> text]
  <2>1. out' = Append(out, o)
    BY <1>1, <1>7 DEF SendAs
  <2>2. Len(out) + 1 = of
    BY <1>1, <1>4, <1>7 DEF ExchangeInv
  <2>3. AnswerOf(o) = [of |-> of, last |-> last]
    BY DEF AnswerOf
  <2> HIDE DEF o, of, last
  <2>4. /\ out' \in Seq(S \cup {o}) /\ Len(out') = Len(out) + 1
        /\ AnswersOf(out') = Append(AnswersOf(out), AnswerOf(o))
        /\ Len(AnswersOf(out)) = Len(out)
    BY <1>5, <2>1, AnswersGrow
  <2>5. ExchangeInv'
    <3>1. \E T : out' \in Seq(T)
      BY <2>4
    <3>2. conn' # "kConnecting"
      BY <1>2, <1>7
    <3>3. conn' # "kDisconnecting" => Len(out') = Len(handled')
      <4>1. Busy => Len(handled') = of
        BY <1>1 DEF of
      <4>2. ~Busy => conn' = "kDisconnecting"
        BY <1>2, <1>7 DEF last, text, BadRequest
      <4>3. QED
        BY <1>4, <2>2, <2>4, <4>1, <4>2
    <3>4. QED
      BY <1>1, <1>4, <3>1, <3>2, <3>3 DEF ExchangeInv
  <2>6. Exchange!Next
    <3>1. PICK l \in BOOLEAN : l = last
      BY <1>2
    <3>2. (conn # "kDisconnecting") = TRUE
      BY <1>7
    <3>3. (conn' # "kDisconnecting") = ~l
      BY <1>2, <1>7, <3>1
    <3>4. Len(AnswersOf(out)) < Len(sent)
      <4>1. Len(out) \in Nat
        BY <1>5, LenProperties
      <4>2. QED
        BY <1>4, <2>2, <2>4, <4>1
    <3>5. AnswersOf(out') = Append(AnswersOf(out), [of |-> Len(AnswersOf(out)) + 1, last |-> l])
      BY <2>2, <2>3, <2>4, <3>1
    <3>6. Exchange!Answer(l)
      BY <1>1, <3>2, <3>3, <3>4, <3>5 DEF Exchange!Answer, AnswersOf, AnswerOf
    <3>7. \E e \in BOOLEAN : Exchange!Answer(e)
      BY <3>6
    <3>8. QED
      BY <3>7 DEF Exchange!Next
  <2>7. QED
    BY <2>5, <2>6
<1>8. QED
  BY <1>3, <1>6, <1>7

LEMMA StepExchange ==
    TypeInv /\ HandledInv /\ ExchangeInv /\ [Next]_vars
      => ExchangeInv' /\ [Exchange!Next]_(Exchange!vars)
<1> SUFFICES ASSUME TypeInv, HandledInv, ExchangeInv, [Next]_vars
             PROVE  ExchangeInv' /\ [Exchange!Next]_(Exchange!vars)
  OBVIOUS
<1>1. PICK S : out \in Seq(S)
  BY DEF ExchangeInv
<1>2. /\ Len(handled) \in Nat /\ handled \in Seq({Meaning(m) : m \in Messages})
      /\ sent \in Seq(Messages)
  BY CurrentIs DEF HandledInv
\* What leaves the answers, and goes from one half of a callback to the other.
<1>3. ASSUME UNCHANGED <<out, conn, handled>>, pc = "aborted" => pc' = "aborted",
             pc' # "aborted" => (Busy' <=> Busy),
             pc' \in {"setup", "listening"} <=> pc \in {"setup", "listening"}
      PROVE  ExchangeInv'
  BY <1>1, <1>3 DEF ExchangeInv
<1>4. ASSUME UNCHANGED <<sent, out, conn>> PROVE UNCHANGED Exchange!vars
  BY <1>4 DEF Exchange!vars
<1>5. CASE (\E r \in Routes : Register(r)) \/ Start
  <2>1. /\ UNCHANGED <<out, conn, handled, sent>>
        /\ pc \in {"setup", "listening"} /\ pc' \in {"setup", "listening"}
    BY <1>5 DEF Register, Start, contextVars
  <2>2. QED
    BY <1>3, <1>4, <2>1 DEF Busy
<1>6. CASE OnConnection
  <2>1. /\ UNCHANGED <<out, handled, sent>> /\ pc = "listening" /\ pc' = "idle"
        /\ conn' = "kConnected"
    BY <1>6 DEF OnConnection
  <2>2. conn = "kConnecting"
    BY <2>1 DEF ExchangeInv
  <2>3. ExchangeInv'
    BY <1>1, <2>1, <2>2 DEF ExchangeInv, Busy
  <2>4. (conn' # "kDisconnecting") = (conn # "kDisconnecting")
    BY <2>1, <2>2
  <2>5. UNCHANGED Exchange!vars
    BY <2>1, <2>4 DEF Exchange!vars
  <2>6. QED
    BY <2>3, <2>5
<1>7. CASE \E m \in Messages : ClientSends(m)
  <2>1. PICK m \in Messages : ClientSends(m)
    BY <1>7
  <2>2. UNCHANGED <<pc, out, conn, handled>> /\ sent' = Append(sent, m)
    BY <2>1 DEF ClientSends, contextVars
  <2>3. Len(sent') = Len(sent) + 1
    BY <1>2, <2>2, AppendProperties
  <2>4. Exchange!Ask
    BY <2>2, <2>3 DEF Exchange!Ask
  <2>5. ExchangeInv'
    BY <1>3, <2>2 DEF Busy
  <2>6. QED
    BY <2>4, <2>5 DEF Exchange!Next
<1>8. CASE (\E n \in 1..Len(wire) : OnMessage(n)) \/ Parse \/ RequestNotWhole
  <2>1. /\ UNCHANGED <<out, conn, handled, sent>>
        /\ pc \in {"idle", "parse", "parsed"}
        /\ pc' \in {"idle", "parse", "parsed", "refused", "aborted"}
    <3>1. CASE Parse
      BY <3>1, ParseTyped DEF Parse, TypeInv, StateInv
    <3>2. CASE (\E n \in 1..Len(wire) : OnMessage(n)) \/ RequestNotWhole
      BY <3>2 DEF OnMessage, RequestNotWhole
    <3>3. QED
      BY <1>8, <3>1, <3>2
  <2>2. QED
    BY <1>3, <1>4, <2>1 DEF Busy
<1>9. CASE OnRequest
  <2>1. /\ UNCHANGED <<out, conn, sent>> /\ pc = "parsed" /\ pc' = "before"
        /\ handled' = Append(handled, request)
    BY <1>9 DEF OnRequest
  <2>2. Len(handled') = Len(handled) + 1
    <3>1. handled \in Seq({Meaning(m) : m \in Messages} \cup {request})
      BY <1>2, SeqMonotonic
    <3>2. QED
      BY <2>1, <3>1, AppendProperties
  <2>3. conn # "kDisconnecting" => Len(out) = Len(handled)
    BY <1>2, <2>1 DEF ExchangeInv, Busy
  <2>4. ExchangeInv'
    BY <1>1, <1>2, <2>1, <2>2, <2>3 DEF ExchangeInv, Busy
  <2>5. QED
    BY <1>4, <2>1, <2>4
<1>10. CASE RequestStep /\ ~OnRequest /\ ~Send
  <2>1. /\ UNCHANGED <<out, conn, handled, sent>>
        /\ Busy /\ pc' \in {"before", "handle", "after", "send", "aborted"}
    BY <1>10 DEF RequestStep, CorsBefore, UserBefore, RouteRequest, UserHandler,
                DefaultCallback, CorsAfterCalled, UserAfter, AftersDone, CallBefore,
                CallHandler, CallAfter, onRequestUnchanged, BeforeReturns, Busy,
                ThrowResponse, ThrowException, ThrowOther, Throw, Answered
  <2>2. QED
    BY <1>3, <1>4, <2>1 DEF Busy
<1>11. CASE Refuse \/ Send
  BY <1>11, AnswerSent
<1>12. CASE UNCHANGED vars
  <2>1. UNCHANGED <<pc, out, conn, handled, sent>>
    BY <1>12 DEF vars, contextVars
  <2>2. QED
    BY <1>3, <1>4, <2>1 DEF Busy
<1>13. QED
  BY <1>5, <1>6, <1>7, <1>8, <1>9, <1>10, <1>11, <1>12 DEF Next, LoopStep, RequestStep

LEMMA InitExchange == Init => ExchangeInv /\ Exchange!Init
<1> SUFFICES ASSUME Init PROVE ExchangeInv /\ Exchange!Init
  OBVIOUS
<1>1. /\ pc = "setup" /\ conn = "kConnecting" /\ out = <<>> /\ handled = <<>>
      /\ sent = <<>>
  BY DEF Init
<1>2. out \in Seq({})
  BY <1>1
<1>3. ExchangeInv
  <2>1. Len(out) = 0 /\ Len(handled) = 0
    BY <1>1
  <2>2. QED
    BY <1>1, <1>2, <2>1 DEF ExchangeInv, Busy
<1>4. AnswersOf(out) = <<>>
  <2> DEFINE a == AnswersOf(out)
  <2>1. DOMAIN out = 1..0
    BY <1>1
  <2>2. a = [i \in 1..0 |-> AnswerOf(out[i])]
    BY <2>1 DEF AnswersOf
  <2> HIDE DEF a
  <2>3. a \in Seq({}) /\ Len(a) = 0
    BY <2>2
  <2>4. a = <<>>
    BY <2>3, EmptySeq
  <2>5. QED
    BY <2>4 DEF a
<1>5. Len(sent) = 0 /\ (conn # "kDisconnecting") = TRUE
  BY <1>1
<1>6. Exchange!Init
  BY <1>4, <1>5 DEF Exchange!Init, AnswersOf, AnswerOf
<1>7. QED
  BY <1>3, <1>6

LEMMA ExchangeInvariant == Spec => [](TypeInv /\ HandledInv /\ ExchangeInv)
<1>1. StreamInv => HandledInv
  BY DEF StreamInv
<1>2. QED
  BY <1>1, TypeInvariant, StreamInvariant, InitExchange, StepExchange, PTL DEF Spec

\* HttpServer answers each request once, in their order, and nothing after the
\* answer that closes.
THEOREM Refinement == Spec => ImplementsHttpExchange
BY ExchangeInvariant, InitExchange, StepExchange, PTL
   DEF Spec, ImplementsHttpExchange, Exchange!Spec
=============================================================================
