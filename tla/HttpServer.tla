----------------------------- MODULE HttpServer -----------------------------
(***************************************************************************)
(* An HttpServer (http/src/HttpServer.cc) and one of its connections:      *)
(* routes and middlewares are registered, the server starts, a client      *)
(* connects and sends requests, and each message callback parses what has  *)
(* come and answers at most one request.                                   *)
(*                                                                         *)
(* All of a callback runs in the thread of the connection's loop; pc is    *)
(* where it is.  The router and the middlewares, shared by all             *)
(* connections, are not written any more once the server has started.      *)
(* Handlers, middlewares and what setHttpCallback() was given are user     *)
(* code: they may set the response, or throw, as they like.  The TCP layer *)
(* is TcpConnection's; here only shutdown() matters, after which send()    *)
(* does nothing.                                                           *)
(***************************************************************************)
EXTENDS Router, Middleware

CONSTANTS Routes,           \* routes a program may register
          Chains,           \* sequences of middlewares: "cors" or "user"
          Messages,         \* requests a client may send, see Tokens
          MaxRoutes,        \* bound on registrations
          MaxMessages       \* bound on the requests of the client

ASSUME RoutesType ==
    Routes \subseteq [table : Tables, method : STRING, path : Seq(STRING), to : STRING]
ASSUME ChainsType == Chains \subseteq Seq({"cors", "user"})
\* A query is a sequence of pairs <<key, value>>.
ASSUME MessagesType ==
    \A m \in Messages :
        /\ m.line \in [method : STRING, path : Seq(STRING),
                       query : Seq(STRING \X STRING), version : STRING]
        /\ m.headers \in Seq([field : STRING, value : STRING])
        /\ m.body \in Seq({BodyByte, CRLF})

VARIABLES chain,       \* MiddlewareChain::middlewares_
          conn,        \* the connection's state_
          wire,        \* what the client sent and the loop has not read
          response,    \* of onRequest()
          next,        \* the index of the chain's loops
          routed,      \* what route() found
          regs,        \* history: the routes registered
          sent,        \* history: the messages of the client
          patient,     \* whether the client waits for each answer
          handled,     \* history: the requests given to onRequest()
          calls,       \* history: what onRequest() has called
          threw,       \* history: the last of those has thrown
          out          \* history: the responses sent, of |-> which request

serverVars == <<tables, chain, regs, patient>>
requestVars == <<response, next, routed, calls, threw>>
vars == <<contextVars, serverVars, requestVars, conn, wire, sent, handled, out>>

-----------------------------------------------------------------------------
(* The client.  A message is a record: line, the text of the request line; *)
(* headers, the sequence of the header lines; body.                        *)

\* Each header line is followed by a CRLF.
HeaderTokens(headers) ==
    [i \in 1..(2 * Len(headers)) |-> IF i % 2 = 1 THEN headers[(i + 1) \div 2] ELSE CRLF]

Tokens(m) == <<m.line, CRLF>> \o HeaderTokens(m.headers) \o <<CRLF>> \o m.body

\* The last of the values of a key counts.
LastOf(pairs) ==
    [k \in {pairs[i][1] : i \in DOMAIN pairs} |->
        pairs[CHOOSE i \in DOMAIN pairs :
                 pairs[i][1] = k /\ \A j \in (i + 1)..Len(pairs) : pairs[j][1] # k][2]]

HeaderPairs(m) == [i \in DOMAIN m.headers |-> <<m.headers[i].field, m.headers[i].value>>]

\* What a message says, read as a whole.
Meaning(m) ==
    [method |-> m.line.method, version |-> m.line.version, path |-> m.line.path,
     queryParameters |-> LastOf(m.line.query), headers |-> LastOf(HeaderPairs(m)),
     content |-> m.body, contentLength |-> Len(m.body)]

\* The length that a message gives its body: see LengthText.
LengthSaid(m) ==
    IF m.line.method \in {"POST", "PUT"} THEN GetHeader(Meaning(m), "Content-Length") ELSE ""

\* It is the body's length; without one there is no body.
ASSUME MessagesFramed ==
    \A m \in Messages :
        /\ LengthSaid(m) = "" => m.body = <<>>
        /\ LengthSaid(m) \in DOMAIN Numeral => Numeral[LengthSaid(m)] = Len(m.body)

ClientSends(m) ==
    /\ pc \notin {"setup", "listening", "aborted"}
    /\ Len(sent) < MaxMessages
    /\ patient => Len(out) = Len(sent)
    /\ sent' = Append(sent, m)
    /\ wire' = wire \o Tokens(m)
    /\ UNCHANGED <<contextVars, serverVars, requestVars, conn, handled, out>>

-----------------------------------------------------------------------------
(* Setting up.                                                             *)

Init == /\ pc = "setup"
        /\ input = <<>> /\ state = "kExpectRequestLine" /\ request = NewRequest
        /\ tables = NoRoutes /\ regs = <<>>
        /\ chain \in Chains /\ patient \in BOOLEAN
        /\ conn = "kConnecting" /\ wire = <<>> /\ sent = <<>>
        /\ response = NewResponse(TRUE) /\ next = 0
        /\ routed = Chosen(Fallback, <<>>) /\ calls = <<>> /\ threw = FALSE
        /\ handled = <<>> /\ out = <<>>

\* Get(), Post(), addRoute().
Register(r) ==
    /\ pc = "setup" /\ Len(regs) < MaxRoutes
    /\ RegisterRoute(r)
    /\ regs' = Append(regs, r)
    /\ UNCHANGED <<contextVars, chain, patient, requestVars,
                   conn, wire, sent, handled, out>>

Start ==
    /\ pc = "setup" /\ pc' = "listening"
    /\ UNCHANGED <<input, state, request, serverVars, requestVars,
                   conn, wire, sent, handled, out>>

\* onConnection() of a new connection gives it a context.
OnConnection ==
    /\ pc = "listening" /\ pc' = "idle"
    /\ conn' = "kConnected"
    /\ ResetContext
    /\ UNCHANGED <<input, serverVars, requestVars, wire, sent, handled, out>>

-----------------------------------------------------------------------------
(* onMessage().                                                            *)

\* The loop has read n tokens of what the client sent; parseRequest() is called.
OnMessage(n) ==
    /\ pc = "idle" /\ pc' = "parse"
    /\ input' = input \o SubSeq(wire, 1, n)
    /\ wire' = SubSeq(wire, n + 1, Len(wire))
    /\ UNCHANGED <<state, request, serverVars, requestVars, conn, sent, handled, out>>

Parse == ParseStep /\ UNCHANGED <<serverVars, requestVars, conn, wire, sent, handled, out>>

BadRequest == [version |-> "HTTP/1.1", status |-> "400", connection |-> "none",
               headers |-> <<>>]

\* Mutant: whatever the state of the connection.
SendAs_Always(of, text) == out' = Append(out, [of |-> of, text |-> text])

\* TcpConnection::send() of the answer to the request of the number of.
SendAs(of, text) ==
    out' = IF conn = "kConnected" THEN Append(out, [of |-> of, text |-> text]) ELSE out

\* TcpConnection::shutdown().
Shutdown == conn' = IF conn = "kConnected" THEN "kDisconnecting" ELSE conn

\* The context is not reset.
Refuse ==
    /\ pc = "refused" /\ pc' = "idle"
    /\ SendAs(Len(handled) + 1, BadRequest)
    /\ Shutdown
    /\ UNCHANGED <<input, state, request, serverVars, requestVars, wire, sent, handled>>

RequestNotWhole ==
    /\ pc = "parsed" /\ state # "kGotAll"
    /\ pc' = "idle"
    /\ UNCHANGED <<input, state, request, serverVars, requestVars,
                   conn, wire, sent, handled, out>>

-----------------------------------------------------------------------------
(* onRequest().                                                            *)

onRequestUnchanged == <<input, state, request, serverVars, wire, sent, handled, out, conn>>

\* Whether the client asks to close: HTTP/1.0 closes unless told otherwise.
AsksToClose(req) ==
    LET connection == GetHeader(req, "Connection")
    IN  connection = "close" \/ (req.version = "HTTP/1.0" /\ connection # "Keep-Alive")

Called(what) == calls' = Append(calls, what)

OnRequest ==
    /\ pc = "parsed" /\ state = "kGotAll"
    /\ pc' = "before"
    /\ handled' = Append(handled, request)
    /\ response' = [NewResponse(AsksToClose(request)) EXCEPT !.version = request.version]
    /\ next' = 1
    /\ UNCHANGED <<input, state, request, routed, calls, threw, serverVars,
                   wire, sent, conn, out>>

\* A thrown response is the response; another exception makes it a 500.
Throw(resp) == response' = resp /\ threw' = TRUE /\ pc' = "send"

ThrowException == Throw(WithStatus(response, "500"))

ThrowResponse == \E close \in BOOLEAN : Throw(WithStatus(NewResponse(close), "early"))

\* What is thrown but is neither that nor a std::exception, nobody catches.
ThrowOther == pc' = "aborted" /\ UNCHANGED <<response, threw>>

CallBefore(mw) ==
    /\ pc = "before" /\ next <= Len(chain) /\ chain[next] = mw
    /\ Called(<<"before", next>>)
    /\ next' = next + 1
    /\ UNCHANGED <<routed, onRequestUnchanged>>

BeforeReturns == UNCHANGED <<pc, response, threw>>

CorsBefore ==
    /\ CallBefore("cors")
    /\ IF IsPreflight(request) THEN Throw(Preflight(request)) ELSE BeforeReturns

UserBefore ==
    /\ CallBefore("user")
    /\ BeforeReturns \/ ThrowResponse \/ ThrowException \/ ThrowOther

RouteRequest ==
    /\ pc = "before" /\ next > Len(chain)
    /\ pc' = "handle"
    /\ routed' = Route(request.method, request.path)
    /\ UNCHANGED <<response, next, calls, threw, onRequestUnchanged>>

\* Mutant: the chain is gone through from its start again.
FirstAfter_Forward == 1

\* processAfter() starts with the last middleware.
FirstAfter == Len(chain)

Answered(resp) == /\ response' = resp
                  /\ pc' = "after"
                  /\ next' = FirstAfter
                  /\ UNCHANGED threw

CallHandler == /\ pc = "handle"
               /\ Called(<<"handler", 0>>)
               /\ UNCHANGED <<routed, onRequestUnchanged>>

\* What user code may make of a response: setCloseConnection().
Closing(resp) == {[resp EXCEPT !.close = close] : close \in BOOLEAN}

\* A callback or handler of the program, or its own httpCallback_; it may throw
\* when it has set some of the response.
UserHandler ==
    /\ CallHandler
    /\ \/ \E resp \in Closing(response) :
             \/ Answered(WithStatus(resp, "200"))
             \/ Throw(WithStatus(resp, "500")) /\ UNCHANGED next
       \/ (ThrowResponse \/ ThrowOther) /\ UNCHANGED next

\* defaultHttpCalback_(), which httpCallback_ is unless the program set it.
DefaultCallback ==
    /\ CallHandler /\ routed.to = Fallback
    /\ Answered(WithStatus([response EXCEPT !.close = TRUE], "404"))

CallAfter(mw) ==
    /\ pc = "after" /\ next \in DOMAIN chain /\ chain[next] = mw
    /\ Called(<<"after", next>>)
    /\ next' = next - 1
    /\ UNCHANGED <<routed, onRequestUnchanged>>

CorsAfterCalled ==
    /\ CallAfter("cors")
    /\ response' = CorsAfter(response) /\ UNCHANGED <<pc, threw>>

\* A std::exception of after() ends processAfter() and is forgotten.
UserAfter ==
    /\ CallAfter("user")
    /\ \/ response' \in Closing(response) /\ UNCHANGED <<pc, threw>>
       \/ \E resp \in Closing(response) : Throw(resp)
       \/ ThrowResponse
       \/ ThrowOther

AftersDone ==
    /\ pc = "after" /\ next \notin DOMAIN chain
    /\ pc' = "send"
    /\ UNCHANGED <<requestVars, onRequestUnchanged>>

\* The response goes out; back in onMessage(), the locals of onRequest() are gone
\* and the context is reset.
Send ==
    /\ pc = "send" /\ pc' = "idle"
    /\ SendAs(Len(handled), Serialized(response))
    /\ IF response.close THEN Shutdown ELSE UNCHANGED conn
    /\ ResetContext
    /\ response' = NewResponse(TRUE) /\ next' = 0
    /\ routed' = Chosen(Fallback, <<>>) /\ calls' = <<>> /\ threw' = FALSE
    /\ UNCHANGED <<input, serverVars, wire, sent, handled>>

-----------------------------------------------------------------------------
(* Specification.                                                          *)

RequestStep == \/ OnRequest \/ CorsBefore \/ UserBefore \/ RouteRequest
               \/ UserHandler \/ DefaultCallback \/ CorsAfterCalled \/ UserAfter
               \/ AftersDone \/ Send

LoopStep == \/ \E n \in 1..Len(wire) : OnMessage(n)
            \/ Parse \/ Refuse \/ RequestNotWhole \/ RequestStep

Next == \/ \E r \in Routes : Register(r)
        \/ Start \/ OnConnection
        \/ \E m \in Messages : ClientSends(m)
        \/ LoopStep

\* The loop's thread goes on: epoll reports what the client sent, and callbacks
\* return.
Spec == Init /\ [][Next]_vars /\ WF_vars(LoopStep)

-----------------------------------------------------------------------------
(* Properties.                                                             *)

\* The types of the variables; between two callbacks no finished request is left
\* in the context, where parseRequest() would loop on it for ever.
TypeOK ==
    /\ pc \in {"setup", "listening", "idle", "parse", "parsed", "refused",
               "before", "handle", "after", "send", "aborted"}
    /\ state \in {"kExpectRequestLine", "kExpectHeaders", "kExpectBody", "kGotAll"}
    /\ pc \in {"idle", "parse", "refused"} => state # "kGotAll"
    /\ request.method \in Methods \cup {kInvalid}
    /\ request.version \in Versions \cup {kInvalid}
    /\ conn \in {"kConnecting", "kConnected", "kDisconnecting"}
    /\ next \in 0..(Len(chain) + 1)
    /\ response.close \in BOOLEAN

\* However the bytes of the requests are cut into messages, the requests handled
\* are those sent, in order, each with its own fields and its own body and with
\* nothing of the one before it.
RequestsAsSent ==
    \A i \in DOMAIN handled : i <= Len(sent) /\ handled[i] = Meaning(sent[i])

\* One answer to each request, in their order, and none after the last.
Exchange == INSTANCE HttpExchange WITH
    asked   <- Len(sent),
    answers <- [i \in DOMAIN out |->
                   [of |-> out[i].of, last |-> out[i].text.connection # "Keep-Alive"]],
    open    <- conn # "kDisconnecting"
ImplementsHttpExchange == Exchange!Spec

\* What the comment before route() says of the routes registered: static ones
\* before patterns, callbacks before handlers, of static routes for one key the
\* last registered, of patterns that match the first.  A parameter stands for any
\* segment that is not empty.
Fits(r, method, path) ==
    /\ r.method = method
    /\ Len(r.path) = Len(path)
    /\ \A i \in DOMAIN path :
          IF ~IsStatic(r.table) /\ r.path[i] \in Parameters \cup {AnySegment}
          THEN path[i] # "" ELSE r.path[i] = path[i]

Candidates(table, method, path) ==
    {i \in DOMAIN regs : regs[i].table = table /\ Fits(regs[i], method, path)}

Newest(S) == CHOOSE i \in S : \A j \in S : j <= i

Best(table, S) == IF IsStatic(table) THEN Newest(S) ELSE First(S)

Priority == <<"staticCallbacks", "staticHandlers", "regexCallbacks", "regexHandlers">>

Wanted(method, path) ==
    LET C(n) == Candidates(Priority[n], method, path)
        met  == {n \in 1..4 : C(n) # {}}
    IN  IF met = {} THEN Fallback
        ELSE regs[Best(Priority[First(met)], C(First(met)))].to

RoutedAsRegistered ==
    pc = "handle" => routed.to = Wanted(request.method, request.path)

\* The middlewares are an onion: what onRequest() calls is at any time the start
\* of befores, handler, afters the other way round, and all of it before the
\* answer goes out, unless the last called has thrown.
Layers == [i \in DOMAIN chain |-> <<"before", i>>] \o <<<<"handler", 0>>>>
          \o [i \in DOMAIN chain |-> <<"after", Len(chain) + 1 - i>>]

Onion == /\ pc \in {"before", "handle", "after", "send"} => IsPrefix(calls, Layers)
         /\ pc = "send" => calls = Layers \/ threw

\* A client that waits for each answer before its next request gets them all: a
\* request never stays in the buffer or in the context.  (One that does not wait
\* may: of two requests read at once, the second is left for the next message.)
EveryRequestAnswered ==
    (patient /\ Len(out) < Len(sent)) ~>
        (Len(out) = Len(sent) \/ conn = "kDisconnecting" \/ pc = "aborted")

\* The assertion of setMethod(): a request line is parsed into a new request.
MethodUnset == ExpectingLine("kExpectRequestLine") => AssertHolds(Line)

\* Preflight requests are answered by the CORS middleware's before(), which says
\* 204 or 403, if the chain starts with it.
PreflightAnswered ==
    \A i \in DOMAIN out :
        (sent[i].line.method = "OPTIONS" /\ chain # <<>> /\ chain[1] = "cors")
            => out[i].text.status \in {"204", "403"}
=============================================================================
