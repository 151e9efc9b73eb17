---------------------------- MODULE HttpContext ----------------------------
(***************************************************************************)
(* The request parser of one connection (http/src/HttpContext.cc) and the  *)
(* request it fills in (http/src/HttpRequest.cc).                          *)
(*                                                                         *)
(* The bytes of a stream are tokens: the text of a request line, cut into  *)
(* its words; the text of a header line; a CRLF; one byte of a body.       *)
(* parseRequest() loops over the input buffer, one action per round, and   *)
(* keeps its state from one message callback to the next.  pc is where the *)
(* loop's thread is: "parse" while in parseRequest(), "parsed" or          *)
(* "refused" when it has returned true or false, "aborted" when the        *)
(* process is gone.                                                        *)
(***************************************************************************)
EXTENDS Naturals, Sequences, SequencesExt

CONSTANTS Numeral,     \* the header values std::stoull() takes: their number
          kInvalid     \* no method, no version

ASSUME NumeralType == \A value \in DOMAIN Numeral : Numeral[value] \in Nat

VARIABLES pc,
          input,       \* what the connection's input buffer has to read
          state,       \* HttpContext::state_
          request      \* HttpContext::request_

contextVars == <<pc, input, state, request>>

-----------------------------------------------------------------------------
(* Texts.                                                                  *)

CRLF == [eol |-> TRUE]

\* method, blank, URL (path and query) and, after another blank, the version.
RequestLine(method, path, query, version) ==
    [method |-> method, path |-> path, query |-> query, version |-> version]

HeaderLine(field, value) == [field |-> field, value |-> value]

BodyByte == [byte |-> TRUE]

IsA(what, line) == Len(line) = 1 /\ what \in DOMAIN line[1]

\* Whether a first word is followed by a blank: neither an empty line nor a byte.
HasMethod(line) == line # <<>> /\ ~IsA("byte", line)

\* Whether that word is the method of a line with a URL and a blank behind it.
HasUrl(line) == IsA("method", line) /\ line[1].version # kInvalid

Methods  == {"GET", "POST", "HEAD", "PUT", "DELETE"}
Versions == {"HTTP/1.0", "HTTP/1.1"}

\* kInvalid is no text of a request line.
ASSUME KInvalidApart == kInvalid \notin Methods \cup Versions \cup {"OPTIONS"}

-----------------------------------------------------------------------------
(* HttpRequest.                                                            *)

NewRequest == [method |-> kInvalid, version |-> kInvalid, path |-> <<>>,
               queryParameters |-> <<>>, headers |-> <<>>,
               content |-> <<>>, contentLength |-> 0]

\* Functions from keys to values: a later value of a key replaces the earlier.
Put(f, key, value) ==
    [k \in DOMAIN f \cup {key} |-> IF k = key THEN value ELSE f[k]]

\* setMethod(); its assertion is the guard of the actions that call it.
SetMethod(req, word) ==
    [req EXCEPT !.method = IF word \in Methods THEN word ELSE kInvalid]

\* The pairs key=value of the query, in turn.
SetQueryParameters(req, query) ==
    [req EXCEPT !.queryParameters =
        FoldLeft(LAMBDA f, pair : Put(f, pair[1], pair[2]), @, query)]

\* Mutant: a header that came before keeps its value.
AddHeader_Keep(req, h) ==
    IF h.field \in DOMAIN req.headers THEN req
    ELSE [req EXCEPT !.headers = Put(@, h.field, h.value)]

AddHeader(req, h) == [req EXCEPT !.headers = Put(@, h.field, h.value)]

GetHeader(req, field) ==
    IF field \in DOMAIN req.headers THEN req.headers[field] ELSE ""

-----------------------------------------------------------------------------
(* parseRequest().                                                         *)

\* findCRLF(): the place of the first, 0 if there is none.
CrlfAt == IF \E i \in DOMAIN input : input[i] = CRLF
          THEN CHOOSE i \in DOMAIN input :
                  input[i] = CRLF /\ \A j \in 1..(i - 1) : input[j] # CRLF
          ELSE 0

Line == SubSeq(input, 1, CrlfAt - 1)

Retrieve(n) == input' = SubSeq(input, n + 1, Len(input))

Returns(result) == pc' = result

\* The word before the first blank, and what setMethod() makes of it.
MethodOf(line) == IF IsA("method", line) THEN line[1].method ELSE "other"

\* What processRequestLine() leaves in the request, the line being good or not.
LineProcessed(req, line) ==
    LET m == SetMethod(req, MethodOf(line))
        u == SetQueryParameters([m EXCEPT !.path = line[1].path], line[1].query)
    IN  IF ~HasMethod(line) THEN req
        ELSE IF m.method = kInvalid \/ ~HasUrl(line) THEN m
        ELSE IF line[1].version \in Versions
             THEN [u EXCEPT !.version = line[1].version] ELSE u

GoodLine(line) == /\ HasUrl(line)
                  /\ line[1].method \in Methods
                  /\ line[1].version \in Versions

\* setMethod() asserts that there is no method yet.
AssertHolds(line) == HasMethod(line) => request.method = kInvalid

Expecting(s) == pc = "parse" /\ state = s

ExpectingLine(s) == Expecting(s) /\ CrlfAt # 0

\* A line that has not come whole waits for the next message.
LineNotWhole ==
    /\ pc = "parse"
    /\ state \in {"kExpectRequestLine", "kExpectHeaders"}
    /\ CrlfAt = 0
    /\ Returns("parsed")
    /\ UNCHANGED <<input, state, request>>

ParseRequestLine ==
    /\ ExpectingLine("kExpectRequestLine")
    /\ AssertHolds(Line) /\ GoodLine(Line)
    /\ request' = LineProcessed(request, Line)
    /\ Retrieve(CrlfAt)
    /\ state' = "kExpectHeaders"
    /\ UNCHANGED pc

\* The line stays in the buffer, and what was set of the request stays set.
RefuseRequestLine ==
    /\ ExpectingLine("kExpectRequestLine")
    /\ AssertHolds(Line) /\ ~GoodLine(Line)
    /\ request' = LineProcessed(request, Line)
    /\ Returns("refused")
    /\ UNCHANGED <<input, state>>

AssertFails ==
    /\ ExpectingLine("kExpectRequestLine")
    /\ ~AssertHolds(Line)
    /\ pc' = "aborted"
    /\ UNCHANGED <<input, state, request>>

ParseHeader ==
    /\ ExpectingLine("kExpectHeaders")
    /\ IsA("field", Line)
    /\ request' = AddHeader(request, Line[1])
    /\ Retrieve(CrlfAt)
    /\ UNCHANGED <<pc, state>>

\* Content-Length, of the methods that have a body; "" if there is none.
LengthText ==
    IF request.method \in {"POST", "PUT"} THEN GetHeader(request, "Content-Length")
                                          ELSE ""

\* Any line without a colon ends the headers.
EndHeaders ==
    /\ ExpectingLine("kExpectHeaders")
    /\ ~IsA("field", Line)
    /\ Retrieve(CrlfAt)
    /\ \/ /\ LengthText = ""
          /\ state' = "kGotAll" /\ Returns("parsed")
          /\ UNCHANGED request
       \/ /\ LengthText \in DOMAIN Numeral
          /\ request' = [request EXCEPT !.contentLength = Numeral[LengthText]]
          /\ IF request'.contentLength > 0
             THEN state' = "kExpectBody" /\ UNCHANGED pc
             ELSE state' = "kGotAll" /\ Returns("parsed")

\* std::stoull() throws, and nobody up to the thread's function catches it.
LengthThrows ==
    /\ ExpectingLine("kExpectHeaders")
    /\ ~IsA("field", Line)
    /\ LengthText # "" /\ LengthText \notin DOMAIN Numeral
    /\ pc' = "aborted"
    /\ UNCHANGED <<input, state, request>>

\* Mutant: one byte more than the body is waited for.
BodyWhole_OneMore == Len(input) > request.contentLength

BodyWhole == Len(input) >= request.contentLength

BodyNotWhole ==
    /\ Expecting("kExpectBody") /\ ~BodyWhole
    /\ Returns("parsed")
    /\ UNCHANGED <<input, state, request>>

ParseBody ==
    /\ Expecting("kExpectBody") /\ BodyWhole
    /\ request' = [request EXCEPT !.content = SubSeq(input, 1, request.contentLength)]
    /\ Retrieve(request.contentLength)
    /\ state' = "kGotAll" /\ Returns("parsed")

ParseStep == \/ LineNotWhole \/ ParseRequestLine \/ RefuseRequestLine
             \/ AssertFails \/ ParseHeader \/ EndHeaders \/ LengthThrows
             \/ BodyNotWhole \/ ParseBody

\* Mutant: the state is forgotten.
ResetContext_RequestOnly == UNCHANGED state /\ request' = NewRequest

\* reset(), and the context that onConnection() gives a new connection.
ResetContext == state' = "kExpectRequestLine" /\ request' = NewRequest
=============================================================================
