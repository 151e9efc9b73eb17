----------------------------- MODULE Middleware -----------------------------
(***************************************************************************)
(* Responses (http/include/HttpResponse.h) and the CORS middleware         *)
(* (http/src/CoresMiddleware.cc), the one the repository brings along.     *)
(* Of the headers a response may have, those whose value depends on the    *)
(* request or the configuration are kept; bodies are left out.             *)
(***************************************************************************)
EXTENDS HttpContext

CONSTANTS AllowedOrigins,    \* CorsConfig: a sequence
          AllowCredentials   \* CorsConfig: a Boolean

NewResponse(close) ==
    [version |-> "", status |-> "kUnknown", close |-> close, headers |-> <<>>]

WithStatus(resp, status) == [resp EXCEPT !.status = status]

AddResponseHeader(resp, field, value) ==
    [resp EXCEPT !.headers = Put(@, field, value)]

\* appendToBuffer(): the Connection header is made of closeConnection_.
Serialized(resp) ==
    [version    |-> resp.version,
     status     |-> resp.status,
     connection |-> IF resp.close THEN "close" ELSE "Keep-Alive",
     headers    |-> resp.headers]

-----------------------------------------------------------------------------
AnyOrigin == "*" \in ToSet(AllowedOrigins)

IsOriginAllowed(origin) == AnyOrigin \/ origin \in ToSet(AllowedOrigins)

AddCorsHeaders(resp, origin) ==
    LET r == AddResponseHeader(resp, "Access-Control-Allow-Origin", origin)
    IN  IF AllowCredentials
        THEN AddResponseHeader(r, "Access-Control-Allow-Credentials", "true") ELSE r

\* handlePreflightRequest(), of a response made for it: it closes the connection
\* and has no version.
Preflight(req) ==
    LET origin == GetHeader(req, "Origin")
    IN  IF IsOriginAllowed(origin)
        THEN WithStatus(AddCorsHeaders(NewResponse(TRUE), origin), "204")
        ELSE WithStatus(NewResponse(TRUE), "403")

IsPreflight(req) == req.method = "OPTIONS"

\* CorsMiddleware::after().
CorsAfter(resp) ==
    IF AllowedOrigins = <<>> THEN resp
    ELSE AddCorsHeaders(resp, IF AnyOrigin THEN "*" ELSE AllowedOrigins[1])
=============================================================================
