---------------------------- MODULE MCHttpServer ----------------------------
(* HttpServer for TLC.                                                     *)
EXTENDS HttpServer, TLC

Get(path, query, version) == RequestLine("GET", path, query, version)
Post == RequestLine("POST", <<"login">>, <<>>, "HTTP/1.1")

Message(line, headers, body) == [line |-> line, headers |-> headers, body |-> body]

\* A body with a line end in it.
Body == <<BodyByte, CRLF>>

Length(v) == HeaderLine("Content-Length", v)
Close     == HeaderLine("Connection", "close")

Answerable ==
    {Message(Get(<<"user", "42">>, <<<<"q", "1">>, <<"q", "2">>>>, "HTTP/1.1"), <<>>, <<>>),
     Message(Get(<<"user", "">>, <<>>, "HTTP/1.0"), <<>>, <<>>),
     Message(Post, <<Length("0"), Length("2")>>, Body),
     Message(Post, <<Close, Length("0")>>, <<>>)}

Faulty ==
    {Message(Post, <<Length("two")>>, <<>>),
     Message(Get(<<"login">>, <<>>, "HTTP/2"), <<>>, <<>>),
     Message(RequestLine("OPTIONS", <<"login">>, <<>>, "HTTP/1.1"), <<>>, <<>>)}

AllMessages == Answerable \cup Faulty

NumeralOf == "0" :> 0 @@ "2" :> 2

Route_(t, m, p, to) == [table |-> t, method |-> m, path |-> p, to |-> to]

RoutesMC ==
    {Route_("staticCallbacks", "GET", <<"user", "42">>, "static1"),
     Route_("staticCallbacks", "GET", <<"user", "42">>, "static2"),
     Route_("staticHandlers",  "GET", <<"user", "42">>, "handler"),
     Route_("regexCallbacks",  "GET", <<"user", ":id">>, "pattern1"),
     Route_("regexHandlers",   "GET", <<":kind", ":id">>, "pattern2")}

ChainsMC == {<<>>, <<"user", "cors">>}
CorsFirst == {<<"cors">>}

Origins == <<"a.example">>
=============================================================================
