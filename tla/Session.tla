------------------------------ MODULE Session ------------------------------
(***************************************************************************)
(* Sessions (http/src/Session.cc), their manager (SessionManager.cc) and   *)
(* the map they are kept in (SessionStorage.cc), as the requests of        *)
(* several I/O threads use them: a login, a request that looks at who is   *)
(* logged in, a logout.                                                    *)
(*                                                                         *)
(* A session is known by its id; ids are drawn at random from 2^128 and    *)
(* taken to be new.  The map points to the session of each id in stored; a *)
(* request that has loaded a session keeps it, whatever becomes of the     *)
(* map.  There are no locks.  Operations on the map that do not overlap    *)
(* are steps of their own; of two that may overlap, one writing, nothing   *)
(* can be said, and the model ends there, with raced.                      *)
(***************************************************************************)
EXTENDS Naturals, FiniteSets

CONSTANTS Threads,      \* of the I/O loops
          Clients,      \* browsers; each logs in as a user of its own
          Nobody,       \* no user, no client
          maxAge,       \* of a session
          MaxTime,      \* bound on the clock
          MaxSessions   \* bound on the sessions made

ASSUME NobodyType == Nobody \notin Clients
ASSUME BoundsType == maxAge \in Nat /\ MaxTime \in Nat /\ MaxSessions \in Nat

VARIABLES now,        \* std::chrono::system_clock
          stored,     \* ids that are keys of MemorySessionStorage::sessions_
          made,       \* how many sessions there have been; they are 1..made
          expiry,     \* expiryTime_ of the sessions
          user,       \* data_ of the sessions: who is logged in
          cookie,     \* of clients: the session their browser sends, or none
          pc,         \* of threads: where in a request
          client,     \* of threads: whose request
          kind,       \* of threads: which request
          sent,       \* of threads: the session of the request's cookie
          session,    \* of threads: getSession()'s variable
          setCookie,  \* of threads: the response has a Set-Cookie
          shown,      \* of threads: the user the response tells of
          known,      \* history, of threads: who was logged in to the cookie's
                      \* session when the request came
          lastUse,    \* history: when a session was made or refreshed last
          lapsed,     \* history: sessions not used for longer than maxAge, once
          loggedOut,  \* history: sessions a logout has destroyed
          overlapped, \* history: those of them that another request then held
          heldAtEnd,  \* history: those lapsed while a request held them
          raced       \* two operations without a lock between them overlap

sessionVars == <<stored, made, expiry, user>>
requestVars == <<pc, client, kind, sent, session, setCookie, shown, known>>
endVars == <<lapsed, heldAtEnd, loggedOut, overlapped>>
historyVars == <<lastUse, endVars>>
vars == <<now, sessionVars, cookie, requestVars, historyVars, raced>>

None     == 0
Sessions == 1..MaxSessions

Init == /\ now = 0
        /\ stored = {} /\ made = 0
        /\ expiry = [s \in Sessions |-> 0]
        /\ user = [s \in Sessions |-> Nobody]
        /\ cookie = [c \in Clients |-> None]
        /\ pc = [t \in Threads |-> "idle"]
        /\ client = [t \in Threads |-> Nobody]
        /\ kind = [t \in Threads |-> "profile"]
        /\ sent = [t \in Threads |-> None]
        /\ session = [t \in Threads |-> None]
        /\ setCookie = [t \in Threads |-> FALSE]
        /\ shown = [t \in Threads |-> Nobody]
        /\ known = [t \in Threads |-> Nobody]
        /\ lastUse = [s \in Sessions |-> 0]
        /\ lapsed = {} /\ heldAtEnd = {} /\ loggedOut = {} /\ overlapped = {}
        /\ raced = FALSE

\* Mutant: the comparison the other way round.
IsExpired_Reversed(s) == now < expiry[s]

IsExpired(s) == now > expiry[s]

At(t, here, there) == pc[t] = here /\ pc' = [pc EXCEPT ![t] = there]

-----------------------------------------------------------------------------
(* getSession().                                                           *)

\* A request comes to a handler; getSessionIdFromCookie() finds the session.
Request(t, c, k) ==
    /\ At(t, "idle", "load")
    /\ client' = [client EXCEPT ![t] = c]
    /\ kind' = [kind EXCEPT ![t] = k]
    /\ sent' = [sent EXCEPT ![t] = cookie[c]]
    /\ session' = [session EXCEPT ![t] = None]
    /\ setCookie' = [setCookie EXCEPT ![t] = FALSE]
    /\ shown' = [shown EXCEPT ![t] = Nobody]
    /\ known' = [known EXCEPT ![t] =
                    IF cookie[c] = None THEN Nobody ELSE user[cookie[c]]]
    /\ UNCHANGED <<now, sessionVars, cookie, historyVars>>

Loads(s) == s \in stored /\ ~IsExpired(s)

\* load(): an expired session is erased on the way.
Load(t) ==
    LET s == sent[t]
    IN  /\ At(t, "load", "check")
        /\ session' = [session EXCEPT ![t] = IF Loads(s) THEN s ELSE None]
        /\ stored' = IF Loads(s) THEN stored ELSE stored \ {s}
        /\ UNCHANGED <<now, made, expiry, user, cookie, client, kind, sent,
                       setCookie, shown, known, historyVars>>

\* Mutant: the generator gives the same id again.
NewId_Same(t) == 1

\* generateSessionId().
NewId(t) == made + 1

Usable(t) == session[t] # None /\ ~IsExpired(session[t])

\* No session, or one that has expired since: a new one, and Set-Cookie.
Create(t) ==
    LET s == NewId(t)
    IN  /\ ~Usable(t) /\ s <= MaxSessions
        /\ At(t, "check", "refresh")
        /\ made' = IF s > made THEN s ELSE made
        /\ expiry' = [expiry EXCEPT ![s] = now + maxAge]
        /\ user' = [user EXCEPT ![s] = Nobody]
        /\ lastUse' = [lastUse EXCEPT ![s] = now]
        /\ session' = [session EXCEPT ![t] = s]
        /\ setCookie' = [setCookie EXCEPT ![t] = TRUE]
        /\ UNCHANGED <<now, stored, cookie, client, kind, sent, shown, known, endVars>>

Reuse(t) ==
    /\ Usable(t)
    /\ At(t, "check", "refresh")
    /\ UNCHANGED <<now, sessionVars, cookie, client, kind, sent, session,
                   setCookie, shown, known, historyVars>>

\* Mutant: the end of the session's time stays where it was.
Refreshed_Not(s) == expiry

Refreshed(s) == [expiry EXCEPT ![s] = now + maxAge]

Refresh(t) ==
    /\ At(t, "refresh", "save")
    /\ expiry' = Refreshed(session[t])
    /\ lastUse' = [lastUse EXCEPT ![session[t]] = now]
    /\ UNCHANGED <<now, stored, made, user, cookie, client, kind, sent, session,
                   setCookie, shown, known, endVars>>

\* Mutant: under the id that the request came with.
Store_Sent(t) == stored' = stored \cup {sent[t]}

\* save().
Store(t) == stored' = stored \cup {session[t]}

Save(t) ==
    /\ At(t, "save", "act")
    /\ Store(t)
    /\ UNCHANGED <<now, made, expiry, user, cookie, client, kind, sent, session,
                   setCookie, shown, known, historyVars>>

-----------------------------------------------------------------------------
(* What handlers do with the session they have got.                        *)

Acts(t, k, there) == kind[t] = k /\ At(t, "act", there)

\* setValue(), and updateSession() after it.
Login(t) ==
    /\ Acts(t, "login", "update")
    /\ user' = [user EXCEPT ![session[t]] = client[t]]
    /\ UNCHANGED <<now, stored, made, expiry, cookie, client, kind, sent, session,
                   setCookie, shown, known, historyVars>>

Update(t) ==
    /\ At(t, "update", "respond")
    /\ Store(t)
    /\ UNCHANGED <<now, made, expiry, user, cookie, client, kind, sent, session,
                   setCookie, shown, known, historyVars>>

\* getValue().
Profile(t) ==
    /\ Acts(t, "profile", "respond")
    /\ shown' = [shown EXCEPT ![t] = user[session[t]]]
    /\ UNCHANGED <<now, sessionVars, cookie, client, kind, sent, session,
                   setCookie, known, historyVars>>

Holds(t, s) == pc[t] # "idle" /\ session[t] = s

\* Mutant: the session is emptied, and stays in the map.
Destroyed_Kept(s) == stored

\* destroySession().
Destroyed(s) == stored \ {s}

Logout(t) ==
    LET s == session[t]
    IN  /\ Acts(t, "logout", "respond")
        /\ stored' = Destroyed(s)
        /\ loggedOut' = loggedOut \cup {s}
        /\ overlapped' = IF \E u \in Threads \ {t} : Holds(u, s)
                         THEN overlapped \cup {s} ELSE overlapped
        /\ UNCHANGED <<now, made, expiry, user, cookie, client, kind, sent, session,
                       setCookie, shown, known, lastUse, lapsed, heldAtEnd>>

\* The response reaches the browser.
Respond(t) ==
    /\ At(t, "respond", "idle")
    /\ cookie' = IF setCookie[t] THEN [cookie EXCEPT ![client[t]] = session[t]]
                                 ELSE cookie
    /\ client' = [client EXCEPT ![t] = Nobody]
    /\ kind' = [kind EXCEPT ![t] = "profile"]
    /\ sent' = [sent EXCEPT ![t] = None]
    /\ session' = [session EXCEPT ![t] = None]
    /\ setCookie' = [setCookie EXCEPT ![t] = FALSE]
    /\ shown' = [shown EXCEPT ![t] = Nobody]
    /\ known' = [known EXCEPT ![t] = Nobody]
    /\ UNCHANGED <<now, sessionVars, historyVars>>

-----------------------------------------------------------------------------
Tick == /\ now < MaxTime
        /\ now' = now + 1
        /\ LET ended == {s \in 1..made : now' > lastUse[s] + maxAge}
           IN  /\ lapsed' = lapsed \cup ended
               /\ heldAtEnd' = heldAtEnd \cup
                     {s \in ended : \E t \in Threads : Holds(t, s)}
        /\ UNCHANGED <<sessionVars, cookie, requestVars, lastUse, loggedOut, overlapped>>

\* The next thing that a thread does with the map writes to it.
Writes(t) == \/ pc[t] \in {"save", "update"}
             \/ pc[t] = "act" /\ kind[t] = "logout"
             \/ pc[t] = "load" /\ sent[t] \in stored /\ IsExpired(sent[t])
Reads(t)  == pc[t] = "load" /\ sent[t] # None

\* So may the generator of session ids, data_ and expiryTime_ be used by two
\* threads at once: the last two only if they hold the same session.
DrawsId(t) == pc[t] = "check" /\ ~Usable(t)
SameSession(t, u) ==
    /\ session[t] = session[u] /\ session[t] # None
    /\ \/ pc[t] = "act" /\ kind[t] = "login" /\ pc[u] = "act" /\ kind[u] # "logout"
       \/ pc[t] = "refresh" /\ pc[u] \in {"check", "refresh"}

Overlap(t, u) ==
    /\ t # u
    /\ \/ Writes(t) /\ (Writes(u) \/ Reads(u))
       \/ DrawsId(t) /\ DrawsId(u)
       \/ SameSession(t, u)
    /\ raced' = TRUE
    /\ UNCHANGED <<now, sessionVars, cookie, requestVars, historyVars>>

RequestStep(t) == \/ Load(t) \/ Create(t) \/ Reuse(t) \/ Refresh(t) \/ Save(t)
                  \/ Login(t) \/ Update(t) \/ Profile(t) \/ Logout(t) \/ Respond(t)

Next == /\ ~raced
        /\ \/ /\ \/ \E t \in Threads, c \in Clients,
                       k \in {"login", "profile", "logout"} : Request(t, c, k)
                 \/ \E t \in Threads : RequestStep(t)
                 \/ Tick
              /\ UNCHANGED raced
           \/ \E t, u \in Threads : Overlap(t, u)

Spec == Init /\ [][Next]_vars

-----------------------------------------------------------------------------
(* Properties.                                                             *)

\* The types of the variables; the map and the browsers know only sessions that
\* were made.
TypeOK ==
    /\ now \in 0..MaxTime /\ made \in 0..MaxSessions
    /\ stored \subseteq 1..made
    /\ expiry \in [Sessions -> 0..(MaxTime + maxAge)]
    /\ user \in [Sessions -> Clients \cup {Nobody}]
    /\ cookie \in [Clients -> 0..made]
    /\ client \in [Threads -> Clients \cup {Nobody}]
    /\ kind \in [Threads -> {"login", "profile", "logout"}]
    /\ sent \in [Threads -> 0..made] /\ session \in [Threads -> 0..made]
    /\ setCookie \in [Threads -> BOOLEAN]
    /\ shown \in [Threads -> Clients \cup {Nobody}]
    /\ \A t \in Threads : pc[t] \in {"refresh", "save", "act", "update", "respond"}
                             => session[t] # None

\* No client is told of another's user, and two clients never use one session.
Isolation ==
    /\ \A t \in Threads : pc[t] = "respond" => shown[t] \in {client[t], Nobody}
    /\ \A c, d \in Clients : cookie[c] = cookie[d] => c = d \/ cookie[c] = None
    /\ \A s \in Sessions, c \in Clients : cookie[c] = s => user[s] \in {c, Nobody}

\* A client stays logged in: a request that comes with a session in which it is
\* logged in is answered out of that session, and tells of its user, unless the
\* time of the session has run out or a logout has destroyed it.
ActiveKept ==
    \A t \in Threads :
        (pc[t] = "respond" /\ sent[t] # None /\ sent[t] \notin lapsed \cup loggedOut)
            => /\ session[t] = sent[t]
               /\ kind[t] = "profile" /\ known[t] # Nobody => shown[t] = known[t]

\* A session that is logged out of never comes back, unless another request held
\* it then, which saves it again (with requests of one thread: never).
LogoutFinal ==
    \A s \in loggedOut \ overlapped :
        s \notin stored /\ \A t \in Threads : Holds(t, s) => pc[t] = "respond"

\* A session whose time has run out is never used again, unless a request held it
\* then, which refreshes it after that: being still in the map gives it no life.
LapseFinal ==
    \A s \in lapsed \ heldAtEnd, t \in Threads : ~Holds(t, s)
=============================================================================
