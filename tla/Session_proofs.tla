--------------------------- MODULE Session_proofs ---------------------------
(***************************************************************************)
(* For any number of threads, browsers and sessions and any maxAge: as     *)
(* long as no two unlocked operations overlap, no browser gets at the      *)
(* session of another, a session in use is kept, and one that is logged    *)
(* out of or has lapsed does not come back.                                *)
(***************************************************************************)
EXTENDS Session, TLAPS

Locations == {"idle", "load", "check", "refresh", "save", "act", "update", "respond"}

-----------------------------------------------------------------------------
(* The inductive invariant.                                                *)

\* The variables by kind: functions on threads, functions on sessions, and the
\* rest; bounds that grow with made are weakened to what every step keeps.
ThreadTypes ==
    /\ pc \in [Threads -> Locations]
    /\ client \in [Threads -> Clients \cup {Nobody}]
    /\ kind \in [Threads -> {"login", "profile", "logout"}]
    /\ sent \in [Threads -> Nat] /\ session \in [Threads -> Nat]
    /\ setCookie \in [Threads -> BOOLEAN]
    /\ shown \in [Threads -> Clients \cup {Nobody}]
    /\ known \in [Threads -> Clients \cup {Nobody}]

SessionTypes ==
    /\ now \in 0..MaxTime /\ made \in 0..MaxSessions
    /\ expiry \in [Sessions -> 0..(MaxTime + maxAge)]
    /\ user \in [Sessions -> Clients \cup {Nobody}]
    /\ lastUse \in [Sessions -> 0..MaxTime]
    /\ cookie \in [Clients -> Nat]

\* Only sessions that were made are known anywhere.
MadeInv ==
    /\ stored \subseteq 1..made
    /\ lapsed \subseteq 1..made /\ loggedOut \subseteq 1..made
    /\ \A c \in Clients : cookie[c] <= made
    /\ \A t \in Threads : sent[t] <= made /\ session[t] <= made

\* What a thread has in which place.
PlaceInv ==
    \A t \in Threads :
       /\ pc[t] = "idle" => sent[t] = None /\ session[t] = None
       /\ pc[t] # "idle" => client[t] \in Clients
       /\ pc[t] = "update" => kind[t] = "login"
       /\ pc[t] \in {"refresh", "save", "act", "update", "respond"} => session[t] # None

TypeInv == ThreadTypes /\ SessionTypes /\ MadeInv /\ PlaceInv

\* The browser of c, or a request of it, has session s.
Uses(c, s) == \/ cookie[c] = s
              \/ \E t \in Threads : client[t] = c /\ s \in {sent[t], session[t]}

\* A session has one browser, all the time, and only its user is logged in to it.
OwnInv ==
    /\ \A s \in 1..made, c, d \in Clients : Uses(c, s) /\ Uses(d, s) => c = d
    /\ \A s \in 1..made, c \in Clients : Uses(c, s) => user[s] \in {c, Nobody}
    /\ \A t \in Threads : shown[t] \in {client[t], Nobody}

\* The time of a session runs from its last use.
ExpiryInv ==
    \A s \in 1..made : /\ expiry[s] = lastUse[s] + maxAge
                       /\ now > lastUse[s] + maxAge => s \in lapsed

\* A lapsed session that nobody held stays unused.
LapseInv ==
    \A s \in lapsed \ heldAtEnd : /\ now > lastUse[s] + maxAge
                                  /\ \A t \in Threads : ~Holds(t, s)

Live(s) == s # None /\ s \notin lapsed \cup loggedOut

\* Live sessions are in the map from the time that a browser may learn of them.
StoredInv ==
    /\ \A c \in Clients : Live(cookie[c]) => cookie[c] \in stored
    /\ \A t \in Threads : Live(sent[t]) => sent[t] \in stored
    /\ \A t \in Threads : pc[t] \in {"act", "update", "respond"} /\ Live(session[t])
                             => session[t] \in stored

\* A request that came with a live session has that session.
SameInv == \A t \in Threads :
    pc[t] \notin {"idle", "load"} /\ Live(sent[t]) => session[t] = sent[t]

\* Who was logged in when a request came still is.
KnownInv == \A t \in Threads :
    known[t] # Nobody => /\ known[t] = client[t] /\ sent[t] # None
                         /\ user[sent[t]] = known[t]

\* And is shown.
ShownInv == \A t \in Threads :
    (pc[t] = "respond" /\ kind[t] = "profile" /\ Live(sent[t]) /\ known[t] # Nobody)
        => shown[t] = known[t]

KeptInv == StoredInv /\ SameInv /\ KnownInv /\ ShownInv

\* What a thread may do.
RequestNext(t) ==
    \/ \E c \in Clients, k \in {"login", "profile", "logout"} : Request(t, c, k)
    \/ RequestStep(t)

\* All but raced.
quietVars == <<now, sessionVars, cookie, requestVars, historyVars>>

IInv == TypeInv /\ OwnInv /\ LogoutFinal /\ ExpiryInv /\ LapseInv /\ KeptInv

-----------------------------------------------------------------------------
(* Types.                                                                  *)

LEMMA TypeInvInit == Init => TypeInv
BY BoundsType DEF Init, TypeInv, ThreadTypes, SessionTypes, MadeInv, PlaceInv,
   None, Sessions, Locations

LEMMA TypeInvTypes == TypeInv => TypeOK
BY DEF TypeInv, ThreadTypes, SessionTypes, MadeInv, PlaceInv, TypeOK, None

\* The numbers that occur.
LEMMA Numbers ==
  ASSUME TypeInv
  PROVE  /\ made \in Nat /\ made <= MaxSessions
         /\ now \in Nat /\ now + maxAge \in 0..(MaxTime + maxAge)
         /\ 1..made \subseteq Sessions
         /\ made + 1 <= MaxSessions => made + 1 \in Sessions
         /\ \A t \in Threads : sent[t] \in 0..made /\ session[t] \in 0..made
BY BoundsType DEF TypeInv, ThreadTypes, SessionTypes, MadeInv, Sessions

\* A thread that has got its session.
LEMMA HasSession ==
  ASSUME TypeInv, NEW t \in Threads,
         pc[t] \in {"refresh", "save", "act", "update", "respond"}
  PROVE  session[t] \in 1..made /\ session[t] \in Sessions
<1>1. session[t] # None /\ session[t] \in 0..made /\ made \in Nat
  BY Numbers DEF TypeInv, PlaceInv
<1>2. QED
  BY <1>1, Numbers DEF None

\* The functions on threads keep their types.
LEMMA ThreadTypesStep ==
  ASSUME TypeInv, NEW t \in Threads, RequestNext(t)
  PROVE  ThreadTypes'
<1> USE DEF ThreadTypes, Locations, At, None
<1>1. ASSUME NEW c \in Clients, NEW k \in {"login", "profile", "logout"},
             Request(t, c, k)
      PROVE  ThreadTypes'
  <2>1. cookie[c] # None => cookie[c] \in Sessions
    BY BoundsType DEF TypeInv, SessionTypes, MadeInv, Sessions
  <2>2. known' \in [Threads -> Clients \cup {Nobody}]
    BY <1>1, <2>1 DEF Request, TypeInv, SessionTypes
  <2>3. QED
    BY <1>1, <2>2 DEF Request, TypeInv, SessionTypes
<1>2. CASE Load(t)
  BY <1>2 DEF Load, TypeInv
<1>3. CASE Create(t)
  BY <1>3 DEF Create, NewId, TypeInv, SessionTypes
<1>4. CASE Reuse(t)
  BY <1>4 DEF Reuse, TypeInv
<1>5. CASE Refresh(t)
  BY <1>5 DEF Refresh, TypeInv
<1>6. CASE Save(t)
  BY <1>6 DEF Save, TypeInv
<1>7. CASE Login(t)
  BY <1>7 DEF Login, Acts, TypeInv
<1>8. CASE Update(t)
  BY <1>8 DEF Update, TypeInv
<1>9. CASE Profile(t)
  <2>1. session[t] \in Sessions
    BY <1>9, BoundsType DEF Profile, Acts, TypeInv, PlaceInv, MadeInv,
       SessionTypes, Sessions
  <2>2. QED
    BY <1>9, <2>1 DEF Profile, Acts, TypeInv, SessionTypes
<1>10. CASE Logout(t)
  BY <1>10 DEF Logout, Acts, TypeInv
<1>11. CASE Respond(t)
  BY <1>11 DEF Respond, TypeInv
<1>12. QED
  BY <1>1, <1>2, <1>3, <1>4, <1>5, <1>6, <1>7, <1>8, <1>9, <1>10, <1>11
  DEF RequestNext, RequestStep

\* The functions on sessions, and the browsers', keep theirs.
LEMMA SessionTypesStep ==
  ASSUME TypeInv, NEW t \in Threads, RequestNext(t)
  PROVE  SessionTypes'
<1> USE BoundsType DEF TypeInv, ThreadTypes, SessionTypes, MadeInv, PlaceInv,
        At, None, Sessions, sessionVars, historyVars, endVars
<1>1. ASSUME NEW c \in Clients, NEW k \in {"login", "profile", "logout"},
             Request(t, c, k)
      PROVE  SessionTypes'
  BY <1>1 DEF Request
<1>2. CASE Load(t)
  BY <1>2 DEF Load, Loads
<1>3. CASE Create(t)
  <2>1. made + 1 \in Sessions
    BY <1>3, Numbers DEF Create, NewId
  <2>2. made' = made + 1 /\ made' \in 0..MaxSessions
    BY <1>3, Numbers DEF Create, NewId
  <2>3. QED
    BY <1>3, <2>1, <2>2, Numbers DEF Create, NewId
<1>4. CASE Reuse(t)
  BY <1>4 DEF Reuse, Usable
<1>5. CASE Refresh(t)
  <2>1. session[t] \in Sessions
    BY <1>5, HasSession DEF Refresh, At
  <2>2. QED
    BY <1>5, <2>1, Numbers DEF Refresh, Refreshed
<1>6. CASE Save(t)
  BY <1>6 DEF Save, Store
<1>7. CASE Login(t)
  BY <1>7 DEF Login, Acts
<1>8. CASE Update(t)
  BY <1>8 DEF Update, Store
<1>9. CASE Profile(t)
  BY <1>9 DEF Profile, Acts
<1>10. CASE Logout(t)
  BY <1>10 DEF Logout, Acts, Destroyed
<1>11. CASE Respond(t)
  BY <1>11 DEF Respond
<1>12. QED
  BY <1>1, <1>2, <1>3, <1>4, <1>5, <1>6, <1>7, <1>8, <1>9, <1>10, <1>11
  DEF RequestNext, RequestStep

\* No step makes a session known that is not made.
LEMMA MadeInvStep ==
  ASSUME TypeInv, NEW t \in Threads, RequestNext(t)
  PROVE  MadeInv'
<1> USE BoundsType DEF TypeInv, ThreadTypes, SessionTypes, MadeInv, PlaceInv,
        At, None, sessionVars, historyVars, endVars
<1>1. ASSUME NEW c \in Clients, NEW k \in {"login", "profile", "logout"},
             Request(t, c, k)
      PROVE  MadeInv'
  BY <1>1 DEF Request
<1>2. CASE Load(t)
  <2>1. stored' \subseteq stored
    BY <1>2 DEF Load
  <2>2. \A u \in Threads : session'[u] \in {session[u], sent[u], None}
    BY <1>2 DEF Load
  <2>3. \A u \in Threads : session'[u] <= made
    BY <2>2, Numbers DEF None
  <2>4. QED
    BY <1>2, <2>1, <2>3 DEF Load
<1>3. CASE Create(t)
  BY <1>3 DEF Create, NewId
<1>4. CASE Reuse(t)
  BY <1>4 DEF Reuse, Usable
<1>5. CASE Refresh(t)
  BY <1>5 DEF Refresh, Refreshed
<1>6. CASE Save(t)
  <2>1. session[t] \in 1..made
    BY <1>6, HasSession DEF Save, At
  <2>2. QED
    BY <1>6, <2>1 DEF Save, Store
<1>7. CASE Login(t)
  BY <1>7 DEF Login, Acts
<1>8. CASE Update(t)
  <2>1. session[t] \in 1..made
    BY <1>8, HasSession DEF Update, At
  <2>2. QED
    BY <1>8, <2>1 DEF Update, Store
<1>9. CASE Profile(t)
  BY <1>9 DEF Profile, Acts
<1>10. CASE Logout(t)
  <2>1. session[t] \in 1..made
    BY <1>10, HasSession DEF Logout, Acts, At
  <2>2. QED
    BY <1>10, <2>1 DEF Logout, Acts, Destroyed
<1>11. CASE Respond(t)
  BY <1>11 DEF Respond
<1>12. QED
  BY <1>1, <1>2, <1>3, <1>4, <1>5, <1>6, <1>7, <1>8, <1>9, <1>10, <1>11
  DEF RequestNext, RequestStep

\* Threads move on with what they need.
LEMMA PlaceInvStep ==
  ASSUME TypeInv, NEW t \in Threads, RequestNext(t)
  PROVE  PlaceInv'
<1> USE DEF TypeInv, ThreadTypes, PlaceInv, At, None
<1>1. ASSUME NEW c \in Clients, NEW k \in {"login", "profile", "logout"},
             Request(t, c, k)
      PROVE  PlaceInv'
  BY <1>1 DEF Request
<1>2. CASE Load(t)
  BY <1>2 DEF Load, Loads
<1>3. CASE Create(t)
  <2>1. made + 1 # None
    BY Numbers DEF None
  <2>2. QED
    BY <1>3, <2>1 DEF Create, NewId
<1>4. CASE Reuse(t)
  BY <1>4 DEF Reuse, Usable
<1>5. CASE Refresh(t)
  BY <1>5 DEF Refresh, Refreshed
<1>6. CASE Save(t)
  BY <1>6 DEF Save, Store
<1>7. CASE Login(t)
  BY <1>7 DEF Login, Acts
<1>8. CASE Update(t)
  BY <1>8 DEF Update, Store
<1>9. CASE Profile(t)
  BY <1>9 DEF Profile, Acts
<1>10. CASE Logout(t)
  BY <1>10 DEF Logout, Acts, Destroyed
<1>11. CASE Respond(t)
  BY <1>11 DEF Respond
<1>12. QED
  BY <1>1, <1>2, <1>3, <1>4, <1>5, <1>6, <1>7, <1>8, <1>9, <1>10, <1>11
  DEF RequestNext, RequestStep

\* A step is a thread's, the clock's, or changes nothing that matters here.
LEMMA StepCases ==
  ASSUME [Next]_vars
  PROVE  (\E t \in Threads : RequestNext(t)) \/ Tick \/ UNCHANGED quietVars
BY DEF Next, RequestNext, Overlap, vars, quietVars

\* All types, through every step.
LEMMA TypeInvStep ==
  ASSUME TypeInv, [Next]_vars
  PROVE  TypeInv'
<1>1. ASSUME NEW t \in Threads, RequestNext(t) PROVE TypeInv'
  BY <1>1, ThreadTypesStep, SessionTypesStep, MadeInvStep, PlaceInvStep DEF TypeInv
<1>2. CASE Tick
  <2>1. SessionTypes'
    BY <1>2, BoundsType DEF Tick, TypeInv, SessionTypes, sessionVars
  <2>2. \A s \in 1..made : s \in 1..made'
    BY <1>2 DEF Tick, sessionVars
  <2>3. MadeInv'
    BY <1>2, <2>2 DEF Tick, TypeInv, MadeInv, sessionVars, requestVars
  <2>4. ThreadTypes' /\ PlaceInv'
    BY <1>2 DEF Tick, TypeInv, ThreadTypes, PlaceInv, requestVars
  <2>5. QED
    BY <2>1, <2>3, <2>4 DEF TypeInv
<1>3. CASE UNCHANGED quietVars
  BY <1>3 DEF quietVars, TypeInv, ThreadTypes, SessionTypes, MadeInv, PlaceInv,
     sessionVars, requestVars, historyVars, endVars
<1>4. QED
  BY <1>1, <1>2, <1>3, StepCases

-----------------------------------------------------------------------------
(* Who has which session.                                                  *)

\* A step that gives nobody a session that he has not, and changes no user.
LEMMA OwnKept ==
  ASSUME OwnInv, made' = made, user' = user,
         \A s \in 1..made, c \in Clients : Uses(c, s)' => Uses(c, s),
         \A t \in Threads : shown'[t] \in {client'[t], Nobody}
  PROVE  OwnInv'
BY DEF OwnInv

LEMMA OwnInvStep ==
  ASSUME TypeInv, OwnInv, NEW t \in Threads, RequestNext(t)
  PROVE  OwnInv'
<1> USE DEF At, None, sessionVars, TypeInv, ThreadTypes
<1>1. ASSUME NEW c \in Clients, NEW k \in {"login", "profile", "logout"},
             Request(t, c, k)
      PROVE  OwnInv'
  <2>1. \A s \in 1..made, d \in Clients : Uses(d, s)' => Uses(d, s)
    BY <1>1 DEF Request, Uses
  <2>2. \A u \in Threads : shown'[u] \in {client'[u], Nobody}
    BY <1>1 DEF Request, OwnInv
  <2>3. QED
    BY <1>1, <2>1, <2>2, OwnKept DEF Request
<1>2. CASE Load(t)
  <2>1. \A s \in 1..made, d \in Clients : Uses(d, s)' => Uses(d, s)
    BY <1>2 DEF Load, Uses
  <2>2. QED
    BY <1>2, <2>1, OwnKept DEF Load, OwnInv
<1>3. CASE Create(t)
  \* The new session is nobody's, and then that of the thread's client.
  <2>1. \A s \in 1..made, d \in Clients : Uses(d, s)' => Uses(d, s)
    BY <1>3, Numbers DEF Create, NewId, Uses
  <2>2. \A d \in Clients : cookie[d] # made + 1
    BY Numbers DEF SessionTypes, MadeInv
  <2>3. \A u \in Threads : sent[u] # made + 1 /\ session[u] # made + 1
    BY Numbers
  <2>4. ASSUME NEW d \in Clients, NEW s, s = made + 1, Uses(d, s)'
        PROVE  d = client[t]
    <3>1. UNCHANGED <<cookie, client, sent>> /\ session' = [session EXCEPT ![t] = s]
      BY <1>3, <2>4 DEF Create, NewId
    <3>2. PICK u \in Threads : client[u] = d /\ s \in {sent[u], session'[u]}
      BY <2>2, <2>4, <3>1 DEF Uses
    <3>3. u = t
      BY <2>3, <2>4, <3>1, <3>2
    <3>4. QED
      BY <3>2, <3>3
  <2>5. made' = made + 1 /\ made + 1 \in Sessions
    BY <1>3, Numbers DEF Create, NewId
  <2>6. user'[made + 1] = Nobody
    BY <1>3, <2>5 DEF Create, NewId, SessionTypes
  <2>7. \A s \in 1..made : s # made + 1 /\ s \in Sessions
    BY Numbers
  <2>8. \A s \in 1..made : user'[s] = user[s]
    BY <1>3, <2>7 DEF Create, NewId, SessionTypes
  <2>9. \A s \in 1..made' : s \in 1..made \/ s = made + 1
    BY <2>5, Numbers
  <2>10. \A u \in Threads : shown'[u] \in {client'[u], Nobody}
    BY <1>3 DEF Create, OwnInv
  <2>11. ASSUME NEW s \in 1..made', NEW c \in Clients, NEW d \in Clients,
                Uses(c, s)', Uses(d, s)'
         PROVE  c = d
    BY <2>1, <2>4, <2>9, <2>11 DEF OwnInv
  <2>12. ASSUME NEW s \in 1..made', NEW c \in Clients, Uses(c, s)'
         PROVE  user'[s] \in {c, Nobody}
    BY <2>1, <2>6, <2>8, <2>9, <2>12 DEF OwnInv
  <2>13. QED
    BY <2>10, <2>11, <2>12 DEF OwnInv
<1>4. CASE Reuse(t) \/ Refresh(t) \/ Save(t) \/ Update(t) \/ Logout(t)
  <2>1. UNCHANGED <<made, user, cookie, client, sent, session, shown>>
    BY <1>4 DEF Reuse, Refresh, Save, Update, Logout
  <2>2. \A s \in 1..made, d \in Clients : Uses(d, s)' => Uses(d, s)
    BY <2>1 DEF Uses
  <2>3. QED
    BY <2>1, <2>2, OwnKept DEF OwnInv
<1>5. CASE Login(t)
  <2>1. session[t] \in 1..made /\ session[t] \in Sessions
    BY <1>5, HasSession DEF Login, Acts
  <2>2. UNCHANGED <<made, cookie, client, sent, session, shown>>
    BY <1>5 DEF Login
  <2>3. \A s \in 1..made, d \in Clients : Uses(d, s)' => Uses(d, s)
    BY <2>2 DEF Uses
  <2>4. client[t] \in Clients /\ Uses(client[t], session[t])
    BY <1>5 DEF Login, Acts, PlaceInv, Uses
  <2>5. \A s \in 1..made : user'[s] = IF s = session[t] THEN client[t] ELSE user[s]
    BY <1>5, <2>1, Numbers DEF Login, SessionTypes
  <2>6. QED
    BY <2>2, <2>3, <2>4, <2>5 DEF OwnInv
<1>6. CASE Profile(t)
  <2>1. session[t] \in 1..made
    BY <1>6, HasSession DEF Profile, Acts
  <2>2. client[t] \in Clients /\ Uses(client[t], session[t])
    BY <1>6 DEF Profile, Acts, PlaceInv, Uses
  <2>3. user[session[t]] \in {client[t], Nobody}
    BY <2>1, <2>2 DEF OwnInv
  <2>4. \A u \in Threads : shown'[u] \in {client'[u], Nobody}
    BY <1>6, <2>3 DEF Profile, OwnInv
  <2>5. \A s \in 1..made, d \in Clients : Uses(d, s)' => Uses(d, s)
    BY <1>6 DEF Profile, Uses
  <2>6. QED
    BY <1>6, <2>4, <2>5, OwnKept DEF Profile
<1>7. CASE Respond(t)
  <2>1. \A s \in 1..made, d \in Clients : Uses(d, s)' => Uses(d, s)
    BY <1>7 DEF Respond, Uses, SessionTypes
  <2>2. \A u \in Threads : shown'[u] \in {client'[u], Nobody}
    BY <1>7 DEF Respond, OwnInv
  <2>3. QED
    BY <1>7, <2>1, <2>2, OwnKept DEF Respond
<1>8. QED
  BY <1>1, <1>2, <1>3, <1>4, <1>5, <1>6, <1>7 DEF RequestNext, RequestStep

-----------------------------------------------------------------------------
(* Sessions logged out of, and lapsed sessions.                            *)

\* A session that has been destroyed is not in the map to be loaded, nor with a
\* thread that would save it.
LEMMA LogoutFinalStep ==
  ASSUME TypeInv, LogoutFinal, NEW t \in Threads, RequestNext(t)
  PROVE  LogoutFinal'
<1> USE DEF At, None, LogoutFinal, Holds, TypeInv, ThreadTypes, MadeInv,
            historyVars, endVars, sessionVars
<1>1. ASSUME NEW c \in Clients, NEW k \in {"login", "profile", "logout"},
             Request(t, c, k)
      PROVE  LogoutFinal'
  BY <1>1 DEF Request
<1>2. CASE Load(t)
  BY <1>2 DEF Load, Loads
<1>3. CASE Create(t)
  <2>1. made + 1 \notin loggedOut
    BY Numbers
  <2>2. QED
    BY <1>3, <2>1 DEF Create, NewId
<1>4. CASE Reuse(t)
  BY <1>4 DEF Reuse
<1>5. CASE Refresh(t)
  BY <1>5 DEF Refresh
<1>6. CASE Save(t)
  BY <1>6 DEF Save, Store
<1>7. CASE Login(t)
  BY <1>7 DEF Login, Acts
<1>8. CASE Update(t)
  BY <1>8 DEF Update, Store
<1>9. CASE Profile(t)
  BY <1>9 DEF Profile, Acts
<1>10. CASE Logout(t)
  BY <1>10 DEF Logout, Acts, Destroyed
<1>11. CASE Respond(t)
  BY <1>11 DEF Respond
<1>12. QED
  BY <1>1, <1>2, <1>3, <1>4, <1>5, <1>6, <1>7, <1>8, <1>9, <1>10, <1>11
  DEF RequestNext, RequestStep

\* Making and refreshing a session set both of its times.
LEMMA ExpiryInvStep ==
  ASSUME TypeInv, ExpiryInv, NEW t \in Threads, RequestNext(t)
  PROVE  ExpiryInv'
<1> USE DEF ExpiryInv, historyVars, endVars, sessionVars
<1>1. CASE Create(t)
  <2>1. made' = made + 1 /\ made + 1 \in Sessions
    BY <1>1, Numbers DEF Create, NewId
  <2>2. \A s \in 1..made' : s \in Sessions /\ (s \in 1..made \/ s = made + 1)
    BY <2>1, Numbers
  <2>3. /\ expiry' = [expiry EXCEPT ![made + 1] = now + maxAge]
        /\ lastUse' = [lastUse EXCEPT ![made + 1] = now]
        /\ now' = now /\ lapsed' = lapsed
    BY <1>1 DEF Create, NewId
  <2>4. ~(now > now + maxAge)
    BY BoundsType, Numbers
  <2>5. expiry'[made + 1] = now + maxAge /\ lastUse'[made + 1] = now
    BY <2>1, <2>3 DEF TypeInv, SessionTypes
  <2>6. \A s \in 1..made : expiry'[s] = expiry[s] /\ lastUse'[s] = lastUse[s]
    BY <2>3, Numbers DEF TypeInv, SessionTypes
  <2>7. QED
    BY <2>2, <2>3, <2>4, <2>5, <2>6
<1>2. CASE Refresh(t)
  <2>1. session[t] \in Sessions
    BY <1>2, HasSession DEF Refresh, At
  <2>2. ~(now > now + maxAge)
    BY BoundsType, Numbers
  <2>3. QED
    BY <1>2, <2>1, <2>2, Numbers DEF Refresh, Refreshed, TypeInv, SessionTypes
<1>3. CASE \/ \E c \in Clients, k \in {"login", "profile", "logout"} : Request(t, c, k)
           \/ Load(t) \/ Reuse(t) \/ Save(t) \/ Login(t) \/ Update(t)
           \/ Profile(t) \/ Logout(t) \/ Respond(t)
  <2>1. UNCHANGED <<now, made, expiry, lastUse, lapsed>>
    BY <1>3 DEF Request, Load, Reuse, Save, Login, Update, Profile, Logout, Respond
  <2>2. QED
    BY <2>1
<1>4. QED
  BY <1>1, <1>2, <1>3 DEF RequestNext, RequestStep

\* A lapsed session is expired, so that nobody gets it.
LEMMA LapseInvStep ==
  ASSUME TypeInv, ExpiryInv, LapseInv, NEW t \in Threads, RequestNext(t)
  PROVE  LapseInv'
<1> USE DEF LapseInv, Holds, At, None, historyVars, endVars, sessionVars,
            TypeInv, ThreadTypes, MadeInv
<1>1. ASSUME NEW c \in Clients, NEW k \in {"login", "profile", "logout"},
             Request(t, c, k)
      PROVE  LapseInv'
  BY <1>1 DEF Request
<1>2. CASE Load(t)
  <2>1. \A s \in lapsed \ heldAtEnd : ~Loads(s)
    BY DEF ExpiryInv, Loads, IsExpired
  <2>2. QED
    BY <1>2, <2>1 DEF Load
<1>3. CASE Create(t)
  <2>1. made + 1 \notin lapsed
    BY Numbers
  <2>2. \A s \in lapsed : lastUse'[s] = lastUse[s]
    BY <1>3, <2>1, Numbers DEF Create, NewId, SessionTypes
  <2>3. QED
    BY <1>3, <2>1, <2>2 DEF Create, NewId
<1>4. CASE Refresh(t)
  <2>1. session[t] \notin lapsed \ heldAtEnd
    BY <1>4 DEF Refresh
  <2>2. \A s \in lapsed \ heldAtEnd : lastUse'[s] = lastUse[s]
    BY <1>4, <2>1, Numbers DEF Refresh, SessionTypes
  <2>3. QED
    BY <1>4, <2>2 DEF Refresh
<1>5. CASE Reuse(t) \/ Save(t) \/ Login(t) \/ Update(t) \/ Profile(t) \/ Logout(t)
  <2>1. UNCHANGED <<now, lastUse, lapsed, heldAtEnd, session>>
    BY <1>5 DEF Reuse, Save, Login, Update, Profile, Logout
  <2>2. \A u \in Threads : pc'[u] # "idle" => pc[u] # "idle"
    BY <1>5 DEF Reuse, Save, Login, Update, Profile, Logout, Acts
  <2>3. QED
    BY <2>1, <2>2
<1>6. CASE Respond(t)
  BY <1>6 DEF Respond
<1>7. QED
  BY <1>1, <1>2, <1>3, <1>4, <1>5, <1>6 DEF RequestNext, RequestStep

-----------------------------------------------------------------------------
(* Sessions in use.                                                        *)

\* What is live has not expired.
LEMMA LiveNotExpired ==
  ASSUME TypeInv, ExpiryInv, NEW s, Live(s), s <= made, s \in Nat
  PROVE  ~IsExpired(s)
<1>1. s \in 1..made /\ s \notin lapsed
  BY Numbers DEF Live, None
<1>2. QED
  BY <1>1 DEF ExpiryInv, IsExpired

\* Sessions only stop being live, and a step of a request takes no live session
\* out of the map.
LEMMA LiveStays ==
  ASSUME TypeInv, ExpiryInv, NEW t \in Threads, RequestNext(t)
  PROVE  \A s : Live(s)' => Live(s) /\ (s \in stored => s \in stored')
<1> USE DEF Live, historyVars, endVars, sessionVars
<1>1. CASE Load(t)
  <2>1. UNCHANGED <<lapsed, loggedOut>>
    BY <1>1 DEF Load
  <2>2. \A s \in stored : Live(s) => ~IsExpired(s)
    BY LiveNotExpired, Numbers DEF TypeInv, MadeInv
  <2>3. \A s \in stored : Live(s) => s \in stored'
    BY <1>1, <2>2 DEF Load, Loads
  <2>4. QED
    BY <2>1, <2>3
<1>2. CASE Logout(t)
  BY <1>2 DEF Logout, Destroyed
<1>3. CASE \/ \E c \in Clients, k \in {"login", "profile", "logout"} : Request(t, c, k)
           \/ Create(t) \/ Reuse(t) \/ Refresh(t) \/ Save(t) \/ Login(t) \/ Update(t)
           \/ Profile(t) \/ Respond(t)
  <2>1. UNCHANGED <<lapsed, loggedOut>> /\ (stored' = stored \/ Store(t))
    BY <1>3 DEF Request, Create, Reuse, Refresh, Save, Login, Update, Profile, Respond
  <2>2. QED
    BY <2>1 DEF Store
<1>4. QED
  BY <1>1, <1>2, <1>3 DEF RequestNext, RequestStep

LEMMA StoredInvStep ==
  ASSUME TypeInv, ExpiryInv, StoredInv, NEW t \in Threads, RequestNext(t)
  PROVE  StoredInv'
<1>1. \A s : Live(s)' => Live(s) /\ (s \in stored => s \in stored')
  BY LiveStays
<1> HIDE DEF Live
<1> USE DEF StoredInv, At, TypeInv, ThreadTypes
<1>2. ASSUME NEW c \in Clients, NEW k \in {"login", "profile", "logout"},
             Request(t, c, k)
      PROVE  StoredInv'
  BY <1>1, <1>2 DEF Request
<1>3. CASE Save(t)
  <2>1. session[t] \in stored' /\ UNCHANGED <<cookie, sent, session>>
    BY <1>3 DEF Save, Store
  <2>2. \A u \in Threads : u # t => pc'[u] = pc[u]
    BY <1>3 DEF Save
  <2>3. QED
    BY <1>1, <2>1, <2>2
<1>4. CASE Load(t) \/ Create(t) \/ Reuse(t) \/ Refresh(t)
  <2>1. UNCHANGED <<cookie, sent>>
    BY <1>4 DEF Load, Create, Reuse, Refresh
  <2>2. \A u \in Threads : u # t => pc'[u] = pc[u] /\ session'[u] = session[u]
    BY <1>4 DEF Load, Create, Reuse, Refresh
  <2>3. pc'[t] \in {"check", "refresh", "save"}
    BY <1>4 DEF Load, Create, Reuse, Refresh
  <2>4. QED
    BY <1>1, <2>1, <2>2, <2>3
<1>5. CASE Login(t) \/ Update(t) \/ Profile(t) \/ Logout(t)
  <2>1. UNCHANGED <<cookie, sent, session>>
    BY <1>5 DEF Login, Update, Profile, Logout
  <2>2. \A u \in Threads : u # t => pc'[u] = pc[u]
    BY <1>5 DEF Login, Update, Profile, Logout, Acts
  <2>3. pc[t] \in {"act", "update", "respond"}
    BY <1>5 DEF Login, Update, Profile, Logout, Acts
  <2>4. QED
    BY <1>1, <2>1, <2>2, <2>3
<1>6. CASE Respond(t)
  <2>1. \A c \in Clients : cookie'[c] \in {cookie[c], session[t]}
    BY <1>6 DEF Respond, SessionTypes
  <2>2. \A u \in Threads : sent'[u] \in {sent[u], None} /\ session'[u] \in {session[u], None}
    BY <1>6 DEF Respond
  <2>3. \A u \in Threads : u # t => pc'[u] = pc[u]
    BY <1>6 DEF Respond
  <2>4. pc[t] = "respond" /\ pc'[t] = "idle" /\ stored' = stored
    BY <1>6 DEF Respond, sessionVars
  <2>5. ~Live(None)
    BY DEF Live
  <2>6. QED
    BY <1>1, <2>1, <2>2, <2>3, <2>4, <2>5
<1>7. QED
  BY <1>2, <1>3, <1>4, <1>5, <1>6 DEF RequestNext, RequestStep

LEMMA SameInvStep ==
  ASSUME TypeInv, ExpiryInv, StoredInv, SameInv, NEW t \in Threads, RequestNext(t)
  PROVE  SameInv'
<1>1. \A s : Live(s)' => Live(s)
  BY LiveStays
<1>2. Live(sent[t]) => ~IsExpired(sent[t])
  BY LiveNotExpired, Numbers
<1> HIDE DEF Live
<1> USE DEF SameInv, At, TypeInv, ThreadTypes
<1>3. CASE Load(t)
  <2>1. Live(sent[t]) => Loads(sent[t])
    BY <1>2 DEF Loads, StoredInv
  <2>2. QED
    BY <1>1, <1>3, <2>1 DEF Load
<1>4. CASE Create(t)
  <2>1. Live(sent[t]) => Usable(t)
    BY <1>2, <1>4 DEF Create, Usable, Live
  <2>2. QED
    BY <1>1, <1>4, <2>1 DEF Create
<1>5. CASE \/ \E c \in Clients, k \in {"login", "profile", "logout"} : Request(t, c, k)
           \/ Respond(t)
  BY <1>1, <1>5 DEF Request, Respond
<1>6. CASE Reuse(t) \/ Refresh(t) \/ Save(t) \/ Login(t) \/ Update(t) \/ Profile(t)
           \/ Logout(t)
  <2>1. UNCHANGED <<sent, session>>
    BY <1>6 DEF Reuse, Refresh, Save, Login, Update, Profile, Logout
  <2>2. \A u \in Threads : pc'[u] \notin {"idle", "load"} => pc[u] \notin {"idle", "load"}
    BY <1>6 DEF Reuse, Refresh, Save, Login, Update, Profile, Logout, Acts
  <2>3. QED
    BY <1>1, <2>1, <2>2
<1>7. QED
  BY <1>3, <1>4, <1>5, <1>6 DEF RequestNext, RequestStep

\* Only a login changes a user, and it is a login of the same client.
LEMMA KnownInvStep ==
  ASSUME TypeInv, OwnInv, KnownInv, NEW t \in Threads, RequestNext(t)
  PROVE  KnownInv'
<1> USE DEF KnownInv, At, TypeInv, ThreadTypes, sessionVars
<1>1. ASSUME NEW c \in Clients, NEW k \in {"login", "profile", "logout"},
             Request(t, c, k)
      PROVE  KnownInv'
  <2>1. cookie[c] # None => cookie[c] \in 1..made
    BY Numbers DEF SessionTypes, MadeInv, None
  <2>2. cookie[c] # None => user[cookie[c]] \in {c, Nobody}
    BY <2>1 DEF OwnInv, Uses
  <2>3. QED
    BY <1>1, <2>2 DEF Request
<1>2. CASE Create(t)
  <2>1. \A u \in Threads : sent[u] # made + 1
    BY Numbers
  <2>2. \A s \in Sessions : s # made + 1 => user'[s] = user[s]
    BY <1>2 DEF Create, NewId, SessionTypes
  <2>3. \A u \in Threads : sent[u] # None => sent[u] \in Sessions
    BY Numbers DEF None
  <2>4. QED
    BY <1>2, <2>1, <2>2, <2>3 DEF Create
<1>3. CASE Login(t)
  <2>1. session[t] \in 1..made /\ client[t] \in Clients
    BY <1>3, HasSession DEF Login, Acts, PlaceInv
  <2>2. \A u \in Threads : sent[u] # None => sent[u] \in Sessions /\ sent[u] \in 1..made
    BY Numbers DEF None
  <2>3. \A u \in Threads : known[u] # Nobody => client[u] \in Clients
    OBVIOUS
  <2>4. \A u \in Threads : known[u] # Nobody /\ sent[u] = session[t] => client[u] = client[t]
    BY <2>1, <2>3 DEF OwnInv, Uses
  <2>5. \A u \in Threads : sent[u] # None =>
           user'[sent[u]] = IF sent[u] = session[t] THEN client[t] ELSE user[sent[u]]
    BY <1>3, <2>2 DEF Login, SessionTypes
  <2>6. UNCHANGED <<known, client, sent>>
    BY <1>3 DEF Login
  <2>7. QED
    BY <2>4, <2>5, <2>6
<1>4. CASE Load(t) \/ Reuse(t) \/ Refresh(t) \/ Save(t) \/ Update(t) \/ Profile(t)
           \/ Logout(t)
  <2>1. UNCHANGED <<known, client, sent, user>>
    BY <1>4 DEF Load, Reuse, Refresh, Save, Update, Profile, Logout
  <2>2. QED
    BY <2>1
<1>5. CASE Respond(t)
  BY <1>5 DEF Respond
<1>6. QED
  BY <1>1, <1>2, <1>3, <1>4, <1>5 DEF RequestNext, RequestStep

LEMMA ShownInvStep ==
  ASSUME TypeInv, ExpiryInv, SameInv, KnownInv, ShownInv, NEW t \in Threads,
         RequestNext(t)
  PROVE  ShownInv'
<1>1. \A s : Live(s)' => Live(s)
  BY LiveStays
<1> HIDE DEF Live
<1> USE DEF ShownInv, At, TypeInv, ThreadTypes
<1>2. CASE Profile(t)
  BY <1>1, <1>2 DEF Profile, Acts, SameInv, KnownInv
<1>3. CASE Update(t) \/ Logout(t)
  BY <1>1, <1>3 DEF Update, Logout, Acts, PlaceInv
<1>4. CASE \/ \E c \in Clients, k \in {"login", "profile", "logout"} : Request(t, c, k)
           \/ Respond(t)
  BY <1>1, <1>4 DEF Request, Respond
<1>5. CASE Load(t) \/ Create(t) \/ Reuse(t) \/ Refresh(t) \/ Save(t) \/ Login(t)
  <2>1. UNCHANGED <<kind, sent, known, shown>>
    BY <1>5 DEF Load, Create, Reuse, Refresh, Save, Login
  <2>2. \A u \in Threads : pc'[u] = "respond" => pc[u] = "respond"
    BY <1>5 DEF Load, Create, Reuse, Refresh, Save, Login, Acts
  <2>3. QED
    BY <1>1, <2>1, <2>2
<1>6. QED
  BY <1>2, <1>3, <1>4, <1>5 DEF RequestNext, RequestStep

-----------------------------------------------------------------------------
(* The clock, and the whole invariant.                                     *)

\* What the clock leaves alone; what it ends was not ended, or is marked.
LEMMA TickFacts ==
  ASSUME TypeInv, Tick
  PROVE  /\ UNCHANGED <<sessionVars, cookie, requestVars, lastUse, loggedOut, overlapped>>
         /\ now' = now + 1
         /\ lapsed' = lapsed \cup {s \in 1..made : now' > lastUse[s] + maxAge}
         /\ heldAtEnd \subseteq heldAtEnd'
         /\ \A s \in lapsed' \ lapsed, t \in Threads : Holds(t, s) => s \in heldAtEnd'
BY DEF Tick

LEMMA TickStep ==
  ASSUME IInv, [Next]_vars, Tick
  PROVE  IInv'
<1> USE DEF IInv, requestVars, sessionVars
<1>1. TypeInv'
  BY TypeInvStep
<1>2. OwnInv'
  BY TickFacts DEF OwnInv, Uses
<1>3. LogoutFinal'
  BY TickFacts DEF LogoutFinal, Holds
<1>4. ExpiryInv'
  BY TickFacts DEF ExpiryInv
<1>5. LapseInv'
  <2>1. SUFFICES ASSUME NEW s \in lapsed' \ heldAtEnd'
                 PROVE  /\ now' > lastUse[s] + maxAge
                        /\ \A t \in Threads : ~Holds(t, s)
    BY TickFacts DEF LapseInv, Holds
  <2>2. CASE s \in lapsed
    <3>1. now > lastUse[s] + maxAge /\ \A t \in Threads : ~Holds(t, s)
      BY <2>1, <2>2, TickFacts DEF LapseInv
    <3>2. s \in Sessions
      BY <2>2, Numbers DEF TypeInv, MadeInv
    <3>3. QED
      BY <3>1, <3>2, Numbers, TickFacts, BoundsType DEF TypeInv, SessionTypes
  <2>3. CASE s \notin lapsed
    BY <2>1, <2>3, TickFacts
  <2>4. QED
    BY <2>2, <2>3
<1>6. \A s : Live(s)' => Live(s)
  BY TickFacts DEF Live
<1>7. StoredInv' /\ SameInv' /\ ShownInv'
  BY <1>6, TickFacts DEF KeptInv, StoredInv, SameInv, ShownInv
<1>8. KnownInv'
  BY TickFacts DEF KeptInv, KnownInv
<1>9. QED
  BY <1>1, <1>2, <1>3, <1>4, <1>5, <1>7, <1>8 DEF KeptInv

LEMMA IInvInit == Init => IInv
<1>1. Init => TypeInv
  BY TypeInvInit
<1>2. Init => OwnInv /\ LogoutFinal /\ ExpiryInv /\ LapseInv
  BY DEF Init, OwnInv, LogoutFinal, ExpiryInv, LapseInv
<1>3. Init => KeptInv
  BY DEF Init, KeptInv, StoredInv, SameInv, KnownInv, ShownInv, Live
<1>4. QED
  BY <1>1, <1>2, <1>3 DEF IInv

LEMMA IInvStep ==
  ASSUME IInv, [Next]_vars
  PROVE  IInv'
<1>1. ASSUME NEW t \in Threads, RequestNext(t) PROVE IInv'
  BY <1>1, TypeInvStep, OwnInvStep, LogoutFinalStep, ExpiryInvStep, LapseInvStep,
     StoredInvStep, SameInvStep, KnownInvStep, ShownInvStep DEF IInv, KeptInv
<1>2. CASE Tick
  BY <1>2, TickStep
<1>3. CASE UNCHANGED quietVars
  <2>1. TypeInv'
    BY TypeInvStep DEF IInv
  <2>2. OwnInv' /\ LogoutFinal' /\ ExpiryInv' /\ LapseInv'
    BY <1>3 DEF IInv, quietVars, sessionVars, requestVars, historyVars, endVars,
       OwnInv, Uses, LogoutFinal, ExpiryInv, LapseInv, Holds
  <2>3. KeptInv'
    BY <1>3 DEF IInv, quietVars, sessionVars, requestVars, historyVars, endVars,
       KeptInv, StoredInv, SameInv, KnownInv, ShownInv, Live
  <2>4. QED
    BY <2>1, <2>2, <2>3 DEF IInv
<1>4. QED
  BY <1>1, <1>2, <1>3, StepCases

LEMMA AlwaysIInv == Spec => []IInv
<1>1. Init => IInv
  BY IInvInit
<1>2. IInv /\ [Next]_vars => IInv'
  BY IInvStep
<1>3. QED
  BY <1>1, <1>2, PTL DEF Spec

-----------------------------------------------------------------------------
(* What the manager promises.                                              *)

\* The variables of the session manager keep their types, the map and the
\* browsers know only sessions that getSession() made.
THEOREM TypeCorrect == Spec => []TypeOK
<1>1. IInv => TypeOK
  BY TypeInvTypes DEF IInv
<1>2. QED
  BY <1>1, AlwaysIInv, PTL

\* getSession() hands no browser the session of another, however the requests of
\* the I/O threads interleave: no response tells of another client's user.
THEOREM SessionsIsolated == Spec => []Isolation
<1>1. ASSUME IInv PROVE Isolation
  <2>1. \A c \in Clients : cookie[c] \in 0..made /\ (cookie[c] # None => cookie[c] \in 1..made)
    BY <1>1, Numbers DEF IInv, TypeInv, SessionTypes, MadeInv, None
  <2>2. \A t \in Threads : shown[t] \in {client[t], Nobody}
    BY <1>1 DEF IInv, OwnInv
  <2>3. \A c, d \in Clients : cookie[c] = cookie[d] => c = d \/ cookie[c] = None
    BY <1>1, <2>1 DEF IInv, OwnInv, Uses
  <2>4. \A s \in Sessions, c \in Clients : cookie[c] = s => user[s] \in {c, Nobody}
    <3>1. \A s \in Sessions : s # None
      BY BoundsType DEF Sessions, None
    <3>2. QED
      BY <1>1, <2>1, <3>1 DEF IInv, OwnInv, Uses
  <2>5. QED
    BY <2>2, <2>3, <2>4 DEF Isolation
<1>2. QED
  BY <1>1, AlwaysIInv, PTL

\* destroySession() is final for a session that no other request holds.
THEOREM LogoutIsFinal == Spec => []LogoutFinal
<1>1. IInv => LogoutFinal
  BY DEF IInv
<1>2. QED
  BY <1>1, AlwaysIInv, PTL

\* load() gives nobody a session whose time has run out: only a request that held
\* it then may bring it back.
THEOREM LapseIsFinal == Spec => []LapseFinal
<1>1. IInv => LapseFinal
  BY DEF IInv, LapseInv, LapseFinal
<1>2. QED
  BY <1>1, AlwaysIInv, PTL

\* A request that comes with a live session gets that session, and its user.
THEOREM ActiveIsKept == Spec => []ActiveKept
<1>1. IInv => ActiveKept
  BY DEF IInv, KeptInv, SameInv, ShownInv, Live, ActiveKept
<1>2. QED
  BY <1>1, AlwaysIInv, PTL
=============================================================================
