------------------------------ MODULE Sessions ------------------------------
(***************************************************************************)
(* The administrator account and the browser sessions of fixer-server.     *)
(* Every handler is a few statements on SQLite with awaits between them;   *)
(* the tabs of a browser share its cookies and keep a CSRF token of their  *)
(* own in memory.  Digests are abstract: a token names its row, and a row  *)
(* holds the CSRF token it accepts.                                        *)
(***************************************************************************)
EXTENDS Integers

CONSTANTS People,      \* user names, each with its password
          Tabs,        \* browser tabs
          MaxTokens,   \* bound: sessions ever issued
          Lifetime,    \* of a session
          MaxTime,     \* bound: time
          NoPerson, NoToken

ASSUME SessionsAssumption ==
    /\ MaxTokens \in Nat \ {0} /\ Lifetime \in Nat \ {0} /\ MaxTime \in Nat
    /\ NoPerson \notin People /\ NoToken \notin Nat

VARIABLES account,   \* the registered user: the row with id 1
          sessions,  \* rows of fixer_sessions by token
          issued,    \* tokens handed out so far
          clock,
          jar,       \* session and CSRF cookies of a person's browser
          tab        \* requests in flight, and the CSRF token a tab remembers

sessionVars == <<account, sessions, issued, clock, jar, tab>>

(* csrf_token_for_session derives the token from the session; rows older than that have another. *)
Derived(t) == [of |-> t, drawn |-> "derived"]
Legacy(t) == [of |-> t, drawn |-> "legacy"]
EmptyJar == [token |-> NoToken, csrf |-> NoToken]
Idle == [pc |-> "idle", what |-> NoToken, token |-> NoToken, csrf |-> NoToken]

Valid(t) == t \in DOMAIN sessions /\ sessions[t].expires > clock
ValidWith(t, c) == Valid(t) /\ sessions[t].csrf = c

\* The session that a database without user names has: whoever knew the password opened it.
Inherited == 0

\* A new database, one of an older version whose user has a session with a random CSRF token, or one
\* of the startup-password release: its password row has no name, so that nobody is registered, and
\* the migrations keep its session.
InitSessions ==
    /\ clock = 0
    /\ \E p \in People, b \in [Tabs -> People], left \in {{}, {1}, {Inherited}} :
        /\ account = IF left = {1} THEN p ELSE NoPerson
        /\ sessions = [x \in left |-> [of |-> p, csrf |-> Legacy(x), expires |-> Lifetime]]
        /\ issued = IF left = {} THEN 0 ELSE 1
        /\ jar = [q \in People |-> IF left = {} \/ q # p THEN EmptyJar
                                   ELSE LET x == CHOOSE x \in left : TRUE IN [token |-> x, csrf |-> Legacy(x)]]
        /\ tab = [t \in Tabs |-> [person |-> b[t], memory |-> EmptyJar, request |-> Idle]]

At(t, pc) == tab[t].request.pc = pc
Person(t) == tab[t].person
Mine(t) == tab[t].request.token
Goto(t, pc) == tab' = [tab EXCEPT ![t].request.pc = pc]
Done(t) == tab' = [tab EXCEPT ![t].request = Idle]

\* A request leaves with the cookies of its moment; what changes state carries a header, made from
\* the cookie or, without one, from what the tab remembers of its login.
Send(t, what) ==
    /\ At(t, "idle")
    /\ tab' = [tab EXCEPT ![t].request =
                  [pc |-> CASE what \in {"register", "status"} -> what
                            [] what = "login" -> "credentials"
                            [] OTHER -> "session",
                   what |-> what,
                   token |-> jar[Person(t)].token,
                   csrf |-> IF what # "status" /\ jar[Person(t)].csrf = NoToken
                            THEN tab[t].memory.csrf ELSE jar[Person(t)].csrf]]
    /\ UNCHANGED <<account, sessions, issued, clock, jar>>

(* register: closed once a user is there, which is read before the password is hashed. *)
RegisterCheck(t) ==
    /\ At(t, "register")
    /\ IF account # NoPerson THEN Done(t) ELSE Goto(t, "hashed")
    /\ UNCHANGED <<account, sessions, issued, clock, jar>>

RegisterAnyway(t) ==
    /\ At(t, "hashed")
    /\ account' = Person(t)
    /\ Goto(t, "create")
    /\ UNCHANGED <<sessions, issued, clock, jar>>

\* register_single_user: one upsert that applies only while no name is set.
Register(t) ==
    /\ At(t, "hashed")
    /\ account' = IF account = NoPerson THEN Person(t) ELSE account
    /\ IF account = NoPerson THEN Goto(t, "create") ELSE Done(t)
    /\ UNCHANGED <<sessions, issued, clock, jar>>

(* login: the name and the password must be those of the row. *)
Login(t) ==
    /\ At(t, "credentials")
    /\ IF account = Person(t) THEN Goto(t, "create") ELSE Done(t)
    /\ UNCHANGED <<account, sessions, issued, clock, jar>>

(* session_response: a fresh session, whose cookies and CSRF token go to the browser. *)
CreateSession(t) ==
    /\ At(t, "create") /\ issued < MaxTokens
    /\ LET new == issued + 1
           cookies == [token |-> new, csrf |-> Derived(new)]
       IN /\ issued' = new
          /\ sessions' = [x \in DOMAIN sessions \cup {new} |->
                            IF x = new THEN [of |-> Person(t), csrf |-> Derived(new), expires |-> clock + Lifetime]
                            ELSE sessions[x]]
          /\ jar' = [jar EXCEPT ![Person(t)] = cookies]
          /\ tab' = [tab EXCEPT ![t].request = Idle, ![t].memory = cookies]
    /\ UNCHANGED <<account, clock>>

(* status: whether the session is valid, and a CSRF cookie for a browser that lost it. *)
StatusSession(t) ==
    /\ At(t, "status")
    /\ IF account = NoPerson \/ ~Valid(Mine(t)) THEN Done(t) ELSE Goto(t, "csrf")
    /\ UNCHANGED <<account, sessions, issued, clock, jar>>

StatusCsrf(t) ==
    /\ At(t, "csrf")
    /\ IF ValidWith(Mine(t), tab[t].request.csrf) THEN Done(t) ELSE Goto(t, "synchronize")
    /\ UNCHANGED <<account, sessions, issued, clock, jar>>

SynchronizeWith(t, csrf) ==
    /\ At(t, "synchronize")
    /\ IF Valid(Mine(t))
       THEN /\ sessions' = [sessions EXCEPT ![Mine(t)].csrf = csrf]
            /\ jar' = [jar EXCEPT ![Person(t)].csrf = csrf]
       ELSE UNCHANGED <<sessions, jar>>
    /\ Done(t)
    /\ UNCHANGED <<account, issued, clock>>

SynchronizeRandom(t) == SynchronizeWith(t, [of |-> Mine(t), drawn |-> "random"])

\* synchronize_session_csrf: the row gets the token derived from its session, if it is still there.
Synchronize(t) == SynchronizeWith(t, Derived(Mine(t)))

(* authenticate_request: first the session, then the session with its CSRF token. *)
CheckSession(t) ==
    /\ At(t, "session")
    /\ IF Valid(Mine(t)) THEN Goto(t, "header") ELSE Done(t)
    /\ UNCHANGED <<account, sessions, issued, clock, jar>>

CheckCsrf(t) ==
    /\ At(t, "header")
    /\ IF ValidWith(Mine(t), tab[t].request.csrf) /\ tab[t].request.what = "logout"
       THEN Goto(t, "revoke") ELSE Done(t)
    /\ UNCHANGED <<account, sessions, issued, clock, jar>>

\* logout: the row is deleted and both cookies of the browser expire.
Logout(t) ==
    /\ At(t, "revoke")
    /\ sessions' = [x \in DOMAIN sessions \ {Mine(t)} |-> sessions[x]]
    /\ jar' = [jar EXCEPT ![Person(t)] = EmptyJar]
    /\ tab' = [tab EXCEPT ![t].request = Idle, ![t].memory = EmptyJar]
    /\ UNCHANGED <<account, issued, clock>>

(* A browser drops a cookie, time passes. *)
LoseCsrfCookie(p) ==
    /\ jar[p].csrf # NoToken
    /\ jar' = [jar EXCEPT ![p].csrf = NoToken]
    /\ UNCHANGED <<account, sessions, issued, clock, tab>>

PassTime ==
    /\ clock < MaxTime
    /\ clock' = clock + 1
    /\ UNCHANGED <<account, sessions, issued, jar, tab>>

NextSessions ==
    \/ \E t \in Tabs :
          \/ \E what \in {"register", "login", "status", "act", "logout"} : Send(t, what)
          \/ RegisterCheck(t) \/ Register(t) \/ Login(t) \/ CreateSession(t)
          \/ StatusSession(t) \/ StatusCsrf(t) \/ Synchronize(t)
          \/ CheckSession(t) \/ CheckCsrf(t) \/ Logout(t)
    \/ \E p \in People : LoseCsrfCookie(p)
    \/ PassTime
SpecSessions == InitSessions /\ [][NextSessions]_sessionVars
-----------------------------------------------------------------------------
(* Only the registered user has sessions, however registrations and logins race: a registration *)
(* that comes second opens none.  The exception is the session a password-only database had at   *)
(* its upgrade: nobody checks whose it is, before or after the registration, but nothing makes   *)
(* it last longer than it was issued for, and no other session comes of it.                      *)
OneAdministrator ==
    \A x \in DOMAIN sessions :
        sessions[x].of # account => x = Inherited /\ sessions[x].expires <= Lifetime

(* The CSRF token a tab was given at its login stays good as long as the session: another tab    *)
(* that has lost the cookie and asks for its status does not invalidate it.                      *)
IssuedCsrfHolds ==
    \A t \in Tabs :
        LET m == tab[t].memory IN Valid(m.token) => ValidWith(m.token, m.csrf)
=============================================================================
