---------------------------- MODULE ServerProofs ----------------------------
(***************************************************************************)
(* Proofs about the small state machines of MCServer: Sessions, for any    *)
(* people, tabs, lifetimes and bounds; Runs, for any targets, plans, paths *)
(* and numbers of runs; Settings, the configuration in use, and JobConfig, *)
(* the snapshots of it that jobs run with, for any values, tokens,         *)
(* requests, replacements and restarts; JobEvents, for any jobs, readers,  *)
(* capacities and bounds.                                                  *)
(***************************************************************************)
EXTENDS Sessions, Runs, Settings, JobConfig, JobEvents, TLAPS

(***************************************************************************)
(* Sessions.                                                               *)
(***************************************************************************)

\* The cookies and the CSRF tokens that there can be.
Tokens == Nat \cup {NoToken}
Csrfs == [of : Tokens, drawn : {"derived", "legacy"}] \cup {NoToken}
Cookies == [token : Tokens, csrf : Csrfs]
Pcs == {"idle", "register", "hashed", "credentials", "create", "status", "csrf", "synchronize",
        "session", "header", "revoke"}
TabRecords ==
    [person : People, memory : Cookies,
     request : [pc : Pcs, what : {NoToken, "register", "login", "status", "act", "logout"}, token : Tokens, csrf : Csrfs]]
Rows == [of : People, csrf : Csrfs, expires : Int]

TypeInv ==
    /\ account \in People \cup {NoPerson}
    /\ issued \in Nat /\ clock \in Nat
    /\ DOMAIN sessions \subseteq 0..issued
    /\ \A x \in DOMAIN sessions : sessions[x] \in Rows
    /\ sessions = [x \in DOMAIN sessions |-> sessions[x]]
    /\ jar \in [People -> Cookies]
    /\ tab \in [Tabs -> TabRecords]

\* Who is about to get a session is the registered user.
CreatorInv == \A t \in Tabs : At(t, "create") => account = Person(t)

\* A tab remembers the CSRF token derived from its session, and the row, as
\* long as it is there, accepts that one.
MemoryInv ==
    \A t \in Tabs :
        LET m == tab[t].memory IN
        m.token # NoToken =>
            /\ m.token \in 1..issued
            /\ m.csrf = Derived(m.token)
            /\ m.token \in DOMAIN sessions => sessions[m.token].csrf = Derived(m.token)

Inv == TypeInv /\ OneAdministrator /\ CreatorInv /\ MemoryInv

-----------------------------------------------------------------------------
\* A first start, or one on a database of an older version.
LEMMA Initially == InitSessions => Inv
<1> SUFFICES ASSUME InitSessions PROVE Inv
  OBVIOUS
<1> DEFINE Held(left) == LET x == CHOOSE x \in left : TRUE IN [token |-> x, csrf |-> Legacy(x)]
<1>1. PICK p \in People, b \in [Tabs -> People], left \in {{}, {1}, {Inherited}} :
        /\ account = IF left = {1} THEN p ELSE NoPerson
        /\ sessions = [x \in left |-> [of |-> p, csrf |-> Legacy(x), expires |-> Lifetime]]
        /\ issued = IF left = {} THEN 0 ELSE 1
        /\ jar = [q \in People |-> IF left = {} \/ q # p THEN EmptyJar ELSE Held(left)]
        /\ tab = [t \in Tabs |-> [person |-> b[t], memory |-> EmptyJar, request |-> Idle]]
  BY DEF InitSessions
<1>2. clock = 0 /\ Lifetime \in Nat /\ left \subseteq Nat
  BY SessionsAssumption DEF InitSessions, Inherited
<1>3. left # {} => Held(left) \in Cookies
  <2> SUFFICES ASSUME left # {} PROVE Held(left) \in Cookies
    OBVIOUS
  <2>1. (CHOOSE x \in left : TRUE) \in Nat
    BY <1>2
  <2> QED BY <2>1 DEF Cookies, Csrfs, Tokens, Legacy
<1> HIDE DEF Held
<1>4. EmptyJar \in Cookies
  BY DEF EmptyJar, Cookies, Tokens, Csrfs
<1>5. jar \in [People -> Cookies]
  BY <1>1, <1>3, <1>4
<1>6. /\ DOMAIN sessions \subseteq 0..issued
      /\ \A x \in DOMAIN sessions : sessions[x] \in Rows
      /\ sessions = [x \in DOMAIN sessions |-> sessions[x]]
  <2>1. DOMAIN sessions = left
    BY <1>1
  <2>2. left \subseteq 0..issued
    BY <1>1 DEF Inherited
  <2>3. \A x \in left : Legacy(x) \in Csrfs
    BY <1>2 DEF Csrfs, Tokens, Legacy
  <2> QED BY <1>1, <1>2, <2>1, <2>2, <2>3 DEF Rows
<1>7. tab \in [Tabs -> TabRecords]
  BY <1>1, <1>4 DEF TabRecords, Pcs, Csrfs, Tokens, Idle
<1>8. TypeInv
  BY <1>1, <1>2, <1>5, <1>6, <1>7 DEF TypeInv
<1>9. OneAdministrator
  BY <1>1, <1>2 DEF OneAdministrator
<1>10. CreatorInv /\ MemoryInv
  BY <1>1 DEF CreatorInv, MemoryInv, At, EmptyJar, Idle
<1> QED BY <1>8, <1>9, <1>10 DEF Inv

\* What a tab is, and what a change of its request leaves of it.
LEMMA TabChanges ==
    ASSUME TypeInv, NEW t \in Tabs
    PROVE  /\ tab[t] \in TabRecords
           /\ \A pc \in Pcs : Goto(t, pc) =>
                 /\ tab' \in [Tabs -> TabRecords]
                 /\ \A u \in Tabs : /\ tab'[u].person = tab[u].person /\ tab'[u].memory = tab[u].memory
                                    /\ tab'[u].request.pc = IF u = t THEN pc ELSE tab[u].request.pc
           /\ Done(t) =>
                 /\ tab' \in [Tabs -> TabRecords]
                 /\ \A u \in Tabs : /\ tab'[u].person = tab[u].person /\ tab'[u].memory = tab[u].memory
                                    /\ tab'[u].request.pc = IF u = t THEN "idle" ELSE tab[u].request.pc
<1>1. tab[t] \in TabRecords
  BY DEF TypeInv
<1>2. ASSUME NEW pc \in Pcs, Goto(t, pc)
      PROVE  /\ tab' \in [Tabs -> TabRecords]
             /\ \A u \in Tabs : /\ tab'[u].person = tab[u].person /\ tab'[u].memory = tab[u].memory
                                /\ tab'[u].request.pc = IF u = t THEN pc ELSE tab[u].request.pc
  BY <1>2 DEF Goto, TypeInv, TabRecords
<1>3. ASSUME Done(t)
      PROVE  /\ tab' \in [Tabs -> TabRecords]
             /\ \A u \in Tabs : /\ tab'[u].person = tab[u].person /\ tab'[u].memory = tab[u].memory
                                /\ tab'[u].request.pc = IF u = t THEN "idle" ELSE tab[u].request.pc
  BY <1>3 DEF Done, Idle, TypeInv, TabRecords, Pcs, Csrfs, Tokens
<1> QED BY <1>1, <1>2, <1>3

\* A step that moves one request to a program counter other than "create", and
\* changes neither the account nor the sessions, keeps everything.
LEMMA Quiet ==
    ASSUME Inv, NEW t \in Tabs, NEW pc \in Pcs,
           Goto(t, pc) \/ (Done(t) /\ pc = "idle"),
           pc = "create" => account = Person(t),
           UNCHANGED <<account, sessions, issued, clock, jar>>
    PROVE  Inv'
<1>1. /\ tab' \in [Tabs -> TabRecords]
      /\ \A u \in Tabs : /\ tab'[u].person = tab[u].person /\ tab'[u].memory = tab[u].memory
                         /\ tab'[u].request.pc = IF u = t THEN pc ELSE tab[u].request.pc
  BY TabChanges DEF Inv
<1>2. TypeInv'
  BY <1>1 DEF Inv, TypeInv
<1>3. OneAdministrator'
  BY DEF Inv, OneAdministrator
<1>4. CreatorInv'
  BY <1>1 DEF Inv, CreatorInv, At, Person
<1>5. MemoryInv'
  BY <1>1 DEF Inv, MemoryInv
<1> QED BY <1>2, <1>3, <1>4, <1>5 DEF Inv

\* A request leaves.
LEMMA SendStep ==
    ASSUME Inv, NEW t \in Tabs, NEW what \in {"register", "login", "status", "act", "logout"}, Send(t, what)
    PROVE  Inv'
<1> DEFINE new == [pc |-> CASE what \in {"register", "status"} -> what
                            [] what = "login" -> "credentials"
                            [] OTHER -> "session",
                   what |-> what,
                   token |-> jar[Person(t)].token,
                   csrf |-> IF what # "status" /\ jar[Person(t)].csrf = NoToken
                            THEN tab[t].memory.csrf ELSE jar[Person(t)].csrf]
<1>1. tab' = [tab EXCEPT ![t].request = new] /\ UNCHANGED <<account, sessions, issued, clock, jar>>
  BY DEF Send
<1>2. tab[t] \in TabRecords /\ Person(t) \in People
  BY TabChanges DEF Inv, Person, TabRecords
<1>3. jar[Person(t)] \in Cookies /\ tab[t].memory \in Cookies
  BY <1>2 DEF Inv, TypeInv, TabRecords
<1>4. new.pc \in Pcs \ {"create"}
  BY DEF Pcs
<1>5. /\ new.token \in Tokens /\ new.csrf \in Csrfs
      /\ new.what \in {NoToken, "register", "login", "status", "act", "logout"}
  BY <1>3 DEF Cookies
<1>6. new \in [pc : Pcs, what : {NoToken, "register", "login", "status", "act", "logout"}, token : Tokens, csrf : Csrfs]
  BY <1>4, <1>5
<1> HIDE DEF new
<1>7. tab' \in [Tabs -> TabRecords]
  BY <1>1, <1>6 DEF Inv, TypeInv, TabRecords
<1>8. \A u \in Tabs : /\ tab'[u].person = tab[u].person /\ tab'[u].memory = tab[u].memory
                      /\ tab'[u].request.pc = "create" => tab[u].request.pc = "create"
  BY <1>1, <1>4 DEF Inv, TypeInv, TabRecords
<1> QED BY <1>1, <1>7, <1>8 DEF Inv, TypeInv, OneAdministrator, CreatorInv, MemoryInv, At, Person

\* The upsert: whoever is first becomes the user and gets a session; a later
\* registration goes no further.
LEMMA RegisterStep ==
    ASSUME Inv, NEW t \in Tabs, Register(t)
    PROVE  Inv'
<1>1. CASE account # NoPerson
  BY <1>1, Quiet DEF Register, Pcs
<1>2. CASE account = NoPerson
  <2>1. account' = Person(t) /\ Goto(t, "create") /\ UNCHANGED <<sessions, issued, clock, jar>>
    BY <1>2 DEF Register
  <2>2. /\ tab' \in [Tabs -> TabRecords]
        /\ \A u \in Tabs : /\ tab'[u].person = tab[u].person /\ tab'[u].memory = tab[u].memory
                           /\ tab'[u].request.pc = IF u = t THEN "create" ELSE tab[u].request.pc
    BY <2>1, TabChanges DEF Inv, Pcs
  <2>3. Person(t) \in People
    BY TabChanges DEF Inv, Person, TabRecords
  <2>4. \A x \in DOMAIN sessions : x = Inherited /\ sessions[x].expires <= Lifetime
    BY <1>2, SessionsAssumption DEF Inv, TypeInv, OneAdministrator, Rows
  <2>5. \A u \in Tabs : ~ At(u, "create")
    <3>1. \A u \in Tabs : Person(u) \in People
      BY DEF Inv, TypeInv, Person, TabRecords
    <3> QED BY <1>2, <3>1, SessionsAssumption DEF Inv, CreatorInv
  <2>6. TypeInv'
    BY <2>1, <2>2, <2>3 DEF Inv, TypeInv
  <2>7. OneAdministrator'
    BY <2>1, <2>4 DEF OneAdministrator
  <2>8. CreatorInv'
    BY <2>1, <2>2, <2>5 DEF CreatorInv, At, Person
  <2>9. MemoryInv'
    BY <2>1, <2>2 DEF Inv, MemoryInv
  <2> QED BY <2>6, <2>7, <2>8, <2>9 DEF Inv
<1> QED BY <1>1, <1>2

\* A new session belongs to the user, and its token to nobody before.
LEMMA CreateStep ==
    ASSUME Inv, NEW t \in Tabs, CreateSession(t)
    PROVE  Inv'
<1> DEFINE new == issued + 1
           cookies == [token |-> new, csrf |-> Derived(new)]
           row == [of |-> Person(t), csrf |-> Derived(new), expires |-> clock + Lifetime]
<1>1. /\ At(t, "create")
      /\ issued' = new
      /\ sessions' = [x \in DOMAIN sessions \cup {new} |-> IF x = new THEN row ELSE sessions[x]]
      /\ jar' = [jar EXCEPT ![Person(t)] = cookies]
      /\ tab' = [tab EXCEPT ![t].request = Idle, ![t].memory = cookies]
      /\ UNCHANGED <<account, clock>>
  BY DEF CreateSession
<1>2. Person(t) \in People /\ account = Person(t)
  BY <1>1 DEF Inv, TypeInv, CreatorInv, Person, TabRecords
<1>3. issued \in Nat /\ new \in Nat /\ new \notin 0..issued /\ new # NoToken /\ new \notin DOMAIN sessions
  BY SessionsAssumption DEF Inv, TypeInv
<1>4. Derived(new) \in Csrfs /\ cookies \in Cookies
  BY <1>3 DEF Derived, Csrfs, Tokens, Cookies
<1>5. row \in Rows
  BY <1>2, <1>4, SessionsAssumption DEF Inv, TypeInv, Rows
<1>6. /\ tab' \in [Tabs -> TabRecords]
      /\ \A u \in Tabs : /\ tab'[u].person = tab[u].person
                         /\ tab'[u].memory = IF u = t THEN cookies ELSE tab[u].memory
                         /\ tab'[u].request.pc = IF u = t THEN "idle" ELSE tab[u].request.pc
  <2> HIDE DEF cookies
  <2> QED BY <1>1, <1>4 DEF Inv, TypeInv, TabRecords, Idle, Pcs, Csrfs, Tokens
<1>7. DOMAIN sessions' = DOMAIN sessions \cup {new} /\ sessions'[new] = row
      /\ \A x \in DOMAIN sessions : sessions'[x] = sessions[x]
  BY <1>1, <1>3
<1> HIDE DEF row
<1>8. TypeInv'
  <2>1. DOMAIN sessions' \subseteq 0..issued'
    BY <1>1, <1>3, <1>7 DEF Inv, TypeInv
  <2>2. \A x \in DOMAIN sessions' : sessions'[x] \in Rows
    BY <1>5, <1>7 DEF Inv, TypeInv
  <2>3. sessions' = [x \in DOMAIN sessions' |-> sessions'[x]]
    BY <1>1
  <2>4. jar' \in [People -> Cookies]
    <3> HIDE DEF cookies
    <3> QED BY <1>1, <1>4 DEF Inv, TypeInv
  <2> QED BY <1>1, <1>3, <1>6, <2>1, <2>2, <2>3, <2>4 DEF Inv, TypeInv
<1>9. OneAdministrator'
  BY <1>1, <1>2, <1>7 DEF Inv, OneAdministrator, row
<1>10. CreatorInv'
  BY <1>1, <1>6 DEF Inv, CreatorInv, At, Person
<1>11. MemoryInv'
  <2> SUFFICES ASSUME NEW u \in Tabs, tab'[u].memory.token # NoToken
               PROVE  LET m == tab'[u].memory IN
                      /\ m.token \in 1..issued'
                      /\ m.csrf = Derived(m.token)
                      /\ m.token \in DOMAIN sessions' => sessions'[m.token].csrf = Derived(m.token)
    BY DEF MemoryInv, Derived
  <2>1. CASE u = t
    BY <2>1, <1>1, <1>3, <1>6, <1>7 DEF row
  <2>2. CASE u # t
    <3>1. tab'[u].memory = tab[u].memory
      BY <2>2, <1>6
    <3>2. tab[u].memory.token \in 1..issued /\ tab[u].memory.token # new
      BY <3>1, <1>3 DEF Inv, MemoryInv
    <3> QED BY <3>1, <3>2, <1>1, <1>3, <1>7 DEF Inv, MemoryInv
  <2> QED BY <2>1, <2>2
<1> QED BY <1>8, <1>9, <1>10, <1>11 DEF Inv

\* A status request gives a row its derived CSRF token, which is the one that
\* tabs remember.
LEMMA SynchronizeStep ==
    ASSUME Inv, NEW t \in Tabs, Synchronize(t)
    PROVE  Inv'
<1> DEFINE x == Mine(t)
           csrf == Derived(x)
<1>1. At(t, "synchronize") /\ Done(t) /\ UNCHANGED <<account, issued, clock>>
  BY DEF Synchronize, SynchronizeWith
<1>2. CASE ~ Valid(x)
  BY <1>1, <1>2, Quiet DEF Synchronize, SynchronizeWith, Pcs
<1>3. CASE Valid(x)
  <2>1. /\ x \in DOMAIN sessions
        /\ sessions' = [sessions EXCEPT ![x].csrf = csrf]
        /\ jar' = [jar EXCEPT ![Person(t)].csrf = csrf]
    BY <1>3 DEF Synchronize, SynchronizeWith, Valid
  <2>2. csrf \in Csrfs
    BY <2>1 DEF Inv, TypeInv, Derived, Csrfs, Tokens
  <2>3. /\ tab' \in [Tabs -> TabRecords]
        /\ \A u \in Tabs : /\ tab'[u].person = tab[u].person /\ tab'[u].memory = tab[u].memory
                           /\ tab'[u].request.pc = IF u = t THEN "idle" ELSE tab[u].request.pc
    BY <1>1, TabChanges DEF Inv
  <2>4. sessions[x] \in Rows /\ Person(t) \in People /\ jar[Person(t)] \in Cookies
    BY <2>1 DEF Inv, TypeInv, Person, TabRecords
  <2> HIDE DEF csrf, x
  <2>5. /\ DOMAIN sessions' = DOMAIN sessions
        /\ sessions' = [y \in DOMAIN sessions' |-> sessions'[y]]
        /\ \A y \in DOMAIN sessions : y # x => sessions'[y] = sessions[y]
        /\ sessions'[x] \in Rows /\ sessions'[x].of = sessions[x].of /\ sessions'[x].csrf = csrf
        /\ sessions'[x].expires = sessions[x].expires
    BY <2>1, <2>2, <2>4 DEF Rows
  <2>6. jar' \in [People -> Cookies]
    BY <2>1, <2>2, <2>4 DEF Inv, TypeInv, Cookies
  <2>7. TypeInv'
    BY <1>1, <2>3, <2>5, <2>6 DEF Inv, TypeInv
  <2>8. OneAdministrator'
    BY <1>1, <2>5 DEF Inv, OneAdministrator
  <2>9. CreatorInv'
    BY <1>1, <2>3 DEF Inv, CreatorInv, At, Person
  <2>10. MemoryInv'
    BY <1>1, <2>3, <2>5 DEF Inv, MemoryInv, csrf
  <2> QED BY <2>7, <2>8, <2>9, <2>10 DEF Inv
<1> QED BY <1>2, <1>3

\* A session that is gone stays gone, and its token is not given out again.
LEMMA LogoutStep ==
    ASSUME Inv, NEW t \in Tabs, Logout(t)
    PROVE  Inv'
<1>1. /\ sessions' = [x \in DOMAIN sessions \ {Mine(t)} |-> sessions[x]]
      /\ jar' = [jar EXCEPT ![Person(t)] = EmptyJar]
      /\ tab' = [tab EXCEPT ![t].request = Idle, ![t].memory = EmptyJar]
      /\ UNCHANGED <<account, issued, clock>>
  BY DEF Logout
<1>2. EmptyJar \in Cookies
  BY DEF EmptyJar, Cookies, Tokens, Csrfs
<1>3. /\ tab' \in [Tabs -> TabRecords]
      /\ \A u \in Tabs : /\ tab'[u].person = tab[u].person
                         /\ tab'[u].memory = IF u = t THEN EmptyJar ELSE tab[u].memory
                         /\ tab'[u].request.pc = IF u = t THEN "idle" ELSE tab[u].request.pc
  BY <1>1, <1>2 DEF Inv, TypeInv, TabRecords, Idle, Pcs, Csrfs, Tokens
<1>4. DOMAIN sessions' \subseteq DOMAIN sessions /\ \A x \in DOMAIN sessions' : sessions'[x] = sessions[x]
  BY <1>1
<1>5. TypeInv'
  BY <1>1, <1>2, <1>3, <1>4 DEF Inv, TypeInv
<1>6. OneAdministrator'
  BY <1>1, <1>4 DEF Inv, OneAdministrator
<1>7. CreatorInv'
  BY <1>1, <1>3 DEF Inv, CreatorInv, At, Person
<1>8. MemoryInv'
  BY <1>1, <1>3, <1>4 DEF Inv, MemoryInv, EmptyJar
<1> QED BY <1>5, <1>6, <1>7, <1>8 DEF Inv

\* Every step keeps the invariant.
LEMMA Step == Inv /\ [NextSessions]_sessionVars => Inv'
<1> SUFFICES ASSUME Inv, [NextSessions]_sessionVars PROVE Inv'
  OBVIOUS
<1>1. ASSUME NEW t \in Tabs, NEW what \in {"register", "login", "status", "act", "logout"}, Send(t, what)
      PROVE  Inv'
  BY <1>1, SendStep
<1>2. ASSUME NEW t \in Tabs, RegisterCheck(t) PROVE Inv'
  BY <1>2, Quiet DEF RegisterCheck, Pcs
<1>3. ASSUME NEW t \in Tabs, Register(t) PROVE Inv'
  BY <1>3, RegisterStep
<1>4. ASSUME NEW t \in Tabs, Login(t) PROVE Inv'
  BY <1>4, Quiet DEF Login, Pcs
<1>5. ASSUME NEW t \in Tabs, CreateSession(t) PROVE Inv'
  BY <1>5, CreateStep
<1>6. ASSUME NEW t \in Tabs, StatusSession(t) PROVE Inv'
  BY <1>6, Quiet DEF StatusSession, Pcs
<1>7. ASSUME NEW t \in Tabs, StatusCsrf(t) PROVE Inv'
  BY <1>7, Quiet DEF StatusCsrf, Pcs
<1>8. ASSUME NEW t \in Tabs, Synchronize(t) PROVE Inv'
  BY <1>8, SynchronizeStep
<1>9. ASSUME NEW t \in Tabs, CheckSession(t) PROVE Inv'
  BY <1>9, Quiet DEF CheckSession, Pcs
<1>10. ASSUME NEW t \in Tabs, CheckCsrf(t) PROVE Inv'
  BY <1>10, Quiet DEF CheckCsrf, Pcs
<1>11. ASSUME NEW t \in Tabs, Logout(t) PROVE Inv'
  BY <1>11, LogoutStep
<1>12. ASSUME NEW p \in People, LoseCsrfCookie(p) PROVE Inv'
  <2>1. jar' \in [People -> Cookies]
    BY <1>12 DEF LoseCsrfCookie, Inv, TypeInv, Cookies, Csrfs
  <2> QED BY <1>12, <2>1 DEF LoseCsrfCookie, Inv, TypeInv, OneAdministrator, CreatorInv, MemoryInv, At, Person
<1>13. CASE PassTime
  <2>1. clock' \in Nat
    BY <1>13 DEF PassTime, Inv, TypeInv
  <2> QED BY <1>13, <2>1 DEF PassTime, Inv, TypeInv, OneAdministrator, CreatorInv, MemoryInv, At, Person
<1>14. CASE UNCHANGED sessionVars
  BY <1>14 DEF sessionVars, Inv, TypeInv, OneAdministrator, CreatorInv, MemoryInv, At, Person
<1> QED BY <1>1, <1>2, <1>3, <1>4, <1>5, <1>6, <1>7, <1>8, <1>9, <1>10, <1>11, <1>12, <1>13, <1>14 DEF NextSessions

\* The inductive invariant holds in every run.
THEOREM SessionsInvariant == SpecSessions => []Inv
BY Initially, Step, PTL DEF SpecSessions

\* Only the registered user ever has sessions, however registrations, logins
\* and logouts of any number of people and tabs race; a session that the upgrade
\* of a password-only database left stays one, and ends when it would have.
THEOREM OneAdministratorHolds == SpecSessions => []OneAdministrator
<1>1. Inv => OneAdministrator
  BY DEF Inv
<1> QED BY <1>1, SessionsInvariant, PTL

\* The CSRF token given out at a login is accepted as long as its session.
THEOREM IssuedCsrfIsGood == SpecSessions => []IssuedCsrfHolds
<1>1. Inv => IssuedCsrfHolds
  <2> SUFFICES ASSUME Inv, NEW t \in Tabs, Valid(tab[t].memory.token)
               PROVE  ValidWith(tab[t].memory.token, tab[t].memory.csrf)
    BY DEF IssuedCsrfHolds
  <2>1. tab[t].memory.token # NoToken
    BY SessionsAssumption DEF Inv, TypeInv, Valid
  <2> QED BY <2>1 DEF Inv, MemoryInv, Valid, ValidWith
<1> QED BY <1>1, SessionsInvariant, PTL

-----------------------------------------------------------------------------
(***************************************************************************)
(* Runs.                                                                   *)
(***************************************************************************)

Contents == [of: Targets, edition: Nat]
Reported == [path: Paths, content: Contents]
Reports == (SUBSET Reported) \cup {NoReport}
Parents == Nat \cup {NoRun}
Inputs == [target: Targets, corrects: Parents, retries: Parents]
States == Live \cup Stopped \cup {"completed"}
RunRows == [input: Inputs, state: States, report: Reports, reserved: BOOLEAN, after: BOOLEAN]

RunTypes ==
    /\ runs \in Seq(RunRows)
    /\ files \in [Paths -> Contents \cup {Absent, Owned}]
    /\ edition \in Nat

\* The worker drives a run there is, and the parent of a run exists.
LineageInv ==
    /\ busy # NoRun => busy \in Ids
    /\ \A r \in Ids : /\ runs[r].input.corrects # NoRun => runs[r].input.corrects \in Ids
                      /\ runs[r].input.retries # NoRun => runs[r].input.retries \in Ids

\* A retry that is yet to be inserted names parents there are, and is none of a
\* chain with outputs that would count as first.
AskedInv ==
    \A q \in asked :
        /\ q.input \in Inputs /\ q.after \in BOOLEAN
        /\ q.input.corrects # NoRun => q.input.corrects \in Ids
        /\ q.input.retries # NoRun => q.input.retries \in Ids
        /\ q.after => q.input.corrects # NoRun \/ q.input.retries # NoRun

RunsInv == RunTypes /\ LineageInv /\ AskedInv /\ NeverFirstAgain

-----------------------------------------------------------------------------
LEMMA RunsInitially == InitRuns => RunsInv
<1> SUFFICES ASSUME InitRuns PROVE RunsInv
  OBVIOUS
<1>1. runs = <<>> /\ asked = {} /\ Ids = {} /\ busy = NoRun /\ edition \in Nat
  BY DEF InitRuns, Ids
<1> QED BY <1>1 DEF InitRuns, RunsInv, RunTypes, LineageInv, AskedInv, NeverFirstAgain

\* What a change of one row leaves of the invariant when it keeps the input.
LEMMA RowChange ==
    ASSUME RunsInv, NEW r \in Ids, NEW row \in RunRows,
           row.input = runs[r].input, row.after = runs[r].after,
           runs' = [runs EXCEPT ![r] = row],
           busy' = NoRun \/ busy' = busy \/ busy' = r,
           files' \in [Paths -> Contents \cup {Absent, Owned}], UNCHANGED <<asked, edition>>
    PROVE  RunsInv'
<1>1. /\ runs' \in Seq(RunRows) /\ Len(runs') = Len(runs) /\ Ids' = Ids
      /\ \A q \in Ids : runs'[q].input = runs[q].input /\ runs'[q].after = runs[q].after
  BY DEF RunsInv, RunTypes, Ids
<1>2. RunTypes'
  BY <1>1 DEF RunsInv, RunTypes
<1>3. LineageInv'
  BY <1>1 DEF RunsInv, LineageInv
<1>4. AskedInv' /\ NeverFirstAgain'
  BY <1>1 DEF RunsInv, AskedInv, NeverFirstAgain, First
<1> QED BY <1>2, <1>3, <1>4 DEF RunsInv

LEMMA TargetIsTyped == ASSUME RunsInv, NEW r \in Ids
                      PROVE  runs[r] \in RunRows /\ runs[r].input \in Inputs /\ runs[r].input.target \in Targets
<1>1. runs[r] \in RunRows
  BY DEF RunsInv, RunTypes, Ids
<1>2. runs[r].input \in Inputs
  BY <1>1 DEF RunRows
<1> QED BY <1>1, <1>2 DEF Inputs

\* The row of a run, and what an assignment to its columns makes of it.
LEMMA RowUpdate ==
    ASSUME RunsInv, NEW r \in Ids, NEW state \in States, NEW report \in Reports
    PROVE  /\ runs[r] \in RunRows
           /\ Set(r, state) = [runs EXCEPT ![r] = [runs[r] EXCEPT !.state = state]]
           /\ [Set(r, state) EXCEPT ![r].report = report]
                = [runs EXCEPT ![r] = [runs[r] EXCEPT !.state = state, !.report = report]]
           /\ [Set(r, state) EXCEPT ![r].reserved = TRUE]
                = [runs EXCEPT ![r] = [runs[r] EXCEPT !.state = state, !.reserved = TRUE]]
           /\ [runs[r] EXCEPT !.state = state] \in RunRows
           /\ [runs[r] EXCEPT !.state = state, !.report = report] \in RunRows
           /\ [runs[r] EXCEPT !.state = state, !.reserved = TRUE] \in RunRows
<1>1. runs[r] \in RunRows /\ r \in DOMAIN runs
  BY DEF RunsInv, RunTypes, Ids
<1>2. Set(r, state) = [runs EXCEPT ![r] = [runs[r] EXCEPT !.state = state]]
  BY DEF Set
<1>3. [Set(r, state) EXCEPT ![r].report = report]
        = [runs EXCEPT ![r] = [runs[r] EXCEPT !.state = state, !.report = report]]
  BY <1>1, <1>2
<1>4. [Set(r, state) EXCEPT ![r].reserved = TRUE]
        = [runs EXCEPT ![r] = [runs[r] EXCEPT !.state = state, !.reserved = TRUE]]
  BY <1>1, <1>2
<1>5. /\ [runs[r] EXCEPT !.state = state] \in RunRows
      /\ [runs[r] EXCEPT !.state = state, !.report = report] \in RunRows
      /\ [runs[r] EXCEPT !.state = state, !.reserved = TRUE] \in RunRows
  BY <1>1 DEF RunRows
<1> QED BY <1>1, <1>2, <1>3, <1>4, <1>5

\* A change of the state of one run, perhaps with a report, by an action that
\* leaves the files alone.
LEMMA StateChange ==
    ASSUME RunsInv, NEW r \in Ids, NEW state \in States,
           \/ runs' = Set(r, state)
           \/ runs' = [Set(r, state) EXCEPT ![r].report = {}]
           \/ runs' = [Set(r, state) EXCEPT ![r].reserved = TRUE],
           busy' = NoRun \/ busy' = busy \/ busy' = r, UNCHANGED <<asked, files, edition>>
    PROVE  RunsInv'
<1>1. {} \in Reports /\ files' \in [Paths -> Contents \cup {Absent, Owned}]
  BY DEF Reports, RunsInv, RunTypes
<1>2. /\ runs[r] \in RunRows
      /\ Set(r, state) = [runs EXCEPT ![r] = [runs[r] EXCEPT !.state = state]]
      /\ [Set(r, state) EXCEPT ![r].report = {}]
           = [runs EXCEPT ![r] = [runs[r] EXCEPT !.state = state, !.report = {}]]
      /\ [Set(r, state) EXCEPT ![r].reserved = TRUE]
           = [runs EXCEPT ![r] = [runs[r] EXCEPT !.state = state, !.reserved = TRUE]]
      /\ [runs[r] EXCEPT !.state = state] \in RunRows
      /\ [runs[r] EXCEPT !.state = state, !.report = {}] \in RunRows
      /\ [runs[r] EXCEPT !.state = state, !.reserved = TRUE] \in RunRows
  BY <1>1, RowUpdate
<1>3. ASSUME runs' = Set(r, state) PROVE RunsInv'
  <2> DEFINE row == [runs[r] EXCEPT !.state = state]
  <2>1. row \in RunRows /\ row.input = runs[r].input /\ row.after = runs[r].after
    BY <1>2 DEF RunRows
  <2>2. runs' = [runs EXCEPT ![r] = row]
    BY <1>2, <1>3
  <2> HIDE DEF row
  <2> QED BY <1>1, <2>1, <2>2, RowChange
<1>4. ASSUME runs' = [Set(r, state) EXCEPT ![r].report = {}] PROVE RunsInv'
  <2> DEFINE row == [runs[r] EXCEPT !.state = state, !.report = {}]
  <2>1. row \in RunRows /\ row.input = runs[r].input /\ row.after = runs[r].after
    BY <1>2 DEF RunRows
  <2>2. runs' = [runs EXCEPT ![r] = row]
    BY <1>2, <1>4
  <2> HIDE DEF row
  <2> QED BY <1>1, <2>1, <2>2, RowChange
<1>5. ASSUME runs' = [Set(r, state) EXCEPT ![r].reserved = TRUE] PROVE RunsInv'
  <2> DEFINE row == [runs[r] EXCEPT !.state = state, !.reserved = TRUE]
  <2>1. row \in RunRows /\ row.input = runs[r].input /\ row.after = runs[r].after
    BY <1>2 DEF RunRows
  <2>2. runs' = [runs EXCEPT ![r] = row]
    BY <1>2, <1>5
  <2> HIDE DEF row
  <2> QED BY <1>1, <2>1, <2>2, RowChange
<1> QED BY <1>3, <1>4, <1>5

\* A new run: its parents are there, and it is no first run after a report.
LEMMA Created ==
    ASSUME RunsInv, NEW input \in Inputs, NEW after \in BOOLEAN, CreateRun(input, after),
           input.corrects # NoRun => input.corrects \in Ids,
           input.retries # NoRun => input.retries \in Ids,
           after => input.corrects # NoRun \/ input.retries # NoRun,
           asked' \subseteq asked
    PROVE  RunsInv'
<1> DEFINE row == [input |-> input, state |-> "queued", report |-> NoReport,
                   reserved |-> FALSE, after |-> after]
<1>1. row \in RunRows
  BY DEF RunRows, States, Live, Reports
<1>2. runs' = Append(runs, row) /\ UNCHANGED <<busy, files, edition>>
  BY DEF CreateRun
<1>3. /\ runs' \in Seq(RunRows) /\ Len(runs') = Len(runs) + 1 /\ runs'[Len(runs) + 1] = row
      /\ Ids' = Ids \cup {Len(runs) + 1}
      /\ \A q \in Ids : runs'[q] = runs[q]
  BY <1>1, <1>2 DEF RunsInv, RunTypes, Ids
<1>4. RunTypes'
  BY <1>2, <1>3 DEF RunsInv, RunTypes
<1>5. LineageInv'
  <2>1. busy' # NoRun => busy' \in Ids'
    BY <1>2, <1>3 DEF RunsInv, LineageInv
  <2>2. ASSUME NEW r \in Ids'
        PROVE  /\ runs'[r].input.corrects # NoRun => runs'[r].input.corrects \in Ids'
               /\ runs'[r].input.retries # NoRun => runs'[r].input.retries \in Ids'
    <3>1. CASE r \in Ids
      BY <1>3, <3>1 DEF RunsInv, LineageInv
    <3>2. CASE r = Len(runs) + 1
      BY <1>3, <3>2
    <3> QED BY <1>3, <3>1, <3>2
  <2> QED BY <2>1, <2>2 DEF LineageInv
<1>6. NeverFirstAgain'
  <2> SUFFICES ASSUME NEW r \in Ids', runs'[r].after PROVE ~First(r)'
    BY DEF NeverFirstAgain
  <2>1. CASE r \in Ids
    BY <1>3, <2>1 DEF RunsInv, NeverFirstAgain, First
  <2>2. CASE r = Len(runs) + 1
    BY <1>3, <2>2 DEF First
  <2> QED BY <1>3, <2>1, <2>2
<1>7. AskedInv'
  BY <1>3 DEF RunsInv, AskedInv
<1> QED BY <1>4, <1>5, <1>6, <1>7 DEF RunsInv

\* What a retry has read of its run stays true of it: rows keep their place.
LEMMA RetryKeeps == ASSUME RunsInv, NEW r \in Ids, RetryRun(r) PROVE RunsInv'
<1>1. runs[r] \in RunRows /\ r \in Nat
  BY DEF RunsInv, RunTypes, Ids
<1>2. runs[r].input \in Inputs /\ runs[r].after \in BOOLEAN
  BY <1>1 DEF RunRows
<1>3. RetryInput(r) \in Inputs
  BY <1>1, <1>2 DEF RetryInput, Inputs, Parents
<1> DEFINE after == runs[r].after \/ Succeeded(r) # {}
           new == [input |-> RetryInput(r), after |-> after]
<1>4. asked' = asked \cup {new} /\ UNCHANGED <<runs, busy, files, edition>>
  BY DEF RetryRun
<1>5. /\ RetryInput(r).corrects # NoRun => RetryInput(r).corrects \in Ids
      /\ RetryInput(r).retries # NoRun => RetryInput(r).retries \in Ids
      /\ after => RetryInput(r).corrects # NoRun \/ RetryInput(r).retries # NoRun
  <2>1. CASE Succeeded(r) # {}
    <3>1. RetryInput(r).retries = r /\ RetryInput(r).corrects = runs[r].input.corrects /\ r # NoRun
      BY <1>1, <1>2, <2>1, RunsAssumption DEF RetryInput, Inputs
    <3> QED BY <3>1 DEF RunsInv, LineageInv
  <2>2. CASE Succeeded(r) = {}
    <3>1. RetryInput(r) = runs[r].input
      BY <2>2 DEF RetryInput
    <3>2. runs[r].after => runs[r].input.corrects # NoRun \/ runs[r].input.retries # NoRun
      BY DEF RunsInv, NeverFirstAgain, First
    <3> QED BY <2>2, <3>1, <3>2 DEF RunsInv, LineageInv
  <2> QED BY <2>1, <2>2
<1>6. after \in BOOLEAN
  BY <1>2
<1>7. new.input = RetryInput(r) /\ new.after = after
  OBVIOUS
<1> HIDE DEF new, after
<1>8. AskedInv'
  BY <1>3, <1>4, <1>5, <1>6, <1>7 DEF RunsInv, AskedInv, Ids
<1> QED BY <1>4, <1>8 DEF RunsInv, RunTypes, LineageInv, NeverFirstAgain, First, Ids

LEMMA InsertKeeps == ASSUME RunsInv, NEW q \in asked, InsertRetry(q) PROVE RunsInv'
<1>1. asked' \subseteq asked
  BY DEF InsertRetry
<1>2. CASE Alive(q.input)
  <2>1. UNCHANGED <<runs, busy, files, edition>>
    BY <1>2 DEF InsertRetry
  <2> QED BY <1>1, <2>1 DEF RunsInv, RunTypes, LineageInv, AskedInv, NeverFirstAgain, First, Ids
<1>3. CASE ~Alive(q.input)
  <2>1. CreateRun(q.input, q.after)
    BY <1>3 DEF InsertRetry
  <2>2. /\ q.input \in Inputs /\ q.after \in BOOLEAN
        /\ q.input.corrects # NoRun => q.input.corrects \in Ids
        /\ q.input.retries # NoRun => q.input.retries \in Ids
        /\ q.after => q.input.corrects # NoRun \/ q.input.retries # NoRun
    BY DEF RunsInv, AskedInv
  <2> DEFINE input == q.input
             after == q.after
  <2>3. CreateRun(input, after) /\ input \in Inputs /\ after \in BOOLEAN
    BY <2>1, <2>2
  <2>4. /\ input.corrects # NoRun => input.corrects \in Ids
        /\ input.retries # NoRun => input.retries \in Ids
        /\ after => input.corrects # NoRun \/ input.retries # NoRun
    BY <2>2
  <2> HIDE DEF input, after
  <2> QED BY <1>1, <2>3, <2>4, Created
<1> QED BY <1>2, <1>3

\* What a plan may come to: outputs of the targets' paths, and the files after it.
LEMMA PlanIsTyped ==
    ASSUME RunsInv, NEW t \in Targets, NEW n \in 0..Len(Plan(t))
    PROVE  /\ Range(SubSeq(Plan(t), 1, n)) \subseteq Reported
           /\ Range(SubSeq(Plan(t), 1, n)) \subseteq Range(Plan(t))
<1>1. Outputs[t] \in Seq(Paths) /\ edition \in Nat
  BY RunsAssumption DEF RunsInv, RunTypes
<1>2. Content(t) \in Contents
  BY <1>1 DEF Content, Contents
<1>3. Plan(t) \in Seq(Reported)
  <2>1. Len(Outputs[t]) \in Nat /\ DOMAIN Outputs[t] = 1..Len(Outputs[t])
    BY <1>1
  <2>2. \A i \in DOMAIN Outputs[t] : [path |-> Outputs[t][i], content |-> Content(t)] \in Reported
    BY <1>1, <1>2 DEF Reported
  <2>3. Plan(t) \in [1..Len(Outputs[t]) -> Reported]
    BY <2>1, <2>2 DEF Plan
  <2> QED BY <2>1, <2>3
<1>4. /\ SubSeq(Plan(t), 1, n) \in Seq(Reported)
      /\ Len(SubSeq(Plan(t), 1, n)) = n
      /\ \A i \in 1..n : SubSeq(Plan(t), 1, n)[i] = Plan(t)[i]
  BY <1>3
<1> QED BY <1>3, <1>4 DEF Range

LEMMA WrittenIsTyped ==
    ASSUME RunsInv, NEW outputs, Range(outputs) \subseteq Reported
    PROVE  /\ Written(outputs) \in [Paths -> Contents \cup {Absent, Owned}]
           /\ \A p \in Paths : Written(outputs)[p] # files[p] => \E o \in Range(outputs) : o.path = p
<1>1. ASSUME NEW p \in Paths, \E o \in Range(outputs) : o.path = p
      PROVE  (CHOOSE o \in Range(outputs) : o.path = p).content \in Contents
  <2>1. (CHOOSE o \in Range(outputs) : o.path = p) \in Range(outputs)
    BY <1>1
  <2> QED BY <2>1 DEF Reported
<1> QED BY <1>1 DEF Written, RunsInv, RunTypes

LEMMA ExecuteKeeps == ASSUME RunsInv, NEW r \in Ids, Execute(r) PROVE RunsInv'
<1> DEFINE plan == Plan(runs[r].input.target)
<1>1. PICK n \in IF Admitted(r) THEN 0..Len(plan) ELSE {0} :
        /\ files' = Written(SubSeq(plan, 1, n))
        /\ runs' = [Set(r, IF Admitted(r) /\ n = Len(plan) THEN "completed" ELSE "failed")
                       EXCEPT ![r].report = Range(SubSeq(plan, 1, n))]
  BY DEF Execute
<1>2. runs[r] \in RunRows /\ runs[r].input.target \in Targets
  BY TargetIsTyped
<1>3. Len(plan) \in Nat
  BY <1>2, RunsAssumption DEF Plan
<1>4. n \in 0..Len(plan)
  BY <1>1, <1>3
<1>5. Range(SubSeq(plan, 1, n)) \subseteq Reported
  BY <1>2, <1>4, PlanIsTyped
<1>6. files' \in [Paths -> Contents \cup {Absent, Owned}]
  BY <1>1, <1>5, WrittenIsTyped
<1> DEFINE state == IF Admitted(r) /\ n = Len(plan) THEN "completed" ELSE "failed"
           report == Range(SubSeq(plan, 1, n))
           row == [runs[r] EXCEPT !.state = state, !.report = report]
<1>7. state \in States /\ report \in Reports
  BY <1>5 DEF States, Stopped, Reports
<1> HIDE DEF state, report
<1>8. /\ row \in RunRows
      /\ [Set(r, state) EXCEPT ![r].report = report] = [runs EXCEPT ![r] = row]
  BY <1>7, RowUpdate
<1>9. runs' = [runs EXCEPT ![r] = row]
  BY <1>1, <1>8 DEF state, report
<1>10. row.input = runs[r].input /\ row.after = runs[r].after
  BY <1>2 DEF RunRows
<1> QED BY <1>6, <1>8, <1>9, <1>10, RowChange DEF Execute

LEMMA CrashKeeps == ASSUME RunsInv, CrashRuns PROVE RunsInv'
<1>1. files' \in [Paths -> Contents \cup {Absent, Owned}]
  <2>1. CASE busy # NoRun /\ runs[busy].state = "writing" /\ Admitted(busy)
    <3> DEFINE plan == Plan(runs[busy].input.target)
    <3>1. PICK n \in 0..Len(plan) : files' = Written(SubSeq(plan, 1, n))
      BY <2>1 DEF CrashRuns
    <3>2. runs[busy].input.target \in Targets
      BY <2>1, TargetIsTyped DEF RunsInv, LineageInv
    <3>3. Range(SubSeq(plan, 1, n)) \subseteq Reported
      BY <3>1, <3>2, PlanIsTyped
    <3> QED BY <3>1, <3>3, WrittenIsTyped
  <2>2. CASE ~(busy # NoRun /\ runs[busy].state = "writing" /\ Admitted(busy))
    BY <2>2 DEF CrashRuns, RunsInv, RunTypes
  <2> QED BY <2>1, <2>2
<1> DEFINE row(r) == IF runs[r].state \in {"working", "writing"}
                     THEN [runs[r] EXCEPT !.state = "interrupted"] ELSE runs[r]
<1>2. runs' = [r \in Ids |-> row(r)] /\ busy' = NoRun /\ asked' = {} /\ UNCHANGED edition
  BY DEF CrashRuns
<1>3. \A r \in Ids : row(r) \in RunRows /\ row(r).input = runs[r].input /\ row(r).after = runs[r].after
  <2> SUFFICES ASSUME NEW r \in Ids
               PROVE  row(r) \in RunRows /\ row(r).input = runs[r].input /\ row(r).after = runs[r].after
    OBVIOUS
  <2>1. runs[r] \in RunRows
    BY DEF RunsInv, RunTypes, Ids
  <2> QED BY <2>1 DEF RunRows, States, Stopped
<1> HIDE DEF row
<1>4. /\ runs' \in Seq(RunRows) /\ Len(runs') = Len(runs) /\ Ids' = Ids
      /\ \A r \in Ids : runs'[r].input = runs[r].input /\ runs'[r].after = runs[r].after
  BY <1>2, <1>3 DEF RunsInv, RunTypes, Ids
<1>5. RunTypes'
  BY <1>1, <1>2, <1>4 DEF RunsInv, RunTypes
<1>6. LineageInv' /\ AskedInv' /\ NeverFirstAgain'
  BY <1>2, <1>4 DEF RunsInv, LineageInv, AskedInv, NeverFirstAgain, First
<1> QED BY <1>5, <1>6 DEF RunsInv

LEMMA RunsStep == RunsInv /\ [NextRuns]_runVars => RunsInv'
<1> SUFFICES ASSUME RunsInv, [NextRuns]_runVars PROVE RunsInv'
  OBVIOUS
<1>1. ASSUME NEW t \in Targets, NewRun(t) PROVE RunsInv'
  BY <1>1, Created DEF NewRun, Inputs, Parents
<1>2. ASSUME NEW r \in Ids, NEW t \in Targets, Correct(r, t) PROVE RunsInv'
  <2>1. r \in Nat /\ [target |-> t, corrects |-> r, retries |-> NoRun] \in Inputs
    BY DEF Ids, Inputs, Parents, RunsInv, RunTypes
  <2> QED BY <1>2, <2>1, Created DEF Correct
<1>3. ASSUME NEW r \in Ids, RetryJob(r) PROVE RunsInv'
  BY <1>3, StateChange DEF RetryJob, States, Live
<1>4. ASSUME NEW r \in Ids, CancelRun(r) PROVE RunsInv'
  BY <1>4, StateChange DEF CancelRun, States, Stopped
<1>5. ASSUME NEW r \in Ids, Claim(r) PROVE RunsInv'
  BY <1>5, StateChange DEF Claim, States, Live
<1>6. ASSUME NEW r \in Ids, Block(r) PROVE RunsInv'
  BY <1>6, StateChange DEF Block, States, Stopped
<1>7. ASSUME NEW r \in Ids, Approve(r) PROVE RunsInv'
  BY <1>7, StateChange DEF Approve, States, Stopped
<1>8. ASSUME NEW r \in Ids, ReserveRun(r) PROVE RunsInv'
  <2>1. CASE runs[r].reserved
    BY <1>8, <2>1, StateChange DEF ReserveRun, States, Stopped
  <2>2. CASE ~runs[r].reserved
    BY <1>8, <2>2, StateChange DEF ReserveRun, States, Live
  <2> QED BY <2>1, <2>2
<1>9. ASSUME NEW r \in Ids, LeaveCancelled(r) PROVE RunsInv'
  BY <1>9 DEF LeaveCancelled, RunsInv, RunTypes, LineageInv, AskedInv, NeverFirstAgain, First, Ids
<1>10. ASSUME NewEdition PROVE RunsInv'
  BY <1>10 DEF NewEdition, RunsInv, RunTypes, LineageInv, AskedInv, NeverFirstAgain, First, Ids
<1>11. ASSUME NEW p \in Paths, EditOutput(p) PROVE RunsInv'
  <2>1. files' \in [Paths -> Contents \cup {Absent, Owned}] /\ UNCHANGED <<runs, asked, busy, edition>>
    BY <1>11 DEF EditOutput, RunsInv, RunTypes
  <2> QED BY <2>1 DEF RunsInv, RunTypes, LineageInv, AskedInv, NeverFirstAgain, First, Ids
<1>12. ASSUME UNCHANGED runVars PROVE RunsInv'
  BY <1>12 DEF runVars, RunsInv, RunTypes, LineageInv, AskedInv, NeverFirstAgain, First, Ids
<1> QED BY <1>1, <1>2, <1>3, <1>4, <1>5, <1>6, <1>7, <1>8, <1>9, <1>10, <1>11, <1>12,
           RetryKeeps, InsertKeeps, ExecuteKeeps, CrashKeeps DEF NextRuns

-----------------------------------------------------------------------------
\* What an admitted plan would write is not a file of people: what is there is
\* what the parent has reported.
LEMMA OnlyReported ==
    ASSUME RunsInv, NEW r \in Ids, Admitted(r), NEW p \in Paths, files[p] = Owned,
           NEW n \in 0..Len(Plan(runs[r].input.target))
    PROVE  Written(SubSeq(Plan(runs[r].input.target), 1, n))[p] = Owned
<1> DEFINE plan == Plan(runs[r].input.target)
<1>1. runs[r].input.target \in Targets
  BY TargetIsTyped
<1>2. Range(SubSeq(plan, 1, n)) \subseteq Reported /\ Range(SubSeq(plan, 1, n)) \subseteq Range(plan)
  BY <1>1, PlanIsTyped
<1>3. Manifest(r) \subseteq Reported
  <2>1. CASE First(r)
    BY <2>1 DEF Manifest
  <2>2. CASE ~First(r)
    <3>1. Parent(r) \in Ids
      BY <2>2 DEF First, Parent, RunsInv, LineageInv
    <3>2. runs[Parent(r)] \in RunRows
      BY <3>1 DEF RunsInv, RunTypes, Ids
    <3> QED BY <2>2, <3>2 DEF Manifest, Succeeded, RunRows, Reports
  <2> QED BY <2>1, <2>2
<1>4. ASSUME Written(SubSeq(plan, 1, n))[p] # Owned PROVE FALSE
  <2>1. PICK o \in Range(SubSeq(plan, 1, n)) : o.path = p
    BY <1>2, <1>4, WrittenIsTyped
  <2>2. o \in Range(plan) /\ Exists(p)
    BY <1>2, RunsAssumption DEF Exists
  <2>3. [path |-> p, content |-> Owned] \in Manifest(r)
    BY <2>1, <2>2 DEF Admitted, Allows
  <2>4. Owned \in Contents
    BY <1>3, <2>3 DEF Reported
  <2> QED BY <2>4, RunsAssumption DEF Contents
<1> QED BY <1>4

\* No retry of a chain that has reported outputs when it is asked for is a first
\* run, whatever happens to the chain before it is inserted.
THEOREM ChainsKeepTheirParent == SpecRuns => []NeverFirstAgain
<1>1. RunsInv => NeverFirstAgain
  BY DEF RunsInv
<1> QED BY <1>1, RunsInitially, RunsStep, PTL DEF SpecRuns

\* No run, and no crash of one, takes the place of a file of people: what its
\* parent has reported is all it may replace.
THEOREM PeopleKeepTheirFiles == SpecRuns => OwnedFilesSurvive
<1>1. ASSUME RunsInv, [NextRuns]_runVars
      PROVE  [\A p \in Paths : files[p] = Owned /\ files'[p] # Owned => EditOutput(p)]_runVars
  <2> SUFFICES ASSUME NextRuns, NEW p \in Paths, files[p] = Owned, files'[p] # Owned
               PROVE  EditOutput(p)
    BY <1>1
  <2>1. ASSUME NEW r \in Ids, Execute(r) PROVE FALSE
    <3> DEFINE plan == Plan(runs[r].input.target)
    <3>1. PICK n \in IF Admitted(r) THEN 0..Len(plan) ELSE {0} : files' = Written(SubSeq(plan, 1, n))
      BY <2>1 DEF Execute
    <3>2. CASE Admitted(r)
      BY <1>1, <3>1, <3>2, OnlyReported
    <3>3. CASE ~Admitted(r)
      <4>1. runs[r].input.target \in Targets
        BY <1>1, TargetIsTyped
      <4>2. n = 0 /\ SubSeq(plan, 1, 0) = <<>>
        BY <3>1, <3>3, <4>1, RunsAssumption DEF Plan
      <4>3. Range(<<>>) = {}
        BY DEF Range
      <4> QED BY <3>1, <4>2, <4>3, <1>1, WrittenIsTyped
    <3> QED BY <3>2, <3>3
  <2>2. ASSUME CrashRuns PROVE FALSE
    <3> DEFINE plan == Plan(runs[busy].input.target)
    <3>1. busy # NoRun /\ runs[busy].state = "writing" /\ Admitted(busy)
      BY <2>2 DEF CrashRuns
    <3>2. PICK n \in 0..Len(plan) : files' = Written(SubSeq(plan, 1, n))
      BY <2>2, <3>1 DEF CrashRuns
    <3>3. busy \in Ids
      BY <1>1, <3>1 DEF RunsInv, LineageInv
    <3> QED BY <1>1, <3>1, <3>2, <3>3, OnlyReported
  <2>3. ASSUME NEW q \in Paths, EditOutput(q) PROVE q = p
    BY <1>1, <2>3 DEF EditOutput, RunsInv, RunTypes
  <2>4. ASSUME NEW r \in Ids,
               RetryRun(r) \/ RetryJob(r) \/ CancelRun(r) \/ Claim(r) \/ Block(r) \/ Approve(r)
                 \/ ReserveRun(r) \/ LeaveCancelled(r) \/ \E t \in Targets : Correct(r, t)
        PROVE  FALSE
    BY <2>4 DEF RetryRun, RetryJob, CancelRun, Claim, Block, Approve, ReserveRun, LeaveCancelled,
                Correct, CreateRun
  <2>5. ASSUME NEW t \in Targets, NewRun(t) PROVE FALSE
    BY <2>5 DEF NewRun, CreateRun
  <2>6. ASSUME NewEdition PROVE FALSE
    BY <2>6 DEF NewEdition
  <2>7. ASSUME NEW q \in asked, InsertRetry(q) PROVE FALSE
    BY <2>7 DEF InsertRetry, CreateRun
  <2> QED BY <2>1, <2>2, <2>3, <2>4, <2>5, <2>6, <2>7 DEF NextRuns
<1> QED BY <1>1, RunsInitially, RunsStep, PTL DEF SpecRuns, OwnedFilesSurvive

(***************************************************************************)
(* Settings.                                                               *)
(***************************************************************************)

Plains == Values \cup Unusable \cup {1, 2}
SettingTokens == Typed \cup {None}
Secrets == EnvSecrets \cup {None}
Files == [plain: Plains, token: SettingTokens, ref: BOOLEAN, old: SettingTokens]
Configs == [plain: Plains, token: SettingTokens, ref: BOOLEAN, secret: Secrets]
Puts == [pc: {"idle"}] \cup [pc: {"edited", "locked", "persisted"}, next: Configs]

SettingTypes ==
    /\ file \in Files /\ env \in Environment /\ memory \in Configs
    /\ put \in [Requests -> Puts]

\* Who holds the lock is between taking it and swapping, and nobody else is.
LockInv == \A u \in Requests : put[u].pc \in {"locked", "persisted"} <=> lock = u

\* Once the environment has had its say, the file is what is in use, or what
\* will be once the holder has swapped.
FileInv ==
    /\ \A u \in Requests : put[u].pc = "persisted" => Load(file, env) = Overridden(put[u].next, env)
    /\ (\A u \in Requests : put[u].pc # "persisted") => Load(file, env) = Overridden(memory, env)

SettingsInv == SettingTypes /\ LockInv /\ FileInv

-----------------------------------------------------------------------------
\* What the environment makes of a configuration, field by field.
LEMMA OverriddenIs ==
    ASSUME NEW c \in Configs \cup [plain: Plains, token: SettingTokens, ref: BOOLEAN], NEW e \in Environment
    PROVE  Overridden(c, e) = [plain |-> Or(e.legacy, Or(e.plain, c.plain)), token |-> c.token,
                               ref |-> c.ref \/ e.refers, secret |-> ResolvedSecret(c.ref \/ e.refers, e)]
BY DEF Overridden, Resolved, LegacyOverrides, Layered, Configs

\* What the environment has overridden it overrides no further.
LEMMA OverriddenOnce ==
    ASSUME NEW c \in Configs \cup [plain: Plains, token: SettingTokens, ref: BOOLEAN], NEW e \in Environment
    PROVE  Overridden(c, e) \in Configs /\ Overridden(Overridden(c, e), e) = Overridden(c, e)
<1>1. /\ c.plain \in Plains /\ c.token \in SettingTokens /\ c.ref \in BOOLEAN
      /\ e.plain \in {None, 1} /\ e.legacy \in {None, 2} /\ e.refers \in BOOLEAN
      /\ e.direct \in Secrets /\ e.named \in Secrets
  BY DEF Configs, Environment, Secrets
<1>2. /\ ResolvedSecret(c.ref \/ e.refers, e) \in Secrets
      /\ Or(e.legacy, Or(e.plain, c.plain)) \in Plains
  BY <1>1 DEF ResolvedSecret, Or, Secrets, Plains
<1>3. Overridden(c, e) \in Configs
  BY <1>1, <1>2, OverriddenIs DEF Configs
<1>4. Overridden(Overridden(c, e), e) =
        [plain |-> Or(e.legacy, Or(e.plain, Overridden(c, e).plain)), token |-> Overridden(c, e).token,
         ref |-> Overridden(c, e).ref \/ e.refers,
         secret |-> ResolvedSecret(Overridden(c, e).ref \/ e.refers, e)]
  BY <1>3, OverriddenIs
<1>5. /\ Overridden(c, e).plain = Or(e.legacy, Or(e.plain, c.plain)) /\ Overridden(c, e).token = c.token
      /\ Overridden(c, e).ref = (c.ref \/ e.refers)
  BY OverriddenIs
<1>6. Or(e.legacy, Or(e.plain, Or(e.legacy, Or(e.plain, c.plain)))) = Or(e.legacy, Or(e.plain, c.plain))
  BY DEF Or
<1>7. (Overridden(c, e).ref \/ e.refers) = (c.ref \/ e.refers)
  BY <1>1, <1>5
<1> QED BY <1>3, <1>4, <1>5, <1>6, <1>7, OverriddenIs

\* Loading a file gives a configuration, on which the environment has had its say.
LEMMA LoadedOnce ==
    ASSUME NEW f \in Files, NEW e \in Environment
    PROVE  Load(f, e) \in Configs /\ Overridden(Load(f, e), e) = Load(f, e)
<1>1. Normalized(f) \in [plain: Plains, token: SettingTokens, ref: BOOLEAN]
  BY DEF Normalized, Or, Files, SettingTokens
<1> QED BY <1>1, OverriddenOnce DEF Load

\* What is persisted of a configuration loads as it, overridden again.
LEMMA PersistedLoads ==
    ASSUME NEW c \in Configs, NEW e \in Environment
    PROVE  Persisted(c) \in Files /\ Load(Persisted(c), e) = Overridden(c, e)
<1>1. Persisted(c) \in Files
  BY DEF Persisted, Files, Configs, SettingTokens
<1>2. Normalized(Persisted(c)) = [plain |-> c.plain, token |-> c.token, ref |-> c.ref]
  BY DEF Normalized, Persisted, Or
<1>3. Normalized(Persisted(c)) \in [plain: Plains, token: SettingTokens, ref: BOOLEAN]
  BY <1>2 DEF Configs
<1>4. Overridden(Normalized(Persisted(c)), e) = Overridden(c, e)
  BY <1>2, <1>3, OverriddenIs
<1> QED BY <1>1, <1>4 DEF Load

\* A process that has just loaded its configuration.
LEMMA Loaded ==
    ASSUME file \in Files, env \in Environment, memory = Load(file, env), lock = NoWriter,
           put = [u \in Requests |-> NoPut]
    PROVE  SettingsInv
<1>1. SettingTypes /\ Overridden(memory, env) = memory
  BY LoadedOnce DEF SettingTypes, Puts, NoPut
<1>2. LockInv
  BY SettingsAssumption DEF LockInv, NoPut
<1>3. FileInv
  BY <1>1 DEF FileInv, NoPut
<1> QED BY <1>1, <1>2, <1>3 DEF SettingsInv

LEMMA SettingsInitially == InitSettings => SettingsInv
<1> SUFFICES ASSUME InitSettings PROVE SettingsInv
  OBVIOUS
<1>1. file \in Files /\ env \in Environment
  BY DEF InitSettings, Files, Plains, SettingTokens
<1> QED BY <1>1, Loaded DEF InitSettings

LEMMA EditKeeps == ASSUME SettingsInv, NEW u \in Requests, Edit(u) PROVE SettingsInv'
<1>1. PICK x \in Values \cup Unusable, change \in Typed \cup {"clear", "keep"} :
        put' = [put EXCEPT ![u] = [pc |-> "edited", next |-> Applied(memory, x, change)]]
  BY DEF Edit
<1>2. memory \in Configs
  BY DEF SettingsInv, SettingTypes
<1>3. Applied(memory, x, change) \in Configs
  BY <1>2 DEF Applied, UpdatedSecret, Configs, Plains, SettingTokens
<1>4. /\ put[u].pc = "idle" /\ put'[u].pc = "edited" /\ put'[u].next = Applied(memory, x, change)
      /\ \A v \in Requests \ {u} : put'[v] = put[v]
      /\ UNCHANGED <<file, env, memory, lock>>
  BY <1>1 DEF Edit, SettingsInv, SettingTypes
<1>5. SettingTypes'
  BY <1>1, <1>3, <1>4 DEF SettingsInv, SettingTypes, Puts
<1>6. LockInv'
  BY <1>4 DEF SettingsInv, LockInv
<1>7. FileInv'
  BY <1>4 DEF SettingsInv, FileInv
<1> QED BY <1>5, <1>6, <1>7 DEF SettingsInv

LEMMA TakeLockKeeps == ASSUME SettingsInv, NEW u \in Requests, TakeLock(u) PROVE SettingsInv'
<1> DEFINE c == Resolved(put[u].next, env)
<1>1. put[u].next \in Configs /\ put[u].pc = "edited"
  BY DEF TakeLock, SettingsInv, SettingTypes, Puts
<1>2. ResolvedSecret(put[u].next.ref, env) \in Secrets
  BY DEF ResolvedSecret, Or, Secrets, SettingsInv, SettingTypes, Environment
<1>3. c \in Configs
  BY <1>1, <1>2 DEF Resolved, Configs
<1>4. /\ put'[u].pc = "locked" /\ put'[u] = [pc |-> "locked", next |-> c]
      /\ \A v \in Requests \ {u} : put'[v] = put[v]
      /\ put' \in [Requests -> Puts]
      /\ lock = NoWriter /\ lock' = u /\ UNCHANGED <<file, env, memory>>
  BY <1>1, <1>3 DEF TakeLock, SettingsInv, SettingTypes, Puts
<1>5. SettingTypes'
  BY <1>4 DEF SettingsInv, SettingTypes
<1>6. LockInv' /\ \A v \in Requests : put[v].pc \notin {"locked", "persisted"}
  BY <1>4, SettingsAssumption DEF SettingsInv, LockInv
<1>7. FileInv'
  BY <1>4, <1>6 DEF SettingsInv, FileInv
<1> QED BY <1>5, <1>6, <1>7 DEF SettingsInv

LEMMA PersistKeeps == ASSUME SettingsInv, NEW u \in Requests, Persist(u) PROVE SettingsInv'
<1>1. put[u].pc = "locked" /\ put[u].next \in Configs
  BY DEF Persist, SettingsInv, SettingTypes, Puts
<1>2. /\ put'[u].pc = "persisted" /\ put'[u].next = put[u].next
      /\ \A v \in Requests \ {u} : put'[v] = put[v]
      /\ put' \in [Requests -> Puts]
      /\ file' = Persisted(put[u].next) /\ UNCHANGED <<env, memory, lock>>
  BY <1>1 DEF Persist, SettingsInv, SettingTypes, Puts
<1>3. env \in Environment /\ file' \in Files /\ Load(file', env) = Overridden(put[u].next, env)
  BY <1>1, <1>2, PersistedLoads DEF SettingsInv, SettingTypes
<1>4. SettingTypes'
  BY <1>2, <1>3 DEF SettingsInv, SettingTypes
<1>5. LockInv' /\ \A v \in Requests \ {u} : put'[v].pc \notin {"locked", "persisted"}
  BY <1>1, <1>2 DEF SettingsInv, LockInv
<1>6. FileInv'
  BY <1>1, <1>2, <1>3, <1>5 DEF SettingsInv, FileInv
<1> QED BY <1>4, <1>5, <1>6 DEF SettingsInv

LEMMA PersistFailsKeeps == ASSUME SettingsInv, NEW u \in Requests, PersistFails(u) PROVE SettingsInv'
<1>1. /\ put[u].pc = "locked" /\ put'[u].pc = "idle"
      /\ \A v \in Requests \ {u} : put'[v] = put[v]
      /\ put' \in [Requests -> Puts]
      /\ lock' = NoWriter /\ UNCHANGED <<file, env, memory>>
  BY DEF PersistFails, NoPut, SettingsInv, SettingTypes, Puts
<1>2. \A v \in Requests \ {u} : put[v].pc \notin {"locked", "persisted"}
  BY <1>1 DEF SettingsInv, LockInv
<1>3. SettingTypes'
  BY <1>1 DEF SettingsInv, SettingTypes
<1>4. LockInv'
  BY <1>1, <1>2, SettingsAssumption DEF LockInv
<1>5. FileInv'
  BY <1>1, <1>2 DEF SettingsInv, FileInv
<1> QED BY <1>3, <1>4, <1>5 DEF SettingsInv

LEMMA SwapKeeps == ASSUME SettingsInv, NEW u \in Requests, Swap(u) PROVE SettingsInv'
<1>1. put[u].pc = "persisted" /\ put[u].next \in Configs
  BY DEF Swap, SettingsInv, SettingTypes, Puts
<1>2. /\ put'[u].pc = "idle"
      /\ \A v \in Requests \ {u} : put'[v] = put[v]
      /\ put' \in [Requests -> Puts]
      /\ memory' = put[u].next /\ lock' = NoWriter /\ UNCHANGED <<file, env>>
  BY DEF Swap, NoPut, SettingsInv, SettingTypes, Puts
<1>3. \A v \in Requests \ {u} : put[v].pc \notin {"locked", "persisted"}
  BY <1>1 DEF SettingsInv, LockInv
<1>4. SettingTypes'
  BY <1>1, <1>2 DEF SettingsInv, SettingTypes
<1>5. LockInv'
  BY <1>2, <1>3, SettingsAssumption DEF LockInv
<1>6. FileInv'
  BY <1>1, <1>2, <1>3 DEF SettingsInv, FileInv
<1> QED BY <1>4, <1>5, <1>6 DEF SettingsInv

LEMMA RestartKeeps == ASSUME SettingsInv, RestartServer PROVE SettingsInv'
<1>1. /\ file' \in Files /\ env' \in Environment /\ memory' = Load(file', env')
      /\ lock' = NoWriter /\ put' = [u \in Requests |-> NoPut]
  BY DEF RestartServer, SettingsInv, SettingTypes
<1>2. memory' = Load(file, env)'
  BY <1>1
<1>3. (file \in Files /\ env \in Environment /\ memory = Load(file, env) /\ lock = NoWriter
       /\ put = [u \in Requests |-> NoPut] => SettingsInv)'
  BY Loaded, PTL
<1> QED BY <1>1, <1>2, <1>3

LEMMA SettingsStep == SettingsInv /\ [NextSettings]_settingsVars => SettingsInv'
<1> SUFFICES ASSUME SettingsInv, [NextSettings]_settingsVars PROVE SettingsInv'
  OBVIOUS
<1>1. ASSUME UNCHANGED settingsVars PROVE SettingsInv'
  BY <1>1 DEF settingsVars, SettingsInv, SettingTypes, LockInv, FileInv
<1> QED BY <1>1, EditKeeps, TakeLockKeeps, PersistKeeps, PersistFailsKeeps, SwapKeeps, RestartKeeps
        DEF NextSettings

-----------------------------------------------------------------------------
\* The invariant: the lock is held from the resolution to the swap, and the
\* file holds what is in use or what its holder is about to use.
THEOREM SettingsInvariant == SpecSettings => []SettingsInv
BY SettingsInitially, SettingsStep, PTL DEF SpecSettings

\* No token that only the environment holds reaches the file, whatever is
\* loaded, edited, persisted and started again.
THEOREM SecretsNeverLeak == SpecSettings => []SecretsStayOut
<1>1. SettingsInv => SecretsStayOut
  BY SettingsAssumption DEF SettingsInv, SettingTypes, Files, SettingTokens, SecretsStayOut
<1> QED BY <1>1, SettingsInvariant, PTL

\* While no request is between file and memory, a restart loads what is in use,
\* overridden once more by the environment.
THEOREM FileFollowsMemory == SpecSettings => []FileIsCurrent
<1>1. SettingsInv => FileIsCurrent
  BY DEF SettingsInv, FileInv, FileIsCurrent
<1> QED BY <1>1, SettingsInvariant, PTL

(***************************************************************************)
(* JobConfig.                                                              *)
(***************************************************************************)

AttemptStates == {"queued", "working", "awaiting", "planning", "interrupted", "done"}
Snapshots == Nat \cup {NoSnapshot}

SnapshotTypes ==
    /\ version \in Nat
    /\ job \in [state : AttemptStates, reviewed : BOOLEAN, snapshot : Snapshots, queuedAt : Nat, used : Snapshots]
    /\ look \in [pc : {"idle", "read"}, bound : BOOLEAN]

\* No snapshot is newer than the configuration, none that is kept while an
\* attempt can use it is older than the queueing, and neither is the one used.
AgeInv ==
    /\ job.queuedAt <= version
    /\ job.snapshot # NoSnapshot /\ job.state \notin {"interrupted", "done"} => job.queuedAt <= job.snapshot
    /\ job.used # NoSnapshot /\ job.state \notin {"queued", "interrupted", "done"} => job.queuedAt <= job.used

SnapshotInv == SnapshotTypes /\ AgeInv

LEMMA SnapshotInitially == InitJobConfig => SnapshotInv
BY DEF InitJobConfig, SnapshotInv, SnapshotTypes, AgeInv, AttemptStates, Snapshots, NoLook

\* The snapshot a reader takes or finds.
LEMMA SnapshotAge ==
    ASSUME SnapshotInv, job.state \notin {"interrupted", "done"}
    PROVE  Snapshot \in Nat /\ job.queuedAt <= Snapshot
BY DEF SnapshotInv, SnapshotTypes, AgeInv, Snapshot, Snapshots

LEMMA SnapshotStep == SnapshotInv /\ [NextJobConfig]_jobConfigVars => SnapshotInv'
<1> SUFFICES ASSUME SnapshotInv, [NextJobConfig]_jobConfigVars PROVE SnapshotInv'
  OBVIOUS
<1> USE JobConfigAssumption
<1>1. CASE Replace
  BY <1>1 DEF Replace, SnapshotInv, SnapshotTypes, AgeInv, Snapshots
<1>2. CASE Reopen
  BY <1>2 DEF Reopen, NoLook, SnapshotInv, SnapshotTypes, AgeInv, AttemptStates, Snapshots
<1>3. CASE Attempt
  BY <1>3 DEF Attempt, SnapshotInv, SnapshotTypes, AgeInv, AttemptStates, Snapshots
<1>4. CASE WorkerScan
  <2>1. Snapshot \in Nat /\ job.queuedAt <= Snapshot
    BY <1>4, SnapshotAge DEF WorkerScan
  <2> QED BY <1>4, <2>1 DEF WorkerScan, SnapshotInv, SnapshotTypes, AgeInv, Snapshots
<1>5. CASE OfferReview
  BY <1>5 DEF OfferReview, SnapshotInv, SnapshotTypes, AgeInv, AttemptStates, Snapshots
<1>6. CASE ApproveReview
  BY <1>6 DEF ApproveReview, SnapshotInv, SnapshotTypes, AgeInv, AttemptStates, Snapshots
<1>7. CASE EndAttempt
  BY <1>7 DEF EndAttempt, SnapshotInv, SnapshotTypes, AgeInv, AttemptStates, Snapshots
<1>8. CASE Requeue
  <2>1. /\ job'.state = "queued" /\ job'.queuedAt = version /\ job'.snapshot = NoSnapshot
        /\ job'.reviewed = job.reviewed /\ job'.used = job.used /\ UNCHANGED <<version, look>>
    BY <1>8 DEF Requeue, SnapshotInv, SnapshotTypes
  <2>2. SnapshotTypes'
    BY <1>8 DEF Requeue, SnapshotInv, SnapshotTypes, AttemptStates, Snapshots
  <2>3. AgeInv'
    BY <2>1 DEF SnapshotInv, SnapshotTypes, AgeInv
  <2> QED BY <2>2, <2>3 DEF SnapshotInv
<1>9. CASE ReadReview
  BY <1>9 DEF ReadReview, SnapshotInv, SnapshotTypes, AgeInv
<1>10. CASE ScanReview
  <2>1. CASE job.state \in {"interrupted", "done"}
    BY <1>10, <2>1 DEF ScanReview, NoLook, Snapshot, SnapshotInv, SnapshotTypes, AgeInv, Snapshots
  <2>2. CASE job.state \notin {"interrupted", "done"}
    <3>1. Snapshot \in Nat /\ job.queuedAt <= Snapshot
      BY <2>2, SnapshotAge
    <3> QED BY <1>10, <3>1 DEF ScanReview, NoLook, SnapshotInv, SnapshotTypes, AgeInv, Snapshots
  <2> QED BY <2>1, <2>2
<1>11. CASE UNCHANGED jobConfigVars
  BY <1>11 DEF jobConfigVars, SnapshotInv, SnapshotTypes, AgeInv
<1> QED BY <1>1, <1>2, <1>3, <1>4, <1>5, <1>6, <1>7, <1>8, <1>9, <1>10, <1>11 DEF NextJobConfig

\* An attempt never runs with a configuration older than its queueing, though
\* readers of a review may take a snapshot at any moment.
THEOREM SnapshotIsFresh == SpecJobConfig => []FreshSnapshot
<1>1. SnapshotInv => FreshSnapshot
  BY DEF SnapshotInv, SnapshotTypes, AgeInv, FreshSnapshot, Snapshots
<1> QED BY <1>1, SnapshotInitially, SnapshotStep, PTL DEF SpecJobConfig

(***************************************************************************)
(* Job events.                                                             *)
(***************************************************************************)

EventKinds == {"state", "progress", "writing", "aside"}
EventRecords == [job : EventJobs, kind : EventKinds, n : Nat]

EventsType ==
    /\ log \in Seq(EventRecords)
    /\ stored \in [EventJobs -> Nat]
    /\ owed \subseteq EventRecords

\* No event is about a state that its row has not had, published or owed;
\* what is owed is of the kinds that may be late.
KnownInv == \A s \in Sequences : log[s].n <= stored[log[s].job]
OwedInv == \A e \in owed : e.kind \in {"writing", "aside"} /\ e.n <= stored[e.job]

EventsInv == EventsType /\ KnownInv /\ OwedInv /\ StatesInOrder

-----------------------------------------------------------------------------
LEMMA EventsBegin == InitEvents => EventsInv
BY DEF InitEvents, EventsInv, EventsType, KnownInv, OwedInv, StatesInOrder, Sequences

\* An event that is published in order, or is one of those that may be late,
\* keeps the history in order.
LEMMA Published ==
    ASSUME EventsInv, NEW e \in EventRecords, Publish(e),
           stored' \in [EventJobs -> Nat],
           \A j \in EventJobs : stored[j] <= stored'[j],
           e.n <= stored'[e.job],
           e.kind \in {"writing", "aside"} \/ stored[e.job] <= e.n
    PROVE  log' \in Seq(EventRecords) /\ KnownInv' /\ StatesInOrder'
<1>1. /\ log' = Append(log, e) /\ log \in Seq(EventRecords) /\ log' \in Seq(EventRecords)
      /\ Len(log') = Len(log) + 1 /\ Len(log) \in Nat
  BY DEF Publish, EventsInv, EventsType
<1>2. \A s \in Sequences : log'[s] = log[s] /\ log[s] \in EventRecords
  BY <1>1 DEF Sequences
<1>3. log'[Len(log) + 1] = e
  BY <1>1
<1>4. Sequences' = Sequences \cup {Len(log) + 1}
  BY <1>1 DEF Sequences
<1>5. KnownInv'
  <2> SUFFICES ASSUME NEW s \in Sequences' PROVE log'[s].n <= stored'[log'[s].job]
    BY DEF KnownInv
  <2>1. CASE s = Len(log) + 1
    BY <2>1, <1>3
  <2>2. CASE s \in Sequences
    <3>1. log[s].job \in EventJobs /\ log[s].n \in Nat
      BY <2>2, <1>2 DEF EventRecords
    <3>2. log[s].n <= stored[log[s].job] /\ stored[log[s].job] <= stored'[log[s].job]
      BY <2>2, <3>1 DEF EventsInv, KnownInv
    <3>3. stored[log[s].job] \in Nat /\ stored'[log[s].job] \in Nat
      BY <3>1 DEF EventsInv, EventsType
    <3> QED BY <2>2, <1>2, <3>1, <3>2, <3>3
  <2> QED BY <2>1, <2>2, <1>4
<1>6. StatesInOrder'
  <2> SUFFICES ASSUME NEW s \in Sequences', NEW t \in Sequences', s < t,
                      log'[s].job = log'[t].job, log'[s].n > log'[t].n
               PROVE  log'[t].kind \in {"writing", "aside"}
    BY DEF StatesInOrder
  <2>1. s \in Sequences
    BY <1>1, <1>4 DEF Sequences
  <2>2. CASE t \in Sequences
    BY <2>1, <2>2, <1>2 DEF EventsInv, StatesInOrder
  <2>3. CASE t = Len(log) + 1
    <3>1. log[s].job = e.job /\ log[s].n > e.n /\ log[s].n \in Nat /\ e.job \in EventJobs /\ e.n \in Nat
      BY <2>1, <2>3, <1>2, <1>3 DEF EventRecords
    <3>2. log[s].n <= stored[e.job] /\ stored[e.job] \in Nat
      BY <3>1, <2>1 DEF EventsInv, KnownInv, EventsType
    <3>3. ~ (stored[e.job] <= e.n)
      BY <3>1, <3>2
    <3> QED BY <3>3, <2>3, <1>3
  <2> QED BY <2>2, <2>3, <1>4
<1> QED BY <1>1, <1>5, <1>6

\* What is owed about a row stays behind it.
LEMMA OwedKept ==
    ASSUME EventsInv, NEW o \in owed,
           stored' \in [EventJobs -> Nat],
           \A j \in EventJobs : stored[j] <= stored'[j]
    PROVE  o.kind \in {"writing", "aside"} /\ o.n <= stored'[o.job]
<1>1. o.job \in EventJobs /\ o.n \in Nat
  BY DEF EventsInv, EventsType, EventRecords
<1>2. stored[o.job] \in Nat /\ stored'[o.job] \in Nat /\ stored[o.job] <= stored'[o.job]
  BY <1>1 DEF EventsInv, EventsType
<1>3. o.kind \in {"writing", "aside"} /\ o.n <= stored[o.job]
  BY DEF EventsInv, OwedInv
<1> QED BY <1>1, <1>2, <1>3

\* A row moves and its state is published; something else about it may be owed.
LEMMA TransitionStep ==
    ASSUME EventsInv, NEW j \in EventJobs, Transition(j)
    PROVE  EventsInv'
<1> DEFINE e == Event(j, "state", stored'[j])
<1>1. /\ stored' = [stored EXCEPT ![j] = @ + 1] /\ Publish(e)
      /\ \A o \in owed' : o \in owed \/ o = Event(j, "aside", stored'[j])
  BY DEF Transition
<1>2. stored \in [EventJobs -> Nat] /\ stored'[j] = stored[j] + 1 /\ stored' \in [EventJobs -> Nat]
      /\ \A k \in EventJobs : stored[k] <= stored'[k]
  BY <1>1 DEF EventsInv, EventsType
<1>3. /\ e \in EventRecords /\ e.n = stored'[j] /\ e.job = j
      /\ Event(j, "aside", stored'[j]) \in EventRecords /\ Event(j, "aside", stored'[j]).kind = "aside"
  BY <1>2 DEF Event, EventRecords, EventKinds
<1> HIDE DEF e
<1>4. log' \in Seq(EventRecords) /\ KnownInv' /\ StatesInOrder'
  BY <1>1, <1>2, <1>3, Published
<1>5. owed' \subseteq EventRecords /\ OwedInv'
  <2>1. owed' \subseteq EventRecords
    BY <1>1, <1>3 DEF EventsInv, EventsType
  <2> SUFFICES ASSUME NEW o \in owed' PROVE o.kind \in {"writing", "aside"} /\ o.n <= stored'[o.job]
    BY <2>1 DEF OwedInv
  <2>2. CASE o \in owed
    BY <2>2, <1>2, OwedKept
  <2>3. CASE o = Event(j, "aside", stored'[j])
    BY <2>3, <1>2 DEF Event
  <2> QED BY <2>2, <2>3, <1>1
<1> QED BY <1>2, <1>4, <1>5 DEF EventsInv, EventsType

\* Progress of the newest state.
LEMMA ProgressStep ==
    ASSUME EventsInv, NEW j \in EventJobs, Progress(j)
    PROVE  EventsInv'
<1>1. /\ Publish(Event(j, "progress", stored[j])) /\ UNCHANGED <<stored, owed>>
      /\ stored \in [EventJobs -> Nat]
  BY DEF Progress, EventsInv, EventsType
<1>2. Event(j, "progress", stored[j]) \in EventRecords
  BY <1>1 DEF Event, EventRecords, EventKinds
<1>3. log' \in Seq(EventRecords) /\ KnownInv' /\ StatesInOrder'
  BY <1>1, <1>2, Published DEF Event
<1> QED BY <1>1, <1>3 DEF EventsInv, EventsType, OwedInv

\* The reservation owes its event.
LEMMA ReserveStep ==
    ASSUME EventsInv, NEW j \in EventJobs, Reserve(j)
    PROVE  EventsInv'
<1>1. /\ stored' = [stored EXCEPT ![j] = @ + 1] /\ owed' = owed \cup {Event(j, "writing", stored'[j])}
      /\ log' = log /\ stored \in [EventJobs -> Nat] /\ log \in Seq(EventRecords)
  BY DEF Reserve, EventsInv, EventsType
<1>2. stored' \in [EventJobs -> Nat] /\ \A k \in EventJobs : stored[k] <= stored'[k]
  BY <1>1
<1>3. Event(j, "writing", stored'[j]) \in EventRecords /\ Event(j, "writing", stored'[j]).kind = "writing"
  BY <1>2 DEF Event, EventRecords, EventKinds
<1>4. \A s \in Sequences : log[s] \in EventRecords
  BY <1>1 DEF Sequences
<1>5. KnownInv'
  <2> SUFFICES ASSUME NEW s \in Sequences PROVE log[s].n <= stored'[log[s].job]
    BY <1>1 DEF KnownInv, Sequences
  <2>1. log[s].job \in EventJobs /\ log[s].n \in Nat
    BY <1>4 DEF EventRecords
  <2>2. stored[log[s].job] \in Nat /\ stored'[log[s].job] \in Nat /\ stored[log[s].job] <= stored'[log[s].job]
    BY <1>1, <1>2, <2>1
  <2> QED BY <2>1, <2>2 DEF EventsInv, KnownInv
<1>6. OwedInv'
  <2> SUFFICES ASSUME NEW o \in owed' PROVE o.kind \in {"writing", "aside"} /\ o.n <= stored'[o.job]
    BY DEF OwedInv
  <2>1. CASE o \in owed
    BY <2>1, <1>2, OwedKept
  <2>2. CASE o = Event(j, "writing", stored'[j])
    BY <2>2, <1>2 DEF Event
  <2> QED BY <2>1, <2>2, <1>1
<1> QED BY <1>1, <1>2, <1>3, <1>5, <1>6 DEF EventsInv, EventsType, StatesInOrder, Sequences

\* A late event is of a kind that may be late.
LEMMA OwedStep ==
    ASSUME EventsInv, PublishOwed
    PROVE  EventsInv'
<1>1. PICK e \in owed : Publish(e) /\ owed' = owed \ {e}
  BY DEF PublishOwed
<1>2. /\ stored' = stored /\ stored \in [EventJobs -> Nat] /\ e \in EventRecords /\ e.job \in EventJobs
      /\ e.kind \in {"writing", "aside"} /\ e.n <= stored[e.job]
  BY <1>1 DEF PublishOwed, EventsInv, EventsType, OwedInv, EventRecords
<1>3. \A j \in EventJobs : stored[j] <= stored'[j]
  BY <1>2
<1>4. log' \in Seq(EventRecords) /\ KnownInv' /\ StatesInOrder'
  BY <1>1, <1>2, <1>3, Published
<1> QED BY <1>1, <1>2, <1>4 DEF EventsInv, EventsType, OwedInv

\* A subscription to a job without a retained event publishes its state again.
LEMMA EnsureStep ==
    ASSUME EventsInv, NEW r \in Readers, NEW j \in EventJobs, Ensure(r, j)
    PROVE  EventsInv'
<1>1. CASE UNCHANGED log
  BY <1>1 DEF Ensure, EventsInv, EventsType, KnownInv, OwedInv, StatesInOrder, Sequences
<1>2. CASE Publish(Event(j, "state", stored[j]))
  <2>1. UNCHANGED <<stored, owed>> /\ stored \in [EventJobs -> Nat]
    BY DEF Ensure, EventsInv, EventsType
  <2>2. Event(j, "state", stored[j]) \in EventRecords
    BY <2>1 DEF Event, EventRecords, EventKinds
  <2>3. log' \in Seq(EventRecords) /\ KnownInv' /\ StatesInOrder'
    BY <1>2, <2>1, <2>2, Published DEF Event
  <2> QED BY <2>1, <2>3 DEF EventsInv, EventsType, OwedInv
<1> QED BY <1>1, <1>2 DEF Ensure

\* Every step keeps the history in order.
LEMMA EventsStep == EventsInv /\ [NextEvents]_eventVars => EventsInv'
<1> SUFFICES ASSUME EventsInv, [NextEvents]_eventVars PROVE EventsInv'
  OBVIOUS
<1>1. ASSUME NEW j \in EventJobs, Transition(j) \/ Progress(j) \/ Reserve(j) PROVE EventsInv'
  BY <1>1, TransitionStep, ProgressStep, ReserveStep
<1>2. CASE PublishOwed
  BY <1>2, OwedStep
<1>3. ASSUME NEW r \in Readers, NEW j \in EventJobs, Ensure(r, j) PROVE EventsInv'
  BY <1>3, EnsureStep
<1>4. ASSUME NEW r \in Readers, Subscribe(r) \/ Replay(r) \/ Receive(r) \/ Disconnect(r) PROVE EventsInv'
  <2>1. UNCHANGED <<log, stored, owed>>
    BY <1>4 DEF Subscribe, Replay, Receive, Disconnect
  <2> QED BY <2>1 DEF EventsInv, EventsType, KnownInv, OwedInv, StatesInOrder, Sequences
<1>5. CASE RestartHub
  <2>1. log' = <<>> /\ owed' = {} /\ stored' = stored
    BY <1>5 DEF RestartHub
  <2>2. Sequences' = {} /\ log' \in Seq(EventRecords)
    BY <2>1 DEF Sequences
  <2> QED BY <2>1, <2>2 DEF EventsInv, EventsType, KnownInv, OwedInv, StatesInOrder
<1>6. CASE UNCHANGED eventVars
  BY <1>6 DEF eventVars, EventsInv, EventsType, KnownInv, OwedInv, StatesInOrder, Sequences
<1> QED BY <1>1, <1>2, <1>3, <1>4, <1>5, <1>6 DEF NextEvents

\* The states of a job are published in the order of its row, for any number
\* of jobs: only what is published outside the mutex comes late.
THEOREM EventsInOrder == SpecEvents => []StatesInOrder
<1>1. EventsInv => StatesInOrder
  BY DEF EventsInv
<1> QED BY <1>1, EventsBegin, EventsStep, PTL DEF SpecEvents

-----------------------------------------------------------------------------
(* Gapless: what a reader has, and what its stream still owes it. *)

Cursors == [epoch : Nat, seq : Nat] \cup {NoCursor}
ReaderRecords ==
    [pc : {"away", "ensured", "open"}, job : EventJobs \cup {NoReader}, cursor : Cursors,
     replay : SUBSET Nat, next : Nat, from : Nat, got : SUBSET Nat]

Has(me) ==
    me.got = {s \in Of(me.job, Sequences) : me.from < s /\ s <= me.cursor.seq}
Owes(me) ==
    me.replay = {s \in Of(me.job, Sequences) : me.cursor.seq < s /\ s < me.next}

\* A cursor of this process names an event that was published, and the reader
\* has everything up to it; an open stream replays everything between it and
\* the next event its receiver takes.
ReaderOK(me) ==
    /\ me.cursor # NoCursor => me.cursor.epoch <= epoch
    /\ me.cursor # NoCursor /\ me.cursor.epoch = epoch =>
          /\ me.from <= me.cursor.seq /\ me.cursor.seq <= Len(log)
          /\ Has(me)
    /\ me.pc = "open" =>
          /\ me.cursor # NoCursor /\ me.cursor.epoch = epoch
          /\ me.cursor.seq < me.next /\ me.next <= Len(log) + 1
          /\ Owes(me)

StreamInv ==
    /\ epoch \in Nat
    /\ reader \in [Readers -> ReaderRecords]
    /\ \A r \in Readers : ReaderOK(reader[r])

LEMMA StreamInitially == InitEvents => StreamInv
BY DEF InitEvents, StreamInv, ReaderRecords, ReaderOK, Away, Knowing, Cursors

\* Events up to a bound are what they were when another one is published.
LEMMA HistoryGrows ==
    ASSUME EventsType, NEW e, Publish(e) \/ log' = log
    PROVE  /\ Len(log) \in Nat /\ Len(log)' \in Nat /\ Len(log) <= Len(log)'
           /\ \A j : \A m, n \in Nat : n <= Len(log) =>
                {s \in Of(j, Sequences)' : m < s /\ s <= n} = {s \in Of(j, Sequences) : m < s /\ s <= n}
<1>1. log \in Seq(EventRecords) /\ Len(log) \in Nat
  BY DEF EventsType
<1>2. /\ Len(log') \in Nat /\ Len(log) <= Len(log')
      /\ \A s \in 1..Len(log) : log'[s] = log[s]
  BY <1>1 DEF Publish
<1>3. ASSUME NEW j, NEW m \in Nat, NEW n \in Nat, n <= Len(log)
      PROVE  {s \in Of(j, Sequences)' : m < s /\ s <= n} = {s \in Of(j, Sequences) : m < s /\ s <= n}
  BY <1>1, <1>2, <1>3 DEF Of, Sequences
<1> QED BY <1>1, <1>2, <1>3

\* A reader that is left alone has what it had.
LEMMA ReaderKept ==
    ASSUME EventsType, epoch' = epoch, NEW e, Publish(e) \/ log' = log,
           NEW me \in ReaderRecords, ReaderOK(me)
    PROVE  ReaderOK(me)'
<1>1. /\ Len(log) \in Nat /\ Len(log)' \in Nat /\ Len(log) <= Len(log)'
      /\ \A j : \A m, n \in Nat : n <= Len(log) =>
            {s \in Of(j, Sequences)' : m < s /\ s <= n} = {s \in Of(j, Sequences) : m < s /\ s <= n}
  BY HistoryGrows
<1>2. me.from \in Nat /\ me.next \in Nat /\ me.cursor \in Cursors
  BY DEF ReaderRecords
<1>3. ASSUME me.cursor # NoCursor, me.cursor.epoch = epoch
      PROVE  me.from <= me.cursor.seq /\ me.cursor.seq <= Len(log)' /\ Has(me)'
  <2>1. me.cursor.seq \in Nat /\ me.from <= me.cursor.seq /\ me.cursor.seq <= Len(log) /\ Has(me)
    BY <1>2, <1>3 DEF ReaderOK, Cursors
  <2>2. {s \in Of(me.job, Sequences)' : me.from < s /\ s <= me.cursor.seq}
        = {s \in Of(me.job, Sequences) : me.from < s /\ s <= me.cursor.seq}
    BY <1>1, <1>2, <2>1
  <2> QED BY <1>1, <2>1, <2>2 DEF Has
<1>4. ASSUME me.pc = "open"
      PROVE  me.next <= Len(log)' + 1 /\ Owes(me)'
  <2>1. /\ me.cursor.seq \in Nat /\ me.cursor.seq < me.next /\ me.next <= Len(log) + 1 /\ Owes(me)
    BY <1>2, <1>4 DEF ReaderOK, Cursors
  <2>2. me.next - 1 \in Nat /\ me.next - 1 <= Len(log)
    BY <1>1, <1>2, <2>1
  <2>3. {s \in Of(me.job, Sequences)' : me.cursor.seq < s /\ s <= me.next - 1}
        = {s \in Of(me.job, Sequences) : me.cursor.seq < s /\ s <= me.next - 1}
    BY <1>1, <2>1, <2>2
  <2>4. \A s \in Of(me.job, Sequences) \cup Of(me.job, Sequences)' : s < me.next <=> s <= me.next - 1
    BY <1>1, <1>2 DEF Of, Sequences
  <2>5. {s \in Of(me.job, Sequences)' : me.cursor.seq < s /\ s < me.next}
        = {s \in Of(me.job, Sequences) : me.cursor.seq < s /\ s < me.next}
    BY <2>3, <2>4
  <2> QED BY <1>1, <1>2, <2>1, <2>5 DEF Owes
<1> QED BY <1>3, <1>4 DEF ReaderOK

\* Only the history grows, or not even that, and at most one reader moves.
LEMMA OthersKept ==
    ASSUME EventsType, StreamInv, epoch' = epoch, NEW e, Publish(e) \/ log' = log,
           reader' \in [Readers -> ReaderRecords],
           NEW r \in Readers, \A x \in Readers : x # r => reader'[x] = reader[x],
           NEW new, reader'[r] = new, ReaderOK(new)'
    PROVE  StreamInv'
<1>1. ASSUME NEW x \in Readers PROVE ReaderOK(reader[x])'
  <2>1. CASE x = r
    BY <2>1
  <2>2. CASE x # r
    <3>1. PICK me \in ReaderRecords : me = reader[x] /\ ReaderOK(me)
      BY DEF StreamInv
    <3>2. ReaderOK(me)'
      BY <3>1, ReaderKept
    <3>3. reader'[x] = me
      BY <2>2, <3>1
    <3> QED BY <3>2, <3>3
  <2> QED BY <2>1, <2>2
<1> QED BY <1>1 DEF StreamInv

\* An event is published or owed and no reader moves.
LEMMA ReadersWait ==
    ASSUME EventsType, StreamInv, UNCHANGED <<epoch, reader>>, NEW e, Publish(e) \/ log' = log
    PROVE  StreamInv'
<1>1. ASSUME NEW x \in Readers PROVE ReaderOK(reader[x])'
  <2>1. PICK me \in ReaderRecords : me = reader[x] /\ ReaderOK(me)
    BY DEF StreamInv
  <2>2. ReaderOK(me)'
    BY <2>1, ReaderKept
  <2>3. reader'[x] = me
    BY <2>1
  <2> QED BY <2>2, <2>3
<1> QED BY <1>1 DEF StreamInv

\* A reader without a cursor may name another job, one with a cursor its own.
LEMMA EnsureStream ==
    ASSUME EventsType, StreamInv, NEW r \in Readers, NEW j \in EventJobs, Ensure(r, j)
    PROVE  StreamInv'
<1>1. PICK me \in ReaderRecords : me = reader[r] /\ ReaderOK(me)
  BY DEF StreamInv
<1>2. PICK e : Publish(e) \/ log' = log
  BY DEF Ensure
<1>3. PICK new \in ReaderRecords : new = [me EXCEPT !.pc = "ensured", !.job = j]
  BY DEF ReaderRecords
<1>4. /\ me.cursor # NoCursor => me.job = j
      /\ epoch' = epoch
      /\ reader' = [reader EXCEPT ![r] = new]
  BY <1>1, <1>3 DEF Ensure, StreamInv, ReaderRecords
<1>5. ReaderOK(me)'
  BY <1>1, <1>2, <1>4, ReaderKept
<1>6. /\ new.cursor = me.cursor /\ new.pc = "ensured" /\ new.got = me.got /\ new.from = me.from
      /\ me.cursor # NoCursor => new.job = me.job
  BY <1>3, <1>4 DEF ReaderRecords
<1>7. ReaderOK(new)'
  BY <1>5, <1>6 DEF ReaderOK, Has
<1>8. /\ reader' \in [Readers -> ReaderRecords] /\ reader'[r] = new
      /\ \A x \in Readers : x # r => reader'[x] = reader[x]
  BY <1>3, <1>4 DEF StreamInv
<1> QED BY <1>2, <1>4, <1>7, <1>8, OthersKept

\* A refused reader starts from nothing.
LEMMA AwayOK == Away \in ReaderRecords /\ ReaderOK(Away) /\ ReaderOK(Away)'
BY DEF Away, Knowing, ReaderRecords, ReaderOK, Cursors

\* An opened stream continues at its cursor, or begins at the oldest retained
\* event: either way nothing between its cursor and its receiver is missing.
LEMMA OpenedOK ==
    ASSUME EventsType, StreamInv, NEW r \in Readers, NEW c \in {reader[r].cursor},
           ~ Expired(c), ~ Invalid(c), Opened(r, c)
    PROVE  reader' \in [Readers -> ReaderRecords] /\ ReaderOK(reader'[r])
<1> DEFINE me == reader[r]
           start == IF c = NoCursor THEN Oldest - 1 ELSE c.seq
           continues == c # NoCursor
           new == [pc |-> "open", job |-> me.job,
                   cursor |-> [epoch |-> epoch, seq |-> start],
                   replay |-> {s \in Of(me.job, Retained) : s > start},
                   next |-> Len(log) + 1,
                   from |-> IF continues THEN me.from ELSE start,
                   got |-> IF continues THEN me.got ELSE {}]
<1>1. reader' = [reader EXCEPT ![r] = new]
  BY DEF Opened
<1>2. me \in ReaderRecords /\ ReaderOK(me) /\ epoch \in Nat /\ Len(log) \in Nat /\ c \in Cursors
  BY DEF StreamInv, EventsType, ReaderRecords
<1>3. Oldest \in Nat /\ 1 <= Oldest /\ Oldest - 1 <= Len(log)
  BY <1>2, EventsAssumption DEF Oldest, Larger
<1>4. CASE c = NoCursor
  <2>1. start = Oldest - 1 /\ start \in Nat /\ new.cursor = [epoch |-> epoch, seq |-> start] /\ new.from = start /\ new.got = {}
    BY <1>3, <1>4
  <2>2. new.replay = {s \in Of(me.job, Sequences) : start < s /\ s < Len(log) + 1}
    BY <1>2, <1>3, <2>1 DEF Of, Retained, Sequences
  <2>3. new \in ReaderRecords
    BY <1>2, <1>3, <2>1 DEF ReaderRecords, Cursors, Of, Retained
  <2>4. Has(new)
    BY <1>2, <2>1 DEF Has, Of, Sequences
  <2>5. ReaderOK(new)
    <3>1. new.cursor # NoCursor /\ new.cursor.epoch = epoch /\ new.cursor.seq = start /\ new.next = Len(log) + 1 /\ new.job = me.job
      BY <1>2, <2>1, EventsAssumption
    <3>2. Owes(new)
      BY <2>2, <3>1 DEF Owes
    <3> HIDE DEF new, start
    <3> QED BY <1>2, <1>3, <2>1, <2>4, <3>1, <3>2 DEF ReaderOK
  <2> QED BY <1>1, <2>3, <2>5 DEF StreamInv
<1>5. CASE c # NoCursor
  <2>1. /\ c.epoch = epoch /\ c.seq \in Nat /\ c.seq <= Len(log) /\ start = c.seq /\ c = me.cursor
        /\ (Len(log) = 0 \/ Oldest <= c.seq + 1)
    BY <1>2, <1>3, <1>5 DEF Expired, Invalid, ReaderOK, Cursors, EventsType
  <2>2. Has(me) /\ me.from <= c.seq
    BY <1>2, <1>5, <2>1 DEF ReaderOK
  <2>3. new.cursor = c /\ new.from = me.from /\ new.got = me.got /\ new.job = me.job /\ new.next = Len(log) + 1 /\ new.pc = "open"
    BY <1>2, <1>5, <2>1 DEF Cursors
  <2>4. new.replay = {s \in Of(me.job, Sequences) : c.seq < s /\ s < Len(log) + 1}
    BY <1>2, <1>3, <2>1 DEF Of, Retained, Sequences
  <2>5. new \in ReaderRecords
    BY <1>2, <1>3, <1>5, <2>1 DEF ReaderRecords, Cursors, Of, Retained
  <2>6. ReaderOK(new)
    <3>1. Owes(new) /\ Has(new)
      BY <2>2, <2>3, <2>4 DEF Owes, Has
    <3> HIDE DEF new, start
    <3> QED BY <1>2, <1>5, <2>1, <2>2, <2>3, <3>1 DEF ReaderOK
  <2> QED BY <1>1, <2>5, <2>6 DEF StreamInv
<1> QED BY <1>4, <1>5

LEMMA SubscribeStream ==
    ASSUME EventsType, StreamInv, NEW r \in Readers, Subscribe(r)
    PROVE  StreamInv'
<1>1. UNCHANGED <<epoch, log>>
  BY DEF Subscribe
<1>2. PICK c \in {reader[r].cursor, [epoch |-> epoch, seq |-> Len(log) + 1]} :
          IF Expired(c) \/ Invalid(c) THEN Refused(r) ELSE Opened(r, c)
  BY DEF Subscribe
<1>3. CASE Refused(r)
  <2>1. PICK new : new = Away
    OBVIOUS
  <2>2. /\ reader' \in [Readers -> ReaderRecords] /\ reader'[r] = new /\ ReaderOK(new)'
        /\ \A x \in Readers : x # r => reader'[x] = reader[x]
    BY <1>3, <2>1, AwayOK DEF Refused, StreamInv, Away, Knowing
  <2> QED BY <1>1, <2>2, OthersKept
<1>4. CASE ~ Expired(c) /\ ~ Invalid(c) /\ Opened(r, c)
  <2>1. c = reader[r].cursor
    <3>1. SUFFICES ASSUME c = [epoch |-> epoch, seq |-> Len(log) + 1] PROVE FALSE
      BY <1>2
    <3>2. epoch \in Nat /\ Len(log) \in Nat
      BY DEF StreamInv, EventsType
    <3>3. c # NoCursor /\ c.epoch = epoch /\ c.seq > Len(log)
      BY <3>1, <3>2, EventsAssumption
    <3> QED BY <1>4, <3>3 DEF Invalid
  <2>2. reader' \in [Readers -> ReaderRecords] /\ ReaderOK(reader'[r])
    BY <1>4, <2>1, OpenedOK
  <2>3. PICK new : new = reader'[r]
    OBVIOUS
  <2>4. ReaderOK(new)'
    BY <1>1, <2>2, <2>3 DEF ReaderOK, Has, Owes, Of, Sequences
  <2>5. \A x \in Readers : x # r => reader'[x] = reader[x]
    BY <1>4 DEF Opened, StreamInv
  <2> QED BY <1>1, <2>2, <2>3, <2>4, <2>5, OthersKept
<1> QED BY <1>2, <1>3, <1>4

\* The next of the replayed events is the first that the reader lacks.
LEMMA ReplayStream ==
    ASSUME EventsType, StreamInv, NEW r \in Readers, Replay(r)
    PROVE  StreamInv'
<1>1. PICK me \in ReaderRecords : me = reader[r] /\ ReaderOK(me)
  BY DEF StreamInv
<1>2. PICK s \in me.replay :
        /\ \A t \in me.replay : s <= t
        /\ reader' = [reader EXCEPT ![r] = [Delivered(me, s) EXCEPT !.replay = me.replay \ {s}]]
  BY <1>1 DEF Replay
<1>3. /\ UNCHANGED <<epoch, log>> /\ me.pc = "open" /\ epoch \in Nat /\ Len(log) \in Nat /\ s \in Nat
      /\ me.from \in Nat /\ me.next \in Nat
  BY <1>1, <1>2 DEF Replay, StreamInv, EventsType, ReaderRecords
<1>4. /\ me.cursor.seq \in Nat /\ me.cursor.epoch = epoch /\ Has(me) /\ Owes(me)
      /\ me.from <= me.cursor.seq /\ me.next <= Len(log) + 1
  BY <1>1, <1>3 DEF ReaderOK, ReaderRecords, Cursors
<1>5. s \in Of(me.job, Sequences) /\ me.cursor.seq < s /\ s < me.next
  BY <1>2, <1>4 DEF Owes
<1>6. PICK new : new = [Delivered(me, s) EXCEPT !.replay = me.replay \ {s}]
  OBVIOUS
<1>7. /\ new \in ReaderRecords /\ new.job = me.job /\ new.from = me.from /\ new.next = me.next /\ new.pc = me.pc
      /\ new.cursor = [epoch |-> epoch, seq |-> s]
      /\ new.got = me.got \cup {s} /\ new.replay = me.replay \ {s}
  BY <1>3, <1>6 DEF Delivered, ReaderRecords, Cursors
<1>8. new.cursor # NoCursor /\ new.cursor.epoch = epoch /\ new.cursor.seq = s
  BY <1>3, <1>7, EventsAssumption
<1>9. Has(new)
  <2> SUFFICES ASSUME NEW x \in Of(me.job, Sequences)
               PROVE  (me.from < x /\ x <= s) <=> (x \in me.got \/ x = s)
    BY <1>4, <1>5, <1>7, <1>8 DEF Has
  <2>1. x \in Nat
    BY <1>3 DEF Of, Sequences
  <2>2. x \in me.got <=> me.from < x /\ x <= me.cursor.seq
    BY <1>4 DEF Has
  <2>3. x \in me.replay <=> me.cursor.seq < x /\ x < me.next
    BY <1>4 DEF Owes
  <2> QED BY <1>2, <1>3, <1>4, <1>5, <2>1, <2>2, <2>3
<1>10. Owes(new)
  <2> SUFFICES ASSUME NEW x \in Of(me.job, Sequences)
               PROVE  (s < x /\ x < me.next) <=> (x \in me.replay /\ x # s)
    BY <1>4, <1>7, <1>8 DEF Owes
  <2>1. x \in Nat
    BY <1>3 DEF Of, Sequences
  <2>2. x \in me.replay <=> me.cursor.seq < x /\ x < me.next
    BY <1>4 DEF Owes
  <2> QED BY <1>2, <1>3, <1>4, <1>5, <2>1, <2>2
<1>11. ReaderOK(new)'
  BY <1>3, <1>4, <1>5, <1>7, <1>8, <1>9, <1>10 DEF ReaderOK, Has, Owes, Of, Sequences
<1>12. /\ reader' \in [Readers -> ReaderRecords] /\ reader'[r] = new
       /\ \A x \in Readers : x # r => reader'[x] = reader[x]
  BY <1>2, <1>6, <1>7 DEF StreamInv
<1> QED BY <1>3, <1>11, <1>12, OthersKept

\* The receiver takes the next event of any job, or is cut off.
LEMMA ReceiveStream ==
    ASSUME EventsType, StreamInv, NEW r \in Readers, Receive(r)
    PROVE  StreamInv'
<1>1. PICK me \in ReaderRecords : me = reader[r] /\ ReaderOK(me)
  BY DEF StreamInv
<1>2. /\ UNCHANGED <<epoch, log>> /\ me.pc = "open" /\ me.replay = {} /\ me.next <= Len(log)
      /\ epoch \in Nat /\ Len(log) \in Nat /\ me.from \in Nat /\ me.next \in Nat
  BY <1>1 DEF Receive, StreamInv, EventsType, ReaderRecords
<1>3. /\ me.cursor.seq \in Nat /\ me.cursor.epoch = epoch /\ Has(me) /\ Owes(me)
      /\ me.from <= me.cursor.seq /\ me.cursor.seq < me.next
  BY <1>1, <1>2 DEF ReaderOK, ReaderRecords, Cursors
<1>4. PICK new :
        /\ reader' = [reader EXCEPT ![r] = new]
        /\ new = IF Lagged(me) THEN [me EXCEPT !.pc = "away"]
                 ELSE IF log[me.next].job = me.job THEN Delivered([me EXCEPT !.next = me.next + 1], me.next)
                 ELSE [me EXCEPT !.next = me.next + 1]
  BY <1>1 DEF Receive
<1>5. \A x \in Of(me.job, Sequences) : /\ x \in Nat
                                       /\ x < me.next => x <= me.cursor.seq
                                       /\ x \in me.got <=> me.from < x /\ x <= me.cursor.seq
  <2>1. \A x \in Of(me.job, Sequences) : x \in Nat
    BY <1>2 DEF Of, Sequences
  <2> QED BY <1>2, <1>3, <2>1 DEF Has, Owes
<1>6. new \in ReaderRecords /\ ReaderOK(new)
  <2>1. CASE Lagged(me)
    <3>1. new = [me EXCEPT !.pc = "away"]
      BY <1>4, <2>1
    <3>2. new \in ReaderRecords /\ new.pc = "away" /\ new.cursor = me.cursor /\ new.job = me.job /\ new.from = me.from /\ new.got = me.got
      BY <3>1 DEF ReaderRecords
    <3> QED BY <1>1, <3>2 DEF ReaderOK, Has
  <2>2. CASE ~ Lagged(me) /\ log[me.next].job # me.job
    <3>1. new = [me EXCEPT !.next = me.next + 1]
      BY <1>4, <2>2
    <3>2. /\ new \in ReaderRecords /\ new.next = me.next + 1 /\ new.replay = {} /\ new.cursor = me.cursor
          /\ new.job = me.job /\ new.from = me.from /\ new.got = me.got
      BY <1>2, <3>1 DEF ReaderRecords
    <3>3. me.next \notin Of(me.job, Sequences)
      BY <2>2 DEF Of
    <3>4. \A x \in Of(me.job, Sequences) : ~ (me.cursor.seq < x /\ x < me.next + 1)
      BY <1>2, <1>3, <1>5, <3>3
    <3>5. Owes(new) /\ Has(new)
      BY <1>3, <3>2, <3>4 DEF Owes, Has
    <3> QED BY <1>1, <1>2, <1>3, <3>2, <3>5 DEF ReaderOK
  <2>3. CASE ~ Lagged(me) /\ log[me.next].job = me.job
    <3>1. new = Delivered([me EXCEPT !.next = me.next + 1], me.next)
      BY <1>4, <2>3
    <3>2. /\ new \in ReaderRecords /\ new.next = me.next + 1 /\ new.replay = {} /\ new.job = me.job /\ new.from = me.from
          /\ new.cursor = [epoch |-> epoch, seq |-> me.next] /\ new.got = me.got \cup {me.next}
      <4>1. PICK mid : mid = [me EXCEPT !.next = me.next + 1]
        OBVIOUS
      <4>2. /\ mid \in ReaderRecords /\ mid.next = me.next + 1 /\ mid.replay = {} /\ mid.job = me.job
            /\ mid.from = me.from /\ mid.got = me.got
        BY <1>2, <4>1 DEF ReaderRecords
      <4>3. new = [mid EXCEPT !.got = mid.got \cup {me.next}, !.cursor = [epoch |-> epoch, seq |-> me.next]]
        BY <3>1, <4>1 DEF Delivered
      <4> QED BY <1>2, <4>2, <4>3 DEF ReaderRecords, Cursors
    <3>3. new.cursor # NoCursor /\ new.cursor.seq = me.next /\ new.cursor.epoch = epoch
      BY <1>2, <3>2, EventsAssumption
    <3>4. me.next \in Of(me.job, Sequences)
      BY <1>2, <1>3, <2>3 DEF Of, Sequences
    <3>5. \A x \in Of(me.job, Sequences) : (me.from < x /\ x <= me.next) <=> (x \in me.got \/ x = me.next)
      BY <1>2, <1>3, <1>5
    <3>6. me.got \subseteq Of(me.job, Sequences)
      BY <1>3 DEF Has
    <3>7. Has(new)
      BY <3>2, <3>3, <3>4, <3>5, <3>6 DEF Has
    <3>8. Owes(new)
      BY <1>2, <1>5, <3>2, <3>3 DEF Owes
    <3> QED BY <1>2, <1>3, <3>2, <3>3, <3>7, <3>8 DEF ReaderOK
  <2> QED BY <2>1, <2>2, <2>3
<1>7. ReaderOK(new)'
  BY <1>2, <1>6 DEF ReaderOK, Has, Owes, Of, Sequences
<1>8. /\ reader' \in [Readers -> ReaderRecords] /\ reader'[r] = new
      /\ \A x \in Readers : x # r => reader'[x] = reader[x]
  BY <1>4, <1>6 DEF StreamInv
<1> QED BY <1>2, <1>7, <1>8, OthersKept

\* The connection breaks, with the cursor kept or lost.
LEMMA DisconnectStream ==
    ASSUME EventsType, StreamInv, NEW r \in Readers, Disconnect(r)
    PROVE  StreamInv'
<1>1. PICK me \in ReaderRecords : me = reader[r] /\ ReaderOK(me)
  BY DEF StreamInv
<1>2. PICK new : new \in {Away, [me EXCEPT !.pc = "away"]} /\ reader' = [reader EXCEPT ![r] = new]
  BY <1>1 DEF Disconnect
<1>3. UNCHANGED <<epoch, log>>
  BY DEF Disconnect
<1>4. new \in ReaderRecords /\ ReaderOK(new)
  <2>1. CASE new = Away
    BY <2>1, AwayOK
  <2>2. CASE new = [me EXCEPT !.pc = "away"]
    <3>1. new \in ReaderRecords /\ new.pc = "away" /\ new.cursor = me.cursor /\ new.job = me.job /\ new.from = me.from /\ new.got = me.got
      BY <2>2 DEF ReaderRecords
    <3> QED BY <1>1, <3>1 DEF ReaderOK, Has
  <2> QED BY <1>2, <2>1, <2>2
<1>5. ReaderOK(new)'
  BY <1>3, <1>4 DEF ReaderOK, Has, Owes, Of, Sequences
<1>6. /\ reader' \in [Readers -> ReaderRecords] /\ reader'[r] = new
      /\ \A x \in Readers : x # r => reader'[x] = reader[x]
  BY <1>2, <1>4 DEF StreamInv
<1> QED BY <1>3, <1>5, <1>6, OthersKept

\* The cursors of an earlier process are of an earlier epoch.
LEMMA RestartStream ==
    ASSUME EventsType, StreamInv, RestartHub
    PROVE  StreamInv'
<1>1. epoch' = epoch + 1 /\ epoch \in Nat
  BY DEF RestartHub, StreamInv
<1>2. ASSUME NEW r \in Readers
      PROVE  reader'[r] \in ReaderRecords /\ ReaderOK(reader[r])'
  <2>1. PICK me \in ReaderRecords : me = reader[r] /\ ReaderOK(me)
    BY DEF StreamInv
  <2>2. PICK new : new = Knowing(me.job, me.cursor) /\ reader'[r] = new
    BY <2>1 DEF RestartHub
  <2>3. new \in ReaderRecords /\ new.pc = "away" /\ new.cursor = me.cursor
    <3>1. me.job \in EventJobs \cup {NoReader} /\ me.cursor \in Cursors
      BY <2>1 DEF ReaderRecords
    <3> QED BY <2>2, <3>1 DEF Knowing, ReaderRecords
  <2>4. me.cursor # NoCursor => me.cursor.epoch \in Nat /\ me.cursor.epoch <= epoch
    BY <2>1 DEF ReaderOK, ReaderRecords, Cursors
  <2>5. ReaderOK(new)'
    BY <1>1, <2>3, <2>4 DEF ReaderOK
  <2> QED BY <2>2, <2>3, <2>5
<1>3. reader' \in [Readers -> ReaderRecords]
  BY <1>2 DEF RestartHub
<1> QED BY <1>1, <1>2, <1>3 DEF StreamInv

LEMMA StreamStep == EventsInv /\ StreamInv /\ [NextEvents]_eventVars => StreamInv'
<1> SUFFICES ASSUME EventsType, StreamInv, [NextEvents]_eventVars PROVE StreamInv'
  BY DEF EventsInv
<1>1. ASSUME NEW j \in EventJobs, Transition(j) \/ Progress(j) \/ Reserve(j) PROVE StreamInv'
  <2>1. UNCHANGED <<epoch, reader>> /\ \E e : Publish(e) \/ log' = log
    BY <1>1 DEF Transition, Progress, Reserve
  <2> QED BY <2>1, ReadersWait
<1>2. CASE PublishOwed
  <2>1. UNCHANGED <<epoch, reader>> /\ \E e : Publish(e) \/ log' = log
    BY <1>2 DEF PublishOwed
  <2> QED BY <2>1, ReadersWait
<1>3. ASSUME NEW r \in Readers, NEW j \in EventJobs, Ensure(r, j) PROVE StreamInv'
  BY <1>3, EnsureStream
<1>4. ASSUME NEW r \in Readers, Subscribe(r) \/ Replay(r) \/ Receive(r) \/ Disconnect(r) PROVE StreamInv'
  BY <1>4, SubscribeStream, ReplayStream, ReceiveStream, DisconnectStream
<1>5. CASE RestartHub
  BY <1>5, RestartStream
<1>6. CASE UNCHANGED eventVars
  <2>1. UNCHANGED <<epoch, reader>> /\ log' = log
    BY <1>6 DEF eventVars
  <2> QED BY <2>1, ReadersWait
<1> QED BY <1>1, <1>2, <1>3, <1>4, <1>5, <1>6 DEF NextEvents

\* A client has every event of its job between where it began and where it is,
\* for any capacities, interleavings, reconnections and restarts.
THEOREM StreamsAreGapless == SpecEvents => []Gapless
<1>1. StreamInv => Gapless
  <2> SUFFICES ASSUME StreamInv, NEW r \in Readers, reader[r].cursor # NoCursor, reader[r].cursor.epoch = epoch
               PROVE  Has(reader[r])
    BY DEF Gapless, Has
  <2> QED BY DEF StreamInv, ReaderOK
<1> QED BY <1>1, EventsBegin, StreamInitially, EventsStep, StreamStep, PTL DEF SpecEvents
==============================================================================
