------------------------------- MODULE Accounts -------------------------------
(***************************************************************************)
(* What stands in front of the portfolio API: the token buckets per client *)
(* address, accounts and their sessions, and the check that a portfolio is *)
(* the caller's.  A request runs through several statements of its own, so *)
(* concurrent requests interleave between them.                            *)
(*                                                                         *)
(* An instant is the time in which a bucket gains one token.  A password   *)
(* hash is the text that was hashed: comparing texts is comparing hashes.  *)
(***************************************************************************)
EXTENDS Integers, FiniteSets, FiniteSetsExt, Functions

CONSTANTS
  UserIds, SessionIds, PortfolioIds,   \* What uuid.New may return.
  Reserved,      \* The price partitions among PortfolioIds.
  Address,       \* Spelling of a work_email -> its normal form.
  Trimmed,       \* Password text -> the text without surrounding space.
  Clients,       \* Client addresses.
  Slots,         \* Requests in progress at once.
  Kinds,         \* The requests clients make, from the set below.
  Burst,         \* Tokens of a full bucket.
  Ttl,           \* AUTH_SESSION_TTL.
  RevokeFails,   \* Whether RevokeSession may fail.
  Users0, Sessions0, Owner0,   \* The tables at the start.
  MaxRequests, MaxNow

None == "none"
Protected == {"logout", "create", "list", "trade", "view"}
AllKinds  == {"register", "login"} \cup Protected

UserRows    == [mail : Range(Address), hash : Range(Trimmed)]
SessionRows == [user : UserIds, expires : Nat, revoked : BOOLEAN]

ASSUME AccountsAssumption ==
  /\ None \notin UserIds \cup SessionIds \cup PortfolioIds
  /\ Reserved \subseteq PortfolioIds
  /\ \A text \in DOMAIN Trimmed :
       Trimmed[text] \in DOMAIN Trimmed /\ Trimmed[Trimmed[text]] = Trimmed[text]
  /\ Kinds \subseteq AllKinds
  /\ Burst \in Nat \ {0}
  /\ {Ttl, MaxRequests, MaxNow} \subseteq Nat
  /\ RevokeFails \in BOOLEAN
  /\ DOMAIN Users0 \subseteq UserIds /\ Users0 \in [DOMAIN Users0 -> UserRows]
  /\ \A i, j \in DOMAIN Users0 : Users0[i].mail = Users0[j].mail => i = j
  /\ DOMAIN Sessions0 \subseteq SessionIds
  /\ Sessions0 \in [DOMAIN Sessions0 -> SessionRows]
  /\ \A s \in DOMAIN Sessions0 : Sessions0[s].user \in DOMAIN Users0
  /\ Owner0 \in [DOMAIN Owner0 -> DOMAIN Users0]
  /\ DOMAIN Owner0 \subseteq PortfolioIds \ Reserved

VARIABLES
  users,      \* users: a function on the ids in use.
  sessions,   \* user_sessions, likewise.
  owner,      \* portfolios: the owner_user_id of the ids in use.
  bucket,     \* PerIPRateLimiter.byIP of each route class.
  req,        \* The requests in progress.
  now, arrived,
  \* History variables.
  served,     \* What requests were let through to: a portfolio and its reader.
  passed,     \* How many requests of a client were admitted at each instant.
  registered, \* Address and password of the registrations answered 201.
  out         \* Sessions whose logout was answered 200.

tables  == <<users, sessions, owner>>
history == <<served, passed, registered, out>>
vars    == <<users, sessions, owner, bucket, req, now, arrived, served, passed,
             registered, out>>

RouteClasses == {"ingest", "get"}

\* NewRouter: posting and signing in share one limiter, reading has its own.
ClassOf(kind) == IF kind \in {"create", "list", "view"} THEN "get" ELSE "ingest"

Free == [at |-> "free", kind |-> None, mail |-> None, text |-> None, sess |-> None,
         user |-> None, port |-> None, late |-> FALSE]

\* One row more, under an id not in use.
With(table, id, r) == [k \in DOMAIN table \cup {id} |-> IF k = id THEN r ELSE table[k]]

-----------------------------------------------------------------------------
(* The rate limiter: golang.org/x/time/rate behind a map by address.       *)

\* What an idle bucket has regained, up to its burst.
Tokens(b) == Min({Burst, b.tokens + now - b.seen})

\* Mutant: a bucket with nothing in it admits once more.
AdmitsEmpty(class, ip) == Tokens(bucket[class][ip]) >= 0

\* Allow. An address that is not in the map yet gets a full bucket, which is
\* what an idle one is too; a request that is refused draws nothing.
Admits(class, ip) == Tokens(bucket[class][ip]) > 0

Full == [tokens |-> Burst, seen |-> 0]

Draw(class, ip) ==
  bucket' = [bucket EXCEPT ![class][ip] = [tokens |-> Tokens(@) - 1, seen |-> now]]

-----------------------------------------------------------------------------
(* Requests come and go.                                                   *)

Answered(s) == req' = [req EXCEPT ![s] = Free]

\* The limiter comes first (429 changes nothing); then requireAuth or a handler.
Arrive(s, ip, r) ==
  /\ req[s].at = "free" /\ arrived < MaxRequests
  /\ arrived' = arrived + 1
  /\ Admits(ClassOf(r.kind), ip)
  /\ Draw(ClassOf(r.kind), ip)
  /\ passed' = [passed EXCEPT ![ClassOf(r.kind)][ip][now] = @ + 1]
  /\ req' = [req EXCEPT ![s] = r]
  /\ UNCHANGED <<tables, now, served, registered, out>>

\* A request to /auth/register or /auth/login.
Credentials(kind, mail, text) ==
  [Free EXCEPT !.at = "lookup", !.kind = kind, !.mail = mail, !.text = text]

\* A request with a session cookie, to a portfolio where the route has one.
WithCookie(kind, sess, port) ==
  [Free EXCEPT !.at = "auth", !.kind = kind, !.sess = sess, !.port = port,
               !.late = sess \in out]

\* Any row was handed out as a cookie when it was created.
Cookies == DOMAIN sessions

\* validatePortfolioPathID, and the same test in postTrade.
PortsOf(kind) == IF kind \in {"trade", "view"} THEN PortfolioIds ELSE {None}

SomeoneAsks ==
  \E s \in Slots, ip \in Clients, kind \in Kinds :
    IF kind \in Protected
    THEN \E sess \in Cookies, port \in PortsOf(kind) :
           Arrive(s, ip, WithCookie(kind, sess, port))
    ELSE \E mail \in DOMAIN Address, text \in DOMAIN Trimmed :
           Arrive(s, ip, Credentials(kind, mail, text))

ClockTicks ==
  /\ now < MaxNow
  /\ now' = now + 1
  /\ UNCHANGED <<tables, bucket, req, arrived, history>>

-----------------------------------------------------------------------------
(* Register and log in.                                                    *)

HasMail(mail) == {u \in DOMAIN users : users[u].mail = mail}

Looks(s, kind) == req[s].at = "lookup" /\ req[s].kind = kind

\* Mutant: the address is kept as it was typed.
RowAsTyped(r) == [mail |-> r.mail, hash |-> Trimmed[r.text]]

\* normalizeEmail, and the password without surrounding space.
Row(r) == [mail |-> Address[r.mail], hash |-> Trimmed[r.text]]

\* GetUserByEmail: 409, or on to bcrypt and the insert.
RegisterLooksUp(s) ==
  /\ Looks(s, "register")
  /\ req' = IF HasMail(Address[req[s].mail]) # {}
            THEN [req EXCEPT ![s] = Free] ELSE [req EXCEPT ![s].at = "insert"]
  /\ UNCHANGED <<tables, bucket, now, arrived, history>>

\* Mutant: the insert relies on the lookup before it.
InsertUnchecked(r) ==
  \E u \in UserIds \ DOMAIN users : users' = With(users, u, Row(r))

\* CreateUser: uq_users_work_email_ci refuses a second row for an address.
InsertUser(r) ==
  /\ HasMail(Row(r).mail) = {}
  /\ \E u \in UserIds \ DOMAIN users : users' = With(users, u, Row(r))

RegisterInserts(s) ==
  /\ req[s].at = "insert"
  /\ InsertUser(req[s])
  /\ registered' = registered \cup {[mail |-> req[s].mail, text |-> req[s].text]}
  /\ Answered(s)
  /\ UNCHANGED <<sessions, owner, bucket, now, arrived, served, passed, out>>

\* 500: the address was taken meanwhile.
RegisterCollides(s) ==
  /\ req[s].at = "insert"
  /\ HasMail(Address[req[s].mail]) # {}
  /\ Answered(s)
  /\ UNCHANGED <<tables, bucket, now, arrived, history>>

\* The accounts whose credentials these are: the password is not trimmed here.
Accepts(mail, text) == {u \in HasMail(Address[mail]) : users[u].hash = text}

\* GetUserByEmail and the comparison with the hash; 401 otherwise.
LoginLooksUp(s) ==
  /\ Looks(s, "login")
  /\ LET found == Accepts(req[s].mail, req[s].text)
     IN  IF found = {} THEN Answered(s)
         ELSE \E u \in found :
                req' = [req EXCEPT ![s].at = "session", ![s].user = u]
  /\ UNCHANGED <<tables, bucket, now, arrived, history>>

\* CreateSession and the cookie.
LoginCreatesSession(s) ==
  /\ req[s].at = "session"
  /\ \E id \in SessionIds \ DOMAIN sessions :
       sessions' = With(sessions, id, [user |-> req[s].user, expires |-> now + Ttl,
                                       revoked |-> FALSE])
  /\ Answered(s)
  /\ UNCHANGED <<users, owner, bucket, now, arrived, history>>

-----------------------------------------------------------------------------
(* Behind requireAuth.                                                     *)

\* Mutant: a revoked session is still good.
ValidUnlessExpired(id) == now <= sessions[id].expires

\* The session as GetSessionByID returns it.
Valid(id) == ~sessions[id].revoked /\ now <= sessions[id].expires

\* requireAuth. Users are never deleted, so GetUserByID finds the user.
Authenticate(s) ==
  /\ req[s].at = "auth"
  /\ req' = IF Valid(req[s].sess)
            THEN [req EXCEPT ![s].at = "handler", ![s].user = sessions[req[s].sess].user]
            ELSE [req EXCEPT ![s] = Free]
  /\ UNCHANGED <<tables, bucket, now, arrived, history>>

Handles(s, kind) == req[s].at = "handler" /\ req[s].kind = kind

\* logoutHandler: RevokeSession, whose error is ignored.
Logout(s) ==
  /\ Handles(s, "logout")
  /\ \/ sessions' = [sessions EXCEPT ![req[s].sess].revoked = TRUE]
     \/ RevokeFails /\ UNCHANGED sessions
  /\ out' = out \cup {req[s].sess}
  /\ Answered(s)
  /\ UNCHANGED <<users, owner, bucket, now, arrived, served, passed, registered>>

\* createPortfolioHandler: a fresh id that is no price partition.
CreatePortfolio(s) ==
  /\ Handles(s, "create")
  /\ \E p \in PortfolioIds \ (DOMAIN owner \cup Reserved) :
       owner' = With(owner, p, req[s].user)
  /\ Answered(s)
  /\ UNCHANGED <<users, sessions, bucket, now, arrived, history>>

Serve(s, ports) ==
  served' = served \cup {[port |-> p, user |-> req[s].user] : p \in ports}

\* listPortfoliosHandler, by owner.
ListPortfolios(s) ==
  /\ Handles(s, "list")
  /\ Serve(s, {p \in DOMAIN owner : owner[p] = req[s].user} \ Reserved)
  /\ Answered(s)
  /\ UNCHANGED <<tables, bucket, now, arrived, passed, registered, out>>

\* Mutant: a portfolio of the catalog is enough.
OwnsSomething(p, u) == p \in DOMAIN owner

\* PortfolioOwnedByUser.
Owns(p, u) == p \in DOMAIN owner /\ owner[p] = u

\* postTradeHandler and loadPortfolioBaseState up to the point where they go on
\* to Ingest and to the read path: 400 for a price partition, 403 for a portfolio
\* of somebody else.
CheckOwnership(s) ==
  /\ Handles(s, "trade") \/ Handles(s, "view")
  /\ req' = IF req[s].port \notin Reserved /\ Owns(req[s].port, req[s].user)
            THEN [req EXCEPT ![s].at = "owned"] ELSE [req EXCEPT ![s] = Free]
  /\ UNCHANGED <<tables, bucket, now, arrived, history>>

\* Ingest, or the read path (module ReadPath).
ServePortfolio(s) ==
  /\ req[s].at = "owned"
  /\ Serve(s, {req[s].port})
  /\ Answered(s)
  /\ UNCHANGED <<tables, bucket, now, arrived, passed, registered, out>>

\* A statement fails: 500.
StatementFails(s) ==
  /\ req[s].at # "free" /\ ~Handles(s, "logout")
  /\ Answered(s)
  /\ UNCHANGED <<tables, bucket, now, arrived, history>>

-----------------------------------------------------------------------------
Init ==
  /\ users = Users0 /\ sessions = Sessions0 /\ owner = Owner0
  /\ bucket = [c \in RouteClasses |-> [ip \in Clients |-> Full]]
  /\ req = [s \in Slots |-> Free]
  /\ now = 0 /\ arrived = 0
  /\ served = {} /\ registered = {} /\ out = {}
  /\ passed = [c \in RouteClasses |-> [ip \in Clients |-> [t \in 0..MaxNow |-> 0]]]

Handle(s) ==
  \/ RegisterLooksUp(s) \/ RegisterInserts(s) \/ RegisterCollides(s)
  \/ LoginLooksUp(s) \/ LoginCreatesSession(s)
  \/ Authenticate(s) \/ Logout(s) \/ CreatePortfolio(s) \/ ListPortfolios(s)
  \/ CheckOwnership(s) \/ ServePortfolio(s) \/ StatementFails(s)

Next == SomeoneAsks \/ ClockTicks \/ \E s \in Slots : Handle(s)

Spec == Init /\ [][Next]_vars

-----------------------------------------------------------------------------
RequestRecords ==
  [at : {"free", "lookup", "insert", "session", "auth", "handler", "owned"},
   kind : Kinds \cup {None}, mail : DOMAIN Address \cup {None},
   text : DOMAIN Trimmed \cup {None}, sess : SessionIds \cup {None},
   user : UserIds \cup {None}, port : PortfolioIds \cup {None}, late : BOOLEAN]

\* The foreign keys of the tables, and the shapes of the rest.
TypeOK ==
  /\ DOMAIN users \subseteq UserIds /\ users \in [DOMAIN users -> UserRows]
  /\ DOMAIN sessions \subseteq SessionIds
  /\ sessions \in [DOMAIN sessions -> SessionRows]
  /\ \A id \in DOMAIN sessions : sessions[id].user \in DOMAIN users
  /\ DOMAIN owner \subseteq PortfolioIds \ Reserved
  /\ owner \in [DOMAIN owner -> DOMAIN users]
  /\ bucket \in [RouteClasses -> [Clients -> [tokens : 0..Burst, seen : 0..now]]]
  /\ req \in [Slots -> RequestRecords]
  /\ now \in 0..MaxNow /\ arrived \in 0..MaxRequests
  /\ passed \in [RouteClasses -> [Clients -> [0..MaxNow -> Nat]]]
  /\ registered \subseteq [mail : DOMAIN Address, text : DOMAIN Trimmed]
  /\ out \subseteq DOMAIN sessions

\* An address belongs to one account, whatever its spelling and however many
\* registrations have passed the lookup at the same time.
OneAccountPerAddress ==
  \A u, v \in DOMAIN users : users[u].mail = users[v].mail => u = v

\* What was shown of a portfolio or appended to it was for its owner.
OnlyOwnersAreServed ==
  \A x \in served : x.port \in DOMAIN owner /\ owner[x.port] = x.user

\* A logout that was answered holds for every request that arrives afterwards,
\* by whoever kept the cookie.
LogoutIsFinal ==
  \A s \in Slots : req[s].late => req[s].at \in {"free", "auth"}

\* Who was told that an account was created can log in with what he typed.
RegisteredCanLogIn == \A r \in registered : Accepts(r.mail, r.text) # {}

\* The sum of counts before each instant.
Sums(counts) ==
  LET sum[t \in 0..MaxNow + 1] == IF t = 0 THEN 0 ELSE sum[t - 1] + counts[t - 1]
  IN  sum

\* The admissions of a client since an instant.
Since(c, ip, t) == Sums(passed[c][ip])[now + 1] - Sums(passed[c][ip])[t]

\* From any instant on a client gets a burst and one request an instant, and it
\* is refused only where it has had that much: what others and the other route
\* class draw does not count.
AdmittedUpToTheBound ==
  \A c \in RouteClasses, ip \in Clients :
    /\ \A t \in 0..now : Since(c, ip, t) <= Burst + now - t
    /\ ~Admits(c, ip) => \E t \in 0..now : Since(c, ip, t) = Burst + now - t
=============================================================================
