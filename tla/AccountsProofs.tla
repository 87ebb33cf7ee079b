---------------------------- MODULE AccountsProofs ----------------------------
(***************************************************************************)
(* Theorems of Accounts: type correctness, one account per address, access *)
(* for owners only, logout, log-in after registration, and the bound of    *)
(* the token buckets, for any number of requests in progress.              *)
(***************************************************************************)
EXTENDS Accounts, WellFoundedInduction, TLAPS

-----------------------------------------------------------------------------
(* Sums of counts.                                                         *)

\* A set of naturals that is not empty has a least element.
LEMMA LeastNatural ==
  ASSUME NEW T, T \subseteq Nat, T # {}
  PROVE  \E x \in T : \A y \in T : x <= y
<1>1. \E x \in T : \A y \in T : ~ (<<y, x>> \in OpToRel(<, Nat))
  BY NatLessThanWellFounded, WFMin
<1>2. \A x, y \in T : x <= y \/ <<y, x>> \in OpToRel(<, Nat)
  <2>1. \A x, y \in T : <<y, x>> \in Nat \X Nat /\ (x <= y \/ y < x)
    OBVIOUS
  <2> QED
    BY <2>1 DEF OpToRel
<1> QED
  BY <1>1, <1>2

\* The recursive function behind Sums exists, by induction on its domain.
LEMMA SumSteps ==
  ASSUME NEW f \in [0..MaxNow -> Nat]
  PROVE  /\ Sums(f)[0] = 0
         /\ \A t \in 0..MaxNow : Sums(f)[t + 1] = Sums(f)[t] + f[t]
<1> DEFINE IsSum(g, n) ==
      g = [t \in 0..n |-> IF t = 0 THEN 0 ELSE g[t - 1] + f[t - 1]]
           S == {n \in Nat : ~\E g : IsSum(g, n)}
<1>0. MaxNow \in Nat
  BY AccountsAssumption
<1>1. S = {}
  <2> SUFFICES ASSUME S # {} PROVE FALSE
    OBVIOUS
  <2>1. PICK n \in S : \A m \in S : n <= m
    <3>1. S \subseteq Nat
      OBVIOUS
    <3> HIDE DEF S
    <3> QED
      BY <3>1, LeastNatural
  <2>2. n # 0
    <3>1. IsSum([t \in 0..0 |-> 0], 0)
      OBVIOUS
    <3> QED
      BY <2>1, <3>1
  <2>3. n \in Nat \ {0} /\ n - 1 \in Nat /\ n - 1 \notin S
    <3>1. n \in Nat
      BY <2>1
    <3> HIDE DEF S
    <3> QED
      BY <2>1, <2>2, <3>1
  <2>4. PICK g : IsSum(g, n - 1)
    BY <2>3
  <2> DEFINE h == [t \in 0..n |-> IF t = n THEN g[n - 1] + f[n - 1] ELSE g[t]]
  <2>5. ASSUME NEW t \in 0..n
        PROVE  h[t] = IF t = 0 THEN 0 ELSE h[t - 1] + f[t - 1]
    <3>1. CASE t = 0
      <4>1. h[0] = g[0] /\ 0 \in 0..n - 1
        BY <2>3
      <4> QED
        BY <2>4, <3>1, <4>1
    <3>2. CASE t \in 1..n - 1
      <4>1. t # n /\ t - 1 # n /\ t - 1 \in 0..n /\ t \in 0..n - 1 /\ t # 0
        BY <2>3, <3>2
      <4> QED
        BY <2>4, <4>1
    <3>3. CASE t = n
      <4>1. n - 1 \in 0..n /\ n - 1 # n /\ n # 0
        BY <2>3
      <4> QED
        BY <3>3, <4>1
    <3> QED
      BY <2>3, <3>1, <3>2, <3>3
  <2>6. IsSum(h, n)
    BY <2>5
  <2> QED
    BY <2>1, <2>6
<1>2. \E g : IsSum(g, MaxNow + 1)
  <2>1. \A n \in Nat : \E g : IsSum(g, n)
    <3> HIDE DEF IsSum
    <3> QED
      BY <1>1
  <2>2. MaxNow + 1 \in Nat
    BY <1>0
  <2> HIDE DEF IsSum, S
  <2> QED
    BY <2>1, <2>2
<1>3. Sums(f) = CHOOSE g : IsSum(g, MaxNow + 1)
  BY DEF Sums
<1>4. IsSum(Sums(f), MaxNow + 1)
  <2> HIDE DEF IsSum
  <2> QED
    BY <1>2, <1>3
<1> HIDE DEF S
<1>5. /\ 0 \in 0..MaxNow + 1
      /\ \A t \in 0..MaxNow : t + 1 \in 0..MaxNow + 1 /\ t + 1 # 0 /\ (t + 1) - 1 = t
  BY <1>0
<1> QED
  BY <1>4, <1>5

\* Sums of naturals are naturals, and counts that agree before an instant have
\* the same sums up to it.
LEMMA SumsAgree ==
  ASSUME NEW f \in [0..MaxNow -> Nat], NEW g \in [0..MaxNow -> Nat],
         NEW n \in 0..MaxNow + 1, \A t \in 0..MaxNow : t < n => f[t] = g[t]
  PROVE  \A t \in 0..n : Sums(f)[t] \in Nat /\ Sums(f)[t] = Sums(g)[t]
<1> DEFINE Good(t) == Sums(f)[t] \in Nat /\ Sums(f)[t] = Sums(g)[t]
           S == {t \in 0..n : ~Good(t)}
<1>0. MaxNow \in Nat
  BY AccountsAssumption
<1> SUFFICES ASSUME S # {} PROVE FALSE
  OBVIOUS
<1>1. PICK t \in S : \A u \in S : t <= u
  <2>1. S \subseteq Nat
    BY <1>0
  <2> HIDE DEF S
  <2> QED
    BY <2>1, LeastNatural
<1>2. Sums(f)[0] = 0 /\ Sums(g)[0] = 0
  BY SumSteps
<1>3. t \in 0..n /\ t # 0 /\ ~Good(t)
  BY <1>1, <1>2
<1>4. t - 1 \in 0..n /\ t - 1 \in 0..MaxNow /\ t - 1 < n /\ ~(t <= t - 1)
  BY <1>0, <1>3
<1>5. Good(t - 1)
  BY <1>1, <1>4
<1>6. /\ Sums(f)[(t - 1) + 1] = Sums(f)[t - 1] + f[t - 1]
      /\ Sums(g)[(t - 1) + 1] = Sums(g)[t - 1] + g[t - 1]
  BY <1>4, SumSteps
<1>7. (t - 1) + 1 = t
  BY <1>0, <1>3
<1>8. f[t - 1] = g[t - 1] /\ f[t - 1] \in Nat
  BY <1>4
<1> QED
  BY <1>3, <1>5, <1>6, <1>7, <1>8

-----------------------------------------------------------------------------
(* Type correctness: a request in progress refers to rows that exist.      *)

IsGrounded(r) ==
  /\ r.at \in {"lookup", "insert"} => r.mail \in DOMAIN Address /\ r.text \in DOMAIN Trimmed
  /\ r.at \in {"auth", "handler"} => r.sess \in DOMAIN sessions
  /\ r.at \in {"session", "handler"} => r.user \in DOMAIN users
  /\ r.at = "owned" => r.port \in DOMAIN owner /\ owner[r.port] = r.user

TypeInv == TypeOK /\ \A s \in Slots : IsGrounded(req[s])

TablesOK ==
  /\ DOMAIN users \subseteq UserIds /\ users \in [DOMAIN users -> UserRows]
  /\ DOMAIN sessions \subseteq SessionIds
  /\ sessions \in [DOMAIN sessions -> SessionRows]
  /\ \A id \in DOMAIN sessions : sessions[id].user \in DOMAIN users
  /\ DOMAIN owner \subseteq PortfolioIds \ Reserved
  /\ owner \in [DOMAIN owner -> DOMAIN users]

LimiterOK ==
  /\ bucket \in [RouteClasses -> [Clients -> [tokens : 0..Burst, seen : 0..now]]]
  /\ now \in 0..MaxNow /\ arrived \in 0..MaxRequests
  /\ passed \in [RouteClasses -> [Clients -> [0..MaxNow -> Nat]]]

AnswersOK ==
  /\ registered \subseteq [mail : DOMAIN Address, text : DOMAIN Trimmed]
  /\ out \subseteq DOMAIN sessions

RequestsOK ==
  /\ req \in [Slots -> RequestRecords]
  /\ \A s \in Slots : IsGrounded(req[s])

LEMMA TypeInvParts ==
  TypeInv <=> TablesOK /\ LimiterOK /\ RequestsOK /\ AnswersOK
BY DEF TypeInv, TypeOK, TablesOK, LimiterOK, RequestsOK, AnswersOK

\* Rows are added and, but for revoked, never changed.
TablesGrow ==
  /\ \A u \in DOMAIN users : u \in DOMAIN users' /\ users'[u] = users[u]
  /\ \A i \in DOMAIN sessions :
       /\ i \in DOMAIN sessions' /\ sessions'[i].user = sessions[i].user
       /\ sessions[i].revoked => sessions'[i].revoked
  /\ \A p \in DOMAIN owner : p \in DOMAIN owner' /\ owner'[p] = owner[p]

\* What a request may arrive as.
LEMMA Arrivals ==
  ASSUME SomeoneAsks
  PROVE  \E s \in Slots, ip \in Clients, kind \in Kinds :
           \/ \E sess \in Cookies, port \in PortsOf(kind) :
                Arrive(s, ip, WithCookie(kind, sess, port))
           \/ \E mail \in DOMAIN Address, text \in DOMAIN Trimmed :
                Arrive(s, ip, Credentials(kind, mail, text))
BY DEF SomeoneAsks

\* The statements that write, as seen from the tables.
LEMMA TableSteps ==
  ASSUME [Next]_vars
  PROVE  \/ UNCHANGED tables
         \/ /\ \E s \in Slots : req[s].at = "insert" /\ InsertUser(req[s])
            /\ UNCHANGED <<sessions, owner>>
         \/ /\ \E s \in Slots, id \in SessionIds \ DOMAIN sessions :
                 /\ req[s].at = "session"
                 /\ sessions' = With(sessions, id, [user |-> req[s].user,
                                                    expires |-> now + Ttl,
                                                    revoked |-> FALSE])
            /\ UNCHANGED <<users, owner>>
         \/ /\ \E s \in Slots : /\ req[s].at = "handler"
                                /\ sessions' = [sessions EXCEPT ![req[s].sess].revoked = TRUE]
            /\ UNCHANGED <<users, owner>>
         \/ /\ \E s \in Slots, p \in PortfolioIds \ (DOMAIN owner \cup Reserved) :
                 req[s].at = "handler" /\ owner' = With(owner, p, req[s].user)
            /\ UNCHANGED <<users, sessions>>
<1> USE DEF tables
<1>1. CASE SomeoneAsks
  <2>1. PICK s, ip, r : Arrive(s, ip, r)
    BY <1>1, Arrivals
  <2> QED
    BY <2>1 DEF Arrive
<1>2. CASE ClockTicks
  BY <1>2 DEF ClockTicks
<1>3. ASSUME NEW s \in Slots,
             RegisterLooksUp(s) \/ RegisterCollides(s) \/ LoginLooksUp(s)
               \/ Authenticate(s) \/ ListPortfolios(s) \/ CheckOwnership(s)
               \/ ServePortfolio(s) \/ StatementFails(s)
      PROVE  UNCHANGED tables
  BY <1>3 DEF RegisterLooksUp, RegisterCollides, LoginLooksUp, Authenticate,
              ListPortfolios, CheckOwnership, ServePortfolio, StatementFails
<1>4. ASSUME NEW s \in Slots, RegisterInserts(s)
      PROVE  /\ req[s].at = "insert" /\ InsertUser(req[s])
             /\ UNCHANGED <<sessions, owner>>
  BY <1>4 DEF RegisterInserts
<1>5. ASSUME NEW s \in Slots, LoginCreatesSession(s)
      PROVE  /\ \E id \in SessionIds \ DOMAIN sessions :
                  /\ req[s].at = "session"
                  /\ sessions' = With(sessions, id, [user |-> req[s].user,
                                                     expires |-> now + Ttl,
                                                     revoked |-> FALSE])
             /\ UNCHANGED <<users, owner>>
  BY <1>5 DEF LoginCreatesSession
<1>6. ASSUME NEW s \in Slots, Logout(s)
      PROVE  \/ UNCHANGED tables
             \/ /\ req[s].at = "handler"
                /\ sessions' = [sessions EXCEPT ![req[s].sess].revoked = TRUE]
                /\ UNCHANGED <<users, owner>>
  BY <1>6 DEF Logout, Handles
<1>7. ASSUME NEW s \in Slots, CreatePortfolio(s)
      PROVE  /\ \E p \in PortfolioIds \ (DOMAIN owner \cup Reserved) :
                  req[s].at = "handler" /\ owner' = With(owner, p, req[s].user)
             /\ UNCHANGED <<users, sessions>>
  BY <1>7 DEF CreatePortfolio, Handles
<1>8. CASE UNCHANGED vars
  BY <1>8 DEF vars
<1> QED
  BY <1>1, <1>2, <1>3, <1>4, <1>5, <1>6, <1>7, <1>8 DEF Next, Handle

LEMMA TablesType == TypeInv /\ [Next]_vars => TablesOK' /\ TablesGrow
<1> SUFFICES ASSUME TypeInv, [Next]_vars PROVE TablesOK' /\ TablesGrow
  OBVIOUS
<1>0. TablesOK /\ RequestsOK /\ now \in Nat /\ Ttl \in Nat
  BY TypeInvParts, AccountsAssumption DEF LimiterOK
<1>1. CASE UNCHANGED tables
  BY <1>0, <1>1 DEF tables, TablesOK, TablesGrow
<1>2. ASSUME NEW s \in Slots, req[s].at = "insert", InsertUser(req[s]),
             UNCHANGED <<sessions, owner>>
      PROVE  TablesOK' /\ TablesGrow
  <2>1. Row(req[s]) \in UserRows
    <3>1. req[s].mail \in DOMAIN Address /\ req[s].text \in DOMAIN Trimmed
      BY <1>0, <1>2 DEF RequestsOK, IsGrounded
    <3> QED
      BY <3>1 DEF Row, UserRows, Range
  <2>2. PICK u \in UserIds \ DOMAIN users : users' = With(users, u, Row(req[s]))
    BY <1>2 DEF InsertUser
  <2> HIDE DEF Row
  <2>3. /\ users' \in [DOMAIN users \cup {u} -> UserRows]
        /\ DOMAIN users' = DOMAIN users \cup {u}
        /\ \A k \in DOMAIN users : k # u => users'[k] = users[k]
    <3>1. users \in [DOMAIN users -> UserRows]
      BY <1>0 DEF TablesOK
    <3> QED
      BY <2>1, <2>2, <3>1 DEF With
  <2>4. /\ DOMAIN users' \subseteq UserIds
        /\ owner \in [DOMAIN owner -> DOMAIN users']
    BY <1>0, <2>3 DEF TablesOK
  <2>5. TablesGrow
    BY <1>2, <2>3 DEF TablesGrow
  <2>6. TablesOK'
    BY <1>0, <1>2, <2>3, <2>4 DEF TablesOK
  <2> QED
    BY <2>5, <2>6
<1>3. ASSUME NEW s \in Slots, NEW id \in SessionIds \ DOMAIN sessions,
             req[s].at = "session",
             sessions' = With(sessions, id, [user |-> req[s].user, expires |-> now + Ttl,
                                             revoked |-> FALSE]),
             UNCHANGED <<users, owner>>
      PROVE  TablesOK' /\ TablesGrow
  <2> DEFINE r == [user |-> req[s].user, expires |-> now + Ttl, revoked |-> FALSE]
  <2>1. req[s].user \in DOMAIN users
    BY <1>0, <1>3 DEF RequestsOK, IsGrounded
  <2>2. r \in SessionRows /\ r.user \in DOMAIN users
    BY <1>0, <2>1 DEF TablesOK, SessionRows
  <2> HIDE DEF r
  <2>3. sessions' = With(sessions, id, r)
    BY <1>3 DEF r
  <2>4. /\ sessions' \in [DOMAIN sessions \cup {id} -> SessionRows]
        /\ DOMAIN sessions' = DOMAIN sessions \cup {id}
        /\ sessions'[id] = r
        /\ \A k \in DOMAIN sessions : k # id => sessions'[k] = sessions[k]
    <3>1. sessions \in [DOMAIN sessions -> SessionRows]
      BY <1>0 DEF TablesOK
    <3> QED
      BY <2>2, <2>3, <3>1 DEF With
  <2>5. TablesGrow
    BY <1>3, <2>4 DEF TablesGrow
  <2>6. /\ DOMAIN sessions' \subseteq SessionIds
        /\ \A k \in DOMAIN sessions' : sessions'[k].user \in DOMAIN users
    BY <1>0, <2>2, <2>4 DEF TablesOK
  <2> QED
    BY <1>0, <1>3, <2>4, <2>5, <2>6 DEF TablesOK
<1>4. ASSUME NEW s \in Slots, req[s].at = "handler",
             sessions' = [sessions EXCEPT ![req[s].sess].revoked = TRUE],
             UNCHANGED <<users, owner>>
      PROVE  TablesOK' /\ TablesGrow
  <2>1. req[s].sess \in DOMAIN sessions
    BY <1>0, <1>4 DEF RequestsOK, IsGrounded
  <2>2. sessions \in [DOMAIN sessions -> SessionRows]
    BY <1>0 DEF TablesOK
  <2>3. /\ sessions' \in [DOMAIN sessions -> SessionRows]
        /\ DOMAIN sessions' = DOMAIN sessions
        /\ \A i \in DOMAIN sessions :
             /\ sessions'[i].user = sessions[i].user
             /\ sessions[i].revoked => sessions'[i].revoked
    BY <1>4, <2>1, <2>2 DEF SessionRows
  <2> QED
    BY <1>0, <1>4, <2>3 DEF TablesOK, TablesGrow
<1>5. ASSUME NEW s \in Slots, NEW p \in PortfolioIds \ (DOMAIN owner \cup Reserved),
             req[s].at = "handler", owner' = With(owner, p, req[s].user),
             UNCHANGED <<users, sessions>>
      PROVE  TablesOK' /\ TablesGrow
  <2>1. req[s].user \in DOMAIN users
    BY <1>0, <1>5 DEF RequestsOK, IsGrounded
  <2>2. /\ owner' \in [DOMAIN owner \cup {p} -> DOMAIN users]
        /\ DOMAIN owner' = DOMAIN owner \cup {p}
        /\ \A k \in DOMAIN owner : k # p => owner'[k] = owner[k]
    <3>1. owner \in [DOMAIN owner -> DOMAIN users]
      BY <1>0 DEF TablesOK
    <3> QED
      BY <1>5, <2>1, <3>1 DEF With
  <2> QED
    BY <1>0, <1>5, <2>2 DEF TablesOK, TablesGrow
<1> QED
  BY <1>1, <1>2, <1>3, <1>4, <1>5, TableSteps

\* One request moves on, and what it refers to is there.
LEMMA RequestMoves ==
  ASSUME RequestsOK, TablesGrow, NEW s \in Slots, NEW r \in RequestRecords,
         IsGrounded(r)', req' = [req EXCEPT ![s] = r]
  PROVE  RequestsOK'
<1>1. req' \in [Slots -> RequestRecords]
  BY DEF RequestsOK
<1>2. ASSUME NEW z \in Slots PROVE IsGrounded(req[z])'
  <2>1. CASE z = s
    <3>1. req'[z] = r
      BY <2>1 DEF RequestsOK
    <3> QED
      BY <3>1 DEF IsGrounded
  <2>2. CASE z # s
    <3>1. req'[z] = req[z] /\ IsGrounded(req[z])
      BY <2>2 DEF RequestsOK
    <3> QED
      BY <3>1 DEF IsGrounded, TablesGrow
  <2> QED
    BY <2>1, <2>2
<1> QED
  BY <1>1, <1>2 DEF RequestsOK

LEMMA RequestsStay ==
  ASSUME RequestsOK, TablesGrow, req' = req
  PROVE  RequestsOK'
BY DEF RequestsOK, TablesGrow, IsGrounded

LEMMA FreeSlot == Free \in RequestRecords /\ Free.at = "free" /\ ~Free.late
BY DEF Free, RequestRecords

\* A slot becomes free.
LEMMA AnsweredType ==
  ASSUME RequestsOK, TablesGrow, NEW s \in Slots, Answered(s)
  PROVE  RequestsOK'
<1>1. IsGrounded(Free)'
  BY FreeSlot DEF IsGrounded
<1> HIDE DEF Free
<1> QED
  BY <1>1, FreeSlot, RequestMoves DEF Answered

\* What a request starts with.
LEMMA ArrivalRecords ==
  ASSUME NEW kind \in Kinds
  PROVE  /\ \A mail \in DOMAIN Address, text \in DOMAIN Trimmed :
              /\ Credentials(kind, mail, text) \in RequestRecords
              /\ Credentials(kind, mail, text).at = "lookup"
              /\ Credentials(kind, mail, text).mail = mail
              /\ Credentials(kind, mail, text).text = text
              /\ ~Credentials(kind, mail, text).late
         /\ \A sess \in SessionIds, port \in PortsOf(kind) :
              /\ WithCookie(kind, sess, port) \in RequestRecords
              /\ WithCookie(kind, sess, port).at = "auth"
              /\ WithCookie(kind, sess, port).sess = sess
              /\ WithCookie(kind, sess, port).late <=> sess \in out
<1>1. \A mail \in DOMAIN Address, text \in DOMAIN Trimmed :
        /\ Credentials(kind, mail, text) \in RequestRecords
        /\ Credentials(kind, mail, text).at = "lookup"
        /\ Credentials(kind, mail, text).mail = mail
        /\ Credentials(kind, mail, text).text = text
        /\ ~Credentials(kind, mail, text).late
  BY DEF Credentials, Free, RequestRecords
<1>2. PortsOf(kind) \subseteq PortfolioIds \cup {None}
  BY DEF PortsOf
<1>3. ASSUME NEW sess \in SessionIds, NEW port \in PortsOf(kind)
      PROVE  /\ WithCookie(kind, sess, port) \in RequestRecords
             /\ WithCookie(kind, sess, port).at = "auth"
             /\ WithCookie(kind, sess, port).sess = sess
             /\ WithCookie(kind, sess, port).late <=> sess \in out
  <2> DEFINE l == sess \in out
  <2>1. l \in BOOLEAN /\ port \in PortfolioIds \cup {None}
    BY <1>2
  <2>2. WithCookie(kind, sess, port) =
          [Free EXCEPT !.at = "auth", !.kind = kind, !.sess = sess, !.port = port,
                       !.late = l]
    BY DEF WithCookie
  <2>3. l <=> sess \in out
    OBVIOUS
  <2> HIDE DEF l
  <2> QED
    BY <2>1, <2>2, <2>3 DEF Free, RequestRecords
<1> QED
  BY <1>1, <1>3

LEMMA RequestsType == TypeInv /\ [Next]_vars => RequestsOK'
<1> SUFFICES ASSUME TypeInv, [Next]_vars PROVE RequestsOK'
  OBVIOUS
<1>0. RequestsOK /\ TablesOK /\ TablesGrow
  BY TypeInvParts, TablesType
<1>1. CASE SomeoneAsks
  <2>1. PICK s \in Slots, ip \in Clients, kind \in Kinds :
          \/ \E sess \in Cookies, port \in PortsOf(kind) :
               Arrive(s, ip, WithCookie(kind, sess, port))
          \/ \E mail \in DOMAIN Address, text \in DOMAIN Trimmed :
               Arrive(s, ip, Credentials(kind, mail, text))
    BY <1>1, Arrivals
  <2>2. ASSUME NEW sess \in Cookies, NEW port \in PortsOf(kind),
               Arrive(s, ip, WithCookie(kind, sess, port))
        PROVE  RequestsOK'
    <3>1. sess \in SessionIds /\ sess \in DOMAIN sessions
      BY <1>0 DEF Cookies, TablesOK
    <3>a. PICK r : r = WithCookie(kind, sess, port)
      OBVIOUS
    <3>2. r \in RequestRecords /\ r.at = "auth" /\ r.sess = sess
      BY <3>1, <3>a, ArrivalRecords
    <3>3. req' = [req EXCEPT ![s] = r] /\ sessions' = sessions
      BY <2>2, <3>a DEF Arrive, tables
    <3>4. IsGrounded(r)'
      BY <3>1, <3>2, <3>3 DEF IsGrounded
    <3> QED
      BY <1>0, <3>2, <3>3, <3>4, RequestMoves
  <2>3. ASSUME NEW mail \in DOMAIN Address, NEW text \in DOMAIN Trimmed,
               Arrive(s, ip, Credentials(kind, mail, text))
        PROVE  RequestsOK'
    <3>a. PICK r : r = Credentials(kind, mail, text)
      OBVIOUS
    <3>1. r \in RequestRecords /\ r.at = "lookup" /\ r.mail = mail /\ r.text = text
      BY <3>a, ArrivalRecords
    <3>2. req' = [req EXCEPT ![s] = r]
      BY <2>3, <3>a DEF Arrive
    <3>3. IsGrounded(r)'
      BY <3>1 DEF IsGrounded
    <3> QED
      BY <1>0, <3>1, <3>2, <3>3, RequestMoves
  <2> QED
    BY <2>1, <2>2, <2>3
<1>2. CASE ClockTicks
  BY <1>0, <1>2, RequestsStay DEF ClockTicks
<1>3. ASSUME NEW s \in Slots, Handle(s)
      PROVE  RequestsOK'
  <2>a. PICK r : r = req[s]
    OBVIOUS
  <2>1. r \in RequestRecords /\ IsGrounded(r)
    BY <1>0, <2>a DEF RequestsOK
  <2>2. r.user \in UserIds \cup {None}
    BY <2>1 DEF RequestRecords
  <2>3. CASE Answered(s)
    BY <1>0, <2>3, AnsweredType
  <2>4. CASE RegisterLooksUp(s) /\ ~Answered(s)
    <3>a. PICK q : q = [r EXCEPT !.at = "insert"]
      OBVIOUS
    <3>1. req' = [req EXCEPT ![s] = q] /\ r.at = "lookup"
      BY <2>4, <2>a, <3>a DEF RegisterLooksUp, Looks, Answered
    <3>2. q \in RequestRecords /\ q.at = "insert" /\ q.mail = r.mail /\ q.text = r.text
      BY <2>1, <3>a DEF RequestRecords
    <3>3. IsGrounded(q)'
      BY <2>1, <3>1, <3>2 DEF IsGrounded
    <3> QED
      BY <1>0, <3>1, <3>2, <3>3, RequestMoves
  <2>5. CASE LoginLooksUp(s) /\ ~Answered(s)
    <3>1. PICK u \in DOMAIN users :
            req' = [req EXCEPT ![s] = [r EXCEPT !.at = "session", !.user = u]]
      BY <2>5, <2>a DEF LoginLooksUp, Looks, Accepts, HasMail
    <3>a. PICK q : q = [r EXCEPT !.at = "session", !.user = u]
      OBVIOUS
    <3>2. u \in UserIds
      BY <1>0 DEF TablesOK
    <3>3. q \in RequestRecords /\ q.at = "session" /\ q.user = u
      BY <2>1, <3>2, <3>a DEF RequestRecords
    <3>4. IsGrounded(q)'
      BY <1>0, <3>3 DEF IsGrounded, TablesGrow
    <3> QED
      BY <1>0, <3>1, <3>3, <3>4, <3>a, RequestMoves
  <2>6. CASE Authenticate(s) /\ ~Answered(s)
    <3>a. PICK u : u = sessions[r.sess].user
      OBVIOUS
    <3>b. PICK q : q = [r EXCEPT !.at = "handler", !.user = u]
      OBVIOUS
    <3>1. req' = [req EXCEPT ![s] = q] /\ r.at = "auth" /\ UNCHANGED tables
      BY <2>6, <2>a, <3>a, <3>b DEF Authenticate, Answered
    <3>2. r.sess \in DOMAIN sessions
      BY <2>1, <3>1 DEF IsGrounded
    <3>3. u \in DOMAIN users /\ u \in UserIds
      BY <1>0, <3>2, <3>a DEF TablesOK
    <3>4. q \in RequestRecords /\ q.at = "handler" /\ q.user = u /\ q.sess = r.sess
      BY <2>1, <3>3, <3>b DEF RequestRecords
    <3>5. IsGrounded(q)'
      BY <3>1, <3>2, <3>3, <3>4 DEF IsGrounded, tables
    <3> QED
      BY <1>0, <3>1, <3>4, <3>5, RequestMoves
  <2>7. CASE CheckOwnership(s) /\ ~Answered(s)
    <3>a. PICK q : q = [r EXCEPT !.at = "owned"]
      OBVIOUS
    <3>1. req' = [req EXCEPT ![s] = q] /\ Owns(r.port, r.user) /\ UNCHANGED tables
      BY <2>7, <2>a, <3>a DEF CheckOwnership, Answered
    <3>2. q \in RequestRecords /\ q.at = "owned" /\ q.port = r.port /\ q.user = r.user
      BY <2>1, <3>a DEF RequestRecords
    <3>3. IsGrounded(q)'
      BY <3>1, <3>2 DEF IsGrounded, tables, Owns
    <3> QED
      BY <1>0, <3>1, <3>2, <3>3, RequestMoves
  <2> QED
    BY <1>3, <2>3, <2>4, <2>5, <2>6, <2>7
    DEF Handle, RegisterInserts, RegisterCollides, LoginCreatesSession, Logout,
        CreatePortfolio, ListPortfolios, ServePortfolio, StatementFails
<1>4. CASE UNCHANGED vars
  BY <1>0, <1>4, RequestsStay DEF vars
<1> QED
  BY <1>1, <1>2, <1>3, <1>4 DEF Next

\* The steps that touch the limiter: a request admitted, and the clock.
LEMMA LimiterSteps ==
  ASSUME [Next]_vars
  PROVE  \/ \E s \in Slots, ip \in Clients :
              \E r : r.kind \in Kinds /\ Arrive(s, ip, r)
         \/ ClockTicks
         \/ UNCHANGED <<bucket, now, arrived, passed>>
<1>1. CASE SomeoneAsks
  <2>1. \A kind \in Kinds :
          /\ \A mail, text : Credentials(kind, mail, text).kind = kind
          /\ \A sess, port : WithCookie(kind, sess, port).kind = kind
    BY DEF Credentials, WithCookie, Free
  <2> QED
    BY <1>1, <2>1, Arrivals
<1>2. ASSUME NEW s \in Slots, Handle(s)
      PROVE  UNCHANGED <<bucket, now, arrived, passed>>
  BY <1>2
  DEF Handle, RegisterLooksUp, RegisterInserts, RegisterCollides, LoginLooksUp,
      LoginCreatesSession, Authenticate, Logout, CreatePortfolio, ListPortfolios,
      CheckOwnership, ServePortfolio, StatementFails, history
<1>3. CASE UNCHANGED vars
  BY <1>3 DEF vars
<1> QED
  BY <1>1, <1>2, <1>3 DEF Next

LEMMA MinOfTwo ==
  ASSUME NEW a \in Int, NEW b \in Int
  PROVE  Min({a, b}) = IF a <= b THEN a ELSE b
<1>1. \E x \in {a, b} : \A y \in {a, b} : x <= y
  OBVIOUS
<1>2. /\ Min({a, b}) \in {a, b}
      /\ \A y \in {a, b} : Min({a, b}) <= y
  BY <1>1 DEF Min
<1> QED
  BY <1>2

\* What a bucket holds at an instant.
Left(b, n) == Min({Burst, b.tokens + n - b.seen})

Buckets(n) == [tokens : 0..Burst, seen : 0..n]

LEMMA LeftFacts ==
  ASSUME NEW n \in Nat, NEW b \in Buckets(n)
  PROVE  /\ Left(b, n) \in 0..Burst
         /\ Left(b, n) = IF Burst <= b.tokens + n - b.seen THEN Burst
                         ELSE b.tokens + n - b.seen
<1>1. Burst \in Nat
  BY AccountsAssumption
<1>2. b.tokens \in 0..Burst /\ b.seen \in 0..n
  BY DEF Buckets
<1>3. b.tokens + n - b.seen \in Nat
  BY <1>1, <1>2
<1>4. Left(b, n) = IF Burst <= b.tokens + n - b.seen THEN Burst
                   ELSE b.tokens + n - b.seen
  BY <1>1, <1>3, MinOfTwo DEF Left
<1> QED
  BY <1>1, <1>3, <1>4

\* A table of tables with one entry replaced.
LEMMA NestedUpdate ==
  ASSUME NEW C, NEW I, NEW B, NEW f \in [C -> [I -> B]],
         NEW c \in C, NEW i \in I, NEW v \in B
  PROVE  /\ [f EXCEPT ![c][i] = v] \in [C -> [I -> B]]
         /\ \A d \in C, j \in I :
              [f EXCEPT ![c][i] = v][d][j] = IF d = c /\ j = i THEN v ELSE f[d][j]
<1>1. f[c] \in [I -> B]
  OBVIOUS
<1>2. /\ [f[c] EXCEPT ![i] = v] \in [I -> B]
      /\ \A j \in I : [f[c] EXCEPT ![i] = v][j] = IF j = i THEN v ELSE f[c][j]
  BY <1>1
<1>3. [f EXCEPT ![c][i] = v] = [f EXCEPT ![c] = [f[c] EXCEPT ![i] = v]]
  OBVIOUS
<1> DEFINE g == [f[c] EXCEPT ![i] = v]
<1>4. g \in [I -> B] /\ \A j \in I : g[j] = IF j = i THEN v ELSE f[c][j]
  BY <1>2
<1>5. [f EXCEPT ![c][i] = v] = [f EXCEPT ![c] = g]
  BY <1>3
<1> HIDE DEF g
<1> QED
  BY <1>4, <1>5

LEMMA LimiterType == TypeInv /\ [Next]_vars => LimiterOK'
<1> SUFFICES ASSUME TypeInv, [Next]_vars PROVE LimiterOK'
  OBVIOUS
<1>0. LimiterOK /\ now \in Nat /\ {MaxNow, MaxRequests} \subseteq Nat
  BY TypeInvParts, AccountsAssumption DEF LimiterOK
<1>1. ASSUME NEW s \in Slots, NEW ip \in Clients, NEW r, r.kind \in Kinds, Arrive(s, ip, r)
      PROVE  LimiterOK'
  <2> DEFINE c == ClassOf(r.kind)
             b == bucket[c][ip]
  <2>1. c \in RouteClasses
    BY DEF ClassOf, RouteClasses
  <2> HIDE DEF c
  <2>2. b \in Buckets(now)
    BY <1>0, <2>1 DEF LimiterOK, Buckets
  <2>3. Tokens(b) \in 0..Burst /\ Tokens(b) > 0
    BY <1>0, <1>1, <2>2, LeftFacts DEF Tokens, Left, Arrive, Admits, c
  <2>4. Tokens(b) - 1 \in 0..Burst
    BY <2>3, AccountsAssumption
  <2>5. bucket' = [bucket EXCEPT ![c][ip] = [tokens |-> Tokens(b) - 1, seen |-> now]]
    BY <1>1 DEF Arrive, Draw, c
  <2> HIDE DEF b
  <2>6. bucket' \in [RouteClasses -> [Clients -> [tokens : 0..Burst, seen : 0..now]]]
    <3>1. [tokens |-> Tokens(b) - 1, seen |-> now] \in [tokens : 0..Burst, seen : 0..now]
      BY <1>0, <2>4
    <3> QED
      BY <1>0, <2>1, <2>5, <3>1, NestedUpdate DEF LimiterOK
  <2>7. passed' = [passed EXCEPT ![c][ip][now] = @ + 1]
    BY <1>1 DEF Arrive, c
  <2>8. passed' \in [RouteClasses -> [Clients -> [0..MaxNow -> Nat]]]
    <3> DEFINE v == [passed[c][ip] EXCEPT ![now] = passed[c][ip][now] + 1]
    <3>1. passed[c][ip] \in [0..MaxNow -> Nat]
      BY <1>0, <2>1 DEF LimiterOK
    <3>2. v \in [0..MaxNow -> Nat]
      <4>1. passed[c][ip][now] + 1 \in Nat
        BY <1>0, <3>1 DEF LimiterOK
      <4> QED
        BY <3>1, <4>1
    <3>3. passed' = [passed EXCEPT ![c][ip] = v]
      BY <2>7
    <3> HIDE DEF v
    <3> QED
      BY <1>0, <2>1, <3>2, <3>3, NestedUpdate DEF LimiterOK
  <2>9. now' = now /\ arrived' \in 0..MaxRequests
    BY <1>0, <1>1 DEF Arrive, LimiterOK
  <2> QED
    BY <1>0, <2>6, <2>8, <2>9 DEF LimiterOK
<1>2. CASE ClockTicks
  <2>1. now' \in 0..MaxNow /\ now' = now + 1 /\ UNCHANGED <<bucket, arrived, passed>>
    BY <1>0, <1>2 DEF ClockTicks, history
  <2>2. 0..now \subseteq 0..now'
    BY <1>0, <2>1
  <2>3. [tokens : 0..Burst, seen : 0..now] \subseteq [tokens : 0..Burst, seen : 0..now']
    BY <2>2
  <2>4. bucket \in [RouteClasses -> [Clients -> [tokens : 0..Burst, seen : 0..now']]]
    BY <1>0, <2>3 DEF LimiterOK
  <2> QED
    BY <1>0, <2>1, <2>4 DEF LimiterOK
<1>3. CASE UNCHANGED <<bucket, now, arrived, passed>>
  BY <1>0, <1>3 DEF LimiterOK
<1> QED
  BY <1>1, <1>2, <1>3, LimiterSteps

LEMMA AnswersType == TypeInv /\ [Next]_vars => AnswersOK'
<1> SUFFICES ASSUME TypeInv, [Next]_vars PROVE AnswersOK'
  OBVIOUS
<1>0. AnswersOK /\ RequestsOK /\ TablesGrow
  BY TypeInvParts, TablesType
<1>1. CASE UNCHANGED <<registered, out>>
  BY <1>0, <1>1 DEF AnswersOK, TablesGrow
<1>2. ASSUME NEW s \in Slots, RegisterInserts(s) PROVE AnswersOK'
  <2>1. req[s].mail \in DOMAIN Address /\ req[s].text \in DOMAIN Trimmed
    BY <1>0, <1>2 DEF RequestsOK, IsGrounded, RegisterInserts
  <2> QED
    BY <1>0, <1>2, <2>1 DEF AnswersOK, TablesGrow, RegisterInserts
<1>3. ASSUME NEW s \in Slots, Logout(s) PROVE AnswersOK'
  <2>1. req[s].sess \in DOMAIN sessions
    BY <1>0, <1>3 DEF RequestsOK, IsGrounded, Logout, Handles
  <2> QED
    BY <1>0, <1>3, <2>1 DEF AnswersOK, TablesGrow, Logout
<1>4. ASSUME SomeoneAsks PROVE UNCHANGED <<registered, out>>
  <2>1. PICK s, ip, r : Arrive(s, ip, r)
    BY <1>4, Arrivals
  <2> QED
    BY <2>1 DEF Arrive
<1>5. ASSUME NEW s \in Slots, Handle(s), ~RegisterInserts(s), ~Logout(s)
      PROVE  UNCHANGED <<registered, out>>
  BY <1>5
  DEF Handle, RegisterLooksUp, RegisterCollides, LoginLooksUp,
      LoginCreatesSession, Authenticate, CreatePortfolio, ListPortfolios,
      CheckOwnership, ServePortfolio, StatementFails, history
<1>6. CASE ClockTicks
  BY <1>0, <1>1, <1>6 DEF ClockTicks, history
<1> QED
  BY <1>1, <1>2, <1>3, <1>4, <1>5, <1>6 DEF Next, vars

LEMMA InitTypeInv == Init => TypeInv
<1> SUFFICES ASSUME Init PROVE TypeInv
  OBVIOUS
<1> USE AccountsAssumption DEF Init
<1>1. TablesOK
  BY DEF TablesOK
<1>2. LimiterOK
  BY DEF LimiterOK, Full
<1>3. RequestsOK
  BY FreeSlot DEF RequestsOK, IsGrounded, Free
<1>4. AnswersOK
  BY DEF AnswersOK
<1> QED
  BY <1>1, <1>2, <1>3, <1>4, TypeInvParts

LEMMA NextTypeInv == TypeInv /\ [Next]_vars => TypeInv'
<1> SUFFICES ASSUME TypeInv, [Next]_vars PROVE TypeInv'
  OBVIOUS
<1>1. TablesOK' /\ LimiterOK' /\ RequestsOK' /\ AnswersOK'
  BY TablesType, LimiterType, RequestsType, AnswersType
<1>2. (TablesOK' /\ LimiterOK' /\ RequestsOK' /\ AnswersOK') => TypeInv'
  BY TypeInvParts, PTL
<1> QED
  BY <1>1, <1>2

\* The tables keep their foreign keys and no price partition becomes a
\* portfolio, whatever requests interleave.
THEOREM TypeCorrect == Spec => []TypeOK
<1>1. TypeInv => TypeOK
  BY DEF TypeInv
<1> QED
  BY InitTypeInv, NextTypeInv, <1>1, PTL DEF Spec

-----------------------------------------------------------------------------
(* Accounts and their portfolios.                                          *)

\* The lookup before an insert protects nothing; the index does.
THEOREM AddressesAreUnique == Spec => []OneAccountPerAddress
<1>1. Init => OneAccountPerAddress
  BY AccountsAssumption DEF Init, OneAccountPerAddress
<1>2. TypeInv /\ OneAccountPerAddress /\ [Next]_vars => OneAccountPerAddress'
  <2> SUFFICES ASSUME TypeInv, OneAccountPerAddress, [Next]_vars
               PROVE  OneAccountPerAddress'
    OBVIOUS
  <2>1. CASE UNCHANGED users
    BY <2>1 DEF OneAccountPerAddress
  <2>2. ASSUME NEW s \in Slots, InsertUser(req[s]) PROVE OneAccountPerAddress'
    <3> DEFINE r == Row(req[s])
    <3>1. PICK u \in UserIds \ DOMAIN users : users' = With(users, u, r)
      BY <2>2 DEF InsertUser
    <3>2. \A v \in DOMAIN users : users[v].mail # r.mail
      BY <2>2 DEF InsertUser, HasMail
    <3> HIDE DEF r
    <3>3. /\ DOMAIN users' = DOMAIN users \cup {u}
          /\ users'[u] = r
          /\ \A v \in DOMAIN users : users'[v] = users[v]
      BY <3>1 DEF With
    <3> QED
      BY <3>2, <3>3 DEF OneAccountPerAddress
  <2> QED
    BY <2>1, <2>2, TableSteps DEF tables
<1> QED
  BY InitTypeInv, NextTypeInv, <1>1, <1>2, PTL DEF Spec

\* A portfolio keeps its owner, so a check made earlier in the request holds.
THEOREM OwnersOnly == Spec => []OnlyOwnersAreServed
<1>1. Init => OnlyOwnersAreServed
  BY DEF Init, OnlyOwnersAreServed
<1>2. TypeInv /\ OnlyOwnersAreServed /\ [Next]_vars => OnlyOwnersAreServed'
  <2> SUFFICES ASSUME TypeInv, OnlyOwnersAreServed, [Next]_vars
               PROVE  OnlyOwnersAreServed'
    OBVIOUS
  <2>1. RequestsOK /\ TablesGrow
    BY TypeInvParts, TablesType
  <2>2. CASE UNCHANGED served
    BY <2>1, <2>2 DEF OnlyOwnersAreServed, TablesGrow
  <2>3. ASSUME NEW s \in Slots, ListPortfolios(s) PROVE OnlyOwnersAreServed'
    <3>1. \A x \in served' : \/ x \in served
                             \/ x.port \in DOMAIN owner /\ owner[x.port] = x.user
      BY <2>3 DEF ListPortfolios, Serve
    <3> QED
      BY <2>1, <3>1 DEF OnlyOwnersAreServed, TablesGrow
  <2>4. ASSUME NEW s \in Slots, ServePortfolio(s) PROVE OnlyOwnersAreServed'
    <3>1. req[s].port \in DOMAIN owner /\ owner[req[s].port] = req[s].user
      BY <2>1, <2>4 DEF ServePortfolio, RequestsOK, IsGrounded
    <3>2. \A x \in served' : \/ x \in served
                             \/ x.port = req[s].port /\ x.user = req[s].user
      BY <2>4 DEF ServePortfolio, Serve
    <3> QED
      BY <2>1, <3>1, <3>2 DEF OnlyOwnersAreServed, TablesGrow
  <2>5. ASSUME SomeoneAsks PROVE UNCHANGED served
    <3>1. PICK s, ip, r : Arrive(s, ip, r)
      BY <2>5, Arrivals
    <3> QED
      BY <3>1 DEF Arrive
  <2>6. ASSUME NEW s \in Slots, Handle(s), ~ListPortfolios(s), ~ServePortfolio(s)
        PROVE  UNCHANGED served
    BY <2>6
    DEF Handle, RegisterLooksUp, RegisterInserts, RegisterCollides, LoginLooksUp,
        LoginCreatesSession, Authenticate, Logout, CreatePortfolio,
        CheckOwnership, StatementFails, history
  <2>7. CASE ClockTicks
    BY <2>2, <2>7 DEF ClockTicks, history
  <2> QED
    BY <2>2, <2>3, <2>4, <2>5, <2>6, <2>7 DEF Next, vars
<1> QED
  BY InitTypeInv, NextTypeInv, <1>1, <1>2, PTL DEF Spec

-----------------------------------------------------------------------------
(* Sessions.                                                               *)

\* A request that came after the logout carries a revoked session and gets no
\* further than requireAuth.
LogoutInv ==
  /\ \A id \in out : sessions[id].revoked
  /\ \A s \in Slots : req[s].late => req[s].sess \in out
  /\ LogoutIsFinal

\* How a step moves a request: it arrives, is answered, or goes on with the
\* session it came with.
LEMMA LateSteps ==
  ASSUME TypeInv, [Next]_vars, NEW s \in Slots, req'[s].late
  PROVE  \/ req'[s] = req[s]
         \/ req'[s].at = "auth" /\ req'[s].sess \in out
         \/ /\ req[s].late /\ req'[s].sess = req[s].sess
            /\ req[s].at = "auth" => Valid(req[s].sess)
            /\ req[s].at # "free"
<1>0. RequestsOK
  BY TypeInvParts
<1>f. ~Free.late
  BY FreeSlot
<1>1. CASE SomeoneAsks
  <2>1. PICK z \in Slots, ip \in Clients, kind \in Kinds :
          \/ \E sess \in Cookies, port \in PortsOf(kind) :
               Arrive(z, ip, WithCookie(kind, sess, port))
          \/ \E mail \in DOMAIN Address, text \in DOMAIN Trimmed :
               Arrive(z, ip, Credentials(kind, mail, text))
    BY <1>1, Arrivals
  <2>2. ASSUME NEW r, Arrive(z, ip, r), s = z PROVE req'[s] = r
    BY <1>0, <2>2 DEF Arrive, RequestsOK
  <2>3. ASSUME NEW r, Arrive(z, ip, r), s # z PROVE req'[s] = req[s]
    BY <1>0, <2>3 DEF Arrive, RequestsOK
  <2>4. \A sess \in Cookies, port \in PortsOf(kind) :
          /\ WithCookie(kind, sess, port).late <=> sess \in out
          /\ WithCookie(kind, sess, port).at = "auth"
          /\ WithCookie(kind, sess, port).sess = sess
    <3>1. Cookies \subseteq SessionIds
      BY DEF TypeInv, TypeOK, Cookies
    <3> QED
      BY <3>1, ArrivalRecords
  <2>5. \A mail \in DOMAIN Address, text \in DOMAIN Trimmed : ~Credentials(kind, mail, text).late
    BY ArrivalRecords
  <2> QED
    BY <2>1, <2>2, <2>3, <2>4, <2>5
<1>2. ASSUME NEW z \in Slots, Handle(z)
      PROVE  \/ req'[s] = req[s]
             \/ /\ req[s].late /\ req'[s].sess = req[s].sess
                /\ req[s].at = "auth" => Valid(req[s].sess)
                /\ req[s].at # "free"
  <2>1. CASE Answered(z)
    BY <1>0, <1>f, <2>1 DEF Answered, RequestsOK
  <2>2. CASE RegisterLooksUp(z) \/ LoginLooksUp(z)
    <3>1. /\ req[z].at = "lookup"
          /\ \/ Answered(z)
             \/ req' = [req EXCEPT ![z].at = "insert"]
             \/ \E u : req' = [req EXCEPT ![z].at = "session", ![z].user = u]
      BY <2>2 DEF RegisterLooksUp, LoginLooksUp, Looks, Answered
    <3> QED
      BY <1>0, <2>1, <3>1 DEF RequestsOK, RequestRecords
  <2>3. CASE Authenticate(z) \/ CheckOwnership(z)
    <3>1. \/ Answered(z)
          \/ /\ req[z].at = "auth" /\ Valid(req[z].sess)
             /\ \E u : req' = [req EXCEPT ![z].at = "handler", ![z].user = u]
          \/ req[z].at = "handler" /\ req' = [req EXCEPT ![z].at = "owned"]
      BY <2>3 DEF Authenticate, CheckOwnership, Handles, Answered
    <3> HIDE DEF Valid
    <3> QED
      BY <1>0, <2>1, <3>1 DEF RequestsOK, RequestRecords
  <2> QED
    BY <1>2, <2>1, <2>2, <2>3
    DEF Handle, RegisterInserts, RegisterCollides, LoginCreatesSession, Logout,
        CreatePortfolio, ListPortfolios, ServePortfolio, StatementFails
<1>3. CASE ClockTicks \/ UNCHANGED vars
  BY <1>3 DEF ClockTicks, vars
<1> QED
  BY <1>1, <1>2, <1>3 DEF Next

\* A logout whose revocation reached the table holds for every request that
\* arrives afterwards, whatever is still in progress from before.
THEOREM LogoutHolds ==
  ASSUME ~RevokeFails
  PROVE  Spec => []LogoutIsFinal
<1>1. Init => LogoutInv
  BY FreeSlot DEF Init, LogoutInv, LogoutIsFinal
<1>2. TypeInv /\ LogoutInv /\ [Next]_vars => LogoutInv'
  <2> SUFFICES ASSUME TypeInv, LogoutInv, [Next]_vars PROVE LogoutInv'
    OBVIOUS
  <2>1. RequestsOK /\ TablesOK /\ TablesGrow /\ AnswersOK
    BY TypeInvParts, TablesType
  <2>2. \A id \in out : id \in DOMAIN sessions /\ sessions'[id].revoked
    BY <2>1 DEF LogoutInv, AnswersOK, TablesGrow
  <2>3. \/ out' = out
        \/ \E z \in Slots : Logout(z)
    <3>1. ASSUME SomeoneAsks PROVE out' = out
      <4>1. PICK z, ip, r : Arrive(z, ip, r)
        BY <3>1, Arrivals
      <4> QED
        BY <4>1 DEF Arrive
    <3>2. ASSUME NEW z \in Slots, Handle(z), ~Logout(z) PROVE out' = out
      BY <3>2
      DEF Handle, RegisterLooksUp, RegisterInserts, RegisterCollides, LoginLooksUp,
          LoginCreatesSession, Authenticate, CreatePortfolio, ListPortfolios,
          CheckOwnership, ServePortfolio, StatementFails, history
    <3>3. ASSUME ClockTicks \/ UNCHANGED vars PROVE out' = out
      BY <3>3 DEF ClockTicks, history, vars
    <3> QED
      BY <3>1, <3>2, <3>3 DEF Next
  <2>4. out \subseteq out' /\ \A id \in out' : sessions'[id].revoked
    <3>1. CASE out' = out
      BY <2>2, <3>1
    <3>2. ASSUME NEW z \in Slots, Logout(z)
          PROVE  out \subseteq out' /\ \A id \in out' : sessions'[id].revoked
      <4>1. /\ out' = out \cup {req[z].sess}
            /\ sessions' = [sessions EXCEPT ![req[z].sess].revoked = TRUE]
            /\ req[z].at = "handler"
        BY <3>2 DEF Logout, Handles
      <4>2. req[z].sess \in DOMAIN sessions
        BY <2>1, <4>1 DEF RequestsOK, IsGrounded
      <4>3. sessions \in [DOMAIN sessions -> SessionRows]
        BY <2>1 DEF TablesOK
      <4>4. sessions'[req[z].sess].revoked
        BY <4>1, <4>2, <4>3 DEF SessionRows
      <4> QED
        BY <2>2, <4>1, <4>4
    <3> QED
      BY <2>3, <3>1, <3>2
  <2>5. ASSUME NEW s \in Slots, req'[s].late
        PROVE  req'[s].sess \in out' /\ req'[s].at \in {"free", "auth"}
    <3>1. CASE req'[s] = req[s]
      BY <2>4, <2>5, <3>1 DEF LogoutInv, LogoutIsFinal
    <3>2. CASE req'[s].at = "auth" /\ req'[s].sess \in out
      BY <2>4, <3>2
    <3>3. CASE /\ req[s].late /\ req'[s].sess = req[s].sess
               /\ req[s].at = "auth" => Valid(req[s].sess)
               /\ req[s].at # "free"
      BY <3>3 DEF LogoutInv, LogoutIsFinal, Valid
    <3> QED
      BY <2>5, <3>1, <3>2, <3>3, LateSteps
  <2> QED
    BY <2>4, <2>5 DEF LogoutInv, LogoutIsFinal
<1>3. LogoutInv => LogoutIsFinal
  BY DEF LogoutInv
<1> QED
  BY InitTypeInv, NextTypeInv, <1>1, <1>2, <1>3, PTL DEF Spec

-----------------------------------------------------------------------------
(* Registration.                                                           *)

\* The account a registration was answered with.
IsKept(r) == \E u \in DOMAIN users : users[u] = Row(r)

\* What was answered 201 is in the table, and stays there.
LEMMA RegistrationIsKept == Spec => [](\A r \in registered : IsKept(r))
<1> DEFINE Kept == \A r \in registered : IsKept(r)
<1>1. Init => Kept
  BY DEF Init
<1>2. TypeInv /\ Kept /\ [Next]_vars => Kept'
  <2> SUFFICES ASSUME TypeInv, Kept, [Next]_vars PROVE Kept'
    OBVIOUS
  <2>1. TablesGrow
    BY TablesType
  <2>2. ASSUME NEW r, IsKept(r) PROVE IsKept(r)'
    <3> HIDE DEF Row
    <3>1. PICK u \in DOMAIN users : users[u] = Row(r)
      BY <2>2 DEF IsKept
    <3>2. u \in DOMAIN users' /\ users'[u] = Row(r)
      BY <2>1, <3>1 DEF TablesGrow
    <3> QED
      BY <3>2 DEF IsKept
  <2>3. CASE UNCHANGED registered
    BY <2>2, <2>3
  <2>4. ASSUME NEW s \in Slots, RegisterInserts(s) PROVE Kept'
    <3>a. PICK q : q = [mail |-> req[s].mail, text |-> req[s].text]
      OBVIOUS
    <3>1. registered' = registered \cup {q} /\ InsertUser(req[s])
      BY <2>4, <3>a DEF RegisterInserts
    <3>2. Row(req[s]) = Row(q)
      BY <3>a DEF Row
    <3>3. \E u \in DOMAIN users' : users'[u] = Row(q)
      BY <3>1, <3>2 DEF InsertUser, With
    <3>4. IsKept(q)'
      BY <3>3 DEF IsKept, Row
    <3> QED
      BY <2>2, <3>1, <3>4
  <2>5. ASSUME SomeoneAsks PROVE UNCHANGED registered
    <3>1. PICK z, ip, r : Arrive(z, ip, r)
      BY <2>5, Arrivals
    <3> QED
      BY <3>1 DEF Arrive
  <2>6. ASSUME NEW s \in Slots, Handle(s), ~RegisterInserts(s)
        PROVE  UNCHANGED registered
    BY <2>6
    DEF Handle, RegisterLooksUp, RegisterCollides, LoginLooksUp, Logout,
        LoginCreatesSession, Authenticate, CreatePortfolio, ListPortfolios,
        CheckOwnership, ServePortfolio, StatementFails, history
  <2>7. ASSUME ClockTicks \/ UNCHANGED vars PROVE UNCHANGED registered
    BY <2>7 DEF ClockTicks, history, vars
  <2> QED
    BY <2>3, <2>4, <2>5, <2>6, <2>7 DEF Next
<1> QED
  BY InitTypeInv, NextTypeInv, <1>1, <1>2, PTL DEF Spec

\* Who registered can log in with the password as it was stored, without the
\* space around it.
THEOREM TrimmedPasswordLogsIn ==
  Spec => [](\A r \in registered : Accepts(r.mail, Trimmed[r.text]) # {})
<1>1. (\A r \in registered : IsKept(r))
        => \A r \in registered : Accepts(r.mail, Trimmed[r.text]) # {}
  BY DEF IsKept, Row, Accepts, HasMail
<1> QED
  BY RegistrationIsKept, <1>1, PTL

\* ... and so with what he typed, if no password has space around it.
THEOREM RegisteredLogIn ==
  ASSUME \A text \in DOMAIN Trimmed : Trimmed[text] = text
  PROVE  Spec => []RegisteredCanLogIn
<1>1. TypeOK /\ (\A r \in registered : Accepts(r.mail, Trimmed[r.text]) # {})
        => RegisteredCanLogIn
  BY DEF TypeOK, RegisteredCanLogIn
<1> QED
  BY TypeCorrect, TrimmedPasswordLogsIn, <1>1, PTL

-----------------------------------------------------------------------------
(* The limiter.                                                            *)

\* What a bucket holds is the least that the burst and the admissions since
\* any instant leave, and counts begin when their instant comes.
Balanced(b, f, n) ==
  /\ \A t \in 0..n : Sums(f)[n + 1] - Sums(f)[t] <= Burst + n - t - Left(b, n)
  /\ \E t \in 0..n : Sums(f)[n + 1] - Sums(f)[t] = Burst + n - t - Left(b, n)
  /\ \A t \in 0..MaxNow : t > n => f[t] = 0

\* One request more is admitted.
LEMMA DrawKeepsBalance ==
  ASSUME NEW n \in 0..MaxNow, NEW b \in Buckets(n), Left(b, n) > 0,
         NEW f \in [0..MaxNow -> Nat], Balanced(b, f, n)
  PROVE  Balanced([tokens |-> Left(b, n) - 1, seen |-> n],
                  [f EXCEPT ![n] = @ + 1], n)
<1> DEFINE c == [tokens |-> Left(b, n) - 1, seen |-> n]
           g == [f EXCEPT ![n] = @ + 1]
<1>0. MaxNow \in Nat /\ Burst \in Nat /\ n \in Nat /\ n \in 0..n
  BY AccountsAssumption
<1>1. Left(b, n) \in 0..Burst /\ Left(b, n) - 1 \in 0..Burst
  BY <1>0, LeftFacts
<1>2. c \in Buckets(n) /\ c.tokens = Left(b, n) - 1 /\ c.seen = n
  BY <1>0, <1>1 DEF Buckets
<1>3. /\ g \in [0..MaxNow -> Nat] /\ g[n] = f[n] + 1 /\ f[n] \in Nat
      /\ \A t \in 0..MaxNow : t # n => g[t] = f[t]
  BY <1>0
<1> HIDE DEF c, g
<1>4. Left(c, n) = Left(b, n) - 1
  BY <1>0, <1>1, <1>2, LeftFacts
<1>5. \A t \in 0..n : Sums(f)[t] \in Nat /\ Sums(g)[t] = Sums(f)[t]
  <2>1. n \in 0..MaxNow + 1 /\ \A t \in 0..MaxNow : t < n => f[t] = g[t]
    BY <1>0, <1>3
  <2> QED
    BY <1>3, <2>1, SumsAgree
<1>6. Sums(g)[n + 1] = Sums(f)[n + 1] + 1 /\ Sums(f)[n + 1] \in Nat
  <2>1. Sums(g)[n + 1] = Sums(g)[n] + g[n] /\ Sums(f)[n + 1] = Sums(f)[n] + f[n]
    BY <1>3, SumSteps
  <2>2. Sums(g)[n] = Sums(f)[n] /\ Sums(f)[n] \in Nat
    BY <1>0, <1>5
  <2> QED
    BY <1>3, <2>1, <2>2
<1>7. \A t \in 0..MaxNow : t > n => g[t] = 0
  BY <1>0, <1>3 DEF Balanced
<1>8. ASSUME NEW t \in 0..n
      PROVE  Sums(g)[n + 1] - Sums(g)[t] = (Sums(f)[n + 1] - Sums(f)[t]) + 1
  BY <1>5, <1>6
<1>9. \A t \in 0..n : Sums(g)[n + 1] - Sums(g)[t] <= Burst + n - t - Left(c, n)
  <2> TAKE t \in 0..n
  <2>1. Sums(f)[n + 1] - Sums(f)[t] <= Burst + n - t - Left(b, n)
    BY DEF Balanced
  <2>2. PICK x, y, l, k : /\ x = Sums(f)[n + 1] - Sums(f)[t] /\ y = Sums(g)[n + 1] - Sums(g)[t]
                          /\ l = Left(b, n) /\ k = Left(c, n)
    OBVIOUS
  <2>3. x \in Int /\ y = x + 1 /\ x <= Burst + n - t - l
    BY <1>5, <1>6, <1>8, <2>1, <2>2
  <2>4. l \in Int /\ k \in Int /\ k = l - 1
    BY <1>0, <1>1, <1>4, <2>2
  <2>5. y <= Burst + n - t - k
    BY <1>0, <2>3, <2>4
  <2> QED
    BY <2>2, <2>5
<1>10. \E t \in 0..n : Sums(g)[n + 1] - Sums(g)[t] = Burst + n - t - Left(c, n)
  <2>1. PICK t \in 0..n : Sums(f)[n + 1] - Sums(f)[t] = Burst + n - t - Left(b, n)
    BY DEF Balanced
  <2>2. PICK x, y, l, k : /\ x = Sums(f)[n + 1] - Sums(f)[t] /\ y = Sums(g)[n + 1] - Sums(g)[t]
                          /\ l = Left(b, n) /\ k = Left(c, n)
    OBVIOUS
  <2>3. y = x + 1 /\ x = Burst + n - t - l
    BY <1>8, <2>1, <2>2
  <2>4. l \in Int /\ k \in Int /\ k = l - 1
    BY <1>0, <1>1, <1>4, <2>2
  <2>5. y = Burst + n - t - k
    BY <1>0, <2>3, <2>4
  <2> QED
    BY <2>2, <2>5
<1>11. Balanced(c, g, n)
  BY <1>7, <1>9, <1>10 DEF Balanced
<1> QED
  BY <1>11 DEF c, g

\* An instant passes.
LEMMA TickKeepsBalance ==
  ASSUME NEW n \in 0..MaxNow, n + 1 \in 0..MaxNow, NEW b \in Buckets(n),
         NEW f \in [0..MaxNow -> Nat], Balanced(b, f, n)
  PROVE  Balanced(b, f, n + 1)
<1> DEFINE m == n + 1
<1>0. MaxNow \in Nat /\ Burst \in Nat /\ n \in Nat /\ m \in Nat
  BY AccountsAssumption
<1>1. b \in Buckets(m) /\ b.tokens \in Nat /\ b.seen \in Nat /\ b.seen <= n
  BY <1>0 DEF Buckets
<1>2. /\ Left(b, n) = IF Burst <= b.tokens + n - b.seen THEN Burst
                      ELSE b.tokens + n - b.seen
      /\ Left(b, m) = IF Burst <= b.tokens + m - b.seen THEN Burst
                      ELSE b.tokens + m - b.seen
  BY <1>0, <1>1, LeftFacts
<1>3. /\ Left(b, n) \in 0..Burst /\ Left(b, m) \in 0..Burst
      /\ Left(b, m) <= Left(b, n) + 1
      /\ Left(b, m) = Burst \/ Left(b, m) = Left(b, n) + 1
  <2>1. Left(b, n) \in 0..Burst /\ Left(b, m) \in 0..Burst
    BY <1>0, <1>1, LeftFacts
  <2>2. b.tokens + m - b.seen = b.tokens + n - b.seen + 1
    <3>1. \A x, y \in Nat : x + m - y = x + n - y + 1
      BY <1>0
    <3> QED
      BY <1>1, <3>1
  <2>3. b.tokens + n - b.seen \in Int
    BY <1>0, <1>1
  <2> QED
    BY <1>0, <1>2, <2>1, <2>2, <2>3
<1>4. f[m] = 0
  BY <1>0 DEF Balanced
<1>5. \A t \in 0..m + 1 : Sums(f)[t] \in Nat
  <2>1. m + 1 \in 0..MaxNow + 1
    BY <1>0
  <2> QED
    BY <2>1, SumsAgree
<1>6. Sums(f)[m + 1] = Sums(f)[m]
  <2>1. Sums(f)[m + 1] = Sums(f)[m] + f[m]
    BY SumSteps
  <2>2. Sums(f)[m] \in Nat
    BY <1>0, <1>5
  <2> QED
    BY <1>4, <2>1, <2>2
<1>7. \A t \in 0..MaxNow : t > m => f[t] = 0
  BY <1>0 DEF Balanced
<1>8. \A t \in 0..n : Sums(f)[n + 1] - Sums(f)[t] <= Burst + n - t - Left(b, n)
  BY DEF Balanced
<1>9. \A t \in 0..n : Sums(f)[m + 1] - Sums(f)[t] \in Int /\ t \in 0..m
  BY <1>0, <1>5
<1>10. ASSUME NEW t \in 0..m
       PROVE  Sums(f)[m + 1] - Sums(f)[t] <= Burst + m - t - Left(b, m)
  <2>1. CASE t = m
    <3>1. Sums(f)[m + 1] - Sums(f)[t] = 0
      <4>1. \A x \in Nat : x - x = 0
        OBVIOUS
      <4> QED
        BY <1>5, <1>6, <2>1, <4>1
    <3>2. PICK k : k = Left(b, m)
      OBVIOUS
    <3>3. 0 <= Burst + m - m - k
      BY <1>0, <1>3, <3>2
    <3> QED
      BY <2>1, <3>1, <3>2, <3>3
  <2>2. CASE t # m
    <3>1. t \in 0..n
      BY <1>0, <2>2
    <3>2. Sums(f)[m + 1] - Sums(f)[t] <= Burst + n - t - Left(b, n)
      BY <1>6, <1>8, <3>1
    <3>3. PICK x, l, k : /\ x = Sums(f)[m + 1] - Sums(f)[t]
                         /\ l = Left(b, n) /\ k = Left(b, m)
      OBVIOUS
    <3>4. /\ x \in Int /\ l \in 0..Burst /\ k \in 0..Burst /\ k <= l + 1
          /\ x <= Burst + n - t - l
      BY <1>3, <1>9, <3>1, <3>2, <3>3
    <3>5. x <= Burst + m - t - k
      BY <1>0, <3>1, <3>4
    <3> QED
      BY <3>3, <3>5
  <2> QED
    BY <2>1, <2>2
<1>11. \E t \in 0..m : Sums(f)[m + 1] - Sums(f)[t] = Burst + m - t - Left(b, m)
  <2>1. CASE Left(b, m) = Burst
    <3>1. m \in 0..m /\ Sums(f)[m + 1] - Sums(f)[m] = 0
      BY <1>0, <1>5, <1>6
    <3>2. Burst + m - m - Left(b, m) = 0
      BY <1>0, <2>1
    <3> QED
      BY <3>1, <3>2
  <2>2. CASE Left(b, m) = Left(b, n) + 1
    <3>1. PICK t \in 0..n : Sums(f)[n + 1] - Sums(f)[t] = Burst + n - t - Left(b, n)
      BY DEF Balanced
    <3>2. Sums(f)[m + 1] - Sums(f)[t] = Burst + n - t - Left(b, n)
      BY <1>6, <3>1
    <3>3. PICK l, k : l = Left(b, n) /\ k = Left(b, m)
      OBVIOUS
    <3>4. l \in 0..Burst /\ k = l + 1
      BY <1>3, <2>2, <3>3
    <3>5. Burst + n - t - l = Burst + m - t - k
      BY <1>0, <3>4
    <3> QED
      BY <1>9, <3>2, <3>3, <3>5
  <2> QED
    BY <1>3, <2>1, <2>2
<1> QED
  BY <1>7, <1>10, <1>11 DEF Balanced

BalanceInv ==
  \A c \in RouteClasses, ip \in Clients : Balanced(bucket[c][ip], passed[c][ip], now)

\* The sum over an instant is the admissions of that instant on.
LEMMA BalanceBounds ==
  ASSUME LimiterOK, BalanceInv
  PROVE  AdmittedUpToTheBound
<1> SUFFICES ASSUME NEW c \in RouteClasses, NEW ip \in Clients
             PROVE  /\ \A t \in 0..now : Since(c, ip, t) <= Burst + now - t
                    /\ ~Admits(c, ip) => \E t \in 0..now : Since(c, ip, t) = Burst + now - t
  BY DEF AdmittedUpToTheBound
<1> DEFINE b == bucket[c][ip]
           f == passed[c][ip]
<1>1. /\ now \in Nat /\ MaxNow \in Nat /\ Burst \in Nat /\ now \in 0..MaxNow
      /\ b \in Buckets(now) /\ f \in [0..MaxNow -> Nat]
  BY AccountsAssumption DEF LimiterOK, Buckets
<1>2. Balanced(b, f, now)
  BY DEF BalanceInv
<1>3. /\ \A t : Since(c, ip, t) = Sums(f)[now + 1] - Sums(f)[t]
      /\ Admits(c, ip) <=> Left(b, now) > 0
  BY DEF Since, Admits, Tokens, Left
<1> HIDE DEF b, f
<1>4. Left(b, now) \in 0..Burst
  BY <1>1, LeftFacts
<1>5. \A t \in 0..now + 1 : Sums(f)[t] \in Nat
  <2>1. now + 1 \in 0..MaxNow + 1
    BY <1>1
  <2> QED
    BY <1>1, <2>1, SumsAgree
<1>6. ASSUME NEW t \in 0..now PROVE Since(c, ip, t) <= Burst + now - t
  <2>1. Sums(f)[now + 1] - Sums(f)[t] <= Burst + now - t - Left(b, now)
    BY <1>2 DEF Balanced
  <2>2. Sums(f)[now + 1] \in Nat /\ Sums(f)[t] \in Nat
    BY <1>1, <1>5
  <2>3. PICK x, l : x = Sums(f)[now + 1] - Sums(f)[t] /\ l = Left(b, now)
    OBVIOUS
  <2>4. x \in Int /\ l \in 0..Burst /\ x <= Burst + now - t - l
    BY <1>4, <2>1, <2>2, <2>3
  <2>5. x <= Burst + now - t
    BY <1>1, <2>4
  <2> QED
    BY <1>3, <2>3, <2>5
<1>7. ASSUME ~Admits(c, ip)
      PROVE  \E t \in 0..now : Since(c, ip, t) = Burst + now - t
  <2>1. PICK t \in 0..now :
          Sums(f)[now + 1] - Sums(f)[t] = Burst + now - t - Left(b, now)
    BY <1>2 DEF Balanced
  <2>2. Left(b, now) = 0
    BY <1>3, <1>4, <1>7, <1>1
  <2> QED
    BY <1>1, <1>3, <2>1, <2>2
<1> QED
  BY <1>6, <1>7

\* From any instant on, a client is admitted up to the burst and the refill, and
\* refused only at that bound, for any number of clients and requests.
THEOREM LimiterBound == Spec => []AdmittedUpToTheBound
<1>1. Init => BalanceInv
  <2> SUFFICES ASSUME Init, NEW c \in RouteClasses, NEW ip \in Clients
               PROVE  Balanced(bucket[c][ip], passed[c][ip], now)
    BY DEF BalanceInv
  <2> DEFINE f == [t \in 0..MaxNow |-> 0]
  <2>1. bucket[c][ip] = Full /\ passed[c][ip] = f /\ now = 0
    BY DEF Init
  <2>2. Burst \in Nat /\ MaxNow \in Nat /\ 0 \in 0..MaxNow
    BY AccountsAssumption
  <2>3. Full \in Buckets(0) /\ Full.tokens = Burst /\ Full.seen = 0
    BY <2>2 DEF Full, Buckets
  <2>4. f \in [0..MaxNow -> Nat] /\ \A t \in 0..MaxNow : f[t] = 0
    OBVIOUS
  <2> HIDE DEF f, Full
  <2>5. Left(Full, 0) = Burst
    BY <2>2, <2>3, LeftFacts
  <2>6. Sums(f)[0] = 0 /\ Sums(f)[0 + 1] = Sums(f)[0] + f[0]
    BY <2>2, <2>4, SumSteps
  <2>7. Sums(f)[0] = 0 /\ Sums(f)[0 + 1] = 0
    BY <2>2, <2>4, <2>6
  <2>8. \A t \in 0..0 : t = 0
    OBVIOUS
  <2>9. Balanced(Full, f, 0)
    BY <2>2, <2>4, <2>5, <2>7, <2>8 DEF Balanced
  <2> QED
    BY <2>1, <2>9
<1>2. TypeInv /\ BalanceInv /\ [Next]_vars => BalanceInv'
  <2> SUFFICES ASSUME TypeInv, BalanceInv, [Next]_vars,
                      NEW d \in RouteClasses, NEW i \in Clients
               PROVE  Balanced(bucket'[d][i], passed'[d][i], now')
    BY DEF BalanceInv
  <2>0. LimiterOK
    BY TypeInvParts
  <2>1. /\ bucket[d][i] \in Buckets(now) /\ passed[d][i] \in [0..MaxNow -> Nat]
        /\ now \in 0..MaxNow /\ Balanced(bucket[d][i], passed[d][i], now)
    BY <2>0 DEF LimiterOK, Buckets, BalanceInv
  <2>2. ASSUME NEW s \in Slots, NEW ip \in Clients, NEW r, r.kind \in Kinds, Arrive(s, ip, r)
        PROVE  Balanced(bucket'[d][i], passed'[d][i], now')
    <3> DEFINE c == ClassOf(r.kind)
               b == [tokens |-> Left(bucket[c][ip], now) - 1, seen |-> now]
               f == [passed[c][ip] EXCEPT ![now] = @ + 1]
    <3>1. c \in RouteClasses
      BY DEF ClassOf, RouteClasses
    <3>2. /\ bucket' = [bucket EXCEPT ![c][ip] = b]
          /\ passed' = [passed EXCEPT ![c][ip] = f]
          /\ Left(bucket[c][ip], now) > 0
          /\ now' = now
      BY <2>2 DEF Arrive, Draw, Admits, Tokens, Left
    <3> HIDE DEF c
    <3>3. CASE d = c /\ i = ip
      <4>1. Left(bucket[d][i], now) > 0
        BY <3>2, <3>3
      <4>2. Balanced([tokens |-> Left(bucket[d][i], now) - 1, seen |-> now],
                     [passed[d][i] EXCEPT ![now] = @ + 1], now)
        BY <2>1, <4>1, DrawKeepsBalance
      <4> HIDE DEF b, f
      <4>3. bucket'[d][i] = b /\ passed'[d][i] = f
        BY <2>0, <3>2, <3>3 DEF LimiterOK
      <4> QED
        BY <3>2, <3>3, <4>2, <4>3 DEF b, f
    <3>4. CASE ~(d = c /\ i = ip)
      <4> HIDE DEF b, f
      <4>1. bucket'[d][i] = bucket[d][i] /\ passed'[d][i] = passed[d][i]
        BY <2>0, <3>1, <3>2, <3>4 DEF LimiterOK
      <4> QED
        BY <2>1, <3>2, <4>1
    <3> QED
      BY <3>3, <3>4
  <2>3. CASE ClockTicks
    <3>1. /\ now' = now + 1 /\ now + 1 \in 0..MaxNow
          /\ bucket' = bucket /\ passed' = passed
      BY <2>0, <2>3, AccountsAssumption DEF ClockTicks, history, LimiterOK
    <3> QED
      BY <2>1, <3>1, TickKeepsBalance
  <2>4. CASE UNCHANGED <<bucket, now, arrived, passed>>
    BY <2>1, <2>4
  <2> QED
    BY <2>2, <2>3, <2>4, LimiterSteps
<1>3. TypeInv /\ BalanceInv => AdmittedUpToTheBound
  BY TypeInvParts, BalanceBounds
<1> QED
  BY InitTypeInv, NextTypeInv, <1>1, <1>2, <1>3, PTL DEF Spec
=============================================================================
