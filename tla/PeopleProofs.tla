---------------------------- MODULE PeopleProofs -----------------------------
(* Proofs about the components behind people's requests, each on its own      *)
(* behaviours and for every value of its constants: Accounts, Registry,       *)
(* ChatTurn, ModelSettings, HttpRateLimit and SearchPipeline. The invariant of each comes     *)
(* with its section; the last section puts them together.                     *)
EXTENDS MCPeople, FiniteSetTheorems, SequenceTheorems, WellFoundedInduction, TLAPS

-----------------------------------------------------------------------------
(* Accounts.                                                                  *)

Status == Statuses \cup {"active"}
Row == [exists : BOOLEAN, role : {"user", "admin"}, status : Status,
        verified : BOOLEAN, password : Nat, google : BOOLEAN]
Link == [kind : {"verify", "reset"}, user : Users, fp : Nat, hash : Nat]
Op == {"register", "verify", "google", "reset", "admin"}
Req == [op : Op, user : Users, old : Row, new : Row, admins : SUBSET Users, link : Nat]

(* The columns of the table, the links, and what an open request holds.       *)
AccountsTyped ==
    /\ users \in [Users -> Row]
    /\ links \subseteq Link
    /\ sessions \subseteq Users
    /\ request \in [Requests -> Req \cup {Idle}]
    /\ hashes \in 0..MaxHash
    /\ replaced \in [1..MaxHash -> Nat]
    /\ raced \in BOOLEAN

-----------------------------------------------------------------------------
(* No open request is the value that says a slot is free.                     *)
LEMMA IdleIsNoReq == Idle \notin Req
  BY DEF Idle, Req

(* What a commit leaves in a row: each column the request changed, and the    *)
(* others as they are.                                                        *)
LEMMA FlushedColumns ==
    ASSUME NEW row \in Row, NEW req \in Req
    PROVE  LET after == Flushed(row, req) IN
           /\ after \in Row
           /\ after.exists = IF req.old.exists # req.new.exists THEN req.new.exists ELSE row.exists
           /\ after.role = IF req.old.role # req.new.role THEN req.new.role ELSE row.role
           /\ after.status = IF req.old.status # req.new.status THEN req.new.status ELSE row.status
           /\ after.password = IF req.old.password # req.new.password THEN req.new.password
                               ELSE row.password
  BY DEF Flushed, Row, Req

-----------------------------------------------------------------------------
(* What is true of an open request, whatever happens to the table meanwhile:  *)
(* only an admin's changes role or status, only a registration or a reset the *)
(* password, and the guards of a demotion held when it was read.              *)
Sound(q) ==
    /\ q.new.exists
    /\ q.op # "admin" => q.new.role = q.old.role /\ q.new.status = q.old.status
    /\ q.op \notin {"register", "reset"} => q.new.password = q.old.password
    /\ ~q.old.exists => q.old = NoRow
    /\ q.op = "register" => ~q.old.exists
    /\ q.op = "admin" =>
          /\ q.old.exists
          /\ q.user \in q.admins <=> ActiveAdmin(q.old)
          /\ ActiveAdmin(q.old) /\ IsDemotion(q.old, q.new) => ~(Cardinality(q.admins) <= 1)
    /\ q.op = "reset" =>
          /\ q.old.exists
          /\ q.link = q.old.password
          /\ q.link \in 1..MaxHash
          /\ q.new.password # q.old.password

(* A reset link was mailed for a password of a known hash.                    *)
LinksSound ==
    \A l \in links : l.kind = "reset" => l.fp = l.hash /\ l.hash \in 1..MaxHash

RequestsSound == \A r \in Requests : request[r] # Idle => Sound(request[r])

(* No password has a hash that was never made.                                *)
HashesKnown ==
    /\ \A u \in Users : users[u].password <= hashes
    /\ \A r \in Requests : request[r] # Idle =>
          request[r].new.password <= hashes /\ request[r].old.password <= hashes
    /\ \A h \in 1..MaxHash : hashes < h => replaced[h] = 0

BaseInv == AccountsTyped /\ LinksSound /\ RequestsSound /\ HashesKnown

(* A request is opened: it is sound, it makes a new hash or keeps the one it  *)
(* read, and nothing but the open requests and the count of hashes changes.   *)
Opens(r, q) ==
    /\ q \in Req /\ Sound(q)
    /\ request[r] = Idle
    /\ request' = [request EXCEPT ![r] = q]
    /\ q.old.password \in {0, users[q.user].password}
    /\ \/ /\ hashes < MaxHash /\ hashes' = hashes + 1
          /\ q.new.password = hashes + 1
       \/ hashes' = hashes /\ q.new.password = q.old.password
    /\ UNCHANGED <<users, links, sessions, replaced, raced>>

(* A link is mailed, or somebody logs in.                                     *)
Notes ==
    /\ UNCHANGED <<users, request, hashes, replaced, raced>>
    /\ sessions' \subseteq Users
    /\ links' \subseteq Link
    /\ \A l \in links' \ links : l.kind = "reset" =>
          l.fp = l.hash /\ l.hash = users[l.user].password /\ l.hash # 0

(* A row with one column set is a row.                                        *)
LEMMA RowWith ==
    ASSUME StatusesAssumption, NEW row \in Row, NEW role \in {"user", "admin"},
           NEW s \in Statuses, NEW h \in Nat
    PROVE  /\ NoRow \in Row
           /\ [NoRow EXCEPT !.exists = TRUE, !.password = h] \in Row
           /\ [NoRow EXCEPT !.exists = TRUE, !.verified = TRUE, !.google = TRUE] \in Row
           /\ [row EXCEPT !.verified = TRUE] \in Row
           /\ [row EXCEPT !.google = TRUE, !.verified = TRUE] \in Row
           /\ [row EXCEPT !.password = h] \in Row
           /\ [row EXCEPT !.role = role] \in Row
           /\ [row EXCEPT !.status = s] \in Row
  BY DEF Row, NoRow, Status, StatusesAssumption

(* What a request holds is typed, whoever opens it.                           *)
LEMMA OpenIsReq ==
    ASSUME NEW op \in Op, NEW u \in Users, NEW old \in Row, NEW new \in Row,
           NEW admins \in SUBSET Users, NEW h \in Nat
    PROVE  /\ Open(op, u, old, new) \in Req
           /\ [Open(op, u, old, new) EXCEPT !.admins = admins] \in Req
           /\ [Open(op, u, old, new) EXCEPT !.link = h] \in Req
  BY DEF Open, Req

(* Every step notes something, opens a sound request, or commits one.         *)
LEMMA StepKinds ==
    ASSUME StatusesAssumption, BaseInv, [Next]_vars
    PROVE  \/ Notes
           \/ \E r \in Requests, q \in Req : Opens(r, q)
           \/ \E r \in Requests : Commit(r)
<1> USE DEF BaseInv, AccountsTyped
<1>1. ASSUME NEW u \in Users, ResendVerification(u) \/ Login(u) \/ ForgotPassword(u) PROVE Notes
  <2>1. CASE ResendVerification(u)
    BY <2>1 DEF ResendVerification, Notes, VerifyLink, Link
  <2>2. CASE Login(u)
    BY <2>2 DEF Login, Notes
  <2>3. CASE ForgotPassword(u)
    <3>1. users[u].password \in Nat
      BY DEF Row
    <3> QED BY <2>3, <3>1 DEF ForgotPassword, Notes, Fingerprint, Link
  <2> QED BY <1>1, <2>1, <2>2, <2>3
<1>2. ASSUME NEW r \in Requests, NEW u \in Users, Register(r, u) PROVE \E q \in Req : Opens(r, q)
  <2> DEFINE new == [NoRow EXCEPT !.exists = TRUE, !.password = hashes + 1]
             q == Open("register", u, NoRow, new)
  <2> hashes + 1 \in Nat
    OBVIOUS
  <2>1. NoRow \in Row /\ new \in Row
    BY DEF Row, NoRow, Status
  <2>2. q \in Req
    BY <2>1 DEF Open, Req, Op
  <2>3. Sound(q)
    BY DEF Sound, Open, NoRow
  <2>4. Opens(r, q)
    BY <1>2, <2>2, <2>3 DEF Opens, Register, Hash, Start, Free, Open, NoRow
  <2> QED BY <2>2, <2>4
<1>3. ASSUME NEW r \in Requests, NEW u \in Users, GoogleLogin(r, u)
      PROVE  Notes \/ \E q \in Req : Opens(r, q)
  <2> DEFINE row == users[u]
             linked == [row EXCEPT !.google = TRUE, !.verified = TRUE]
             created == [NoRow EXCEPT !.exists = TRUE, !.verified = TRUE, !.google = TRUE]
  <2>1. CASE sessions' = sessions \cup {u} /\ UNCHANGED request
    BY <1>3, <2>1 DEF GoogleLogin, Notes
  <2>2. CASE row.exists /\ Start(r, Open("google", u, row, linked)) /\ UNCHANGED sessions
    <3> DEFINE q == Open("google", u, row, linked)
    <3>1. q \in Req
      <4>1. row \in Row /\ linked \in Row
        BY DEF Row
      <4>2. "google" \in Op
        BY DEF Op
      <4> QED BY <4>1, <4>2, OpenIsReq
    <3>2. Sound(q)
      BY <2>2 DEF Sound, Open, Row
    <3>3. q.old.password = users[q.user].password /\ q.new.password = q.old.password
      BY DEF Open, Row
    <3>4. Opens(r, q)
      BY <1>3, <2>2, <3>1, <3>2, <3>3 DEF Opens, GoogleLogin, Start, Free
    <3> QED BY <3>1, <3>4
  <2>3. CASE Start(r, Open("google", u, NoRow, created)) /\ UNCHANGED sessions
    <3> DEFINE q == Open("google", u, NoRow, created)
    <3>1. q \in Req
      BY DEF Open, Req, Op, Row, NoRow, Status
    <3>2. Sound(q)
      BY DEF Sound, Open, NoRow
    <3>3. q.old.password = 0 /\ q.new.password = q.old.password
      BY DEF Open, NoRow
    <3>4. Opens(r, q)
      BY <1>3, <2>3, <3>1, <3>2, <3>3 DEF Opens, GoogleLogin, Start, Free
    <3> QED BY <3>1, <3>4
  <2> QED BY <1>3, <2>1, <2>2, <2>3 DEF GoogleLogin
<1>4. ASSUME NEW r \in Requests, NEW l \in links, VerifyEmail(r, l) PROVE \E q \in Req : Opens(r, q)
  <2> DEFINE row == users[l.user]
             q == Open("verify", l.user, row, [row EXCEPT !.verified = TRUE])
  <2>1. l.user \in Users /\ row \in Row
    BY DEF Link
  <2>2. q \in Req
    BY <2>1 DEF Open, Req, Op, Row
  <2>3. Sound(q)
    BY <1>4, <2>1 DEF Sound, Open, Row, VerifyEmail
  <2>4. q.old.password = users[q.user].password /\ q.new.password = q.old.password
    BY <2>1 DEF Open, Row
  <2>5. Opens(r, q)
    BY <1>4, <2>2, <2>3, <2>4 DEF Opens, VerifyEmail, Start, Free
  <2> QED BY <2>2, <2>5
<1>5. ASSUME NEW r \in Requests, NEW l \in links, ResetPassword(r, l)
       PROVE \E q \in Req : Opens(r, q)
  <2> DEFINE row == users[l.user]
             q == [Open("reset", l.user, row, [row EXCEPT !.password = hashes + 1])
                      EXCEPT !.link = l.hash]
  <2>1. l.user \in Users /\ row \in Row /\ l.hash \in Nat /\ hashes + 1 \in Nat
    BY DEF Link
  <2>2. q \in Req
    BY <2>1 DEF Open, Req, Op, Row
  <2>3. l.hash = row.password /\ l.hash \in 1..MaxHash
    BY <1>5 DEF ResetPassword, LinksSound, Fingerprint
  <2>4. Sound(q)
    <3>1. row.password \in Nat /\ row.password # hashes + 1
      BY <2>1 DEF HashesKnown, Row
    <3> QED BY <1>5, <2>1, <2>3, <3>1 DEF Sound, Open, Row, ResetPassword
  <2>5. q.old.password = users[q.user].password /\ q.new.password = hashes + 1
    BY <2>1 DEF Open, Row
  <2>6. Opens(r, q)
    BY <1>5, <2>2, <2>4, <2>5 DEF Opens, ResetPassword, Hash, Start, Free
  <2> QED BY <2>2, <2>6
<1>6. ASSUME NEW r \in Requests, NEW by \in Users, NEW u \in Users, NEW new \in Row,
             Update(r, by, u, new),
             new.exists = users[u].exists, new.password = users[u].password
      PROVE  \E q \in Req : Opens(r, q)
  <2> DEFINE q == [Open("admin", u, users[u], new) EXCEPT !.admins = CountedAdmins]
  <2>1. q \in Req
    BY DEF Open, Req, Op, CountedAdmins
  <2>2. /\ q.op = "admin" /\ q.user = u /\ q.old = users[u] /\ q.new = new
        /\ q.admins = CountedAdmins
    BY DEF Open
  <2>3. users[u].exists /\ u \in q.admins <=> ActiveAdmin(q.old)
    BY <1>6, <2>2 DEF Update, CountedAdmins
  <2>4. Sound(q)
    BY <1>6, <2>2, <2>3 DEF Sound, Update, Allowed
  <2>5. Opens(r, q)
    BY <1>6, <2>1, <2>2, <2>4 DEF Opens, Update, Start, Free
  <2> QED BY <2>1, <2>5
<1>7. ASSUME NEW r \in Requests, NEW by \in Users, NEW u \in Users,
             NEW role \in {"user", "admin"}, UpdateRole(r, by, u, role)
      PROVE  \E q \in Req : Opens(r, q)
  <2> DEFINE new == [users[u] EXCEPT !.role = role]
  <2>1. new \in Row /\ new.exists = users[u].exists /\ new.password = users[u].password
    BY DEF Row
  <2> QED BY <1>6, <1>7, <2>1 DEF UpdateRole
<1>8. ASSUME NEW r \in Requests, NEW by \in Users, NEW u \in Users,
             NEW s \in Statuses, UpdateStatus(r, by, u, s)
      PROVE  \E q \in Req : Opens(r, q)
  <2> DEFINE new == [users[u] EXCEPT !.status = s]
  <2>1. new \in Row /\ new.exists = users[u].exists /\ new.password = users[u].password
    BY DEF Row, Status
  <2> QED BY <1>6, <1>8, <2>1 DEF UpdateStatus
<1>9. CASE UNCHANGED vars
  BY <1>9 DEF vars, Notes
<1> QED BY <1>1, <1>2, <1>3, <1>4, <1>5, <1>7, <1>8, <1>9 DEF Next

-----------------------------------------------------------------------------
(* What a commit does: nothing but close the request, when the unique index   *)
(* fails its INSERT, or else the flush.                                       *)
LEMMA CommitKinds ==
    ASSUME BaseInv, NEW r \in Requests, Commit(r)
    PROVE  LET req == request[r] IN
           /\ req \in Req /\ Sound(req)
           /\ request' = [request EXCEPT ![r] = Idle]
           /\ hashes' = hashes
           /\ \/ UNCHANGED <<users, links, sessions, replaced, raced>>
              \/ /\ ~(~req.old.exists /\ users[req.user].exists)
                 /\ users' = [users EXCEPT ![req.user] = Flushed(users[req.user], req)]
                 /\ \A l \in links' \ links : l \in Link /\ l.kind = "verify"
                 /\ sessions' \subseteq sessions \cup {req.user}
                 /\ replaced' = IF req.op = "reset" THEN [replaced EXCEPT ![req.link] = @ + 1]
                                ELSE replaced
                 /\ raced' = (raced \/ Overtaken(req))
<1>1. request[r] \in Req /\ Sound(request[r])
  BY DEF Commit, Free, BaseInv, AccountsTyped, RequestsSound
<1>2. VerifyLink(request[r].user) \in Link /\ VerifyLink(request[r].user).kind = "verify"
  BY <1>1 DEF VerifyLink, Link, Req
<1> QED BY <1>1, <1>2 DEF Commit, Insert

(* The typing and the soundness of links and requests survive every step.     *)
LEMMA BaseStep ==
    ASSUME StatusesAssumption, MaxHashAssumption, BaseInv, [Next]_vars
    PROVE  BaseInv'
<1> USE DEF MaxHashAssumption
<1>1. CASE Notes
  <2> USE <1>1 DEF Notes, BaseInv
  <2>1. AccountsTyped'
    BY DEF AccountsTyped
  <2>2. LinksSound'
    <3> SUFFICES ASSUME NEW l \in links' \ links, l.kind = "reset" PROVE l.hash \in 1..MaxHash
      BY DEF LinksSound
    <3>1. users[l.user].password \in Nat /\ users[l.user].password <= hashes
      BY DEF AccountsTyped, Link, Row, HashesKnown
    <3> QED BY <3>1 DEF AccountsTyped
  <2>3. RequestsSound' /\ HashesKnown'
    BY DEF RequestsSound, HashesKnown
  <2> QED BY <2>1, <2>2, <2>3
<1>2. ASSUME NEW r \in Requests, NEW q \in Req, Opens(r, q) PROVE BaseInv'
  <2> USE DEF BaseInv
  <2>1. hashes' \in 0..MaxHash /\ hashes <= hashes'
    BY <1>2 DEF Opens, AccountsTyped
  <2>2. AccountsTyped'
    BY <1>2, <2>1 DEF Opens, AccountsTyped
  <2>3. LinksSound'
    BY <1>2 DEF Opens, LinksSound
  <2>4. RequestsSound'
    BY <1>2 DEF Opens, RequestsSound, AccountsTyped
  <2>5. HashesKnown'
    <3>1. q.user \in Users /\ q.old.password \in Nat /\ q.new.password \in Nat
      BY DEF Req, Row
    <3>2. \A u \in Users : users'[u].password \in Nat /\ users'[u].password <= hashes'
      BY <1>2, <2>1 DEF Opens, HashesKnown, AccountsTyped, Row
    <3>3. q.new.password <= hashes' /\ q.old.password <= hashes'
      BY <1>2, <2>1, <3>1, <3>2 DEF Opens, AccountsTyped
    <3>4. ASSUME NEW s \in Requests, request'[s] # Idle
          PROVE  request'[s].new.password <= hashes' /\ request'[s].old.password <= hashes'
      <4>1. CASE s = r
        BY <1>2, <3>3, <4>1 DEF Opens, AccountsTyped
      <4>2. CASE s # r
        <5>1. request'[s] = request[s] /\ request[s] \in Req
          BY <1>2, <3>4, <4>2 DEF Opens, AccountsTyped
        <5>2. request[s].new.password \in Nat /\ request[s].old.password \in Nat
          BY <5>1 DEF Req, Row
        <5>3. request[s].new.password <= hashes /\ request[s].old.password <= hashes
          BY <3>4, <5>1 DEF HashesKnown
        <5> QED BY <2>1, <5>1, <5>2, <5>3 DEF AccountsTyped
      <4> QED BY <4>1, <4>2
    <3>5. \A h \in 1..MaxHash : hashes' < h => replaced'[h] = 0
      BY <1>2, <2>1 DEF Opens, HashesKnown, AccountsTyped
    <3> QED BY <3>2, <3>4, <3>5 DEF HashesKnown
  <2> QED BY <2>2, <2>3, <2>4, <2>5
<1>3. ASSUME NEW r \in Requests, Commit(r) PROVE BaseInv'
  <2> DEFINE req == request[r]
  <2>1. /\ req \in Req /\ Sound(req)
        /\ request' = [request EXCEPT ![r] = Idle] /\ hashes' = hashes
    BY <1>3, CommitKinds
  <2>2. RequestsSound'
    BY <2>1 DEF BaseInv, AccountsTyped, RequestsSound
  <2>3. \A s \in Requests : request'[s] # Idle => request'[s] = request[s]
    BY <2>1 DEF BaseInv, AccountsTyped
  <2>4. \A s \in Requests : request'[s] # Idle =>
           request'[s].new.password <= hashes' /\ request'[s].old.password <= hashes'
    BY <2>1, <2>3 DEF BaseInv, HashesKnown
  <2>5. request' \in [Requests -> Req \cup {Idle}] /\ hashes' \in 0..MaxHash
    BY <2>1 DEF BaseInv, AccountsTyped
  <2>6. CASE UNCHANGED <<users, links, sessions, replaced, raced>>
    <3>1. AccountsTyped' /\ LinksSound'
      BY <2>5, <2>6 DEF BaseInv, AccountsTyped, LinksSound
    <3>2. HashesKnown'
      BY <2>1, <2>4, <2>6 DEF BaseInv, HashesKnown
    <3> QED BY <2>2, <3>1, <3>2 DEF BaseInv
  <2>7. CASE ~UNCHANGED <<users, links, sessions, replaced, raced>>
    <3> DEFINE u == req.user
               after == Flushed(users[u], req)
    <3>1. /\ users' = [users EXCEPT ![u] = after]
          /\ \A l \in links' \ links : l \in Link /\ l.kind = "verify"
          /\ sessions' \subseteq sessions \cup {u}
          /\ replaced' = IF req.op = "reset" THEN [replaced EXCEPT ![req.link] = @ + 1]
                         ELSE replaced
          /\ raced' = (raced \/ Overtaken(req))
      BY <1>3, <2>7, CommitKinds
    <3>2. u \in Users /\ users[u] \in Row /\ after \in Row
          /\ after.password \in {req.new.password, users[u].password}
      BY <2>1, FlushedColumns DEF BaseInv, AccountsTyped, Req
    <3>3. users' \in [Users -> Row] /\ links' \subseteq Link /\ sessions' \subseteq Users
      BY <3>1, <3>2 DEF BaseInv, AccountsTyped
    <3>4. replaced' \in [1..MaxHash -> Nat]
      BY <2>1, <3>1 DEF BaseInv, AccountsTyped, Sound
    <3>5. raced' \in BOOLEAN
      BY <3>1 DEF BaseInv, AccountsTyped
    <3>6. LinksSound'
      BY <3>1 DEF BaseInv, LinksSound
    <3>7. req.new.password <= hashes /\ req.old.password <= hashes
      BY <2>1, IdleIsNoReq DEF BaseInv, HashesKnown
    <3>8. ASSUME NEW v \in Users PROVE users'[v].password <= hashes'
      <4>1. users'[v] = IF v = u THEN after ELSE users[v]
        BY <3>1, <3>2 DEF BaseInv, AccountsTyped
      <4> QED BY <2>1, <3>2, <3>7, <4>1 DEF BaseInv, HashesKnown
    <3>9. ASSUME NEW h \in 1..MaxHash, hashes' < h PROVE replaced'[h] = 0
      <4>1. req.op = "reset" => req.link # h
        BY <2>1, <3>7, <3>9 DEF BaseInv, AccountsTyped, Sound
      <4>2. replaced'[h] = replaced[h]
        BY <3>1, <4>1 DEF BaseInv, AccountsTyped
      <4> QED BY <2>1, <3>9, <4>2 DEF BaseInv, HashesKnown
    <3> QED BY <2>2, <2>4, <2>5, <3>3, <3>4, <3>5, <3>6, <3>8, <3>9
            DEF BaseInv, AccountsTyped, HashesKnown
  <2> QED BY <2>6, <2>7
<1> QED BY <1>1, <1>2, <1>3, StepKinds

(* They hold of the first admins and of empty tables.                         *)
LEMMA BaseInit ==
    ASSUME AdminsAssumption, StatusesAssumption, MaxHashAssumption, Init
    PROVE  BaseInv
<1>1. NoRow \in Row /\ NoRow.password = 0
  BY DEF NoRow, Row, Status
<1>2. \A u \in Users : users[u] \in Row /\ users[u].password = 0
  BY <1>1 DEF Init, NoRow, Row, Status
<1>3. users \in [Users -> Row]
  BY <1>2 DEF Init
<1>4. hashes \in 0..MaxHash /\ replaced \in [1..MaxHash -> Nat]
  BY DEF Init, MaxHashAssumption
<1>5. AccountsTyped
  BY <1>3, <1>4 DEF Init, AccountsTyped
<1>6. \A r \in Requests : request[r] = Idle
  BY DEF Init
<1>7. HashesKnown
  BY <1>2, <1>6 DEF Init, HashesKnown
<1> QED BY <1>5, <1>6, <1>7 DEF Init, BaseInv, LinksSound, RequestsSound

(* The tables are typed, the links and the open requests sound, no password   *)
(* has a hash that was never made: what both results below rest on.           *)
LEMMA BaseAlways ==
    ASSUME AdminsAssumption, StatusesAssumption, MaxHashAssumption
    PROVE  Spec => []BaseInv
  BY BaseInit, BaseStep, PTL DEF Spec

-----------------------------------------------------------------------------
(* Who is an active admin changes only with a row.                            *)
LEMMA AdminsFrame ==
    ASSUME users' = users PROVE CountedAdmins' = CountedAdmins
  BY DEF CountedAdmins

(* The flush of a request other than an admin's keeps every active admin.     *)
LEMMA KeepsAdmins ==
    ASSUME BaseInv, NEW req \in Req, Sound(req), req.op # "admin",
           users' = [users EXCEPT ![req.user] = Flushed(users[req.user], req)]
    PROVE  CountedAdmins \subseteq CountedAdmins'
<1> DEFINE u == req.user
           after == Flushed(users[u], req)
<1>1. u \in Users /\ users[u] \in Row
  BY DEF Req, BaseInv, AccountsTyped
<1>2. after.role = users[u].role /\ after.status = users[u].status
  BY <1>1, FlushedColumns DEF Sound
<1>3. users[u].exists => after.exists
  BY <1>1, FlushedColumns DEF Sound
<1>4. \A v \in Users : users'[v] = IF v = u THEN after ELSE users[v]
  BY <1>1 DEF BaseInv, AccountsTyped
<1> QED BY <1>2, <1>3, <1>4 DEF CountedAdmins, ActiveAdmin

(* The flush of a role or status change whose count of admins is still true   *)
(* leaves one: another than the account it changes, or that account.          *)
LEMMA LeavesAdmin ==
    ASSUME BaseInv, NEW req \in Req, Sound(req), req.op = "admin",
           CountedAdmins = req.admins, CountedAdmins # {},
           users' = [users EXCEPT ![req.user] = Flushed(users[req.user], req)]
    PROVE  CountedAdmins' # {}
<1> DEFINE u == req.user
           after == Flushed(users[u], req)
<1>1. u \in Users /\ users[u] \in Row
  BY DEF Req, BaseInv, AccountsTyped
<1>2. \A v \in Users : users'[v] = IF v = u THEN after ELSE users[v]
  BY <1>1 DEF BaseInv, AccountsTyped
<1>3. CASE \E v \in CountedAdmins : v # u
  BY <1>2, <1>3 DEF CountedAdmins
<1>4. CASE CountedAdmins = {u}
  <2>1. users[u].exists /\ ActiveAdmin(users[u]) /\ ActiveAdmin(req.old)
    BY <1>4 DEF Sound, CountedAdmins
  <2>2. Cardinality(req.admins) = 1
    BY <1>4, FS_Singleton
  <2>3. ~IsDemotion(req.old, req.new)
    BY <2>1, <2>2 DEF Sound
  <2>4. req.new.role = "admin" /\ req.new.status = "active"
    BY <2>1, <2>3 DEF IsDemotion, ActiveAdmin
  <2>5. after.exists /\ ActiveAdmin(after)
    BY <1>1, <2>1, <2>4, FlushedColumns DEF Sound, ActiveAdmin
  <2> QED BY <1>1, <1>2, <2>5 DEF CountedAdmins
<1> QED BY <1>3, <1>4

(* Only a commit can take an admin away, and no unraced one takes the last.   *)
LEMMA AdminStep ==
    ASSUME StatusesAssumption, BaseInv, AdminRemains, [Next]_vars
    PROVE  AdminRemains'
<1>1. CASE Notes
  BY <1>1, AdminsFrame DEF Notes, AdminRemains
<1>2. ASSUME NEW r \in Requests, NEW q \in Req, Opens(r, q) PROVE AdminRemains'
  BY <1>2, AdminsFrame DEF Opens, AdminRemains
<1>3. ASSUME NEW r \in Requests, Commit(r) PROVE AdminRemains'
  <2> DEFINE req == request[r]
  <2>1. req \in Req /\ Sound(req)
    BY <1>3, CommitKinds
  <2>2. CASE UNCHANGED <<users, links, sessions, replaced, raced>>
    BY <2>2, AdminsFrame DEF AdminRemains
  <2>3. CASE ~UNCHANGED <<users, links, sessions, replaced, raced>>
    <3>1. /\ users' = [users EXCEPT ![req.user] = Flushed(users[req.user], req)]
          /\ raced' = (raced \/ Overtaken(req))
      BY <1>3, <2>3, CommitKinds
    <3>2. SUFFICES ASSUME ~raced, ~Overtaken(req) PROVE CountedAdmins' # {}
      BY <3>1 DEF AdminRemains
    <3>3. CountedAdmins # {}
      BY <3>2 DEF AdminRemains
    <3>4. CASE req.op = "admin"
      BY <2>1, <3>1, <3>2, <3>3, <3>4, LeavesAdmin DEF Overtaken
    <3>5. CASE req.op # "admin"
      BY <2>1, <3>1, <3>3, <3>5, KeepsAdmins
    <3> QED BY <3>4, <3>5
  <2> QED BY <2>2, <2>3
<1> QED BY <1>1, <1>2, <1>3, StepKinds

(* The first admins are active.                                               *)
LEMMA AdminStart == ASSUME AdminsAssumption, Init PROVE AdminRemains
  BY DEF Init, AdminRemains, CountedAdmins, ActiveAdmin, AdminsAssumption, NoRow

(* An active admin is left, for any number of accounts, first admins and open *)
(* requests, unless the commit of a demotion came after another changed the   *)
(* active admins it had counted.                                              *)
THEOREM AdminStays ==
    ASSUME AdminsAssumption, StatusesAssumption, MaxHashAssumption
    PROVE  Spec => []AdminRemains
<1>1. Init => AdminRemains
  BY AdminStart
<1>2. BaseInv /\ AdminRemains /\ [Next]_vars => AdminRemains'
  BY AdminStep
<1> QED BY <1>1, <1>2, BaseAlways, PTL DEF Spec

-----------------------------------------------------------------------------
(* The open request r is about to make h the hash of an account's password.   *)
Sets(r, h) ==
    request[r] # Idle /\ request[r].new.password = h /\ request[r].old.password # h

(* A hash is one account's, and until it is set it is one request's. One with *)
(* a link that was used is gone for good, and used once, unless resets raced. *)
Apart == \A u, v \in Users :
            u # v /\ users[u].password # 0 => users[u].password # users[v].password
NotYetSet == \A r \in Requests, h \in 1..MaxHash :
            Sets(r, h) => \A u \in Users : users[u].password # h
Alone == \A r, s \in Requests, h \in 1..MaxHash : Sets(r, h) /\ Sets(s, h) => r = s
Fresh == \A r \in Requests, h \in 1..MaxHash : Sets(r, h) => replaced[h] = 0
Gone == \A u \in Users, h \in 1..MaxHash : replaced[h] # 0 => users[u].password # h

HashInv == /\ Apart /\ NotYetSet /\ Alone
           /\ raced \/ (Fresh /\ Gone /\ LinksDieTogether)

(* The hash a request is to set is its own, when it opens.                    *)
LEMMA OpensHash ==
    ASSUME MaxHashAssumption, BaseInv, HashInv, NEW r \in Requests, NEW q \in Req, Opens(r, q)
    PROVE  HashInv'
<1> USE DEF MaxHashAssumption
<1>1. \A s \in Requests \ {r}, h \in 1..MaxHash : Sets(s, h)' <=> Sets(s, h)
  BY DEF Sets, Opens, BaseInv, AccountsTyped
<1>2. ASSUME NEW h \in 1..MaxHash, Sets(r, h)' PROVE h = hashes + 1
  <2>1. request'[r] = q
    BY DEF Opens, BaseInv, AccountsTyped
  <2> QED BY <1>2, <2>1 DEF Sets, Opens
<1>3. hashes \in Nat /\ \A u \in Users : users[u].password \in Nat /\ users[u].password <= hashes
  BY DEF BaseInv, AccountsTyped, HashesKnown, Row
<1>4. ASSUME NEW s \in Requests, NEW h \in 1..MaxHash, Sets(s, h) PROVE h <= hashes
  BY <1>4 DEF Sets, BaseInv, HashesKnown
<1>5. NotYetSet'
  <2> SUFFICES ASSUME NEW s \in Requests, NEW h \in 1..MaxHash, Sets(s, h)', NEW u \in Users
               PROVE  users[u].password # h
    BY DEF NotYetSet, Opens
  <2>1. CASE s = r
    BY <1>2, <1>3, <2>1
  <2>2. CASE s # r
    BY <1>1, <2>2 DEF HashInv, NotYetSet
  <2> QED BY <2>1, <2>2
<1>6. Alone'
  <2> SUFFICES ASSUME NEW s \in Requests, NEW t \in Requests, NEW h \in 1..MaxHash,
                      Sets(s, h)', Sets(t, h)', s # t
               PROVE  FALSE
    BY DEF Alone
  <2>1. CASE s = r
    BY <1>1, <1>2, <1>3, <1>4, <2>1
  <2>2. CASE t = r
    BY <1>1, <1>2, <1>3, <1>4, <2>2
  <2>3. CASE s # r /\ t # r
    BY <1>1, <2>3 DEF HashInv, Alone
  <2> QED BY <2>1, <2>2, <2>3
<1>7. ASSUME ~raced PROVE Fresh'
  <2> SUFFICES ASSUME NEW s \in Requests, NEW h \in 1..MaxHash, Sets(s, h)'
               PROVE  replaced[h] = 0
    BY DEF Fresh, Opens
  <2>1. CASE s = r
    BY <1>2, <1>3, <2>1 DEF BaseInv, HashesKnown
  <2>2. CASE s # r
    BY <1>1, <1>7, <2>2 DEF HashInv, Fresh
  <2> QED BY <2>1, <2>2
<1>8. Apart' /\ (raced \/ (Gone' /\ LinksDieTogether')) /\ raced' = raced
  BY DEF HashInv, Apart, Gone, LinksDieTogether, Opens
<1> QED BY <1>5, <1>6, <1>7, <1>8 DEF HashInv

(* The flush sets the hash of its request and of no other; an unraced reset   *)
(* replaces the password its link was minted against.                         *)
LEMMA FlushHash ==
    ASSUME MaxHashAssumption, BaseInv, HashInv, NEW r \in Requests, Commit(r),
           ~UNCHANGED <<users, links, sessions, replaced, raced>>
    PROVE  HashInv'
<1> USE DEF MaxHashAssumption
<1> DEFINE req == request[r]
           u == req.user
           after == Flushed(users[u], req)
<1>1. /\ req \in Req /\ Sound(req)
      /\ request' = [request EXCEPT ![r] = Idle]
      /\ users' = [users EXCEPT ![u] = after]
      /\ replaced' = IF req.op = "reset" THEN [replaced EXCEPT ![req.link] = @ + 1]
                     ELSE replaced
      /\ raced' = (raced \/ Overtaken(req))
  BY CommitKinds
<1>2. u \in Users /\ users[u] \in Row /\ req # Idle
  BY <1>1, IdleIsNoReq DEF Req, BaseInv, AccountsTyped
<1>3. after.password = IF req.old.password # req.new.password THEN req.new.password
                       ELSE users[u].password
  BY <1>1, <1>2, FlushedColumns
<1>4. \A v \in Users : users'[v] = IF v = u THEN after ELSE users[v]
  BY <1>1, <1>2 DEF BaseInv, AccountsTyped
<1>5. req.new.password \in Nat /\ req.old.password \in Nat /\ req.new.password <= MaxHash
  BY <1>1, <1>2 DEF Req, Row, BaseInv, HashesKnown, AccountsTyped
<1>6. \A s \in Requests, h \in 1..MaxHash : Sets(s, h)' => s # r /\ Sets(s, h)
  BY <1>1 DEF Sets, BaseInv, AccountsTyped
<1>7. \A h \in 1..MaxHash : after.password = h /\ users[u].password # h => Sets(r, h)
  BY <1>2, <1>3 DEF Sets
<1>8. after.password \in 0..MaxHash
  BY <1>2, <1>3, <1>5 DEF BaseInv, AccountsTyped, HashesKnown, Row
<1>9. Apart'
  <2>1. ASSUME NEW v \in Users, v # u, after.password # 0 PROVE users[v].password # after.password
    <3>1. CASE after.password = users[u].password
      BY <1>2, <2>1, <3>1 DEF HashInv, Apart
    <3>2. CASE after.password # users[u].password
      <4>1. after.password \in 1..MaxHash
        BY <1>8, <2>1
      <4>2. Sets(r, after.password)
        BY <1>7, <3>2, <4>1
      <4> QED BY <4>1, <4>2 DEF HashInv, NotYetSet
    <3> QED BY <3>1, <3>2
  <2> SUFFICES ASSUME NEW v \in Users, NEW w \in Users, v # w, users'[v].password # 0
               PROVE  users'[v].password # users'[w].password
    BY DEF Apart
  <2>2. CASE v = u
    BY <1>4, <2>1, <2>2
  <2>3. CASE w = u
    BY <1>4, <2>1, <2>3
  <2>4. CASE v # u /\ w # u
    BY <1>4, <2>4 DEF HashInv, Apart
  <2> QED BY <2>2, <2>3, <2>4
<1>10. NotYetSet'
  <2> SUFFICES ASSUME NEW s \in Requests, NEW h \in 1..MaxHash, Sets(s, h)', NEW v \in Users
               PROVE  users'[v].password # h
    BY DEF NotYetSet
  <2>1. s # r /\ Sets(s, h) /\ users[v].password # h /\ users[u].password # h
    BY <1>2, <1>6 DEF HashInv, NotYetSet
  <2>2. ~Sets(r, h)
    BY <2>1 DEF HashInv, Alone
  <2> QED BY <1>4, <1>7, <2>1, <2>2
<1>11. Alone'
  BY <1>6 DEF HashInv, Alone
<1>12. ASSUME ~raced' PROVE Fresh' /\ Gone' /\ LinksDieTogether'
  <2>1. ~raced /\ Fresh /\ Gone /\ \A h \in 1..MaxHash : replaced[h] <= 1
    BY <1>1, <1>12 DEF HashInv, LinksDieTogether
  <2>2. \A h \in 1..MaxHash : replaced[h] \in Nat
    BY DEF BaseInv, AccountsTyped
  <2>3. CASE req.op # "reset"
    <3>1. replaced' = replaced
      BY <1>1, <2>3
    <3>2. Gone'
      BY <1>4, <1>7, <2>1, <3>1 DEF Gone, Fresh
    <3> QED BY <1>6, <2>1, <3>1, <3>2 DEF Fresh, LinksDieTogether
  <2>4. CASE req.op = "reset"
    <3> DEFINE l == req.link
    <3>1. l \in 1..MaxHash /\ users[u].password = l /\ req.old.password = l
          /\ req.new.password # l
      BY <1>1, <1>12, <2>4 DEF Sound, Overtaken
    <3>2. replaced[l] = 0
      BY <1>2, <2>1, <3>1 DEF Gone
    <3>3. \A h \in 1..MaxHash : replaced'[h] = IF h = l THEN 1 ELSE replaced[h]
      BY <1>1, <2>4, <3>1, <3>2 DEF BaseInv, AccountsTyped
    <3>4. after.password # l /\ \A v \in Users : v # u => users[v].password # l
      BY <1>2, <1>3, <3>1 DEF HashInv, Apart
    <3>5. Fresh'
      <4> SUFFICES ASSUME NEW s \in Requests, NEW h \in 1..MaxHash, Sets(s, h)'
                   PROVE  replaced'[h] = 0
        BY DEF Fresh
      <4>1. Sets(s, h) /\ h # l
        BY <1>2, <1>6, <3>1 DEF HashInv, NotYetSet
      <4> QED BY <2>1, <3>3, <4>1 DEF Fresh
    <3>6. Gone'
      <4> SUFFICES ASSUME NEW v \in Users, NEW h \in 1..MaxHash, replaced'[h] # 0
                   PROVE  users'[v].password # h
        BY DEF Gone
      <4>1. CASE h = l
        BY <1>4, <3>4, <4>1
      <4>2. CASE h # l
        BY <1>2, <1>4, <1>7, <2>1, <3>3, <4>2 DEF Gone, Fresh
      <4> QED BY <4>1, <4>2
    <3>7. LinksDieTogether'
      BY <2>1, <3>3 DEF LinksDieTogether
    <3> QED BY <3>5, <3>6, <3>7
  <2> QED BY <2>3, <2>4
<1> QED BY <1>9, <1>10, <1>11, <1>12 DEF HashInv

(* Mailing and logging in leave the hashes alone; the other steps are above.  *)
LEMMA HashStep ==
    ASSUME StatusesAssumption, MaxHashAssumption, BaseInv, HashInv, [Next]_vars
    PROVE  HashInv'
<1>1. CASE Notes
  BY <1>1 DEF Notes, HashInv, Apart, NotYetSet, Alone, Fresh, Gone, Sets, LinksDieTogether
<1>2. ASSUME NEW r \in Requests, NEW q \in Req, Opens(r, q) PROVE HashInv'
  BY <1>2, OpensHash
<1>3. ASSUME NEW r \in Requests, Commit(r), UNCHANGED <<users, links, sessions, replaced, raced>>
      PROVE  HashInv'
  <2>1. request' = [request EXCEPT ![r] = Idle]
    BY <1>3, CommitKinds
  <2>2. \A s \in Requests, h \in 1..MaxHash : Sets(s, h)' => Sets(s, h)
    BY <2>1 DEF Sets, BaseInv, AccountsTyped
  <2> QED BY <1>3, <2>2 DEF HashInv, Apart, NotYetSet, Alone, Fresh, Gone, LinksDieTogether
<1>4. ASSUME NEW r \in Requests, Commit(r), ~UNCHANGED <<users, links, sessions, replaced, raced>>
      PROVE  HashInv'
  BY <1>4, FlushHash
<1> QED BY <1>1, <1>2, <1>3, <1>4, StepKinds

(* There are no passwords and no links at first.                              *)
LEMMA HashStart == ASSUME MaxHashAssumption, Init PROVE HashInv
<1>1. \A u \in Users : users[u].password = 0
  BY DEF Init, NoRow
<1>2. \A r \in Requests, h \in 1..MaxHash : ~Sets(r, h)
  BY DEF Init, Sets
<1>3. \A h \in 1..MaxHash : replaced[h] = 0 /\ h # 0
  BY DEF Init, MaxHashAssumption
<1> QED BY <1>1, <1>2, <1>3 DEF HashInv, Apart, NotYetSet, Alone, Fresh, Gone, LinksDieTogether

(* A password is replaced through its reset links at most once, for any       *)
(* number of accounts, links and open requests, unless the commit of a reset  *)
(* came after another had changed the password it had checked.                *)
THEOREM LinksDie ==
    ASSUME AdminsAssumption, StatusesAssumption, MaxHashAssumption
    PROVE  Spec => []LinksDieTogether
<1>1. Init => HashInv
  BY HashStart
<1>2. BaseInv /\ HashInv /\ [Next]_vars => HashInv'
  BY HashStep
<1>3. HashInv => LinksDieTogether
  BY DEF HashInv, LinksDieTogether
<1> QED BY <1>1, <1>2, <1>3, BaseAlways, PTL DEF Spec

-----------------------------------------------------------------------------
(* Registry.                                                                  *)

RegistryRow == [exists : BOOLEAN, slot : Slots \cup {0}, active : BOOLEAN]
Pending == [op : {"insert", "update", "delete"}, row : Rows, old : RegistryRow, new : RegistryRow]

RegistryTyped ==
    /\ kind \in Re!Kinds
    /\ rows \in [Rows -> RegistryRow]
    /\ parent \in BOOLEAN /\ refs \subseteq Rows /\ clashed \in BOOLEAN
    /\ writing \in [Writers -> Pending \cup {Re!None0}]

(* Nobody holds a slot twice, under the conditions of OneHolder.              *)
OneEach ==
    kind # "customization" /\ (kind \in Re!Unique \/ ~clashed) =>
        \A s \in Slots \cup {0} : \A r, t \in Re!Holders(s) : r = t

RegistryInv == RegistryTyped /\ OneEach

(* A look-up has passed, and a write is to come.                              *)
Asks(w) == \E q \in Pending : Re!Ask(w, q)

(* Whoever asks, asks for a row of the table.                                 *)
LEMMA RowsAsked ==
    ASSUME RegistryTyped, NEW r \in Rows, NEW s \in Slots, NEW active \in BOOLEAN
    PROVE  /\ Re!Absent \in RegistryRow /\ Re!Row(s, active) \in RegistryRow
           /\ [rows[r] EXCEPT !.slot = s, !.active = active] \in RegistryRow
           /\ \A new \in RegistryRow : \A op \in {"insert", "update", "delete"} :
                 Re!Pend(op, r, new) \in Pending
<1>1. rows[r] \in RegistryRow
  BY DEF RegistryTyped
<1>2. Re!Absent \in RegistryRow /\ Re!Row(s, active) \in RegistryRow
  BY DEF Re!Absent, Re!Row, RegistryRow
<1>3. [rows[r] EXCEPT !.slot = s, !.active = active] \in RegistryRow
  BY <1>1 DEF RegistryRow
<1>4. ASSUME NEW new \in RegistryRow, NEW op \in {"insert", "update", "delete"}
      PROVE  Re!Pend(op, r, new) \in Pending
  BY <1>1 DEF Re!Pend, Pending
<1> QED BY <1>2, <1>3, <1>4

(* The ways to ask for a row.                                                 *)
LEMMA WaysToAsk ==
    ASSUME RegistryTyped, NEW w \in Writers, NEW s \in Slots, NEW active \in BOOLEAN
    PROVE  /\ Re!Insert(w, s, active) => Asks(w)
           /\ Re!Change(w, s, active) => Asks(w)
           /\ Re!Patch(w, s, active) => Asks(w)
           /\ Re!Put(w, s) => Asks(w)
           /\ Re!AddCustomization(w, s) => Asks(w)
<1>1. \A z \in BOOLEAN : Re!Insert(w, s, z) => Asks(w)
  BY RowsAsked DEF Re!Insert, Asks
<1>2. Re!Stored \subseteq Rows /\ Re!Holders(s) \subseteq Rows
  BY DEF Re!Stored, Re!Holders
<1>3. \A r \in Rows : rows[r] \in RegistryRow
  BY DEF RegistryTyped
<1>4. Re!Change(w, s, active) => Asks(w)
  BY <1>2, RowsAsked DEF Re!Change, Asks
<1>5. Re!Patch(w, s, active) => Asks(w)
  BY <1>2, RowsAsked DEF Re!Patch, Asks
<1>6. Re!Put(w, s) => Asks(w)
  BY <1>1, <1>2, <1>3, RowsAsked DEF Re!Put, Asks
<1>7. Re!AddCustomization(w, s) => Asks(w)
  BY RowsAsked DEF Re!AddCustomization, Asks
<1> QED BY <1>1, <1>4, <1>5, <1>6, <1>7

(* And to ask for a deletion or to touch a customization.                     *)
LEMMA RemovalsAsk ==
    ASSUME RegistryTyped, NEW w \in Writers
    PROVE  /\ \A refused : Re!Remove(w, refused) => Asks(w)
           /\ Re!UpdateCustomization(w) => Asks(w)
<1>1. Re!Stored \subseteq Rows
  BY DEF Re!Stored
<1>2. \A r \in Rows : rows[r] \in RegistryRow
  BY DEF RegistryTyped
<1>3. Re!Absent \in RegistryRow
  BY DEF Re!Absent, RegistryRow
<1>4. \A r \in Rows, new \in RegistryRow, op \in {"update", "delete"}
        : Re!Pend(op, r, new) \in Pending
  BY <1>2 DEF Re!Pend, Pending
<1> QED BY <1>1, <1>2, <1>3, <1>4 DEF Re!Remove, Re!UpdateCustomization, Asks

(* A step asks, commits, or changes neither rows nor requests.                *)
LEMMA RegistryKinds ==
    ASSUME RegistryTyped, [Re!RegistryNext]_registry
    PROVE  \/ \E w \in Writers : Asks(w) \/ Re!Flush(w)
           \/ /\ UNCHANGED <<kind, rows, writing, clashed>>
              /\ parent' \in BOOLEAN /\ refs' \subseteq Rows
<1>1. CASE UNCHANGED registry
  BY <1>1 DEF registry, RegistryTyped
<1>2. CASE Re!DropParent
  BY <1>2 DEF Re!DropParent, RegistryTyped
<1>3. CASE \E r \in Rows : Re!Refer(r)
  BY <1>3 DEF Re!Refer, RegistryTyped
<1>4. ASSUME NEW w \in Writers,
             \/ Re!DeleteBrand(w) \/ Re!DeleteCategory(w) \/ Re!DeleteProductType(w)
             \/ Re!DeleteQuestion(w) \/ Re!DeleteMyAvatar(w) \/ Re!UnsaveLaptop(w)
             \/ Re!UpdateCustomization(w) \/ Re!DeleteCustomization(w)
             \/ Re!DeleteCpuBenchmark(w) \/ Re!DeleteGpuBenchmark(w) \/ Re!DeletePriceGuide(w)
      PROVE  Asks(w)
  BY <1>4, RemovalsAsk
     DEF Re!DeleteBrand, Re!DeleteCategory, Re!DeleteProductType, Re!DeleteQuestion,
         Re!DeleteMyAvatar, Re!UnsaveLaptop, Re!DeleteCustomization, Re!DeleteCpuBenchmark,
         Re!DeleteGpuBenchmark, Re!DeletePriceGuide
<1>5. ASSUME NEW w \in Writers, NEW s \in Slots, NEW active \in BOOLEAN,
             \/ Re!CreateBrand(w, s, active) \/ Re!UpdateBrand(w, s, active)
             \/ Re!CreateCategory(w, s, active) \/ Re!UpdateCategory(w, s, active)
             \/ Re!CreateProductType(w, s, active) \/ Re!UpdateProductType(w, s, active)
             \/ Re!CreateQuestion(w, s, active) \/ Re!UpdateQuestion(w, s, active)
             \/ Re!AddChannel(w, s, active)
      PROVE  Asks(w)
  BY <1>5, WaysToAsk
     DEF Re!CreateBrand, Re!UpdateBrand, Re!CreateCategory, Re!UpdateCategory,
         Re!CreateProductType, Re!UpdateProductType, Re!CreateQuestion, Re!UpdateQuestion,
         Re!AddChannel
<1>6. ASSUME NEW w \in Writers, NEW s \in Slots,
             \/ Re!UpdateMyPreferences(w, s) \/ Re!UploadMyAvatar(w, s)
             \/ Re!ImportGoogleAvatar(w, s) \/ Re!SaveLaptop(w, s) \/ Re!StoreGuide(w, s)
             \/ Re!CreateCpuBenchmark(w, s) \/ Re!UpdateCpuBenchmark(w, s)
             \/ Re!CreateGpuBenchmark(w, s) \/ Re!UpdateGpuBenchmark(w, s)
             \/ Re!CreateCustomizationsForLaptops(w, s) \/ Re!CreateCustomizationsByPattern(w, s)
      PROVE  Asks(w)
  BY <1>6, WaysToAsk
     DEF Re!UpdateMyPreferences, Re!UploadMyAvatar, Re!ImportGoogleAvatar, Re!SaveLaptop,
         Re!StoreGuide, Re!CreateCpuBenchmark, Re!UpdateCpuBenchmark, Re!CreateGpuBenchmark,
         Re!UpdateGpuBenchmark, Re!CreateCustomizationsForLaptops,
         Re!CreateCustomizationsByPattern
<1>7. ASSUME NEW w \in Writers, NEW active \in BOOLEAN, Re!UpdateChannel(w, active)
      PROVE  Asks(w)
  <2>1. \A r \in Re!Stored : /\ [rows[r] EXCEPT !.active = active] \in RegistryRow
                             /\ rows[r] \in RegistryRow /\ r \in Rows
    BY DEF RegistryTyped, RegistryRow, Re!Stored
  <2> QED BY <1>7, <2>1 DEF Re!UpdateChannel, Re!Pend, Pending, Asks
<1> QED BY <1>1, <1>2, <1>3, <1>4, <1>5, <1>6, <1>7 DEF Re!RegistryNext

(* Who holds a slot depends on the rows and the kind.                         *)
LEMMA HoldersFrame ==
    ASSUME RegistryInv, UNCHANGED <<kind, rows, clashed>>
    PROVE  OneEach'
  BY DEF RegistryInv, OneEach, Re!Holders, Re!Stored

(* A commit that goes through: the row it writes, alone.                      *)
LEMMA AfterFlush ==
    ASSUME RegistryTyped, NEW q \in Pending
    PROVE  /\ Re!After(q) \in [Rows -> RegistryRow]
           /\ \A r \in Rows \ {q.row} : Re!After(q)[r] = rows[r]
           /\ q.op = "insert" => Re!After(q)[q.row] = q.new
           /\ q.op = "delete" => Re!After(q)[q.row] = Re!Absent
           /\ q.op = "update" /\ rows[q.row] = q.old => Re!After(q)[q.row] = q.new
<1>1. /\ q.row \in Rows /\ q.old \in RegistryRow /\ q.new \in RegistryRow
      /\ rows[q.row] \in RegistryRow
  BY DEF Pending, RegistryTyped
<1>2. q.op = "insert" \/ q.op = "delete" \/ q.op = "update"
  BY DEF Pending
<1> DEFINE merged == [c \in DOMAIN rows[q.row] |->
                         IF q.old[c] # q.new[c] THEN q.new[c] ELSE rows[q.row][c]]
<1>3. DOMAIN rows[q.row] = {"exists", "slot", "active"}
  BY <1>1 DEF RegistryRow
<1>4. /\ merged.exists \in BOOLEAN /\ merged.slot \in Slots \cup {0} /\ merged.active \in BOOLEAN
      /\ merged = [exists |-> merged.exists, slot |-> merged.slot, active |-> merged.active]
  BY <1>1, <1>3 DEF RegistryRow
<1>5. merged \in RegistryRow
  BY <1>4 DEF RegistryRow
<1>6. rows[q.row] = q.old => merged = q.new
  BY <1>1, <1>3, <1>4 DEF RegistryRow
<1>7. Re!Absent \in RegistryRow
  BY DEF Re!Absent, RegistryRow
<1> DEFINE z == CASE q.op = "insert" -> q.new
                  [] q.op = "delete" -> Re!Absent
                  [] q.op = "update" -> merged
<1>8. Re!After(q) = [rows EXCEPT ![q.row] = z]
  BY DEF Re!After
<1>9. /\ z \in RegistryRow
      /\ q.op = "insert" => z = q.new
      /\ q.op = "delete" => z = Re!Absent
      /\ q.op = "update" => z = merged
  BY <1>1, <1>2, <1>5, <1>7
<1> HIDE DEF z, merged
<1> QED BY <1>1, <1>6, <1>8, <1>9 DEF RegistryTyped

(* A commit puts no second row in a slot: the index refuses it, or the        *)
(* look-up was overtaken and the history says so.                             *)
LEMMA FlushKeeps ==
    ASSUME RegistryInv, NEW w \in Writers, Re!Flush(w)
    PROVE  RegistryInv'
<1> DEFINE q == writing[w]
<1>1. q \in Pending /\ UNCHANGED <<kind, parent, refs>>
  BY DEF Re!Flush, RegistryInv, RegistryTyped
<1>2. writing' \in [Writers -> Pending \cup {Re!None0}]
  BY DEF Re!Flush, RegistryInv, RegistryTyped
<1>3. CASE UNCHANGED <<rows, clashed>>
  <2>1. RegistryTyped'
    BY <1>1, <1>2, <1>3 DEF RegistryInv, RegistryTyped
  <2> QED BY <1>1, <1>3, <2>1, HoldersFrame DEF RegistryInv
<1>4. CASE Re!Accepted(q) /\ rows' = Re!After(q) /\ clashed' = (clashed \/ Re!Late(q))
  <2> HIDE DEF q
  <2>1. rows' \in [Rows -> RegistryRow] /\ \A r \in Rows \ {q.row} : rows'[r] = rows[r]
    BY <1>1, <1>4, AfterFlush DEF RegistryInv
  <2>2. clashed' \in BOOLEAN
    BY <1>4
  <2>3. RegistryTyped'
    BY <1>1, <1>2, <2>1, <2>2 DEF RegistryInv, RegistryTyped
  <2>4. ASSUME kind # "customization", kind \in Re!Unique \/ ~clashed', NEW s \in Slots \cup {0}
        PROVE  \A r, t \in Re!Holders(s)' : r = t
    <3>1. kind \in Re!Unique \/ ~clashed
      BY <1>4, <2>4
    <3>2. \A r, t \in Re!Holders(s) : r = t
      BY <2>4, <3>1 DEF RegistryInv, OneEach
    <3>3. \A r \in Re!Holders(s)' : r # q.row => r \in Re!Holders(s)
      BY <1>1, <2>1 DEF Re!Holders, Re!Stored
    <3>4. ASSUME q.row \in Re!Holders(s)', NEW t \in Re!Holders(s), t # q.row PROVE FALSE
      <4>1. /\ rows'[q.row].exists /\ rows'[q.row].slot = s /\ q.row \in Rows
            /\ kind \in Re!Retired => rows'[q.row].active
        BY <1>1, <3>4 DEF Re!Holders, Re!Stored
      <4>2. t \in Re!Stored /\ rows[t].slot = s
        BY DEF Re!Holders
      <4>3. q.op # "delete"
        BY <1>1, <1>4, <4>1, AfterFlush DEF RegistryInv, Re!Absent
      <4>4. kind \notin Re!Unique
        BY <1>4, <3>4, <4>1, <4>2, <4>3 DEF Re!Accepted
      <4>5. ~Re!Late(q) /\ q.op \in {"insert", "update"}
        BY <1>1, <1>4, <2>4, <4>3, <4>4 DEF Pending
      <4>6. rows'[q.row] = q.new
        BY <1>1, <1>4, <4>5, AfterFlush DEF RegistryInv, Re!Late
      <4>7. Re!Clash(s, q.row, q.new.active) = {}
        BY <2>4, <4>1, <4>5, <4>6 DEF Re!Late
      <4>8. Re!Clash(s, q.row, q.new.active) = Re!Holders(s) \ {q.row}
        BY <4>1, <4>6 DEF Re!Clash
      <4> QED BY <3>4, <4>7, <4>8
    <3> QED BY <3>2, <3>3, <3>4
  <2>5. OneEach'
    BY <1>1, <2>4 DEF OneEach
  <2> QED BY <2>3, <2>5 DEF RegistryInv
<1> QED BY <1>3, <1>4 DEF Re!Flush

(* Every step of the tables keeps it.                                         *)
LEMMA RegistryStep ==
    ASSUME RegistryInv, [Re!RegistryNext]_registry
    PROVE  RegistryInv'
<1>1. ASSUME NEW w \in Writers, Asks(w) PROVE RegistryInv'
  <2>1. PICK q \in Pending : Re!Ask(w, q)
    BY <1>1 DEF Asks
  <2>2. RegistryTyped' /\ UNCHANGED <<kind, rows, clashed>>
    BY <2>1 DEF Re!Ask, RegistryInv, RegistryTyped
  <2> QED BY <2>2, HoldersFrame DEF RegistryInv
<1>2. ASSUME UNCHANGED <<kind, rows, writing, clashed>>, parent' \in BOOLEAN, refs' \subseteq Rows
      PROVE  RegistryInv'
  <2>1. RegistryTyped'
    BY <1>2 DEF RegistryInv, RegistryTyped
  <2> QED BY <1>2, <2>1, HoldersFrame DEF RegistryInv
<1> QED BY <1>1, <1>2, FlushKeeps, RegistryKinds DEF RegistryInv

(* The tables are empty at first.                                             *)
LEMMA RegistryStart == ASSUME Re!RegistryInit PROVE RegistryInv
<1>1. Re!Absent \in RegistryRow /\ ~Re!Absent.exists
  BY DEF Re!Absent, RegistryRow
<1> QED BY <1>1 DEF Re!RegistryInit, RegistryInv, RegistryTyped, OneEach, Re!Holders, Re!Stored

(* Which is that no slot has two holders.                                     *)
LEMMA HoldersAlone == ASSUME RegistryInv PROVE Re!OneHolder
  BY DEF RegistryInv, OneEach, Re!OneHolder

-----------------------------------------------------------------------------
(* ChatTurn. What a turn under way says of itself, and what a turn that is    *)
(* over leaves.                                                               *)

Token == [step : Nat, by : Nat]
Reply == Seq(Token) \cup {Thinking, Nothing}
Answered == {"answered", "saving", "saved", "unsaved"}
Current == [pc : {"asked", "failed"} \cup Answered, stream : BOOLEAN, position : Nat, step : Nat,
            text : Seq(Token), bubble : Seq(Token), answered : Seq(Nat),
            results : {Nothing} \cup SUBSET Laptops, reply : Reply,
            old : SUBSET [by : Turns, laptop : Laptops]]
Over == {Ct!Idle} \cup {Ct!Ended(how) : how \in {"lost", "error", "done", "left"}}

ChatTyped ==
    /\ turn \in [Turns -> Current \cup Over]
    /\ pool \subseteq [by : Turns, laptop : Laptops] /\ laptops \subseteq Laptops

(* While a stream asks, its bubble is the text of the model call under way;   *)
(* once it has an answer, the bubble is the reply, or is empty beside a reply *)
(* of thinking only.                                                          *)
InStep(c) == c.pc = "asked" => c.bubble = c.text
AsReplied(c) == c.pc \in Answered => c.bubble = c.reply \/ (c.bubble = <<>> /\ c.reply = Thinking)
Shows(c) == c.stream => InStep(c) /\ AsReplied(c)
Showing == \A t \in Turns : turn[t] \in Current => Shows(turn[t])

ChatInv == ChatTyped /\ Showing

(* A turn that is over is none of those under way.                            *)
LEMMA OverIsOver == Over \cap Current = {}
<1>1. \A c \in Over : c.pc \in {"idle", "lost", "error", "done", "left"}
  BY DEF Over, Ct!Idle, Ct!Ended
<1>2. \A c \in Current : c.pc \notin {"idle", "lost", "error", "done", "left"}
  BY DEF Current, Answered
<1> QED BY <1>1, <1>2

(* A stage that only a turn under way is in.                                  *)
LEMMA UnderWay ==
    ASSUME ChatTyped, NEW t \in Turns, turn[t].pc \in {"asked", "failed"} \cup Answered
    PROVE  turn[t] \in Current
<1>1. turn[t] \in Current \cup Over
  BY DEF ChatTyped
<1>2. \A c \in Over : c.pc \in {"idle", "lost", "error", "done", "left"}
  BY DEF Over, Ct!Idle, Ct!Ended
<1> QED BY <1>1, <1>2 DEF Answered

(* What may become of one turn.                                               *)
Good(c) == c \in Over \/ (c \in Current /\ Shows(c))

(* A step that changes one turn for the better keeps the rest.                *)
LEMMA OneTurn ==
    ASSUME ChatInv, NEW t \in Turns, NEW c, Good(c), Ct!Become(t, c),
           pool' \subseteq [by : Turns, laptop : Laptops], laptops' \subseteq Laptops
    PROVE  ChatInv'
<1>1. turn' = [turn EXCEPT ![t] = c] /\ turn \in [Turns -> Current \cup Over]
  BY DEF Ct!Become, ChatInv, ChatTyped
<1>2. turn' \in [Turns -> Current \cup Over]
  BY <1>1 DEF Good
<1>3. \A u \in Turns : turn'[u] \in Current => Shows(turn'[u])
  BY <1>1, OverIsOver DEF Good, ChatInv, Showing
<1> QED BY <1>2, <1>3 DEF ChatInv, ChatTyped, Showing

(* A chunk goes to the text and to the bubble alike.                          *)
LEMMA SpeakKeeps ==
    ASSUME ChatInv, NEW t \in Turns, Ct!Speak(t)
    PROVE  ChatInv'
<1> DEFINE c == turn[t]
           token == [step |-> c.step, by |-> c.position]
           d == [c EXCEPT !.text = Append(@, token),
                          !.bubble = IF c.stream THEN Append(@, token) ELSE @]
<1>1. c \in Current /\ c.pc = "asked"
  BY UnderWay DEF Ct!Speak, ChatInv
<1>2. token \in Token
  BY <1>1 DEF Current, Token
<1>3. Shows(c)
  BY <1>1 DEF ChatInv, Showing
<1>4. Append(c.text, token) \in Seq(Token) /\ Append(c.bubble, token) \in Seq(Token)
  BY <1>1, <1>2 DEF Current
<1> HIDE DEF token
<1>5. d \in Current /\ d.pc = "asked" /\ (d.stream => d.bubble = d.text)
  BY <1>1, <1>3, <1>4 DEF Current, Shows, InStep, Answered
<1>6. Good(d)
  BY <1>5 DEF Good, Shows, InStep, AsReplied, Answered
<1>7. Ct!Become(t, d) /\ UNCHANGED <<pool, laptops>>
  BY DEF Ct!Speak, Ct!RowsUnchanged, token
<1> HIDE DEF d
<1> QED BY <1>6, <1>7, OneTurn DEF ChatInv, ChatTyped

(* A stream changes models only while its text, so its bubble, is empty.      *)
LEMMA UnavailableKeeps ==
    ASSUME ChatInv, Ct!ChainAssumption, NEW t \in Turns, Ct!Unavailable(t)
    PROVE  ChatInv'
<1> DEFINE c == turn[t]
           d == [c EXCEPT !.text = <<>>,
                          !.position = IF c.position < Backups THEN @ + 1 ELSE @,
                          !.pc = IF c.position < Backups THEN "asked" ELSE "failed"]
<1>1. c \in Current /\ c.pc = "asked" /\ (~c.stream \/ c.text = <<>>)
  BY UnderWay DEF Ct!Unavailable, Ct!MaySwitch, ChatInv
<1>2. Shows(c)
  BY <1>1 DEF ChatInv, Showing
<1>3. c.position \in Nat /\ c.position + 1 \in Nat /\ <<>> \in Seq(Token)
  BY <1>1 DEF Current
<1>4. d \in Current /\ d.pc \in {"asked", "failed"} /\ (d.stream => d.bubble = d.text)
  BY <1>1, <1>2, <1>3 DEF Current, Shows, InStep, Answered
<1>5. Good(d)
  BY <1>4 DEF Good, Shows, InStep, AsReplied, Answered
<1>6. Ct!Become(t, d) /\ UNCHANGED <<pool, laptops>>
  BY DEF Ct!Unavailable, Ct!RowsUnchanged
<1> HIDE DEF d
<1> QED BY <1>5, <1>6, OneTurn DEF ChatInv, ChatTyped

(* The next step starts with an empty text; turn_reset empties the bubble of  *)
(* a step that had shown some.                                                *)
LEMMA CallToolsKeeps ==
    ASSUME ChatInv, NEW t \in Turns, NEW found, Ct!CallTools(t, found)
    PROVE  ChatInv'
<1> DEFINE c == turn[t]
           credited == Append(c.answered, c.position)
           bubble == IF c.text # <<>> THEN <<>> ELSE c.bubble
           d == [c EXCEPT !.answered = credited, !.step = @ + 1, !.text = <<>>,
                          !.bubble = bubble, !.results = found]
<1>1. c \in Current /\ c.pc = "asked"
  BY UnderWay DEF Ct!CallTools, ChatInv
<1>2. Shows(c)
  BY <1>1 DEF ChatInv, Showing
<1>3. found \in {Nothing} \cup SUBSET Laptops
  BY <1>1 DEF Ct!CallTools, ChatInv, ChatTyped, Current
<1>4. credited \in Seq(Nat) /\ c.step + 1 \in Nat /\ <<>> \in Seq(Token)
  BY <1>1 DEF Current
<1>5. bubble \in Seq(Token) /\ (c.stream => bubble = <<>>)
  BY <1>1, <1>2, <1>4 DEF Current, Shows, InStep
<1>6. Ct!Become(t, d) /\ UNCHANGED <<pool, laptops>>
  BY DEF Ct!CallTools, Ct!RowsUnchanged, Ct!Credited, Ct!ShownAfterTool
<1> HIDE DEF credited, bubble
<1>7. d \in Current /\ d.pc = "asked" /\ (d.stream => d.bubble = d.text)
  BY <1>1, <1>3, <1>4, <1>5 DEF Current, Answered
<1>8. Good(d)
  BY <1>7 DEF Good, Shows, InStep, AsReplied, Answered
<1> HIDE DEF d
<1> QED BY <1>6, <1>8, OneTurn DEF ChatInv, ChatTyped

(* The answer is the text of its last model call.                             *)
LEMMA AnswerKeeps ==
    ASSUME ChatInv, NEW t \in Turns, Ct!Answer(t)
    PROVE  ChatInv'
<1> DEFINE c == turn[t]
           credited == Append(c.answered, c.position)
           reply == IF c.text # <<>> THEN c.text ELSE Thinking
           d == [c EXCEPT !.answered = credited, !.pc = "answered", !.reply = reply]
<1>1. c \in Current /\ c.pc = "asked"
  BY UnderWay DEF Ct!Answer, ChatInv
<1>2. Shows(c)
  BY <1>1 DEF ChatInv, Showing
<1>3. credited \in Seq(Nat) /\ reply \in Reply
  BY <1>1 DEF Current, Reply
<1>4. c.stream => c.bubble = reply \/ (c.bubble = <<>> /\ reply = Thinking)
  BY <1>1, <1>2 DEF Shows, InStep
<1>5. Ct!Become(t, d) /\ UNCHANGED <<pool, laptops>>
  BY DEF Ct!Answer, Ct!RowsUnchanged, Ct!Credited
<1> HIDE DEF credited, reply
<1>6. /\ d \in Current /\ d.pc = "answered" /\ d.reply = reply
      /\ d.stream = c.stream /\ d.bubble = c.bubble
  BY <1>1, <1>3 DEF Current, Answered
<1>7. Good(d)
  BY <1>4, <1>6 DEF Good, Shows, InStep, AsReplied, Answered
<1> HIDE DEF d
<1> QED BY <1>5, <1>7, OneTurn DEF ChatInv, ChatTyped

(* A turn that only moves on to a later stage shows what it showed.           *)
LEMMA StageKeeps ==
    ASSUME NEW c \in Current, Shows(c), NEW stage \in Answered \cup {"failed"},
           c.pc \in Answered \/ stage = "failed",
           NEW rest \in SUBSET [by : Turns, laptop : Laptops]
    PROVE  Good([c EXCEPT !.pc = stage]) /\ Good([c EXCEPT !.pc = stage, !.old = rest])
<1> DEFINE d == [c EXCEPT !.pc = stage]
           e == [c EXCEPT !.pc = stage, !.old = rest]
<1>1. /\ d \in Current /\ d.pc = stage /\ d.reply = c.reply /\ d.stream = c.stream
      /\ d.bubble = c.bubble
  BY DEF Current, Answered
<1>2. /\ e \in Current /\ e.pc = stage /\ e.reply = c.reply /\ e.stream = c.stream
      /\ e.bubble = c.bubble
  BY DEF Current, Answered
<1> HIDE DEF d, e
<1>3. Good(d) /\ Good(e)
  BY <1>1, <1>2 DEF Good, Shows, InStep, AsReplied, Answered
<1> QED BY <1>3 DEF d, e

(* The stages after the answer, and the ends of a turn.                       *)
LEMMA StagesKeep ==
    ASSUME ChatInv, NEW t \in Turns,
           \/ Ct!Break(t) \/ Ct!ReadConversation(t) \/ Ct!Save(t) \/ Ct!Log(t)
           \/ Ct!Disconnect(t) \/ \E stream \in BOOLEAN : Ct!SetUp(t, stream)
    PROVE  ChatInv'
<1> DEFINE c == turn[t]
<1>1. c.pc \in {"asked", "failed"} \cup Answered => c \in Current /\ Shows(c)
  BY UnderWay DEF ChatInv, Showing
<1>2. pool \subseteq [by : Turns, laptop : Laptops] /\ laptops \subseteq Laptops
  BY DEF ChatInv, ChatTyped
<1>3. \A how \in {"lost", "error", "done", "left"} : Good(Ct!Ended(how))
  BY DEF Good, Over
<1>4. CASE Ct!Break(t)
  <2>1. Good([c EXCEPT !.pc = "failed"])
    BY <1>1, <1>2, <1>4, StageKeeps DEF Ct!Break
  <2> QED BY <1>2, <1>4, <2>1, OneTurn DEF Ct!Break, Ct!RowsUnchanged
<1>5. CASE Ct!ReadConversation(t)
  <2>1. c \in Current /\ Shows(c) /\ c.pc = "answered"
    BY <1>1, <1>5 DEF Ct!ReadConversation, Answered
  <2>2. Good([c EXCEPT !.pc = "saving", !.old = pool]) /\ Good([c EXCEPT !.pc = "unsaved"])
    BY <1>2, <2>1, StageKeeps DEF Answered
  <2>3. PICK d : Good(d) /\ Ct!Become(t, d)
    BY <1>5, <2>2 DEF Ct!ReadConversation
  <2> QED BY <1>2, <1>5, <2>3, OneTurn DEF Ct!ReadConversation, Ct!RowsUnchanged
<1>6. CASE Ct!Save(t)
  <2>1. c \in Current /\ Shows(c) /\ c.pc = "saving"
    BY <1>1, <1>6 DEF Ct!Save, Answered
  <2>2. Good([c EXCEPT !.pc = "saved"]) /\ Good(Ct!Ended("lost"))
    BY <1>2, <1>3, <2>1, StageKeeps DEF Answered
  <2>3. PICK d : Good(d) /\ Ct!Become(t, d)
    BY <1>6, <2>2 DEF Ct!Save
  <2>4. c.results # Nothing => [by : {t}, laptop : c.results]
                              \subseteq [by : Turns, laptop : Laptops]
    BY <2>1 DEF Current
  <2>5. pool' \subseteq [by : Turns, laptop : Laptops] /\ laptops' \subseteq Laptops
    BY <1>2, <1>6, <2>4 DEF Ct!Save, Ct!ReplaceRows
  <2> QED BY <2>3, <2>5, OneTurn
<1>7. CASE Ct!Log(t)
  <2>1. PICK d : Good(d) /\ Ct!Become(t, d)
    BY <1>3, <1>7 DEF Ct!Log
  <2> QED BY <1>2, <1>7, <2>1, OneTurn DEF Ct!Log
<1>8. CASE Ct!Disconnect(t)
  BY <1>2, <1>3, <1>8, OneTurn DEF Ct!Disconnect, Ct!RowsUnchanged
<1>9. ASSUME NEW stream \in BOOLEAN, Ct!SetUp(t, stream) PROVE ChatInv'
  <2> DEFINE d == Ct!NewTurn(stream)
  <2>1. d \in Current
    BY DEF Ct!NewTurn, Current, Reply
  <2>2. Shows(d)
    BY DEF Ct!NewTurn, Shows, InStep, AsReplied, Answered
  <2> HIDE DEF d
  <2>3. Good(d) /\ Ct!Become(t, d)
    BY <1>9, <2>1, <2>2 DEF Ct!SetUp, Good, d
  <2> QED BY <1>2, <1>9, <2>3, OneTurn DEF Ct!SetUp
<1> QED BY <1>4, <1>5, <1>6, <1>7, <1>8, <1>9

(* Every step of the conversation keeps it.                                   *)
LEMMA ChatStep ==
    ASSUME ChatInv, Ct!ChainAssumption, [Ct!ChatNext]_chat
    PROVE  ChatInv'
<1>1. ASSUME UNCHANGED turn, pool' \subseteq pool, laptops' \subseteq laptops PROVE ChatInv'
  BY <1>1 DEF ChatInv, ChatTyped, Showing
<1>2. CASE UNCHANGED chat
  BY <1>1, <1>2 DEF chat
<1>3. CASE Ct!ReadChildren \/ Ct!CommitDeletion
  BY <1>1, <1>3 DEF Ct!ReadChildren, Ct!CommitDeletion
<1>4. CASE \E l \in Laptops : Ct!DeleteLaptop(l)
  BY <1>1, <1>4 DEF Ct!DeleteLaptop
<1> QED BY <1>2, <1>3, <1>4, SpeakKeeps, UnavailableKeeps, CallToolsKeeps, AnswerKeeps, StagesKeep
        DEF Ct!ChatNext

(* No turn has begun at first.                                                *)
LEMMA ChatStart == ASSUME Ct!ChatInit PROVE ChatInv
  BY OverIsOver DEF Ct!ChatInit, ChatInv, ChatTyped, Showing, Over

(* What is saved is what was shown.                                           *)
LEMMA ShownIsSaved == ASSUME ChatInv PROVE Ct!ReplyIsWhatWasShown
  BY UnderWay DEF ChatInv, Showing, Shows, AsReplied, Answered, Ct!ReplyIsWhatWasShown

-----------------------------------------------------------------------------
(* ModelSettings. What a copy of the chain says about its age, and what is    *)
(* left to write of an update.                                                *)

Rows0 == DOMAIN stored = {"primary", "backups"}

(* A copy in process s: its time and generation are past; its history is as   *)
(* long; one that missed a finished update of the process is a generation     *)
(* behind; one that missed no commit shows the rows, or hides some.           *)
CopyFields == {"pc", "gen", "at", "outage", "since", "blind", "models"}
Dated(c, s) ==
    /\ DOMAIN c = CopyFields /\ c.pc = "read"
    /\ c.gen \in Nat /\ c.gen <= generation[s] /\ c.at \in Nat /\ c.at <= clock
    /\ c.since # Unset => c.since \in Nat /\ c.at <= c.since
    /\ c.blind => c.gen < generation[s]
Exact(c) == c.since = Unset /\ ~c.models.unseen => c.models = Ms!Resolved(stored)
CopySound(c, s) == Dated(c, s) /\ Exact(c)

(* The statements that may be left, and the rows once they are done.          *)
IsBump(x) == x.key = "bump"
IsRow(x) == x.key \in {"primary", "backups"}
Left(q) ==
    \/ q = <<>>
    \/ q = <<q[1]>> /\ IsBump(q[1])
    \/ q = <<q[1], q[2]>> /\ IsRow(q[1]) /\ IsBump(q[2])
    \/ q = <<q[1], q[2], q[3]>> /\ IsBump(q[1]) /\ IsRow(q[2]) /\ IsBump(q[3])
    \/ /\ q = <<q[1], q[2], q[3], q[4]>>
       /\ IsRow(q[1]) /\ IsBump(q[2]) /\ IsRow(q[3]) /\ IsBump(q[4])
Put(st, x) == IF x.key = "primary" THEN [st EXCEPT !.primary = x.value]
              ELSE [st EXCEPT !.backups = x.value]
Done(st, q) == CASE Len(q) = 2 -> Put(st, q[1])
                 [] Len(q) = 3 -> Put(st, q[2])
                 [] Len(q) = 4 -> Put(Put(st, q[1]), q[3])
                 [] OTHER -> st

Asking(k, s) == /\ DOMAIN k = {"pc", "gen", "at"} /\ k.pc = "reading"
                /\ k.gen \in Nat /\ k.gen <= generation[s] /\ k.at \in Nat /\ k.at <= clock
Knowing(k) == DOMAIN k = {"pc", "models", "since"} /\ k.pc = "resolved" /\ Exact(k)
Updating(k) ==
    /\ DOMAIN k = {"pc", "todo", "intended"} /\ Left(k.todo)
    /\ k.pc = IF k.todo = <<>> THEN "written" ELSE "writing"
    /\ k.intended # Unset => Ms!Chain(Ms!Resolved(Done(stored, k.todo))) = k.intended
TaskSound(k, s) == k = Ms!Waiting \/ Asking(k, s) \/ CopySound(k, s) \/ Knowing(k) \/ Updating(k)

SettingsTyped ==
    /\ serverOf \in [Tasks -> Servers] /\ generation \in [Servers -> Nat] /\ clock \in Nat
    /\ Rows0
    /\ DOMAIN task = Tasks /\ DOMAIN cached = Servers
SettingsInv ==
    /\ SettingsTyped
    /\ \A t \in Tasks : TaskSound(task[t], serverOf[t])
    /\ \A s \in Servers : cached[s] = Ms!NoCopy \/ CopySound(cached[s], s)

(* What a request or a copy says depends on the rows, the generations and the *)
(* time.                                                                      *)
LEMMA SettingsFrame ==
    ASSUME UNCHANGED <<stored, generation, clock>>, NEW k, NEW s
    PROVE  /\ CopySound(k, s) => CopySound(k, s)'
           /\ TaskSound(k, s) => TaskSound(k, s)'
<1>1. (Dated(k, s) => Dated(k, s)') /\ (Exact(k) => Exact(k)')
  BY DEF Dated, Exact
<1>2. (Asking(k, s) => Asking(k, s)') /\ (Updating(k) => Updating(k)')
  BY DEF Asking, Updating
<1> QED BY <1>1, <1>2 DEF CopySound, TaskSound, Knowing

(* A request that moves on by itself disturbs nobody.                         *)
LEMMA OneRequest ==
    ASSUME SettingsInv, NEW t \in Tasks, NEW k, TaskSound(k, serverOf[t]), Ms!Become(t, k),
           UNCHANGED <<serverOf, stored, generation, cached, clock>>
    PROVE  SettingsInv'
<1>1. task' = [task EXCEPT ![t] = k]
  BY DEF Ms!Become
<1>2. SettingsTyped'
  BY <1>1 DEF SettingsInv, SettingsTyped, Rows0
<1>3. ASSUME NEW u \in Tasks PROVE TaskSound(task[u], serverOf[u])'
  <2>1. PICK j, s : j = task'[u] /\ s = serverOf[u]
    OBVIOUS
  <2>2. TaskSound(j, s)
    BY <1>1, <2>1 DEF SettingsInv, SettingsTyped
  <2>3. TaskSound(j, s)'
    BY <2>2, SettingsFrame
  <2> QED BY <2>1, <2>3
<1>4. ASSUME NEW s \in Servers PROVE (cached[s] = Ms!NoCopy \/ CopySound(cached[s], s))'
  <2>1. PICK c : c = cached[s]
    OBVIOUS
  <2>2. c = Ms!NoCopy \/ CopySound(c, s)'
    BY <2>1, SettingsFrame DEF SettingsInv
  <2> QED BY <2>1, <2>2
<1> QED BY <1>2, <1>3, <1>4 DEF SettingsInv

(* The stages of a request tell its record.                                   *)
LEMMA TaskKinds ==
    ASSUME NEW k, NEW s, TaskSound(k, s)
    PROVE  /\ k.pc = "reading" => Asking(k, s)
           /\ k.pc = "read" => CopySound(k, s)
           /\ k.pc = "resolved" => Knowing(k)
           /\ k.pc \in {"writing", "written"} => Updating(k)
  BY DEF TaskSound, Asking, CopySound, Dated, Knowing, Updating, Ms!Waiting

(* A look at the cache.                                                       *)
LEMMA ResolveKeeps ==
    ASSUME SettingsInv, NEW t \in Tasks, Ms!Resolve(t)
    PROVE  SettingsInv'
<1> DEFINE s == serverOf[t]
           hit == [pc |-> "resolved", models |-> cached[s].models, since |-> cached[s].since]
           miss == [pc |-> "reading", gen |-> generation[s], at |-> clock]
<1>1. s \in Servers /\ generation[s] \in Nat /\ clock \in Nat
  BY DEF SettingsInv, SettingsTyped
<1>2. Ms!Usable(s) => Knowing(hit)
  BY <1>1 DEF Ms!Usable, Knowing, Exact, CopySound, SettingsInv
<1>3. Asking(miss, s)
  BY <1>1 DEF Asking
<1>4. PICK k : TaskSound(k, s) /\ Ms!Become(t, k)
  BY <1>2, <1>3 DEF Ms!Resolve, TaskSound
<1> QED BY <1>4, OneRequest DEF Ms!Resolve

(* The rows as they are now, or as an outage makes them appear.               *)
LEMMA ReadRowsKeeps ==
    ASSUME SettingsInv, NEW t \in Tasks, NEW ok \in BOOLEAN, Ms!ReadRows(t, ok)
    PROVE  SettingsInv'
<1> DEFINE none == [Ms!Resolved([primary |-> Unset, backups |-> Unset]) EXCEPT !.unseen = TRUE]
           models == IF ok THEN Ms!Resolved(stored) ELSE none
           k == [pc |-> "read", gen |-> task[t].gen, at |-> task[t].at, outage |-> ~ok,
                 since |-> Unset, blind |-> FALSE, models |-> models]
<1>1. Asking(task[t], serverOf[t])
  BY TaskKinds DEF Ms!ReadRows, SettingsInv
<1>2. none.unseen
  BY DEF Ms!Resolved
<1>3. Ms!Become(t, k) /\ UNCHANGED <<serverOf, stored, generation, cached, clock>>
  BY DEF Ms!ReadRows
<1>4. models.unseen \/ models = Ms!Resolved(stored)
  BY <1>2
<1> HIDE DEF models, none
<1>5. CopySound(k, serverOf[t])
  BY <1>1, <1>4 DEF CopySound, Dated, Exact, Asking, CopyFields
<1> HIDE DEF k
<1> QED BY <1>3, <1>5, OneRequest DEF TaskSound

(* The copy is kept as it was read.                                           *)
LEMMA KeepKeeps ==
    ASSUME SettingsInv, NEW t \in Tasks, Ms!Keep(t)
    PROVE  SettingsInv'
<1> DEFINE s == serverOf[t]
           k == [pc |-> "resolved", models |-> task[t].models, since |-> task[t].since]
<1>1. CopySound(task[t], s)
  BY TaskKinds DEF Ms!Keep, SettingsInv
<1>2. TaskSound(k, s)
  BY <1>1 DEF TaskSound, Knowing, CopySound, Exact
<1> HIDE DEF k
<1>3. /\ task' = [task EXCEPT ![t] = k] /\ cached' = [cached EXCEPT ![s] = task[t]]
      /\ UNCHANGED <<serverOf, stored, generation, clock>>
  BY DEF Ms!Keep, Ms!Become, k
<1>4. SettingsTyped'
  BY <1>3 DEF SettingsInv, SettingsTyped, Rows0
<1>5. ASSUME NEW u \in Tasks PROVE TaskSound(task[u], serverOf[u])'
  <2>1. PICK j, r : j = task'[u] /\ r = serverOf[u]
    OBVIOUS
  <2>2. TaskSound(j, r)
    BY <1>2, <1>3, <2>1 DEF SettingsInv, SettingsTyped
  <2>3. TaskSound(j, r)'
    BY <1>3, <2>2, SettingsFrame
  <2> QED BY <1>3, <2>1, <2>3
<1>6. ASSUME NEW r \in Servers PROVE (cached[r] = Ms!NoCopy \/ CopySound(cached[r], r))'
  <2>1. PICK c : c = cached'[r]
    OBVIOUS
  <2>2. c = Ms!NoCopy \/ CopySound(c, r)
    BY <1>1, <1>3, <2>1 DEF SettingsInv, SettingsTyped
  <2>3. c = Ms!NoCopy \/ CopySound(c, r)'
    BY <1>3, <2>2, SettingsFrame
  <2> QED BY <2>1, <2>3
<1> QED BY <1>4, <1>5, <1>6 DEF SettingsInv

(* Short sequences.                                                           *)
LEMMA ShortSequences ==
    ASSUME NEW x, NEW y, NEW z, NEW v
    PROVE  /\ Head(<<x>>) = x /\ Tail(<<x>>) = <<>> /\ Len(<<x>>) = 1
           /\ Head(<<x, y>>) = x /\ Tail(<<x, y>>) = <<y>> /\ Len(<<x, y>>) = 2
           /\ Head(<<x, y, z>>) = x /\ Tail(<<x, y, z>>) = <<y, z>> /\ Len(<<x, y, z>>) = 3
           /\ Head(<<x, y, z, v>>) = x /\ Tail(<<x, y, z, v>>) = <<y, z, v>>
           /\ Len(<<x, y, z, v>>) = 4
           /\ <<x, y>> \o <<>> = <<x, y>> /\ <<>> \o <<x, y>> = <<x, y>>
  OBVIOUS

(* Two pairs in a row.                                                        *)
LEMMA TwoPairs ==
    ASSUME NEW x, NEW y, NEW z, NEW v
    PROVE  <<x, y>> \o <<z, v>> = <<x, y, z, v>>
<1> DEFINE S == {x, y, z, v}
           a == <<x, y>>
           b == <<z, v>>
           c == <<x, y, z, v>>
<1>1. /\ Len(a) = 2 /\ Len(b) = 2 /\ Len(c) = 4
      /\ c[1] = a[1] /\ c[2] = a[2] /\ c[3] = b[1] /\ c[4] = b[2]
  OBVIOUS
<1>2. a \in Seq(S) /\ b \in Seq(S) /\ c \in Seq(S)
  OBVIOUS
<1> HIDE DEF a, b, c, S
<1>3. /\ a \o b \in Seq(S) /\ Len(a \o b) = Len(a) + Len(b)
      /\ \A i \in 1..Len(a) + Len(b) : (a \o b)[i] = IF i <= Len(a) THEN a[i] ELSE b[i - Len(a)]
  BY <1>2, ConcatProperties
<1>4. Len(a \o b) = 4 /\ \A i \in 1..4 : (a \o b)[i] = IF i <= 2 THEN a[i] ELSE b[i - 2]
  BY <1>1, <1>3
<1>5. \A i \in 1..4 : i = 1 \/ i = 2 \/ i = 3 \/ i = 4
  OBVIOUS
<1>6. \A i \in 1..4 : (a \o b)[i] = c[i]
  BY <1>1, <1>4, <1>5
<1>7. a \o b = c
  BY <1>1, <1>2, <1>3, <1>4, <1>6, SeqEqual
<1> QED BY <1>7 DEF a, b, c

(* The next statement is a bump, or a row with something left after it.       *)
LEMMA NextStatement ==
    ASSUME NEW q, Left(q), q # <<>>, NEW st
    PROVE  /\ Left(Tail(q))
           /\ Head(q).key = "bump" => Done(st, Tail(q)) = Done(st, q)
           /\ Head(q).key # "bump" => /\ Tail(q) # <<>>
                                      /\ Done(Put(st, Head(q)), Tail(q)) = Done(st, q)
<1> DEFINE Goal == /\ Left(Tail(q))
                   /\ Head(q).key = "bump" => Done(st, Tail(q)) = Done(st, q)
                   /\ Head(q).key # "bump" => /\ Tail(q) # <<>>
                                              /\ Done(Put(st, Head(q)), Tail(q)) = Done(st, q)
<1>1. ASSUME NEW x, q = <<x>>, IsBump(x) PROVE Goal
  <2>1. Head(q) = x /\ Tail(q) = <<>> /\ Len(q) = 1 /\ Len(<<>>) = 0
    BY <1>1
  <2> QED BY <1>1, <2>1 DEF Left, Done, IsBump
<1>2. ASSUME NEW x, NEW y, q = <<x, y>>, IsRow(x), IsBump(y) PROVE Goal
  <2> DEFINE r == <<y>>
  <2>1. Head(q) = x /\ Tail(q) = r /\ Len(q) = 2 /\ q[1] = x
    BY <1>2
  <2>2. Len(r) = 1 /\ r[1] = y /\ r = <<r[1]>> /\ r # <<>>
    OBVIOUS
  <2> HIDE DEF r
  <2> QED BY <1>2, <2>1, <2>2 DEF Left, Done, IsBump, IsRow
<1>3. ASSUME NEW x, NEW y, NEW z, q = <<x, y, z>>, IsBump(x), IsRow(y), IsBump(z) PROVE Goal
  <2> DEFINE r == <<y, z>>
  <2>1. Head(q) = x /\ Tail(q) = r /\ Len(q) = 3 /\ q[2] = y
    BY <1>3
  <2>2. Len(r) = 2 /\ r[1] = y /\ r[2] = z /\ r = <<r[1], r[2]>>
    OBVIOUS
  <2> HIDE DEF r
  <2> QED BY <1>3, <2>1, <2>2 DEF Left, Done, IsBump, IsRow
<1>4. ASSUME NEW x, NEW y, NEW z, NEW v, q = <<x, y, z, v>>,
             IsRow(x), IsBump(y), IsRow(z), IsBump(v)
      PROVE  Goal
  <2> DEFINE r == <<y, z, v>>
  <2>1. Head(q) = x /\ Tail(q) = r /\ Len(q) = 4 /\ q[1] = x /\ q[3] = z
    BY <1>4
  <2>2. /\ Len(r) = 3 /\ r[1] = y /\ r[2] = z /\ r[3] = v /\ r = <<r[1], r[2], r[3]>>
        /\ r # <<>>
    OBVIOUS
  <2> HIDE DEF r
  <2> QED BY <1>4, <2>1, <2>2 DEF Left, Done, IsBump, IsRow
<1> HIDE DEF Goal
<1>5. Goal
  BY <1>1, <1>2, <1>3, <1>4 DEF Left
<1> QED BY <1>5 DEF Goal

(* The statements of an update, and the rows it leaves.                       *)
LEMMA UpdateStatements ==
    ASSUME NEW v, NEW b, v # Omit \/ b # Omit, NEW st
    PROVE  LET q == Ms!Statements(v, b)
               first == IF v = Omit THEN st ELSE [st EXCEPT !.primary = v]
           IN  /\ Left(q) /\ q # <<>>
               /\ Done(st, q) = IF b = Omit THEN first ELSE [first EXCEPT !.backups = b]
<1> DEFINE x == [key |-> "primary", value |-> v]
           y == [key |-> "backups", value |-> b]
           z == [key |-> "bump"]
           q == Ms!Statements(v, b)
<1>1. /\ IsRow(x) /\ x.key = "primary" /\ x.value = v
      /\ IsRow(y) /\ y.key = "backups" /\ y.value = b /\ IsBump(z)
  BY DEF IsRow, IsBump
<1>2. /\ v # Omit /\ b = Omit => q = <<x, z>> \o <<>>
      /\ v = Omit /\ b # Omit => q = <<>> \o <<y, z>>
      /\ v # Omit /\ b # Omit => q = <<x, z>> \o <<y, z>>
  BY DEF Ms!Statements
<1> HIDE DEF x, y, z, q
<1>3. /\ <<x, z>> \o <<>> = <<x, z>> /\ <<>> \o <<y, z>> = <<y, z>>
      /\ <<x, z>> \o <<y, z>> = <<x, z, y, z>>
  BY ShortSequences, TwoPairs
<1>4. CASE v # Omit /\ b = Omit
  <2>1. q = <<x, z>> /\ q[1] = x /\ q[2] = z /\ Len(q) = 2
    BY <1>2, <1>3, <1>4
  <2> QED BY <1>1, <1>4, <2>1 DEF Left, Done, Put, q
<1>5. CASE v = Omit /\ b # Omit
  <2>1. q = <<y, z>> /\ q[1] = y /\ q[2] = z /\ Len(q) = 2
    BY <1>2, <1>3, <1>5
  <2> QED BY <1>1, <1>5, <2>1 DEF Left, Done, Put, q
<1>6. CASE v # Omit /\ b # Omit
  <2>1. q = <<x, z, y, z>> /\ q[1] = x /\ q[2] = z /\ q[3] = y /\ q[4] = z /\ Len(q) = 4
    BY <1>2, <1>3, <1>6
  <2>2. Left(q) /\ q # <<>>
    BY <1>1, <2>1 DEF Left
  <2>3. Done(st, q) = Put(Put(st, x), y)
    BY <2>1 DEF Done
  <2>4. Put(st, x) = [st EXCEPT !.primary = v]
    BY <1>1 DEF Put
  <2>5. Put(Put(st, x), y) = [Put(st, x) EXCEPT !.backups = b]
    BY <1>1 DEF Put
  <2> QED BY <1>6, <2>2, <2>3, <2>4, <2>5 DEF q
<1> QED BY <1>4, <1>5, <1>6

(* What an accepted update writes over rows that are all in effect is the     *)
(* chain it was accepted for.                                                 *)
LEMMA AcceptedIsResolved ==
    ASSUME Ms!ValuesAssumption, Rows0,
           NEW v \in {Omit, Unset} \cup Selectable, NEW b \in {Omit, Unset} \cup Ms!Lists,
           v # Omit \/ b # Omit, NEW current, current = Ms!Resolved(stored), ~current.unseen,
           NEW primary, primary = Ms!NewPrimary(current, v), Ms!Accepts(current, primary, b)
    PROVE  Ms!Chain(Ms!Resolved(Done(stored, Ms!Statements(v, b))))
           = Ms!Intended(current, primary, b)
<1> DEFINE first == IF v = Omit THEN stored ELSE [stored EXCEPT !.primary = v]
           final == IF b = Omit THEN first ELSE [first EXCEPT !.backups = b]
<1>1. Done(stored, Ms!Statements(v, b)) = final
  BY UpdateStatements
<1>2. /\ final.primary = IF v = Omit THEN stored.primary ELSE v
      /\ final.backups = IF b = Omit THEN stored.backups ELSE b
  BY DEF Rows0
<1> HIDE DEF final
<1>3. /\ Unset # Omit /\ Unset \notin Selectable /\ Omit \notin Selectable
      /\ Unset \notin Ms!Lists /\ Omit \notin Ms!Lists
  BY DEF Ms!ValuesAssumption
<1>4. /\ current.primary = Ms!Primary(stored.primary)
      /\ current.kept <=> Ms!Kept(stored.backups, current.primary)
      /\ current.kept => current.backups = stored.backups
      /\ stored.backups # Unset => current.kept
  BY DEF Ms!Resolved
<1>5. Ms!Primary(final.primary) = primary
  BY <1>2, <1>3, <1>4 DEF Ms!Primary, Ms!NewPrimary
<1>6. Ms!Resolved(final).primary = primary
      /\ Ms!Resolved(final).backups = IF Ms!Kept(final.backups, primary) THEN final.backups
                                      ELSE Ms!EnvBackups(primary)
  BY <1>5 DEF Ms!Resolved
<1>7. CASE b \in Ms!Lists
  <2>1. Ms!Kept(b, primary) /\ final.backups = b
    BY <1>2, <1>3, <1>7 DEF Ms!Accepts, Ms!Kept
  <2>2. Ms!Intended(current, primary, b) = <<primary>> \o b
    BY <1>3, <1>7 DEF Ms!Intended
  <2> QED BY <1>1, <1>6, <2>1, <2>2 DEF Ms!Chain
<1>8. CASE b = Unset
  <2>1. ~Ms!Kept(b, primary) /\ final.backups = b
    BY <1>2, <1>3, <1>8 DEF Ms!Kept
  <2>2. Ms!Intended(current, primary, b) = <<primary>> \o Ms!EnvBackups(primary)
    BY <1>3, <1>8 DEF Ms!Intended
  <2> QED BY <1>1, <1>6, <2>1, <2>2 DEF Ms!Chain
<1>9. CASE b = Omit /\ current.kept
  <2>1. Ms!Kept(stored.backups, primary) /\ final.backups = stored.backups
        /\ current.backups = stored.backups
    BY <1>2, <1>3, <1>4, <1>9 DEF Ms!Accepts, Ms!Kept
  <2>2. Ms!Intended(current, primary, b) = <<primary>> \o stored.backups
    BY <1>3, <1>9, <2>1 DEF Ms!Intended
  <2> QED BY <1>1, <1>6, <2>1, <2>2 DEF Ms!Chain
<1>10. CASE b = Omit /\ ~current.kept
  <2>1. ~Ms!Kept(final.backups, primary)
    BY <1>2, <1>4, <1>10 DEF Ms!Kept
  <2>2. Ms!Intended(current, primary, b) = <<primary>> \o Ms!EnvBackups(primary)
    BY <1>3, <1>10 DEF Ms!Intended
  <2> QED BY <1>1, <1>6, <2>1, <2>2 DEF Ms!Chain
<1> QED BY <1>7, <1>8, <1>9, <1>10

(* An update is accepted.                                                     *)
LEMMA ApplyUpdateKeeps ==
    ASSUME SettingsInv, Ms!ValuesAssumption, NEW t \in Tasks,
           NEW v \in {Omit, Unset} \cup Selectable, NEW b \in {Omit, Unset} \cup Ms!Lists,
           Ms!ApplyUpdate(t, v, b)
    PROVE  SettingsInv'
<1> DEFINE current == task[t].models
           primary == Ms!NewPrimary(current, v)
           q == Ms!Statements(v, b)
           intended == IF task[t].since # Unset \/ current.unseen THEN Unset
                       ELSE Ms!Intended(current, primary, b)
           k == [pc |-> "writing", todo |-> q, intended |-> intended]
<1>1. Knowing(task[t]) /\ (v # Omit \/ b # Omit) /\ Ms!Accepts(current, primary, b)
  BY TaskKinds DEF Ms!ApplyUpdate, SettingsInv
<1>2. Left(q) /\ q # <<>>
  BY <1>1, UpdateStatements
<1>3. intended # Unset => current = Ms!Resolved(stored) /\ ~current.unseen
                          /\ intended = Ms!Intended(current, primary, b)
  BY <1>1 DEF Knowing, Exact
<1>4. Ms!Become(t, k) /\ UNCHANGED <<serverOf, stored, generation, cached, clock>>
  BY DEF Ms!ApplyUpdate
<1> HIDE DEF current, primary, intended
<1>5. intended # Unset => Ms!Chain(Ms!Resolved(Done(stored, q))) = intended
  <2> SUFFICES ASSUME intended # Unset
               PROVE  Ms!Chain(Ms!Resolved(Done(stored, q))) = intended
    OBVIOUS
  <2>1. Rows0 /\ primary = Ms!NewPrimary(current, v)
    BY DEF SettingsInv, SettingsTyped, primary
  <2> QED BY <1>1, <1>3, <2>1, AcceptedIsResolved
<1> HIDE DEF q
<1>6. Updating(k)
  BY <1>2, <1>5 DEF Updating
<1> HIDE DEF k
<1> QED BY <1>4, <1>6, OneRequest DEF TaskSound

(* A commit: every copy that missed none so far says since when it does.      *)
LEMMA Aged ==
    ASSUME SettingsInv, Ms!ValuesAssumption, UNCHANGED <<generation, clock>>,
           NEW c, NEW s, Dated(c, s), NEW d, d = Ms!Older(c)
    PROVE  CopySound(d, s)'
<1>1. clock \in Nat /\ clock # Unset
  BY DEF SettingsInv, SettingsTyped, Ms!ValuesAssumption
<1>2. CASE c.since = Unset
  <2>1. d = [c EXCEPT !.since = clock]
    BY <1>2 DEF Ms!Older
  <2>2. /\ DOMAIN d = DOMAIN c /\ d.pc = c.pc /\ d.gen = c.gen /\ d.at = c.at
        /\ d.blind = c.blind /\ d.since = clock
    BY <2>1 DEF Dated, CopyFields
  <2> HIDE DEF CopyFields
  <2> QED BY <1>1, <2>2 DEF Dated, CopySound, Exact
<1>3. CASE c.since # Unset
  BY <1>3 DEF Dated, CopySound, Exact, Ms!Older
<1> QED BY <1>2, <1>3

(* A bump: a copy that missed something is now marked, and behind.            *)
LEMMA Behind ==
    ASSUME SettingsInv, UNCHANGED <<stored, clock>>, NEW c, NEW s, CopySound(c, s),
           generation[s] \in Nat, generation'[s] \in Nat, NEW ended,
           generation'[s] >= generation[s], ended => generation'[s] > generation[s],
           NEW d, d = Ms!Missed(c, ended)
    PROVE  CopySound(d, s)'
<1>1. CASE d = c
  <2>1. Dated(c, s)'
    BY DEF CopySound, Dated
  <2>2. Exact(c)'
    BY DEF CopySound, Exact
  <2> QED BY <1>1, <2>1, <2>2 DEF CopySound
<1>2. CASE d # c
  <2>1. ended /\ c.since # Unset /\ d = [c EXCEPT !.blind = TRUE]
    BY <1>2 DEF Ms!Missed
  <2>2. /\ DOMAIN d = DOMAIN c /\ d.pc = c.pc /\ d.gen = c.gen /\ d.at = c.at
        /\ d.blind = TRUE /\ d.since = c.since
    BY <2>1 DEF CopySound, Dated, CopyFields
  <2> HIDE DEF CopyFields
  <2>3. Exact(d)'
    BY <2>1, <2>2 DEF Exact
  <2>4. c.gen \in Nat /\ c.gen < generation'[s]
    BY <2>1 DEF CopySound, Dated
  <2>5. /\ DOMAIN c = CopyFields /\ c.pc = "read" /\ c.at \in Nat /\ c.at <= clock'
        /\ c.since \in Nat /\ c.at <= c.since
    BY <2>1 DEF CopySound, Dated
  <2>6. d.gen \in Nat /\ d.gen < generation'[s] /\ d.gen <= generation'[s]
    BY <2>2, <2>4
  <2>7. Dated(d, s)'
    BY <2>2, <2>5, <2>6 DEF Dated
  <2> QED BY <2>3, <2>7 DEF CopySound
<1> QED BY <1>1, <1>2

(* The updater moves on to the rest of its statements.                        *)
LEMMA SteppedOn ==
    ASSUME NEW k, Updating(k), k.pc = "writing", NEW st,
           Ms!Chain(Ms!Resolved(Done(st, Tail(k.todo))))
             = Ms!Chain(Ms!Resolved(Done(stored, k.todo))),
           stored' = st, NEW d,
           d = [k EXCEPT !.todo = Tail(k.todo),
                         !.pc = IF Tail(k.todo) = <<>> THEN "written" ELSE "writing"]
    PROVE  Updating(d)'
<1>1. Left(k.todo) /\ k.todo # <<>>
  BY DEF Updating
<1>2. Left(Tail(k.todo))
  BY <1>1, NextStatement
<1>3. /\ DOMAIN d = {"pc", "todo", "intended"} /\ d.todo = Tail(k.todo) /\ d.intended = k.intended
      /\ d.pc = IF d.todo = <<>> THEN "written" ELSE "writing"
  BY DEF Updating
<1> QED BY <1>2, <1>3 DEF Updating

(* The commit of a row.                                                       *)
LEMMA CommitRowKeeps ==
    ASSUME SettingsInv, Ms!ValuesAssumption, NEW t \in Tasks, Ms!CommitRow(t)
    PROVE  SettingsInv'
<1> DEFINE k == task[t]
           q == k.todo
           ended == Tail(q) = <<>>
<1>1. Updating(k) /\ k.pc = "writing" /\ Left(q) /\ q # <<>> /\ Head(q).key # "bump"
  <2>1. Updating(k) /\ k.pc = "writing" /\ Head(q).key # "bump"
    BY TaskKinds DEF Ms!CommitRow, SettingsInv
  <2> QED BY <2>1 DEF Updating
<1>2. ~ended /\ Done(Put(stored, Head(q)), Tail(q)) = Done(stored, q)
  BY <1>1, NextStatement
<1>3. stored' = Put(stored, Head(q)) /\ UNCHANGED <<serverOf, generation, clock>>
  BY DEF Ms!CommitRow, Put
<1>4. /\ task' = [u \in Tasks |-> IF u = t THEN Ms!Stepped(t) ELSE Ms!Overtaken1(task[u], FALSE)]
      /\ cached' = [s \in Servers |-> Ms!Copy(cached[s], s, FALSE)]
  BY <1>2 DEF Ms!CommitRow
<1>5. SettingsTyped'
  <2>1. DOMAIN stored' = DOMAIN stored
    BY <1>3 DEF Put
  <2> QED BY <1>3, <1>4, <2>1 DEF SettingsInv, SettingsTyped, Rows0
<1>6. \A c : Ms!Missed(c, FALSE) = c
  BY DEF Ms!Missed
<1>7. TaskSound(task[t], serverOf[t])'
  <2>1. PICK d, j : /\ d = task'[t] /\ j = task[t]
                    /\ d = [j EXCEPT !.todo = Tail(j.todo),
                                     !.pc = IF Tail(j.todo) = <<>> THEN "written" ELSE "writing"]
    BY <1>4 DEF Ms!Stepped
  <2>2. PICK st : st = stored'
    OBVIOUS
  <2>3. Updating(j) /\ j.pc = "writing"
    BY <1>1, <2>1
  <2>4. Done(st, Tail(j.todo)) = Done(stored, j.todo)
    BY <1>2, <1>3, <2>1, <2>2
  <2>5. Updating(d)'
    BY <2>1, <2>2, <2>3, <2>4, SteppedOn
  <2> QED BY <2>1, <2>5 DEF TaskSound
<1>8. ASSUME NEW u \in Tasks, u # t PROVE TaskSound(task[u], serverOf[u])'
  <2>1. PICK c, d, s : c = task[u] /\ d = task'[u] /\ s = serverOf[u]
    OBVIOUS
  <2>2. TaskSound(c, s) /\ d = Ms!Overtaken1(c, FALSE)
    BY <1>4, <1>8, <2>1 DEF SettingsInv
  <2>3. ASSUME c = Ms!Waiting PROVE TaskSound(d, s)'
    BY <2>2, <2>3 DEF Ms!Overtaken1, Ms!Waiting, TaskSound
  <2>4. ASSUME Asking(c, s) PROVE TaskSound(d, s)'
    <3>1. d = c
      BY <2>2, <2>4 DEF Ms!Overtaken1, Asking
    <3> QED BY <1>3, <2>4, <3>1 DEF TaskSound, Asking
  <2>5. ASSUME CopySound(c, s) PROVE TaskSound(d, s)'
    <3>1. d = Ms!Older(c) /\ Dated(c, s)
      BY <1>6, <2>2, <2>5 DEF Ms!Overtaken1, CopySound, Dated
    <3> QED BY <1>3, <3>1, Aged DEF TaskSound
  <2>6. ASSUME Knowing(c) PROVE TaskSound(d, s)'
    <3>1. d = Ms!Older(c)
      BY <2>2, <2>6 DEF Ms!Overtaken1, Knowing
    <3>2. clock \in Nat /\ clock # Unset
      BY DEF SettingsInv, SettingsTyped, Ms!ValuesAssumption
    <3>3. DOMAIN d = DOMAIN c /\ d.pc = c.pc /\ d.since # Unset
      BY <2>6, <3>1, <3>2 DEF Ms!Older, Knowing
    <3> QED BY <2>6, <3>3 DEF TaskSound, Knowing, Exact
  <2>7. ASSUME Updating(c) PROVE TaskSound(d, s)'
    <3>1. d = [c EXCEPT !.intended = Unset]
      BY <2>2, <2>7 DEF Ms!Overtaken1, Updating
    <3>2. DOMAIN d = DOMAIN c /\ d.pc = c.pc /\ d.todo = c.todo /\ d.intended = Unset
      BY <2>7, <3>1 DEF Updating
    <3> QED BY <2>7, <3>2 DEF TaskSound, Updating
  <2>8. TaskSound(d, s)'
    BY <2>2, <2>3, <2>4, <2>5, <2>6, <2>7 DEF TaskSound
  <2> QED BY <1>3, <2>1, <2>8
<1>9. ASSUME NEW s \in Servers PROVE (cached[s] = Ms!NoCopy \/ CopySound(cached[s], s))'
  <2>1. PICK c, d : c = cached[s] /\ d = cached'[s]
    OBVIOUS
  <2>2. (c = Ms!NoCopy /\ d = Ms!NoCopy) \/ (CopySound(c, s) /\ d = Ms!Older(c)) \/ d = Ms!NoCopy
    BY <1>4, <1>6, <2>1 DEF SettingsInv, Ms!Copy
  <2>3. d = Ms!NoCopy \/ CopySound(d, s)'
    BY <1>3, <2>2, Aged DEF CopySound
  <2> QED BY <2>1, <2>3
<1> QED BY <1>5, <1>7, <1>8, <1>9 DEF SettingsInv

(* The bump after it.                                                         *)
LEMMA BumpKeeps ==
    ASSUME SettingsInv, NEW t \in Tasks, Ms!Bump(t)
    PROVE  SettingsInv'
<1> DEFINE k == task[t]
           q == k.todo
           home == serverOf[t]
           Ends(s) == Tail(q) = <<>> /\ s = home
<1>1. Updating(k) /\ k.pc = "writing" /\ Left(q) /\ q # <<>> /\ Head(q).key = "bump"
  <2>1. Updating(k) /\ k.pc = "writing" /\ Head(q).key = "bump"
    BY TaskKinds DEF Ms!Bump, SettingsInv
  <2> QED BY <2>1 DEF Updating
<1>2. Done(stored, Tail(q)) = Done(stored, q)
  BY <1>1, NextStatement
<1>3. /\ generation' = [generation EXCEPT ![home] = @ + 1]
      /\ UNCHANGED <<serverOf, stored, clock>>
      /\ task' = [u \in Tasks |->
                     CASE u = t -> Ms!Stepped(t)
                       [] u # t /\ task[u].pc = "read" -> Ms!Missed(task[u], Ends(serverOf[u]))
                       [] OTHER -> task[u]]
      /\ cached' = [s \in Servers |-> IF cached[s] = Ms!NoCopy THEN Ms!NoCopy
                                      ELSE Ms!Missed(cached[s], Ends(s))]
  BY DEF Ms!Bump
<1>4. SettingsTyped'
  BY <1>3 DEF SettingsInv, SettingsTyped, Rows0
<1>5. \A s \in Servers : /\ generation[s] \in Nat /\ generation'[s] \in Nat
                         /\ generation'[s] >= generation[s]
                         /\ Ends(s) => generation'[s] > generation[s]
  BY <1>3 DEF SettingsInv, SettingsTyped
<1>6. TaskSound(task[t], serverOf[t])'
  <2>1. PICK d, j : /\ d = task'[t] /\ j = task[t]
                    /\ d = [j EXCEPT !.todo = Tail(j.todo),
                                     !.pc = IF Tail(j.todo) = <<>> THEN "written" ELSE "writing"]
    BY <1>3 DEF Ms!Stepped
  <2>2. PICK st : st = stored'
    OBVIOUS
  <2>3. Updating(j) /\ j.pc = "writing"
    BY <1>1, <2>1
  <2>4. Done(st, Tail(j.todo)) = Done(stored, j.todo)
    BY <1>2, <1>3, <2>1, <2>2
  <2>5. Updating(d)'
    BY <2>1, <2>2, <2>3, <2>4, SteppedOn
  <2> QED BY <2>1, <2>5 DEF TaskSound
<1> HIDE DEF Ends
<1>7. ASSUME NEW u \in Tasks, u # t PROVE TaskSound(task[u], serverOf[u])'
  <2>1. PICK c, d, s : c = task[u] /\ d = task'[u] /\ s = serverOf[u]
    OBVIOUS
  <2>2. TaskSound(c, s) /\ s \in Servers
    BY <2>1 DEF SettingsInv, SettingsTyped
  <2>3. CASE c.pc = "read"
    <3>1. CopySound(c, s) /\ d = Ms!Missed(c, Ends(s))
      BY <1>3, <1>7, <2>1, <2>2, <2>3, TaskKinds
    <3> QED BY <1>3, <1>5, <2>1, <2>2, <3>1, Behind DEF TaskSound
  <2>4. CASE c.pc # "read"
    <3>1. d = c
      BY <1>3, <1>7, <2>1, <2>4
    <3>2. c = Ms!Waiting \/ Asking(c, s) \/ Knowing(c) \/ Updating(c)
      BY <2>2, <2>4 DEF TaskSound, CopySound, Dated
    <3>3. /\ (Asking(c, s) => Asking(c, s)') /\ (Knowing(c) => Knowing(c)')
          /\ (Updating(c) => Updating(c)')
      BY <1>3, <1>5, <2>2 DEF Asking, Knowing, Exact, Updating
    <3> QED BY <1>3, <2>1, <3>1, <3>2, <3>3 DEF TaskSound
  <2> QED BY <2>3, <2>4
<1>8. ASSUME NEW s \in Servers PROVE (cached[s] = Ms!NoCopy \/ CopySound(cached[s], s))'
  <2>1. PICK c, d : c = cached[s] /\ d = cached'[s]
    OBVIOUS
  <2>2. d = Ms!NoCopy \/ (CopySound(c, s) /\ d = Ms!Missed(c, Ends(s)))
    BY <1>3, <2>1 DEF SettingsInv
  <2>3. d = Ms!NoCopy \/ CopySound(d, s)'
    BY <1>3, <1>5, <2>2, Behind
  <2> QED BY <2>1, <2>3
<1> QED BY <1>4, <1>6, <1>7, <1>8 DEF SettingsInv

(* Every step keeps it.                                                       *)
LEMMA SettingsStep ==
    ASSUME SettingsInv, Ms!ValuesAssumption, [Ms!SettingsNext]_settings
    PROVE  SettingsInv'
<1>1. CASE UNCHANGED settings
  BY <1>1, SettingsFrame DEF settings, SettingsInv, SettingsTyped, Rows0
<1>2. CASE Ms!Pass
  <2>1. /\ clock \in Nat /\ clock' = clock + 1
        /\ UNCHANGED <<serverOf, stored, generation, cached, task>>
    BY <1>2 DEF Ms!Pass, SettingsInv, SettingsTyped
  <2>2. SettingsTyped'
    BY <2>1 DEF SettingsInv, SettingsTyped, Rows0
  <2>3. ASSUME NEW c, NEW s
        PROVE  /\ CopySound(c, s) => CopySound(c, s)'
               /\ TaskSound(c, s) => TaskSound(c, s)'
    <3>1. (Dated(c, s) => Dated(c, s)') /\ (Asking(c, s) => Asking(c, s)')
      BY <2>1 DEF Dated, Asking
    <3>2. (Exact(c) => Exact(c)') /\ (Updating(c) => Updating(c)')
      BY <2>1 DEF Exact, Updating
    <3> QED BY <3>1, <3>2 DEF CopySound, TaskSound, Knowing
  <2> QED BY <2>1, <2>2, <2>3 DEF SettingsInv
<1>3. ASSUME NEW t \in Tasks, Ms!Leave(t) \/ Ms!FailUpdate(t) PROVE SettingsInv'
  BY <1>3, OneRequest DEF Ms!Leave, Ms!FailUpdate, TaskSound
<1> QED BY <1>1, <1>2, <1>3, ResolveKeeps, ReadRowsKeeps, KeepKeeps, ApplyUpdateKeeps,
           CommitRowKeeps, BumpKeeps
        DEF Ms!SettingsNext

(* Nobody has asked at first.                                                 *)
LEMMA SettingsStart ==
    ASSUME Ms!SettingsInit, Ms!ValuesAssumption
    PROVE  SettingsInv
  BY DEF Ms!SettingsInit, Ms!ValuesAssumption, SettingsInv, SettingsTyped, Rows0, TaskSound

(* What it says of a copy in use, and of an update that is written.           *)
LEMMA SettingsHold ==
    ASSUME SettingsInv, Ms!ValuesAssumption
    PROVE  Ms!StaleIsShort /\ Ms!AcceptedTakesEffect
<1>1. Ms!StaleIsShort
  <2> SUFFICES ASSUME NEW s \in Servers, Ms!Usable(s)
               PROVE  /\ ~cached[s].blind
                      /\ (cached[s].since = Unset \/ clock - cached[s].since < CacheTtl)
    BY DEF Ms!StaleIsShort
  <2>1. CopySound(cached[s], s) /\ generation[s] \in Nat /\ clock \in Nat /\ CacheTtl \in Nat
    BY DEF SettingsInv, SettingsTyped, Ms!Usable, Ms!ValuesAssumption
  <2>2. cached[s].gen = generation[s] /\ clock - cached[s].at < CacheTtl
    BY DEF Ms!Usable
  <2> QED BY <2>1, <2>2 DEF CopySound, Dated
<1>2. Ms!AcceptedTakesEffect
  <2> SUFFICES ASSUME NEW t \in Tasks, task[t].pc = "written", task[t].intended # Unset
               PROVE  Ms!Chain(Ms!Resolved(stored)) = task[t].intended
    BY DEF Ms!AcceptedTakesEffect
  <2>1. Updating(task[t])
    BY TaskKinds DEF SettingsInv
  <2>2. task[t].todo = <<>> /\ Len(<<>>) = 0
    BY <2>1 DEF Updating
  <2>3. Done(stored, task[t].todo) = stored
    BY <2>2 DEF Done
  <2> QED BY <2>1, <2>3 DEF Updating
<1> QED BY <1>1, <1>2

-----------------------------------------------------------------------------
(* HttpRateLimit. The counted requests of a key, and what is left of them     *)
(* when the expired ones at the front are dropped.                            *)

Bucket(d, k) == IF k \in DOMAIN d THEN d[k] ELSE <<>>
Dict(d) == \A k \in DOMAIN d : d[k] \in Seq(Nat)
Sheds(s, r, w) == \E f \in 1..Len(s) + 1 : /\ r = SubSeq(s, f, Len(s))
                                          /\ \A j \in 1..f - 1 : now - s[j] >= w

CooldownKey(a) == <<"cooldown", a>>
DailyKey(a) == <<"daily", a>>

(* Every mail still in the cooldown has a hit; the daily hits are the last    *)
(* mails, and those before them are a day old.                                *)
Cooled(s, q) == \A i \in 1..Len(q) : now - q[i] >= Cooldown \/ \E j \in 1..Len(s) : s[j] = q[i]
Daily(s, q) == /\ Len(s) <= Len(q)
               /\ \A i \in 1..Len(s) : s[i] = q[Len(q) - Len(s) + i]
               /\ \A i \in 1..Len(q) - Len(s) : now - q[i] >= Day
Bounded(q) ==
    /\ \A i, j \in 1..Len(q) : i < j => q[j] - q[i] >= Cooldown
    /\ \A i \in 1..Len(q) - DailyLimit : q[i + DailyLimit] - q[i] >= Day
Mailed(d, q, a) ==
    Cooled(Bucket(d, CooldownKey(a)), q) /\ Daily(Bucket(d, DailyKey(a)), q) /\ Bounded(q)

LimitsTyped == now \in Nat /\ Dict(hits) /\ sent \in [Addresses -> Seq(Nat)]
LimitsInv ==
    /\ LimitsTyped
    /\ \A a \in Addresses :
          forgot \cap {CooldownKey(a), DailyKey(a)} = {} => Mailed(hits, sent[a], a)

(* A set of numbers has a least one.                                          *)
LEMMA Least ==
    ASSUME NEW T, T \subseteq Nat, T # {}
    PROVE  \E x \in T : \A y \in T : x <= y
<1> DEFINE R == OpToRel(<, Nat)
<1>1. IsWellFoundedOn(R, Nat)
  BY NatLessThanWellFounded
<1>2. \A x, y \in Nat : y < x => <<y, x>> \in R
  BY DEF OpToRel
<1> HIDE DEF R
<1>3. PICK x \in T : \A y \in T : ~(<<y, x>> \in R)
  BY <1>1, WFMin
<1>4. \A y \in T : ~(y < x)
  BY <1>2, <1>3
<1>5. \A y \in T : x <= y
  BY <1>4
<1> QED BY <1>5

(* The loop that pops stops somewhere, and only expired hits are gone.        *)
LEMMA PoppedExpired ==
    ASSUME NEW s \in Seq(Nat), NEW w \in Nat, now \in Nat
    PROVE  Sheds(s, Rl!Remaining(s, w), w) /\ Rl!Remaining(s, w) \in Seq(Nat)
<1> DEFINE stops(i) == /\ \A j \in 1..i - 1 : now - s[j] >= w
                       /\ i <= Len(s) => now - s[i] < w
           T == {i \in 1..Len(s) + 1 : i <= Len(s) => now - s[i] < w}
<1>1. Len(s) \in Nat /\ \A j \in 1..Len(s) : s[j] \in Nat
  OBVIOUS
<1>2. T \subseteq Nat /\ Len(s) + 1 \in T
  BY <1>1
<1>3. PICK x \in T : \A y \in T : x <= y
  BY <1>2, Least
<1>4. x \in 1..Len(s) + 1 /\ stops(x)
  <2>1. ASSUME NEW j \in 1..x - 1 PROVE now - s[j] >= w
    <3>1. j \in 1..Len(s) /\ j < x
      BY <1>1, <1>3
    <3>2. j \notin T
      BY <1>3, <3>1
    <3> QED BY <1>1, <3>1, <3>2
  <2> QED BY <1>3, <2>1
<1>5. Rl!Oldest(s, w) \in 1..Len(s) + 1 /\ stops(Rl!Oldest(s, w))
  <2>1. Rl!Oldest(s, w) = CHOOSE i \in 1..Len(s) + 1 : stops(i)
    BY Zenon DEF Rl!Oldest
  <2> HIDE DEF stops
  <2> QED BY <1>4, <2>1, Zenon
<1>6. SubSeq(s, Rl!Oldest(s, w), Len(s)) \in Seq(Nat)
  BY <1>1, <1>5
<1> QED BY <1>5, <1>6 DEF Sheds, Rl!Remaining

(* Nothing popped.                                                            *)
LEMMA ShedsNothing ==
    ASSUME NEW s \in Seq(Nat), NEW w
    PROVE  Sheds(s, s, w)
<1>1. s = SubSeq(s, 1, Len(s)) /\ 1 \in 1..Len(s) + 1 /\ \A j \in 1..1 - 1 : FALSE
  OBVIOUS
<1> QED BY <1>1 DEF Sheds

(* Popping loses no mail of the last cooldown, nor of the last day.           *)
LEMMA ShedKeeps ==
    ASSUME now \in Nat, NEW s \in Seq(Nat), NEW r, NEW q \in Seq(Nat)
    PROVE  /\ Sheds(s, r, Cooldown) /\ Cooled(s, q) => Cooled(r, q)
           /\ Sheds(s, r, Day) /\ Daily(s, q) => Daily(r, q)
<1>1. ASSUME Sheds(s, r, Cooldown), Cooled(s, q) PROVE Cooled(r, q)
  <2>1. PICK f \in 1..Len(s) + 1 : /\ r = SubSeq(s, f, Len(s))
                                   /\ \A j \in 1..f - 1 : now - s[j] >= Cooldown
    BY <1>1 DEF Sheds
  <2>2. Len(s) \in Nat /\ Len(r) = Len(s) - f + 1 /\ \A j \in 1..Len(r) : r[j] = s[f + j - 1]
    BY <2>1
  <2> SUFFICES ASSUME NEW i \in 1..Len(q), ~(now - q[i] >= Cooldown)
               PROVE  \E j \in 1..Len(r) : r[j] = q[i]
    BY DEF Cooled
  <2>3. PICK j \in 1..Len(s) : s[j] = q[i]
    BY <1>1 DEF Cooled
  <2>4. j \notin 1..f - 1
    BY <2>1, <2>3
  <2>5. j - f + 1 \in 1..Len(r) /\ f + (j - f + 1) - 1 = j
    BY <2>2, <2>4
  <2> QED BY <2>2, <2>3, <2>5
<1>2. ASSUME Sheds(s, r, Day), Daily(s, q) PROVE Daily(r, q)
  <2>1. PICK f \in 1..Len(s) + 1 : /\ r = SubSeq(s, f, Len(s))
                                   /\ \A j \in 1..f - 1 : now - s[j] >= Day
    BY <1>2 DEF Sheds
  <2>2. /\ Len(s) \in Nat /\ Len(q) \in Nat /\ Len(r) = Len(s) - f + 1 /\ Len(r) \in Nat
        /\ \A j \in 1..Len(r) : r[j] = s[f + j - 1]
    BY <2>1
  <2>3. /\ Len(s) <= Len(q)
        /\ \A i \in 1..Len(s) : s[i] = q[Len(q) - Len(s) + i]
        /\ \A i \in 1..Len(q) - Len(s) : now - q[i] >= Day
    BY <1>2 DEF Daily
  <2>4. ASSUME NEW i \in 1..Len(r) PROVE r[i] = q[Len(q) - Len(r) + i]
    <3>1. f + i - 1 \in 1..Len(s) /\ Len(q) - Len(s) + (f + i - 1) = Len(q) - Len(r) + i
      BY <2>2
    <3> QED BY <2>2, <2>3, <3>1
  <2>5. ASSUME NEW i \in 1..Len(q) - Len(r) PROVE now - q[i] >= Day
    <3>1. CASE i <= Len(q) - Len(s)
      BY <2>2, <2>3, <3>1
    <3>2. CASE i > Len(q) - Len(s)
      <4> DEFINE j == i - (Len(q) - Len(s))
      <4>1. j \in 1..f - 1 /\ j \in 1..Len(s) /\ Len(q) - Len(s) + j = i
        BY <2>2, <2>3, <3>2
      <4> HIDE DEF j
      <4> QED BY <2>1, <2>3, <4>1
    <3> QED BY <2>2, <3>1, <3>2
  <2> QED BY <2>2, <2>3, <2>4, <2>5 DEF Daily
<1> QED BY <1>1, <1>2

(* The window of a key, and its limit.                                        *)
LEMMA KeyLimits ==
    ASSUME Rl!WindowsAssumption, NEW a
    PROVE  /\ Rl!Window(CooldownKey(a)) = Cooldown /\ Rl!Limit(CooldownKey(a)) = 1
           /\ Rl!Window(DailyKey(a)) = Day /\ Rl!Limit(DailyKey(a)) = DailyLimit
           /\ Rl!Window(<<"caller", a>>) = CallerWindow
           /\ Rl!Limit(<<"caller", a>>) = PerCaller
           /\ Cooldown \in Nat /\ Cooldown # 0 /\ DailyLimit \in Nat /\ DailyLimit # 0
           /\ Day \in Nat /\ CallerWindow \in Nat /\ PerCaller \in Nat /\ 1 \in Nat
  BY DEF Rl!WindowsAssumption, Rl!Window, Rl!Limit, CooldownKey, DailyKey

(* A bucket is a sequence of times.                                           *)
LEMMA BucketTyped == ASSUME NEW d, Dict(d), NEW k PROVE Bucket(d, k) \in Seq(Nat)
<1>1. <<>> \in Seq(Nat)
  OBVIOUS
<1> QED BY <1>1 DEF Bucket, Dict

(* A key after a count of another, and a key after a count of its own that    *)
(* was allowed.                                                               *)
Popped(d, e, x) == Sheds(Bucket(d, x), Bucket(e, x), Rl!Window(x))
Counts(d, res, k) ==
    \E old \in Seq(Nat) : /\ Sheds(Bucket(d, k), old, Rl!Window(k)) /\ Len(old) < Rl!Limit(k)
                          /\ k \notin res.lost => Bucket(res.dict, k) = Append(old, now)
(* One call of _record on key k: what becomes of k, and of another key that   *)
(* has lost nothing live.                                                     *)
LEMMA RecordEffect ==
    ASSUME now \in Nat, NEW d, Dict(d), NEW k, Rl!Window(k) \in Nat, Rl!Limit(k) \in Nat,
           NEW res, res = Rl!Record(d, k)
    PROVE  /\ Dict(res.dict)
           /\ res.allowed => Counts(d, res, k)
           /\ ~res.allowed => res.lost = {} /\ Popped(d, res.dict, k)
           /\ \A x : x # k /\ Rl!Window(x) \in Nat /\ x \notin res.lost => Popped(d, res.dict, x)
<1> DEFINE old == Rl!Within(d, k)
           seen == Rl!With(d, k, old)
           kept == IF Rl!Cardinality(DOMAIN seen) > MaxKeys THEN Rl!Pruned(seen) ELSE seen
           gone == DOMAIN seen \ DOMAIN kept
           lost == {x \in gone : x = k \/ Rl!Live(seen, x)}
           after == IF k \in gone THEN kept ELSE Rl!With(kept, k, Append(old, now))
           refused == Len(old) >= Rl!Limit(k)
<1>1. /\ refused => res.allowed = FALSE /\ res.dict = seen /\ res.lost = {}
      /\ ~refused => res.allowed = TRUE /\ res.dict = after /\ res.lost = lost
  BY DEF Rl!Record
<1>2. old \in Seq(Nat) /\ Sheds(Bucket(d, k), old, Rl!Window(k))
  <2>1. CASE k \in DOMAIN d
    BY <2>1, PoppedExpired DEF Rl!Within, Bucket, Dict
  <2>2. CASE k \notin DOMAIN d
    <3>1. old = <<>> /\ Bucket(d, k) = <<>> /\ <<>> \in Seq(Nat)
      BY <2>2 DEF Rl!Within, Bucket
    <3> QED BY <3>1, ShedsNothing
  <2> QED BY <2>1, <2>2
<1> HIDE DEF old
<1>3. /\ DOMAIN seen = DOMAIN d \cup {k} /\ seen[k] = old
      /\ \A x \in DOMAIN d : x # k => seen[x] = d[x]
  BY DEF Rl!With
<1>4. Dict(seen) /\ Bucket(seen, k) = old /\ \A x : x # k => Bucket(seen, x) = Bucket(d, x)
  BY <1>2, <1>3 DEF Dict, Bucket
<1> HIDE DEF seen
<1>5. DOMAIN kept \subseteq DOMAIN seen /\ \A x \in DOMAIN kept : kept[x] = seen[x]
  BY DEF Rl!Pruned
<1> HIDE DEF kept
<1>6. Dict(kept) /\ \A x : x \notin gone => Bucket(kept, x) = Bucket(seen, x)
  BY <1>4, <1>5 DEF Dict, Bucket
<1>7. Append(old, now) \in Seq(Nat)
  BY <1>2
<1>8. /\ Dict(after)
      /\ k \notin gone => Bucket(after, k) = Append(old, now)
      /\ \A x : x # k => Bucket(after, x) = Bucket(kept, x)
  BY <1>6, <1>7 DEF Rl!With, Dict, Bucket
<1>9. ASSUME NEW x, x # k, x \notin lost, Rl!Window(x) \in Nat PROVE Popped(d, after, x)
  <2>1. CASE x \notin gone
    <3>1. Bucket(after, x) = Bucket(d, x)
      BY <1>4, <1>6, <1>8, <1>9, <2>1
    <3> QED BY <3>1, ShedsNothing, BucketTyped DEF Popped
  <2>2. CASE x \in gone
    <3> DEFINE q == seen[x]
    <3>1. ~Rl!Live(seen, x) /\ x \in DOMAIN seen /\ x \notin DOMAIN kept
      BY <1>9, <2>2
    <3>2. Bucket(d, x) = q /\ q \in Seq(Nat) /\ Bucket(after, x) = <<>>
      BY <1>4, <1>8, <1>9, <3>1 DEF Bucket, Dict
    <3>3. \A i \in 1..Len(q) : now - q[i] >= Rl!Window(x)
      BY <1>9, <3>1, <3>2 DEF Rl!Live
    <3> HIDE DEF q
    <3>4. PICK f \in 1..Len(q) + 1 : <<>> = SubSeq(q, f, Len(q)) /\ f - 1 = Len(q)
      BY <3>2
    <3>5. \A j \in 1..f - 1 : now - q[j] >= Rl!Window(x)
      BY <3>3, <3>4
    <3> QED BY <3>2, <3>4, <3>5 DEF Popped, Sheds
  <2> QED BY <2>1, <2>2
<1> HIDE DEF after, gone
<1>10. CASE refused
  <2>1. \A x : x # k => Popped(d, seen, x)
    BY <1>4, ShedsNothing, BucketTyped DEF Popped
  <2> QED BY <1>1, <1>2, <1>4, <1>10, <2>1 DEF Popped
<1>11. CASE ~refused
  <2>1. Len(old) < Rl!Limit(k) /\ (k \notin lost => k \notin gone)
    BY <1>2, <1>11
  <2>2. k \notin res.lost => Bucket(res.dict, k) = Append(old, now)
    BY <1>1, <1>8, <1>11, <2>1
  <2>3. Counts(d, res, k)
    BY <1>2, <2>1, <2>2 DEF Counts
  <2> QED BY <1>1, <1>8, <1>9, <1>11, <2>3
<1> QED BY <1>10, <1>11

(* A count against another key leaves the mails of an address accounted for.  *)
LEMMA OtherKeys ==
    ASSUME now \in Nat, Rl!WindowsAssumption, NEW d, Dict(d), NEW k,
           Rl!Window(k) \in Nat, Rl!Limit(k) \in Nat, NEW res, res = Rl!Record(d, k),
           NEW a, NEW q \in Seq(Nat), res.lost \cap {CooldownKey(a), DailyKey(a)} = {}
    PROVE  /\ (k # CooldownKey(a) \/ ~res.allowed) /\ Cooled(Bucket(d, CooldownKey(a)), q)
              => Cooled(Bucket(res.dict, CooldownKey(a)), q)
           /\ (k # DailyKey(a) \/ ~res.allowed) /\ Daily(Bucket(d, DailyKey(a)), q)
              => Daily(Bucket(res.dict, DailyKey(a)), q)
<1>1. ASSUME NEW x, x # k \/ ~res.allowed, x \notin res.lost, Rl!Window(x) \in Nat
      PROVE  Popped(d, res.dict, x)
  BY <1>1, RecordEffect
<1>2. k # CooldownKey(a) \/ ~res.allowed
      => Sheds(Bucket(d, CooldownKey(a)), Bucket(res.dict, CooldownKey(a)), Cooldown)
  BY <1>1, KeyLimits DEF Popped
<1>3. k # DailyKey(a) \/ ~res.allowed
      => Sheds(Bucket(d, DailyKey(a)), Bucket(res.dict, DailyKey(a)), Day)
  BY <1>1, KeyLimits DEF Popped
<1>4. Bucket(d, CooldownKey(a)) \in Seq(Nat) /\ Bucket(d, DailyKey(a)) \in Seq(Nat)
  BY BucketTyped
<1> QED BY <1>2, <1>3, <1>4, ShedKeeps

(* A mail that passes the cooldown and the cap is far enough from the ones    *)
(* before it.                                                                 *)
LEMMA OneMore ==
    ASSUME now \in Nat, Rl!WindowsAssumption, NEW q \in Seq(Nat), Bounded(q),
           \A i \in 1..Len(q) : now - q[i] >= Cooldown,
           NEW s \in Seq(Nat), Daily(s, q), Len(s) < DailyLimit
    PROVE  Bounded(Append(q, now)) /\ Daily(Append(s, now), Append(q, now))
<1> DEFINE r == Append(q, now)
           t == Append(s, now)
<1>1. /\ Len(q) \in Nat /\ Len(s) \in Nat /\ Len(r) = Len(q) + 1 /\ Len(t) = Len(s) + 1
      /\ r[Len(q) + 1] = now /\ t[Len(s) + 1] = now
      /\ \A i \in 1..Len(q) : r[i] = q[i] /\ q[i] \in Nat
      /\ \A i \in 1..Len(s) : t[i] = s[i]
  OBVIOUS
<1>2. Cooldown \in Nat /\ DailyLimit \in Nat \ {0} /\ Day \in Nat
  BY KeyLimits
<1> HIDE DEF r, t
<1>3. ASSUME NEW i \in 1..Len(r), NEW j \in 1..Len(r), i < j PROVE r[j] - r[i] >= Cooldown
  <2>0. i \in 1..Len(q) /\ r[i] = q[i]
    BY <1>1, <1>3
  <2>1. CASE j = Len(q) + 1
    <3>1. r[j] = now /\ now - q[i] >= Cooldown
      BY <1>1, <2>0, <2>1
    <3> QED BY <2>0, <3>1
  <2>2. CASE j # Len(q) + 1
    <3>1. PICK n \in Nat : n = Len(q) /\ Len(r) = n + 1
      BY <1>1
    <3>2. j \in 1..n + 1 /\ j # n + 1
      BY <2>2, <3>1
    <3>4. j \in 1..n
      BY <3>2
    <3>3. j \in 1..Len(q) /\ r[j] = q[j]
      BY <1>1, <3>1, <3>4
    <3> QED BY <1>3, <2>0, <3>3 DEF Bounded
  <2> QED BY <2>1, <2>2
<1>4. ASSUME NEW i \in 1..Len(r) - DailyLimit PROVE r[i + DailyLimit] - r[i] >= Day
  <2>1. CASE i + DailyLimit = Len(q) + 1
    <3>1. i \in 1..Len(q) - Len(s) /\ i \in 1..Len(q)
      BY <1>1, <1>2, <2>1
    <3> QED BY <1>1, <2>1, <3>1 DEF Daily
  <2>2. CASE i + DailyLimit # Len(q) + 1
    <3>1. PICK n, k : n = Len(q) /\ k = DailyLimit
      OBVIOUS
    <3>2. n \in Nat /\ k \in Nat /\ k > 0 /\ i \in 1..n + 1 - k /\ i + k # n + 1
      BY <1>1, <1>2, <2>2, <3>1
    <3>3. i \in 1..n - k /\ i \in 1..n /\ i + k \in 1..n
      BY <3>2
    <3>4. i \in 1..Len(q) - DailyLimit /\ i \in 1..Len(q) /\ i + DailyLimit \in 1..Len(q)
      BY <3>1, <3>3
    <3>5. r[i] = q[i] /\ r[i + DailyLimit] = q[i + DailyLimit]
      BY <1>1, <3>4
    <3> QED BY <3>4, <3>5 DEF Bounded
  <2> QED BY <2>1, <2>2
<1>5. ASSUME NEW i \in 1..Len(t) PROVE t[i] = r[Len(r) - Len(t) + i]
  <2>1. Len(s) <= Len(q) /\ \A j \in 1..Len(s) : s[j] = q[Len(q) - Len(s) + j]
    BY DEF Daily
  <2>2. CASE i = Len(s) + 1
    BY <1>1, <2>2
  <2>3. CASE i # Len(s) + 1
    <3>1. i \in 1..Len(s) /\ Len(q) - Len(s) + i \in 1..Len(q)
          /\ Len(r) - Len(t) + i = Len(q) - Len(s) + i
      BY <1>1, <2>1, <2>3
    <3> QED BY <1>1, <2>1, <3>1
  <2> QED BY <2>2, <2>3
<1>6. Len(t) <= Len(r) /\ \A i \in 1..Len(r) - Len(t) : now - r[i] >= Day
  <2>1. Len(s) <= Len(q) /\ \A i \in 1..Len(q) - Len(s) : now - q[i] >= Day
    BY DEF Daily
  <2>2. Len(r) - Len(t) = Len(q) - Len(s) /\ Len(t) <= Len(r)
    BY <1>1, <2>1
  <2>3. ASSUME NEW i \in 1..Len(q) - Len(s) PROVE now - r[i] >= Day
    <3>1. i \in 1..Len(q) /\ r[i] = q[i]
      BY <1>1
    <3> QED BY <2>1, <3>1
  <2> QED BY <2>2, <2>3
<1>7. Bounded(r) /\ Daily(t, r)
  BY <1>3, <1>4, <1>5, <1>6 DEF Bounded, Daily
<1> QED BY <1>7 DEF r, t

(* The cooldown and the cap of an address, for its own mail and another's.    *)
LEMMA MailEffect ==
    ASSUME now \in Nat, Rl!WindowsAssumption, NEW d, Dict(d), NEW a,
           NEW res, res = Rl!MaySendTo(d, a)
    PROVE  /\ Dict(res.dict)
           /\ \A b, q : /\ q \in Seq(Nat) /\ Mailed(d, q, b)
                       /\ res.lost \cap {CooldownKey(b), DailyKey(b)} = {}
                       => Mailed(res.dict, IF b = a /\ res.allowed THEN Append(q, now) ELSE q, b)
<1> DEFINE first == Rl!Record(d, CooldownKey(a))
           second == Rl!Record(first.dict, DailyKey(a))
<1>1. /\ first.allowed => /\ res.allowed = second.allowed /\ res.dict = second.dict
                          /\ res.lost = first.lost \cup second.lost
      /\ ~first.allowed => res.allowed = FALSE /\ res.dict = first.dict /\ res.lost = first.lost
  BY DEF Rl!MaySendTo, CooldownKey, DailyKey
<1>2. PICK one : one = first
  OBVIOUS
<1>3. PICK two : two = second
  OBVIOUS
<1>4. /\ one = Rl!Record(d, CooldownKey(a)) /\ two = Rl!Record(one.dict, DailyKey(a))
      /\ one.allowed => /\ res.allowed = two.allowed /\ res.dict = two.dict
                        /\ res.lost = one.lost \cup two.lost
      /\ ~one.allowed => res.allowed = FALSE /\ res.dict = one.dict /\ res.lost = one.lost
  BY <1>1, <1>2, <1>3
<1> HIDE DEF first, second
<1>5. /\ Rl!Window(CooldownKey(a)) \in Nat /\ Rl!Limit(CooldownKey(a)) \in Nat
      /\ Rl!Window(DailyKey(a)) \in Nat /\ Rl!Limit(DailyKey(a)) \in Nat
  BY KeyLimits
<1>6. Dict(one.dict) /\ (one.allowed => Counts(d, one, CooldownKey(a)))
  BY <1>4, <1>5, RecordEffect
<1>7. Dict(two.dict) /\ (two.allowed => Counts(one.dict, two, DailyKey(a)))
  BY <1>4, <1>5, <1>6, RecordEffect
<1>8. /\ CooldownKey(a) # DailyKey(a)
      /\ \A b : b # a => CooldownKey(b) # CooldownKey(a) /\ DailyKey(b) # DailyKey(a)
      /\ \A b : CooldownKey(b) # DailyKey(a) /\ DailyKey(b) # CooldownKey(a)
  BY DEF CooldownKey, DailyKey
<1>9. ASSUME NEW b, NEW q \in Seq(Nat), Mailed(d, q, b),
             res.lost \cap {CooldownKey(b), DailyKey(b)} = {}
      PROVE  Mailed(res.dict, IF b = a /\ res.allowed THEN Append(q, now) ELSE q, b)
  <2>1. one.lost \cap {CooldownKey(b), DailyKey(b)} = {}
        /\ (one.allowed => two.lost \cap {CooldownKey(b), DailyKey(b)} = {})
    BY <1>4, <1>9
  <2>2. Cooled(Bucket(d, CooldownKey(b)), q) /\ Daily(Bucket(d, DailyKey(b)), q) /\ Bounded(q)
    BY <1>9 DEF Mailed
  <2>3. Daily(Bucket(one.dict, DailyKey(b)), q)
    BY <1>4, <1>5, <1>8, <2>1, <2>2, OtherKeys
  <2>4. b # a \/ ~one.allowed => Cooled(Bucket(one.dict, CooldownKey(b)), q)
    BY <1>4, <1>5, <1>8, <2>1, <2>2, OtherKeys
  <2>5. CASE ~one.allowed
    BY <1>4, <2>2, <2>3, <2>4, <2>5 DEF Mailed
  <2>6. CASE one.allowed /\ b # a
    <3>1. Daily(Bucket(two.dict, DailyKey(b)), q) /\ Cooled(Bucket(two.dict, CooldownKey(b)), q)
      BY <1>4, <1>5, <1>6, <1>8, <2>1, <2>3, <2>4, <2>6, OtherKeys
    <3> QED BY <1>4, <2>2, <2>6, <3>1 DEF Mailed
  <2>7. CASE one.allowed /\ b = a
    <3>1. PICK old \in Seq(Nat) :
              /\ Sheds(Bucket(d, CooldownKey(a)), old, Cooldown) /\ Len(old) < 1
              /\ Bucket(one.dict, CooldownKey(a)) = Append(old, now)
      BY <1>6, <2>1, <2>7, KeyLimits DEF Counts
    <3>2. Cooled(old, q) /\ Len(old) = 0
      BY <2>2, <2>7, <3>1, BucketTyped, ShedKeeps
    <3>3. \A i \in 1..Len(q) : now - q[i] >= Cooldown
      BY <3>2 DEF Cooled
    <3>4. Cooled(Append(old, now), q)
      BY <3>3 DEF Cooled
    <3>5. Cooled(Append(old, now), Append(q, now))
      <4>1. /\ Len(Append(q, now)) = Len(q) + 1 /\ Append(q, now)[Len(q) + 1] = now
            /\ \A i \in 1..Len(q) : Append(q, now)[i] = q[i]
            /\ Len(Append(old, now)) = 1 /\ Append(old, now)[1] = now
        BY <3>2
      <4>2. Append(q, now) \in Seq(Nat) /\ Append(old, now) \in Seq(Nat)
        OBVIOUS
      <4> QED BY <3>3, <4>1, <4>2 DEF Cooled
    <3>6. CASE ~two.allowed
      <4>1. Daily(Bucket(two.dict, DailyKey(a)), q) /\ Cooled(Bucket(two.dict, CooldownKey(a)), q)
        <5>1. Daily(Bucket(one.dict, DailyKey(a)), q) /\ Cooled(Bucket(one.dict, CooldownKey(a)), q)
          BY <2>3, <2>7, <3>1, <3>4
        <5>2. two.lost \cap {CooldownKey(a), DailyKey(a)} = {}
          BY <2>1, <2>7
        <5> QED BY <1>4, <1>5, <1>6, <3>6, <5>1, <5>2, OtherKeys
      <4> QED BY <1>4, <2>2, <2>7, <3>6, <4>1 DEF Mailed
    <3>7. CASE two.allowed
      <4>1. PICK rest \in Seq(Nat) :
                /\ Sheds(Bucket(one.dict, DailyKey(a)), rest, Day) /\ Len(rest) < DailyLimit
                /\ Bucket(two.dict, DailyKey(a)) = Append(rest, now)
        BY <1>7, <2>1, <2>7, <3>7, KeyLimits DEF Counts
      <4>2. Daily(rest, q)
        BY <1>6, <2>3, <2>7, <4>1, BucketTyped, ShedKeeps
      <4>3. Bounded(Append(q, now)) /\ Daily(Append(rest, now), Append(q, now))
        BY <2>2, <3>3, <4>1, <4>2, OneMore
      <4>4. Append(q, now) \in Seq(Nat)
        OBVIOUS
      <4>5. Cooled(Bucket(two.dict, CooldownKey(a)), Append(q, now))
        <5>1. Cooled(Bucket(one.dict, CooldownKey(a)), Append(q, now))
          BY <3>1, <3>5
        <5>2. two.lost \cap {CooldownKey(a), DailyKey(a)} = {} /\ DailyKey(a) # CooldownKey(a)
          BY <1>8, <2>1, <2>7
        <5>3. PICK z \in Seq(Nat) : z = Append(q, now)
          BY <4>4
        <5>4. Popped(one.dict, two.dict, CooldownKey(a))
          BY <1>4, <1>5, <1>6, <5>2, RecordEffect
        <5>5. Sheds(Bucket(one.dict, CooldownKey(a)), Bucket(two.dict, CooldownKey(a)), Cooldown)
          BY <5>4, KeyLimits DEF Popped
        <5> QED BY <1>6, <5>1, <5>3, <5>5, BucketTyped, ShedKeeps
      <4> QED BY <1>4, <2>7, <3>7, <4>1, <4>3, <4>5 DEF Mailed
    <3> QED BY <3>6, <3>7
  <2> QED BY <2>5, <2>6, <2>7
<1> QED BY <1>4, <1>6, <1>7, <1>9

(* The times of the mails and the hits do not change with the dict.           *)
LEMMA MailedFrame ==
    ASSUME UNCHANGED now, NEW d, NEW q, NEW a, Mailed(d, q, a)
    PROVE  Mailed(d, q, a)'
  BY DEF Mailed, Cooled, Daily, Bounded

(* A request that asks for a mail.                                            *)
LEMMA AskKeeps ==
    ASSUME LimitsInv, Rl!WindowsAssumption, NEW c \in Callers, NEW a \in Addresses,
           NEW exists \in BOOLEAN, Rl!AskForMail(c, a, exists)
    PROVE  LimitsInv'
<1> DEFINE k == <<"caller", c>>
           ip0 == Rl!Record(hits, k)
           mail0 == Rl!MaySendTo(ip0.dict, a)
<1>1. PICK ip, mail : ip = ip0 /\ mail = mail0
  OBVIOUS
<1>2. /\ now' = now /\ now \in Nat /\ Dict(hits) /\ sent \in [Addresses -> Seq(Nat)]
      /\ \/ /\ ~ip.allowed /\ hits' = ip.dict /\ UNCHANGED <<sent, forgot>>
         \/ /\ ip.allowed
            /\ hits' = IF exists THEN mail.dict ELSE ip.dict
            /\ forgot' = forgot \cup ip.lost \cup (IF exists THEN mail.lost ELSE {})
            /\ sent' = IF exists /\ mail.allowed
                       THEN [sent EXCEPT ![a] = Append(@, now)] ELSE sent
  BY <1>1 DEF Rl!AskForMail, LimitsInv, LimitsTyped
<1>3. ip = Rl!Record(hits, k) /\ mail = Rl!MaySendTo(ip.dict, a)
  BY <1>1
<1> HIDE DEF ip0, mail0
<1>4. /\ Rl!Window(k) \in Nat /\ Rl!Limit(k) \in Nat
      /\ \A b : k # CooldownKey(b) /\ k # DailyKey(b)
  BY KeyLimits DEF CooldownKey, DailyKey
<1> HIDE DEF k
<1>5. Dict(ip.dict) /\ (~ip.allowed => ip.lost = {})
  BY <1>2, <1>3, <1>4, RecordEffect
<1>6. Dict(mail.dict)
  BY <1>2, <1>3, <1>5, MailEffect
<1>7. LimitsTyped'
  <2>1. \A q \in Seq(Nat) : Append(q, now) \in Seq(Nat)
    BY <1>2
  <2>2. sent' \in [Addresses -> Seq(Nat)]
    BY <1>2, <2>1
  <2>3. PICK d : d = hits' /\ (d = ip.dict \/ d = mail.dict)
    BY <1>2
  <2>4. Dict(d)
    BY <1>5, <1>6, <2>3
  <2> QED BY <1>2, <2>2, <2>3, <2>4 DEF LimitsTyped, Dict
<1>8. ASSUME NEW b \in Addresses, forgot' \cap {CooldownKey(b), DailyKey(b)} = {}
      PROVE  Mailed(hits', sent'[b], b)
  <2>1. PICK q \in Seq(Nat) : q = sent[b]
    BY <1>2
  <2>2. Mailed(hits, q, b) /\ ip.lost \cap {CooldownKey(b), DailyKey(b)} = {}
    BY <1>2, <1>5, <1>8, <2>1 DEF LimitsInv
  <2>3. Mailed(ip.dict, q, b)
    BY <1>2, <1>3, <1>4, <2>2, OtherKeys DEF Mailed
  <2>4. CASE ~ip.allowed \/ ~exists
    BY <1>2, <2>1, <2>3, <2>4
  <2>5. CASE ip.allowed /\ exists
    <3>1. mail.lost \cap {CooldownKey(b), DailyKey(b)} = {}
      BY <1>2, <1>8, <2>5
    <3>2. Mailed(mail.dict, IF b = a /\ mail.allowed THEN Append(q, now) ELSE q, b)
      <4>1. PICK d : d = ip.dict /\ Dict(d) /\ mail = Rl!MaySendTo(d, a)
        BY <1>3, <1>5
      <4>2. now \in Nat
        BY <1>2
      <4>3. \A v, z : /\ z \in Seq(Nat) /\ Mailed(d, z, v)
                     /\ mail.lost \cap {CooldownKey(v), DailyKey(v)} = {}
                     => Mailed(mail.dict, IF v = a /\ mail.allowed THEN Append(z, now) ELSE z, v)
        BY <4>1, <4>2, MailEffect
      <4> QED BY <2>3, <3>1, <4>1, <4>3
    <3>3. sent'[b] = IF b = a /\ mail.allowed THEN Append(q, now) ELSE q
      BY <1>2, <2>1, <2>5
    <3> QED BY <1>2, <2>5, <3>2, <3>3
  <2> QED BY <2>4, <2>5
<1>9. ASSUME NEW b \in Addresses
      PROVE  (forgot \cap {CooldownKey(b), DailyKey(b)} = {} => Mailed(hits, sent[b], b))'
  <2>1. PICK d, q : d = hits' /\ q = sent'[b]
    OBVIOUS
  <2>2. forgot' \cap {CooldownKey(b), DailyKey(b)} = {} => Mailed(d, q, b)'
    BY <1>2, <1>8, <2>1, MailedFrame
  <2> QED BY <2>1, <2>2
<1> QED BY <1>7, <1>9 DEF LimitsInv

(* Every step of the throttle keeps it.                                       *)
LEMMA LimitsStep ==
    ASSUME LimitsInv, Rl!WindowsAssumption, [Rl!LimitsNext]_limits
    PROVE  LimitsInv'
<1>1. CASE UNCHANGED limits
  <2>1. LimitsTyped'
    BY <1>1 DEF limits, LimitsInv, LimitsTyped, Dict
  <2>2. ASSUME NEW a \in Addresses
        PROVE  (forgot \cap {CooldownKey(a), DailyKey(a)} = {} => Mailed(hits, sent[a], a))'
    <3>1. PICK d, q : d = hits /\ q = sent[a] /\ d = hits' /\ q = sent'[a]
      BY <1>1 DEF limits
    <3>2. forgot' \cap {CooldownKey(a), DailyKey(a)} = {} => Mailed(d, q, a)'
      BY <1>1, <3>1, MailedFrame DEF limits, LimitsInv
    <3> QED BY <3>1, <3>2
  <2> QED BY <2>1, <2>2 DEF LimitsInv
<1>2. CASE Rl!Tick
  <2>1. now \in Nat /\ now' = now + 1 /\ UNCHANGED <<hits, sent, forgot>>
    BY <1>2 DEF Rl!Tick, LimitsInv, LimitsTyped
  <2>2. Cooldown \in Nat /\ Day \in Nat
    BY KeyLimits
  <2>3. ASSUME NEW q \in Seq(Nat), NEW r \in Seq(Nat)
        PROVE  (Cooled(r, q) => Cooled(r, q)') /\ (Daily(r, q) => Daily(r, q)')
    <3>1. Len(q) \in Nat /\ Len(r) \in Nat /\ \A i \in 1..Len(q) : q[i] \in Nat
      OBVIOUS
    <3>2. Cooled(r, q) => Cooled(r, q)'
      <4>1. \A i \in 1..Len(q) : now - q[i] >= Cooldown => now' - q[i] >= Cooldown
        BY <2>1, <2>2, <3>1
      <4> QED BY <4>1 DEF Cooled
    <3>3. \A i \in 1..Len(q) - Len(r) : now - q[i] >= Day => now' - q[i] >= Day
      BY <2>1, <2>2, <3>1
    <3>4. Daily(r, q) => Daily(r, q)'
      BY <3>3 DEF Daily
    <3> QED BY <3>2, <3>4
  <2>4. ASSUME NEW a \in Addresses
        PROVE  (forgot \cap {CooldownKey(a), DailyKey(a)} = {} => Mailed(hits, sent[a], a))'
    <3>1. PICK d, q : /\ d = hits /\ q = sent[a] /\ d = hits' /\ q = sent'[a]
                      /\ Dict(d) /\ q \in Seq(Nat)
      BY <2>1 DEF LimitsInv, LimitsTyped
    <3>2. Mailed(d, q, a) => Mailed(d, q, a)'
      BY <2>3, <3>1, BucketTyped DEF Mailed, Bounded
    <3>3. forgot' \cap {CooldownKey(a), DailyKey(a)} = {} => Mailed(d, q, a)'
      BY <2>1, <3>1, <3>2 DEF LimitsInv
    <3> QED BY <3>1, <3>3
  <2> QED BY <2>1, <2>4 DEF LimitsInv, LimitsTyped, Dict
<1> QED BY <1>1, <1>2, AskKeeps DEF Rl!LimitsNext

(* Nothing is counted or sent at first.                                       *)
LEMMA LimitsStart == ASSUME Rl!LimitsInit, Rl!WindowsAssumption PROVE LimitsInv
<1>1. DOMAIN hits = {} /\ now = 0 /\ sent = [a \in Addresses |-> <<>>]
  BY DEF Rl!LimitsInit
<1>2. \A k : Bucket(hits, k) = <<>>
  BY <1>1 DEF Bucket
<1>3. Len(<<>>) = 0 /\ <<>> \in Seq(Nat)
  OBVIOUS
<1>4. Cooled(<<>>, <<>>) /\ Daily(<<>>, <<>>)
  BY <1>3 DEF Cooled, Daily
<1>5. \A a : Mailed(hits, <<>>, a)
  <2>1. DailyLimit \in Nat
    BY KeyLimits
  <2>2. Bounded(<<>>)
    BY <1>3, <2>1 DEF Bounded
  <2> QED BY <1>2, <1>4, <2>2 DEF Mailed
<1>6. LimitsTyped
  BY <1>1, <1>3 DEF LimitsTyped, Dict
<1> QED BY <1>1, <1>5, <1>6 DEF LimitsInv

(* What it says of the mails.                                                 *)
LEMMA LimitsHold == ASSUME LimitsInv PROVE Rl!MailsBounded
  BY DEF LimitsInv, Mailed, Bounded, Rl!MailsBounded, CooldownKey, DailyKey

-----------------------------------------------------------------------------
(* SearchPipeline.                                                            *)

LEMMA SearchCount == ASSUME NEW S PROVE Se!Cardinality(S) = Cardinality(S)
  BY DEF Se!Cardinality, Cardinality, Se!IsFiniteSet, IsFiniteSet

(* An order by value, the greater first, and of equals the smaller number.    *)
Ahead(v, x, y) == v[x] > v[y] \/ (v[x] = v[y] /\ x < y)
Leading(v, S, x) == {y \in S : Ahead(v, y, x)}
Place(v, S) == [x \in S |-> Cardinality(Leading(v, S, x)) + 1]
Valued(v, S) == S \subseteq Nat /\ IsFiniteSet(S) /\ \A x \in S : v[x] \in Int

LEMMA PlacesGrow ==
    ASSUME NEW v, NEW S, Valued(v, S), NEW x \in S, NEW y \in S, Ahead(v, x, y)
    PROVE  Place(v, S)[x] < Place(v, S)[y]
<1> DEFINE before == Leading(v, S, x)
           after == Leading(v, S, y)
<1>1. before \in SUBSET after /\ x \in after /\ x \notin before
  <2>1. x \in Nat /\ y \in Nat /\ v[x] \in Int /\ v[y] \in Int
    BY DEF Valued
  <2>2. ASSUME NEW z \in S, Ahead(v, z, x) PROVE Ahead(v, z, y)
    <3>1. z \in Nat /\ v[z] \in Int
      BY DEF Valued
    <3> QED BY <2>1, <2>2, <3>1 DEF Ahead
  <2>3. ~Ahead(v, x, x)
    BY <2>1 DEF Ahead
  <2> QED BY <2>2, <2>3 DEF Leading
<1>2. IsFiniteSet(after) /\ IsFiniteSet(before)
  BY FS_Subset DEF Leading, Valued
<1> HIDE DEF before, after
<1>3. Cardinality(before) <= Cardinality(after) /\ Cardinality(before) # Cardinality(after)
  BY <1>1, <1>2, FS_Subset
<1>4. Cardinality(before) \in Nat /\ Cardinality(after) \in Nat
  BY <1>2, FS_CardinalityType
<1>5. Place(v, S)[x] = Cardinality(before) + 1 /\ Place(v, S)[y] = Cardinality(after) + 1
  BY DEF Place, before, after
<1> QED BY <1>3, <1>4, <1>5

LEMMA PlacesAreAll ==
    ASSUME NEW v, NEW S, Valued(v, S)
    PROVE  Place(v, S) \in Surjection(S, 1..Cardinality(S))
<1> DEFINE n == Cardinality(S)
           place == Place(v, S)
<1>1. n \in Nat
  BY FS_CardinalityType DEF Valued
<1>2. ASSUME NEW x \in S PROVE place[x] \in 1..n
  <2> DEFINE before == Leading(v, S, x)
  <2>1. before \in SUBSET S /\ x \notin before
    BY DEF Leading, Ahead, Valued
  <2> HIDE DEF before
  <2>2. Cardinality(before) \in Nat /\ Cardinality(before) <= n /\ Cardinality(before) # n
    BY <2>1, FS_Subset, FS_CardinalityType DEF Valued
  <2>3. place[x] = Cardinality(before) + 1
    BY DEF Place, before
  <2> HIDE DEF place, n
  <2> QED BY <1>1, <2>2, <2>3
<1>3. place \in [S -> 1..n]
  <2>1. place = [x \in S |-> Cardinality(Leading(v, S, x)) + 1]
    BY DEF Place
  <2> HIDE DEF place
  <2>2. place = [x \in S |-> place[x]]
    BY <2>1
  <2> QED BY <1>2, <2>2
<1>4. ASSUME NEW x \in S, NEW y \in S, x # y PROVE place[x] # place[y]
  <2>1. place[x] \in Nat /\ place[y] \in Nat
    BY <1>1, <1>2
  <2>2. Ahead(v, x, y) \/ Ahead(v, y, x)
    BY <1>4 DEF Ahead, Valued
  <2>3. place[x] < place[y] \/ place[y] < place[x]
    BY <2>2, PlacesGrow
  <2> HIDE DEF place
  <2> QED BY <2>1, <2>3
<1> HIDE DEF place
<1>5. place \in Injection(S, 1..n)
  BY <1>3, <1>4 DEF Injection, IsInjective
<1>6. IsFiniteSet(1..n) /\ Cardinality(1..n) = n
  BY <1>1, FS_Interval
<1>7. place \in Surjection(S, 1..n)
  BY <1>5, <1>6, FS_Injection
<1> QED BY <1>7 DEF place

(* A listing by place is of all the set, and of nothing else.                 *)
ByPlace(s, v, S) ==
    /\ s = [i \in 1..Cardinality(S) |-> s[i]]
    /\ \A i \in 1..Cardinality(S) :
          (\E x \in S : Cardinality(Leading(v, S, x)) = i - 1)
              => s[i] \in S /\ Cardinality(Leading(v, S, s[i])) = i - 1

LEMMA Listed ==
    ASSUME NEW v, NEW S, Valued(v, S), NEW s, ByPlace(s, v, S)
    PROVE  s \in Seq(S) /\ Len(s) = Cardinality(S) /\ \A x \in S : \E i \in 1..Len(s) : s[i] = x
<1> DEFINE n == Cardinality(S)
           place == Place(v, S)
<1>1. n \in Nat
  BY FS_CardinalityType DEF Valued
<1>2. \A x \in S : place[x] \in 1..n
  BY PlacesAreAll DEF Surjection
<1>3. \A i \in 1..n : \E x \in S : place[x] = i
  BY PlacesAreAll DEF Surjection
<1>4. ASSUME NEW x \in S, NEW i \in 1..n PROVE Cardinality(Leading(v, S, x)) = i - 1 <=> place[x] = i
  <2>1. Cardinality(Leading(v, S, x)) \in Nat
    BY FS_Subset, FS_CardinalityType DEF Leading, Valued
  <2>2. place[x] = Cardinality(Leading(v, S, x)) + 1
    BY DEF Place
  <2> HIDE DEF place
  <2> QED BY <1>1, <2>1, <2>2
<1> HIDE DEF place
<1>5. ASSUME NEW i \in 1..n PROVE s[i] \in S /\ place[s[i]] = i
  <2>1. PICK x \in S : place[x] = i
    BY <1>3
  <2>2. Cardinality(Leading(v, S, x)) = i - 1
    BY <1>4, <2>1
  <2>3. s[i] \in S /\ Cardinality(Leading(v, S, s[i])) = i - 1
    BY <2>2 DEF ByPlace
  <2> QED BY <1>4, <2>3
<1>6. s \in Seq(S) /\ Len(s) = n
  BY <1>1, <1>5 DEF ByPlace
<1>7. ASSUME NEW x \in S PROVE \E i \in 1..n : s[i] = x
  <2> DEFINE i == place[x]
  <2>1. i \in 1..n /\ s[i] \in S /\ place[s[i]] = place[x]
    BY <1>2, <1>5
  <2> HIDE DEF i
  <2>2. s[i] = x
    <3>1. Ahead(v, s[i], x) => place[s[i]] < place[x]
      BY <2>1, PlacesGrow DEF place
    <3>2. Ahead(v, x, s[i]) => place[x] < place[s[i]]
      BY <2>1, PlacesGrow DEF place
    <3>3. place[x] \in Nat
      BY <1>1, <1>2
    <3>4. ~Ahead(v, s[i], x) /\ ~Ahead(v, x, s[i])
      BY <2>1, <3>1, <3>2, <3>3
    <3>5. s[i] \in Nat /\ x \in Nat /\ v[s[i]] \in Int /\ v[x] \in Int
      BY <2>1 DEF Valued
    <3> QED BY <3>4, <3>5 DEF Ahead
  <2> QED BY <2>1, <2>2
<1> QED BY <1>6, <1>7

-----------------------------------------------------------------------------
(* The catalogue a search runs over, and what it may ask.                     *)
Stocked ==
    /\ DOMAIN catalogue \subseteq Ids
    /\ \A l \in DOMAIN catalogue : catalogue[l] \in Specs

Askable(q) == q \in [budget : Nat \cup {None}, weight : Nat \cup {None},
                     brand : BOOLEAN, apt : BOOLEAN, topK : Nat]

LEMMA SpecsTyped ==
    ASSUME Se!SearchAssumption, Stocked
    PROVE  /\ None \notin Nat /\ RecallSize \in Nat /\ MaxResults \in Nat /\ FallbackSimilarity \in Nat
           /\ Ids \subseteq Nat /\ IsFiniteSet(Ids) /\ IsFiniteSet(DOMAIN catalogue)
           /\ \A l \in DOMAIN catalogue :
                 /\ l \in Nat /\ catalogue[l].price \in Nat /\ catalogue[l].similarity \in Nat
                 /\ catalogue[l].weight \in Nat \cup {None}
<1>1. Ids \subseteq Nat /\ IsFiniteSet(Ids)
  BY DEF Se!SearchAssumption, Se!IsFiniteSet, IsFiniteSet
<1>2. IsFiniteSet(DOMAIN catalogue)
  BY <1>1, FS_Subset DEF Stocked
<1>3. \A s \in Specs : s.price \in Nat /\ s.similarity \in Nat /\ s.weight \in Nat \cup {None}
  BY DEF Se!SearchAssumption
<1>4. None \notin Nat /\ RecallSize \in Nat /\ MaxResults \in Nat /\ FallbackSimilarity \in Nat
  BY DEF Se!SearchAssumption
<1> QED BY <1>1, <1>2, <1>3, <1>4 DEF Stocked

(* The first of a listing.                                                    *)
LEMMA FirstOf ==
    ASSUME NEW S, NEW s \in Seq(S), NEW n \in Nat
    PROVE  /\ Se!First(s, n) \in Seq(S) /\ Len(Se!First(s, n)) <= Len(s)
           /\ \A i \in 1..Len(Se!First(s, n)) : Se!First(s, n)[i] = s[i]
           /\ Len(s) <= n => Se!First(s, n) = s
<1> DEFINE k == IF Len(s) < n THEN Len(s) ELSE n
<1>1. k \in 0..Len(s) /\ (Len(s) <= n => k = Len(s))
  OBVIOUS
<1>2. Se!First(s, n) = SubSeq(s, 1, k)
  BY DEF Se!First
<1> HIDE DEF k
<1>3. SubSeq(s, 1, k) \in Seq(S) /\ Len(SubSeq(s, 1, k)) = k /\ \A i \in 1..k : SubSeq(s, 1, k)[i] = s[i]
  BY <1>1
<1>4. k = Len(s) => SubSeq(s, 1, k) = s
  BY <1>3
<1> QED BY <1>1, <1>2, <1>3, <1>4

(* Retrieval: only what is within the budget, and, where the recall takes in  *)
(* the whole catalogue, all of it that is within the weight too.              *)
LEMMA Retrieved ==
    ASSUME Se!SearchAssumption, Stocked, NEW q, NEW embedded, NEW limit,
           NEW s, s = Se!Retrieve(q, embedded, limit)
    PROVE  /\ s \in Seq(Se!WithinBudget(q))
           /\ Cardinality(Ids) <= RecallSize =>
                 \A l \in Se!WithinWeight(Se!WithinBudget(q), limit) : \E i \in 1..Len(s) : s[i] = l
<1> DEFINE W == Se!WithinBudget(q)
           light == Se!WithinWeight(W, limit)
           S == IF embedded THEN W ELSE light
           v == [l \in S |-> IF embedded THEN catalogue[l].similarity ELSE -catalogue[l].price]
           near == Se!InOrder(W, LAMBDA l, m :
                       \/ catalogue[l].similarity > catalogue[m].similarity
                       \/ catalogue[l].similarity = catalogue[m].similarity /\ l < m)
           cheap == Se!InOrder(light, LAMBDA l, m :
                       \/ catalogue[l].price < catalogue[m].price
                       \/ catalogue[l].price = catalogue[m].price /\ l < m)
           t == IF embedded THEN near ELSE cheap
<1>1. s = Se!First(t, RecallSize)
  BY Zenon DEF Se!Retrieve
<1>2. W \subseteq DOMAIN catalogue /\ light \subseteq W
  BY DEF Se!WithinBudget, Se!WithinWeight
<1> HIDE DEF W, light
<1>3. S \subseteq W /\ S \subseteq DOMAIN catalogue /\ light \subseteq S
  BY <1>2
<1> DEFINE nearest(i) == CHOOSE x \in W : Cardinality({y \in W :
                             \/ catalogue[y].similarity > catalogue[x].similarity
                             \/ catalogue[y].similarity = catalogue[x].similarity /\ y < x}) = i - 1
           cheapest(i) == CHOOSE x \in light : Cardinality({y \in light :
                             \/ catalogue[y].price < catalogue[x].price
                             \/ catalogue[y].price = catalogue[x].price /\ y < x}) = i - 1
<1>4. near = [i \in 1..Cardinality(W) |-> nearest(i)]
  BY Zenon DEF Se!InOrder, Se!Cardinality, Cardinality, Se!IsFiniteSet, IsFiniteSet
<1>11. cheap = [i \in 1..Cardinality(light) |-> cheapest(i)]
  BY Zenon DEF Se!InOrder, Se!Cardinality, Cardinality, Se!IsFiniteSet, IsFiniteSet
<1> HIDE DEF near, cheap, nearest, cheapest
<1>5. ByPlace(t, v, S)
  <2>1. CASE embedded
    <3>1. S = W /\ t = near
      BY <2>1
    <3>2. \A x \in W : Leading(v, S, x) = {y \in W :
              \/ catalogue[y].similarity > catalogue[x].similarity
              \/ catalogue[y].similarity = catalogue[x].similarity /\ y < x}
      <4>1. \A x \in W : v[x] = catalogue[x].similarity
        BY <2>1
      <4> HIDE DEF v
      <4> QED BY <3>1, <4>1 DEF Leading, Ahead
    <3> HIDE DEF S, t, v
    <3>3. ASSUME NEW i \in 1..Cardinality(W), NEW w \in W, Cardinality(Leading(v, W, w)) = i - 1
          PROVE  near[i] \in W /\ Cardinality(Leading(v, W, near[i])) = i - 1
      <4>1. nearest(i) \in W /\ Cardinality(Leading(v, W, nearest(i))) = i - 1
        BY <3>1, <3>2, <3>3 DEF nearest
      <4> QED BY <1>4, <4>1
    <3>4. near = [i \in 1..Cardinality(W) |-> near[i]]
      BY <1>4
    <3> QED BY <3>1, <3>3, <3>4 DEF ByPlace
  <2>2. CASE ~embedded
    <3>1. S = light /\ t = cheap
      BY <2>2
    <3>2. \A x \in light : Leading(v, S, x) = {y \in light :
              \/ catalogue[y].price < catalogue[x].price
              \/ catalogue[y].price = catalogue[x].price /\ y < x}
      <4>1. \A x \in light : v[x] = -catalogue[x].price /\ catalogue[x].price \in Nat
        BY <1>2, <2>2, SpecsTyped
      <4> HIDE DEF v
      <4>2. \A x, y \in light : Ahead(v, y, x) <=>
              \/ catalogue[y].price < catalogue[x].price
              \/ catalogue[y].price = catalogue[x].price /\ y < x
        BY <4>1 DEF Ahead
      <4> QED BY <3>1, <4>2 DEF Leading
    <3> HIDE DEF S, t, v
    <3>3. ASSUME NEW i \in 1..Cardinality(light), NEW w \in light, Cardinality(Leading(v, light, w)) = i - 1
          PROVE  cheap[i] \in light /\ Cardinality(Leading(v, light, cheap[i])) = i - 1
      <4>1. cheapest(i) \in light /\ Cardinality(Leading(v, light, cheapest(i))) = i - 1
        BY <3>1, <3>2, <3>3 DEF cheapest
      <4> QED BY <1>11, <4>1
    <3>4. cheap = [i \in 1..Cardinality(light) |-> cheap[i]]
      BY <1>11
    <3> QED BY <3>1, <3>3, <3>4 DEF ByPlace
  <2> QED BY <2>1, <2>2
<1>6. Valued(v, S)
  <2>1. \A l \in S : l \in Nat /\ catalogue[l].similarity \in Int /\ -catalogue[l].price \in Int
    BY <1>3, SpecsTyped
  <2>2. IsFiniteSet(S)
    BY <1>3, FS_Subset, SpecsTyped
  <2>3. \A l \in S : v[l] \in Int
    BY <2>1
  <2> HIDE DEF S, v
  <2> QED BY <2>1, <2>2, <2>3 DEF Valued
<1> HIDE DEF S, t, v
<1>7. t \in Seq(S) /\ Len(t) = Cardinality(S) /\ \A x \in S : \E i \in 1..Len(t) : t[i] = x
  BY <1>5, <1>6, Listed
<1>8. Cardinality(Ids) <= RecallSize => Len(t) <= RecallSize
  <2>1. IsFiniteSet(Ids) /\ S \in SUBSET Ids /\ RecallSize \in Nat
    BY <1>3, SpecsTyped DEF Stocked
  <2>2. Cardinality(S) <= Cardinality(Ids) /\ Cardinality(S) \in Nat /\ Cardinality(Ids) \in Nat
    BY <2>1, FS_Subset, FS_CardinalityType
  <2> QED BY <1>7, <2>1, <2>2
<1>9. s \in Seq(S) /\ (Len(t) <= RecallSize => s = t)
  BY <1>1, <1>7, FirstOf, SpecsTyped
<1>10. s \in Seq(W)
  BY <1>3, <1>9
<1> QED BY <1>3, <1>7, <1>8, <1>9, <1>10 DEF W, light

-----------------------------------------------------------------------------
(* Reranking keeps what has a weight, where one is asked for.                 *)
LEMMA ScoresInBudget ==
    ASSUME Se!SearchAssumption, Stocked, NEW q, Askable(q), NEW embedded \in BOOLEAN,
           NEW l \in Se!WithinBudget(q)
    PROVE  /\ l \in Nat /\ Se!Score(l, q, embedded) \in Int
           /\ l \in Se!WithinWeight(Se!WithinBudget(q), q.weight) =>
                 Se!Score(l, q, embedded) >=
                     Se!Min2(catalogue[l].similarity, FallbackSimilarity) + Se!Bonus(catalogue[l], q)
<1> DEFINE spec == catalogue[l]
           b == Se!BudgetPenalty(spec.price, q.budget)
           w == Se!WeightPenalty(spec.weight, q.weight)
           bonus == Se!Bonus(spec, q)
           sim == IF embedded THEN spec.similarity ELSE FallbackSimilarity
<1>1. /\ l \in DOMAIN catalogue /\ (q.budget = None \/ spec.price <= q.budget)
      /\ q.budget \in Nat \cup {None} /\ q.weight \in Nat \cup {None}
      /\ q.apt \in BOOLEAN /\ q.brand \in BOOLEAN
  BY DEF Se!WithinBudget, Askable
<1>2. /\ l \in Nat /\ spec.price \in Nat /\ spec.similarity \in Nat /\ FallbackSimilarity \in Nat
      /\ spec.weight \in Nat \cup {None} /\ None \notin Nat
  BY <1>1, SpecsTyped
<1>3. b = 100
  BY <1>1 DEF Se!BudgetPenalty
<1>4. w \in {20, 70, 100} /\ (q.weight = None \/ (spec.weight # None /\ spec.weight <= q.weight) => w = 100)
  BY <1>1, <1>2 DEF Se!WeightPenalty
<1>5. bonus \in Int
  BY DEF Se!Bonus
<1>6. sim \in Nat /\ sim >= Se!Min2(spec.similarity, FallbackSimilarity)
      /\ Se!Min2(spec.similarity, FallbackSimilarity) \in Nat
  BY <1>2 DEF Se!Min2
<1>7. Se!Score(l, q, embedded) = (sim * b * w) \div 10000 + bonus
  BY DEF Se!Score
<1> HIDE DEF b, w, bonus, sim
<1>8. Se!Score(l, q, embedded) \in Int
  <2>1. w \in Nat /\ sim * b \in Nat
    BY <1>3, <1>4, <1>6
  <2> DEFINE p == sim * b * w
  <2>2. p \in Nat
    BY <2>1
  <2> HIDE DEF p
  <2>3. p \div 10000 \in Int
    BY <2>2
  <2> QED BY <1>5, <1>7, <2>3 DEF p
<1>9. ASSUME l \in Se!WithinWeight(Se!WithinBudget(q), q.weight)
      PROVE  Se!Score(l, q, embedded) >= Se!Min2(spec.similarity, FallbackSimilarity) + bonus
  <2>1. w = 100
    BY <1>4, <1>9 DEF Se!WithinWeight
  <2>2. (sim * b * w) \div 10000 = sim
    BY <1>3, <1>6, <2>1
  <2> QED BY <1>5, <1>6, <1>7, <2>2
<1> QED BY <1>2, <1>8, <1>9 DEF bonus

LEMMA Reranked ==
    ASSUME Se!SearchAssumption, Stocked, NEW q, Askable(q), NEW embedded \in BOOLEAN,
           NEW c \in Seq(Se!WithinBudget(q)), NEW s, s = Se!Rerank(c, q, embedded)
    PROVE  /\ s \in Seq(Se!WithinBudget(q))
           /\ \A i \in 1..Len(c) : q.weight = None \/ catalogue[c[i]].weight # None
                                     => \E j \in 1..Len(s) : s[j] = c[i]
<1> DEFINE W == Se!WithinBudget(q)
           kept == {l \in Se!ToSet(c) : q.weight = None \/ catalogue[l].weight # None}
           v == [l \in kept |-> Se!Score(l, q, embedded)]
           next(i) == CHOOSE x \in kept : Cardinality({y \in kept :
                          \/ Se!Score(y, q, embedded) > Se!Score(x, q, embedded)
                          \/ Se!Score(y, q, embedded) = Se!Score(x, q, embedded) /\ y < x}) = i - 1
<1>1. s = [i \in 1..Cardinality(kept) |-> next(i)]
  BY Zenon DEF Se!Rerank, Se!InOrder, Se!Cardinality, Cardinality, Se!IsFiniteSet, IsFiniteSet
<1>2. Se!ToSet(c) = {c[i] : i \in 1..Len(c)} /\ \A i \in 1..Len(c) : c[i] \in W
  BY DEF Se!ToSet
<1>3. kept \subseteq W /\ \A i \in 1..Len(c) : q.weight = None \/ catalogue[c[i]].weight # None => c[i] \in kept
  BY <1>2
<1>4. W \subseteq DOMAIN catalogue
  BY DEF Se!WithinBudget
<1>5. \A x \in kept : v[x] = Se!Score(x, q, embedded)
  OBVIOUS
<1> HIDE DEF next, kept, v
<1>6. Valued(v, kept)
  <2>1. \A l \in kept : l \in Nat /\ Se!Score(l, q, embedded) \in Int
    BY <1>3, ScoresInBudget
  <2>2. IsFiniteSet(kept)
    BY <1>3, <1>4, FS_Subset, SpecsTyped
  <2> QED BY <1>5, <2>1, <2>2 DEF Valued
<1>7. ByPlace(s, v, kept)
  <2>1. \A x \in kept : Leading(v, kept, x) = {y \in kept :
              \/ Se!Score(y, q, embedded) > Se!Score(x, q, embedded)
              \/ Se!Score(y, q, embedded) = Se!Score(x, q, embedded) /\ y < x}
    BY <1>5 DEF Leading, Ahead
  <2>2. ASSUME NEW i \in 1..Cardinality(kept), NEW x \in kept, Cardinality(Leading(v, kept, x)) = i - 1
        PROVE  s[i] \in kept /\ Cardinality(Leading(v, kept, s[i])) = i - 1
    <3>1. next(i) \in kept /\ Cardinality(Leading(v, kept, next(i))) = i - 1
      BY <2>1, <2>2 DEF next
    <3> QED BY <1>1, <3>1
  <2>3. s = [i \in 1..Cardinality(kept) |-> s[i]]
    BY <1>1
  <2> QED BY <2>2, <2>3 DEF ByPlace
<1>8. s \in Seq(kept) /\ \A x \in kept : \E j \in 1..Len(s) : s[j] = x
  BY <1>6, <1>7, Listed
<1>9. s \in Seq(W)
  BY <1>3, <1>8
<1> QED BY <1>3, <1>8, <1>9

-----------------------------------------------------------------------------
(* A try raises one of the limits that the search has.                        *)
LEMMA TriesKnown ==
    ASSUME Se!SearchAssumption, NEW q, NEW i \in DOMAIN Se!Tries(q)
    PROVE  /\ i \in Nat
           /\ \E n \in Nat : \/ q.weight # None /\ Se!Tries(q)[i] = <<"weight", n>>
                             \/ q.budget # None /\ Se!Tries(q)[i] = <<"budget", n>>
<1> DEFINE heavier == IF q.weight = None THEN <<>> ELSE [n \in 1..MaxWeightSteps |-> <<"weight", n>>]
           dearer == IF q.budget = None THEN <<>> ELSE [n \in 1..MaxBudgetSteps |-> <<"budget", n>>]
           Try == {"weight", "budget"} \X Nat
<1>1. Se!Tries(q) = heavier \o dearer
  BY DEF Se!Tries
<1>2. MaxWeightSteps \in Nat /\ MaxBudgetSteps \in Nat
  BY DEF Se!SearchAssumption
<1>3. heavier \in Seq(Try) /\ \A n \in 1..Len(heavier) : q.weight # None /\ heavier[n] = <<"weight", n>>
  <2>1. CASE q.weight = None
    BY <2>1
  <2>2. CASE q.weight # None
    <3>1. heavier = [n \in 1..MaxWeightSteps |-> <<"weight", n>>]
      BY <2>2
    <3> HIDE DEF heavier
    <3> QED BY <1>2, <2>2, <3>1
  <2> QED BY <2>1, <2>2
<1>4. dearer \in Seq(Try) /\ \A n \in 1..Len(dearer) : q.budget # None /\ dearer[n] = <<"budget", n>>
  <2>1. CASE q.budget = None
    BY <2>1
  <2>2. CASE q.budget # None
    <3>1. dearer = [n \in 1..MaxBudgetSteps |-> <<"budget", n>>]
      BY <2>2
    <3> HIDE DEF dearer
    <3> QED BY <1>2, <2>2, <3>1
  <2> QED BY <2>1, <2>2
<1> HIDE DEF heavier, dearer, Try
<1>5. i \in 1..(Len(heavier) + Len(dearer))
  BY <1>1, <1>3, <1>4
<1>6. CASE i <= Len(heavier)
  <2>1. Se!Tries(q)[i] = heavier[i] /\ i \in 1..Len(heavier)
    BY <1>1, <1>3, <1>4, <1>5, <1>6
  <2> QED BY <1>3, <2>1
<1>7. CASE ~(i <= Len(heavier))
  <2> DEFINE n == i - Len(heavier)
  <2>1. Se!Tries(q)[i] = dearer[n] /\ n \in 1..Len(dearer)
    BY <1>1, <1>3, <1>4, <1>5, <1>7
  <2> HIDE DEF n
  <2>2. n \in Nat /\ i \in Nat
    BY <1>4, <1>5, <2>1
  <2> QED BY <1>4, <2>1, <2>2
<1> QED BY <1>6, <1>7

LEMMA RelaxedKnown ==
    ASSUME None \notin Nat, NEW q, Askable(q), NEW n \in Nat
    PROVE  /\ q.weight # None => /\ Askable(Se!Relaxed(q, "weight", n))
                                 /\ Se!Relaxed(q, "weight", n).budget = q.budget
           /\ q.budget # None => /\ Askable(Se!Relaxed(q, "budget", n))
                                 /\ Se!Relaxed(q, "budget", n).budget = q.budget + n
<1>1. ASSUME q.weight # None
      PROVE  /\ Askable(Se!Relaxed(q, "weight", n))
             /\ Se!Relaxed(q, "weight", n).budget = q.budget
  <2>1. Se!Relaxed(q, "weight", n) = [q EXCEPT !.weight = @ + n] /\ q.weight + n \in Nat
    BY <1>1 DEF Se!Relaxed, Askable
  <2> QED BY <2>1 DEF Askable
<1>2. ASSUME q.budget # None
      PROVE  /\ Askable(Se!Relaxed(q, "budget", n))
             /\ Se!Relaxed(q, "budget", n).budget = q.budget + n
  <2>1. Se!Relaxed(q, "budget", n) = [q EXCEPT !.budget = @ + n] /\ q.budget + n \in Nat
    BY <1>2 DEF Se!Relaxed, Askable
  <2> QED BY <2>1 DEF Askable
<1> QED BY <1>1, <1>2

(* One laptop of each family, all of the list it is given.                    *)
LEMMA OnesOfFamily ==
    ASSUME Se!SearchAssumption, Stocked, NEW S \in SUBSET DOMAIN catalogue, NEW ranked \in Seq(S),
           NEW budget \in Nat \cup {None}
    PROVE  Se!OnePerFamily(ranked, budget) \in Seq(S)
<1> DEFINE D == DOMAIN ranked
           Family(i) == catalogue[ranked[i]].family
           Leads(i) == Family(i) = None \/ \A j \in 1..(i - 1) : Family(j) # Family(i)
           Members(i) == IF Family(i) = None THEN {i} ELSE {j \in D : Family(j) = Family(i)}
           Far(i) == Se!Distance(ranked[i], budget)
           Best(i, j) == \A k \in Members(i) :
                             \/ Se!Distance(ranked[j], budget) < Se!Distance(ranked[k], budget)
                             \/ Se!Distance(ranked[j], budget) = Se!Distance(ranked[k], budget) /\ j <= k
           Nearest(i) == CHOOSE j \in Members(i) : Best(i, j)
           firsts == {i \in D : Leads(i)}
           v == [i \in firsts |-> 0]
           next(n) == CHOOSE x \in firsts : Cardinality({y \in firsts : y < x}) = n - 1
           leaders == [n \in 1..Cardinality(firsts) |-> next(n)]
           chosen(n) == ranked[IF budget = None THEN leaders[n] ELSE Nearest(leaders[n])]
<1>1. Se!OnePerFamily(ranked, budget) = [n \in DOMAIN leaders |-> chosen(n)]
  BY Zenon DEF Se!OnePerFamily, Se!InOrder, Se!Cardinality, Cardinality, Se!IsFiniteSet, IsFiniteSet
<1>2. D = 1..Len(ranked) /\ Len(ranked) \in Nat /\ firsts \subseteq D /\ \A i \in D : ranked[i] \in S
  OBVIOUS
<1>3. \A x \in firsts : v[x] = 0
  OBVIOUS
<1>4. leaders = [n \in 1..Cardinality(firsts) |-> next(n)]
  OBVIOUS
<1> HIDE DEF firsts, v, leaders, next
<1>5. Valued(v, firsts)
  <2>1. IsFiniteSet(D)
    BY <1>2, FS_Interval
  <2>2. IsFiniteSet(firsts)
    BY <1>2, <2>1, FS_Subset
  <2> QED BY <1>2, <1>3, <2>2 DEF Valued
<1>6. ByPlace(leaders, v, firsts)
  <2>1. \A x \in firsts : Leading(v, firsts, x) = {y \in firsts : y < x}
    BY <1>3 DEF Leading, Ahead
  <2>2. ASSUME NEW n \in 1..Cardinality(firsts), NEW x \in firsts, Cardinality(Leading(v, firsts, x)) = n - 1
        PROVE  leaders[n] \in firsts /\ Cardinality(Leading(v, firsts, leaders[n])) = n - 1
    <3>1. next(n) \in firsts /\ Cardinality(Leading(v, firsts, next(n))) = n - 1
      BY <2>1, <2>2 DEF next
    <3> QED BY <1>4, <3>1
  <2>3. leaders = [n \in 1..Cardinality(firsts) |-> leaders[n]]
    BY <1>4
  <2> QED BY <2>2, <2>3 DEF ByPlace
<1>7. leaders \in Seq(firsts)
  BY <1>5, <1>6, Listed
<1>8. \A i \in D : Members(i) \subseteq D /\ Members(i) # {}
  OBVIOUS
<1>9. ASSUME budget # None, NEW i \in D PROVE Nearest(i) \in D
  <2>1. \A j \in D : Far(j) \in Nat
    <3> SUFFICES ASSUME NEW j \in D PROVE Far(j) \in Nat
      OBVIOUS
    <3>1. catalogue[ranked[j]].price \in Nat
      BY <1>2, SpecsTyped
    <3> QED BY <1>9, <3>1 DEF Se!Distance
  <2> DEFINE M == Members(i)
             F == {Far(j) : j \in M}
  <2>2. M \subseteq D /\ M # {}
    BY <1>8
  <2> HIDE DEF M, Far
  <2>3. F \subseteq Nat /\ F # {}
    BY <2>1, <2>2
  <2>4. PICK d \in F : \A e \in F : d <= e
    <3> HIDE DEF F
    <3> QED BY <2>3, Least
  <2> DEFINE T == {j \in M : Far(j) = d}
  <2>5. T \subseteq Nat /\ T # {}
    BY <1>2, <2>2, <2>4
  <2>6. PICK j \in T : \A k \in T : j <= k
    <3> HIDE DEF T
    <3> QED BY <2>5, Least
  <2>7. \A k \in M : Far(j) < Far(k) \/ (Far(j) = Far(k) /\ j <= k)
    <3> SUFFICES ASSUME NEW k \in M PROVE Far(j) < Far(k) \/ (Far(j) = Far(k) /\ j <= k)
      OBVIOUS
    <3>1. d \in Nat /\ Far(k) \in Nat /\ d <= Far(k) /\ Far(j) = d
      BY <2>1, <2>2, <2>3, <2>4, <2>6
    <3>2. Far(k) = d => k \in T
      OBVIOUS
    <3> HIDE DEF T
    <3>3. Far(k) = d => j <= k
      BY <2>6, <3>2
    <3> QED BY <3>1, <3>3
  <2>8. j \in M /\ Best(i, j)
    BY <2>6, <2>7 DEF M, Far
  <2> HIDE DEF Best
  <2>9. Nearest(i) \in M
    BY <2>8 DEF M
  <2> QED BY <2>2, <2>9
<1>10. ASSUME NEW n \in DOMAIN leaders PROVE chosen(n) \in S
  <2>1. leaders[n] \in D
    BY <1>2, <1>7
  <2> HIDE DEF Nearest
  <2> QED BY <1>2, <1>9, <2>1
<1>11. DOMAIN leaders = 1..Len(leaders) /\ Len(leaders) \in Nat
  BY <1>7
<1> HIDE DEF chosen
<1> DEFINE shown == [n \in 1..Len(leaders) |-> chosen(n)]
<1>12. shown \in Seq(S)
  BY <1>10, <1>11
<1> QED BY <1>1, <1>11, <1>12

(* The answer to a search with a budget.                                      *)
LEMMA AnswerHonours ==
    ASSUME Se!SearchAssumption, Stocked, NEW q, Askable(q), q.budget # None, NEW embedded \in BOOLEAN,
           NEW a, a = Se!Answer(q, embedded)
    PROVE  /\ \A l \in Se!ToSet(a.results) : catalogue[l].price <= q.budget + a.by
           /\ \A l \in Se!ToSet(a.results) : catalogue[l].price > q.budget => a.relaxed = "budget"
           /\ a.relaxed # None /\ Cardinality(Ids) <= RecallSize =>
                 ~\E l \in Se!WithinWeight(Se!WithinBudget(q), q.weight) :
                     Se!Min2(catalogue[l].similarity, FallbackSimilarity) + Se!Bonus(catalogue[l], q) >= Viable
<1> DEFINE first   == Se!Rerank(Se!Retrieve(q, embedded, q.weight), q, embedded)
           helpful == Se!Helpful(q, first, embedded)
           try     == IF helpful = {} THEN <<None, 0>> ELSE Se!Tries(q)[Se!Min(helpful)]
           inForce == IF helpful = {} THEN q ELSE Se!Relaxed(q, try[1], try[2])
           ranked  == CASE helpful # {} -> Se!Retried(q, try, embedded)
                        [] helpful = {} /\ Se!AnyViable(first, q, embedded) -> first
                        [] OTHER -> <<>>
           gated   == Se!Gated(ranked, inForce, embedded)
<1>1. a = [results    |-> IF gated THEN <<>> ELSE Se!Shortlist(ranked, inForce.budget, q.topK),
           ranked     |-> ranked,
           relaxed    |-> IF gated THEN None ELSE try[1],
           by         |-> IF gated THEN 0 ELSE try[2],
           bottleneck |-> IF gated THEN Se!Bottleneck(ranked, inForce) ELSE None]
  BY Zenon DEF Se!Answer
<1>2. /\ a.results = IF gated THEN <<>> ELSE Se!Shortlist(ranked, inForce.budget, q.topK)
      /\ a.relaxed = IF gated THEN None ELSE try[1]
      /\ a.by = IF gated THEN 0 ELSE try[2]
  <2> HIDE DEF gated, ranked, inForce, try
  <2> QED BY <1>1
<1>3. /\ first \in Seq(Se!WithinBudget(q))
      /\ Cardinality(Ids) <= RecallSize =>
            \A l \in Se!WithinWeight(Se!WithinBudget(q), q.weight) : \E j \in 1..Len(first) : first[j] = l
  <2> DEFINE c == Se!Retrieve(q, embedded, q.weight)
             light == Se!WithinWeight(Se!WithinBudget(q), q.weight)
  <2>1. /\ c \in Seq(Se!WithinBudget(q))
        /\ Cardinality(Ids) <= RecallSize => \A l \in light : \E i \in 1..Len(c) : c[i] = l
    BY Retrieved
  <2> HIDE DEF c
  <2>2. /\ first \in Seq(Se!WithinBudget(q))
        /\ \A i \in 1..Len(c) : q.weight = None \/ catalogue[c[i]].weight # None
                                  => \E j \in 1..Len(first) : first[j] = c[i]
    BY <2>1, Reranked DEF c
  <2>3. \A l \in light : q.weight = None \/ catalogue[l].weight # None
    BY DEF Se!WithinWeight
  <2> HIDE DEF light, first
  <2> QED BY <2>1, <2>2, <2>3 DEF light
<1>4. /\ helpful \in SUBSET DOMAIN Se!Tries(q)
      /\ helpful # {} => ~Se!AnyViable(first, q, embedded)
  BY DEF Se!Helpful
<1>5. helpful # {} => \E n \in Nat : \/ q.weight # None /\ try = <<"weight", n>>
                                     \/ try = <<"budget", n>>
  <2> SUFFICES ASSUME helpful # {}
               PROVE  \E n \in Nat : (q.weight # None /\ try = <<"weight", n>>) \/ try = <<"budget", n>>
    OBVIOUS
  <2> HIDE DEF helpful
  <2>1. helpful \subseteq Nat
    BY <1>4, TriesKnown
  <2>2. Se!Min(helpful) \in helpful
    <3>1. \E x \in helpful : \A y \in helpful : x <= y
      BY <2>1, Least
    <3> QED BY <3>1 DEF Se!Min
  <2>3. Se!Min(helpful) \in DOMAIN Se!Tries(q) /\ try = Se!Tries(q)[Se!Min(helpful)]
    BY <1>4, <2>2
  <2> QED BY <2>3, TriesKnown
<1>6. /\ Askable(inForce) /\ ranked \in Seq(Se!WithinBudget(inForce))
      /\ ~gated => inForce.budget = (IF try[1] = "budget" THEN q.budget + try[2] ELSE q.budget)
  <2>1. CASE helpful = {}
    <3>1. inForce = q /\ try = <<None, 0>> /\ (ranked = first \/ ranked = <<>>)
      BY <2>1
    <3>2. q.budget \in Nat
      BY DEF Askable
    <3>3. <<>> \in Seq(Se!WithinBudget(q))
      OBVIOUS
    <3> HIDE DEF inForce, try, ranked, first, gated
    <3>4. q.budget + 0 = q.budget /\ try[1] = None /\ try[2] = 0
      BY <3>1, <3>2
    <3>5. inForce.budget = (IF try[1] = "budget" THEN q.budget + try[2] ELSE q.budget)
      <4>1. q.budget + try[2] = q.budget
        BY <3>4
      <4> QED BY <3>1, <4>1
    <3>6. ranked \in Seq(Se!WithinBudget(inForce))
      BY <1>3, <3>1, <3>3
    <3> QED BY <3>1, <3>5, <3>6
  <2>2. CASE helpful # {}
    <3>1. PICK n \in Nat : \/ q.weight # None /\ try = <<"weight", n>>
                           \/ try = <<"budget", n>>
      BY <1>5, <2>2
    <3>2. inForce = Se!Relaxed(q, try[1], try[2])
          /\ ranked = Se!Rerank(Se!Retrieve(inForce, embedded, None), inForce, embedded)
      BY <2>2 DEF Se!Retried
    <3> HIDE DEF inForce, try, ranked, first, gated
    <3>3. /\ Askable(inForce)
          /\ inForce.budget = (IF try[1] = "budget" THEN q.budget + try[2] ELSE q.budget)
      <4>1. None \notin Nat
        BY SpecsTyped
      <4>2. CASE q.weight # None /\ try = <<"weight", n>>
        <5>1. inForce = Se!Relaxed(q, "weight", n) /\ try[1] = "weight"
          BY <3>2, <4>2
        <5>2. Askable(inForce) /\ inForce.budget = q.budget
          BY <4>1, <4>2, <5>1, RelaxedKnown
        <5> QED BY <5>1, <5>2
      <4>3. CASE try = <<"budget", n>>
        <5>1. inForce = Se!Relaxed(q, "budget", n) /\ try[1] = "budget" /\ try[2] = n
          BY <3>2, <4>3
        <5>2. Askable(inForce) /\ inForce.budget = q.budget + n
          BY <4>1, <5>1, RelaxedKnown
        <5> QED BY <5>1, <5>2
      <4> QED BY <3>1, <4>2, <4>3
    <3> DEFINE c == Se!Retrieve(inForce, embedded, None)
    <3>4. c \in Seq(Se!WithinBudget(inForce))
      BY Retrieved
    <3> HIDE DEF c
    <3>5. ranked \in Seq(Se!WithinBudget(inForce))
      BY <3>2, <3>3, <3>4, Reranked DEF c
    <3> QED BY <3>3, <3>5
  <2> QED BY <2>1, <2>2
<1>7. try[2] \in Nat /\ q.budget \in Nat
  <2>1. CASE helpful = {}
    <3>1. try = <<None, 0>>
      BY <2>1
    <3> HIDE DEF try
    <3> QED BY <3>1 DEF Askable
  <2>2. CASE helpful # {}
    <3>1. PICK n \in Nat : try = <<"weight", n>> \/ try = <<"budget", n>>
      BY <1>5, <2>2
    <3> HIDE DEF try
    <3> QED BY <3>1 DEF Askable
  <2> QED BY <2>1, <2>2
<1>8. helpful = {} => try[1] = None
  <2> SUFFICES ASSUME helpful = {} PROVE try[1] = None
    OBVIOUS
  <2>1. try = <<None, 0>>
    OBVIOUS
  <2> QED BY <2>1
<1> HIDE DEF first, helpful, try, inForce, ranked, gated
<1>9. Se!ToSet(a.results) \subseteq Se!WithinBudget(inForce) /\ (gated => Se!ToSet(a.results) = {})
  <2>1. CASE gated
    <3>1. a.results = <<>>
      BY <1>2, <2>1
    <3> QED BY <3>1 DEF Se!ToSet
  <2>2. CASE ~gated
    <3> DEFINE W == Se!WithinBudget(inForce)
               ones == Se!OnePerFamily(ranked, inForce.budget)
               k == Se!Min2(q.topK, MaxResults)
    <3>1. a.results = Se!First(ones, k)
      BY <1>2, <2>2 DEF Se!Shortlist
    <3>2. W \in SUBSET DOMAIN catalogue
      BY DEF Se!WithinBudget
    <3>3. inForce.budget \in Nat \cup {None}
      BY <1>6 DEF Askable
    <3> HIDE DEF W
    <3>4. ones \in Seq(W)
      BY <1>6, <3>2, <3>3, OnesOfFamily DEF W
    <3>5. k \in Nat
      BY SpecsTyped DEF Se!Min2, Askable
    <3> HIDE DEF ones, k
    <3>6. a.results \in Seq(W)
      BY <3>1, <3>4, <3>5, FirstOf
    <3> QED BY <2>2, <3>6 DEF W, Se!ToSet
  <2> QED BY <2>1, <2>2
<1>10. ASSUME ~gated, NEW l \in Se!ToSet(a.results)
       PROVE  /\ catalogue[l].price <= q.budget + a.by
              /\ catalogue[l].price > q.budget => a.relaxed = "budget"
  <2>1. /\ inForce.budget = None \/ catalogue[l].price <= inForce.budget
        /\ l \in DOMAIN catalogue
    BY <1>9 DEF Se!WithinBudget
  <2>2. catalogue[l].price \in Nat /\ None \notin Nat
    BY <2>1, SpecsTyped
  <2>3. a.by = try[2] /\ a.relaxed = try[1]
    BY <1>2, <1>10
  <2>4. inForce.budget = (IF try[1] = "budget" THEN q.budget + try[2] ELSE q.budget)
    BY <1>6, <1>10
  <2>5. inForce.budget \in Nat
    BY <1>7, <2>4
  <2>6. catalogue[l].price <= inForce.budget
    BY <2>1, <2>2, <2>5
  <2> QED BY <1>7, <2>2, <2>3, <2>4, <2>6
<1>11. ASSUME a.relaxed # None, Cardinality(Ids) <= RecallSize,
              NEW l \in Se!WithinWeight(Se!WithinBudget(q), q.weight),
              Se!Min2(catalogue[l].similarity, FallbackSimilarity) + Se!Bonus(catalogue[l], q) >= Viable
       PROVE  FALSE
  <2>1. ~Se!AnyViable(first, q, embedded)
    BY <1>2, <1>4, <1>8, <1>11
  <2>2. PICK j \in 1..Len(first) : first[j] = l
    <3>1. \A m \in Se!WithinWeight(Se!WithinBudget(q), q.weight) : \E j \in 1..Len(first) : first[j] = m
      BY <1>3, <1>11
    <3> QED BY <3>1, Zenon
  <2>3. l \in Se!WithinBudget(q) /\ l \in DOMAIN catalogue
    BY <1>11 DEF Se!WithinWeight, Se!WithinBudget
  <2> DEFINE floor == Se!Min2(catalogue[l].similarity, FallbackSimilarity) + Se!Bonus(catalogue[l], q)
  <2>4. floor \in Int /\ Viable \in Int
    <3>1. catalogue[l].similarity \in Nat /\ FallbackSimilarity \in Nat
      BY <2>3, SpecsTyped
    <3>2. Se!Min2(catalogue[l].similarity, FallbackSimilarity) \in Int
      BY <3>1 DEF Se!Min2
    <3>3. Se!Bonus(catalogue[l], q) \in Int
      BY DEF Se!Bonus
    <3>4. Viable \in 0..1000
      BY DEF Se!SearchAssumption
    <3> QED BY <3>2, <3>3, <3>4
  <2>5. Se!Score(l, q, embedded) \in Int /\ Se!Score(l, q, embedded) >= floor
    BY <1>11, <2>3, ScoresInBudget
  <2> HIDE DEF floor
  <2>6. Se!Score(l, q, embedded) >= Viable
    BY <1>11, <2>4, <2>5 DEF floor
  <2>7. DOMAIN first = 1..Len(first)
    BY <1>3
  <2> QED BY <2>1, <2>2, <2>6, <2>7 DEF Se!AnyViable
<1> QED BY <1>9, <1>10, <1>11

(* What is shown is within the budget in force, and what is over the budget   *)
(* asked for is said to be.                                                   *)
SaidWhenOver ==
    search # None /\ search.budget # None =>
        \A l \in Se!ToSet(answer.results) :
            /\ catalogue[l].price <= search.budget + answer.by
            /\ catalogue[l].price > search.budget => answer.relaxed = "budget"

(* The retrieval takes in whatever catalogue there may be.                    *)
RecallIsAll == Cardinality(Ids) <= RecallSize

SearchInv ==
    /\ Stocked
    /\ SaidWhenOver
    /\ RecallIsAll => Se!BudgetHonoured

LEMMA SearchStart == ASSUME Se!SearchInit PROVE SearchInv
<1>1. PICK C \in SUBSET Ids : catalogue \in [C -> Specs]
  BY DEF Se!SearchInit
<1>2. search = None
  BY DEF Se!SearchInit
<1> QED BY <1>1, <1>2 DEF SearchInv, Stocked, SaidWhenOver, Se!BudgetHonoured

LEMMA SearchStep ==
    ASSUME Se!SearchAssumption, SearchInv, [Se!SearchNext]_searches
    PROVE  SearchInv'
<1>1. CASE UNCHANGED searches
  <2>1. catalogue' = catalogue /\ search' = search /\ answer' = answer
    BY <1>1 DEF searches
  <2>2. Stocked' /\ SaidWhenOver'
    BY <2>1 DEF SearchInv, Stocked, SaidWhenOver
  <2>3. RecallIsAll' = RecallIsAll
    BY DEF RecallIsAll
  <2>4. Se!BudgetHonoured => Se!BudgetHonoured'
    BY <2>1 DEF Se!BudgetHonoured, Se!Shown, Se!WithinWeight, Se!WithinBudget
  <2> QED BY <2>2, <2>3, <2>4 DEF SearchInv
<1>2. ASSUME NEW q \in Searches, NEW embedded \in BOOLEAN, Se!Search(q, embedded) PROVE SearchInv'
  <2> DEFINE a == Se!Answer(q, embedded)
  <2>1. search' = q /\ answer' = a /\ catalogue' = catalogue
    BY <1>2 DEF Se!Search
  <2>2. Askable(q) /\ Stocked
    BY DEF Se!SearchAssumption, Askable, SearchInv
  <2> DEFINE Floor(l) == Se!Min2(catalogue[l].similarity, FallbackSimilarity) + Se!Bonus(catalogue[l], q)
             light == Se!WithinWeight(Se!WithinBudget(q), q.weight)
  <2>3. ASSUME q.budget # None
        PROVE  /\ \A l \in Se!ToSet(a.results) : catalogue[l].price <= q.budget + a.by
               /\ \A l \in Se!ToSet(a.results) : catalogue[l].price > q.budget => a.relaxed = "budget"
               /\ a.relaxed # None /\ RecallIsAll => ~\E l \in light : Floor(l) >= Viable
    BY <2>2, <2>3, AnswerHonours DEF RecallIsAll
  <2> HIDE DEF a
  <2>4. light' = light
    BY <2>1 DEF Se!WithinWeight, Se!WithinBudget
  <2>5. Stocked' /\ SaidWhenOver'
    BY <2>1, <2>2, <2>3 DEF Stocked, SaidWhenOver
  <2>6. ASSUME RecallIsAll PROVE Se!BudgetHonoured'
    <3>1. (Se!WithinWeight(Se!WithinBudget(search), search.weight))' = light
      BY <2>1, <2>4 DEF light, Se!WithinWeight, Se!WithinBudget
    <3> QED BY <2>1, <2>3, <2>6, <3>1 DEF Se!BudgetHonoured, Se!Shown
  <2> QED BY <2>5, <2>6 DEF SearchInv, RecallIsAll
<1> QED BY <1>1, <1>2 DEF Se!SearchNext

-----------------------------------------------------------------------------
(* The parts together: a behaviour is about one of them.                      *)

PeopleInv ==
    /\ part = "accounts" => BaseInv /\ AdminRemains /\ HashInv
    /\ part = "limits" => LimitsInv
    /\ part = "registry" => RegistryInv
    /\ part = "settings" => SettingsInv
    /\ part = "chat" => ChatInv
    /\ part = "search" => SearchInv

(* A step is one of the part's, or none.                                      *)
LEMMA PartSteps ==
    ASSUME [PeopleNext]_<<part, people>>
    PROVE  /\ part' = part
           /\ part = "accounts" => [Next]_vars
           /\ part = "limits" => [Rl!LimitsNext]_limits
           /\ part = "registry" => [Re!RegistryNext]_registry
           /\ part = "settings" => [Ms!SettingsNext]_settings
           /\ part = "chat" => [Ct!ChatNext]_chat
           /\ part = "search" => [Se!SearchNext]_searches
  BY DEF PeopleNext, people, accounts

(* Each part begins in its invariant.                                         *)
LEMMA PeopleStart ==
    ASSUME PeopleAssumption, PeopleInit
    PROVE  PeopleInv
<1>1. part = "accounts" => BaseInv /\ AdminRemains /\ HashInv
  BY BaseInit, AdminStart, HashStart DEF PeopleAssumption, PeopleInit
<1>2. part = "registry" => RegistryInv
  BY RegistryStart DEF PeopleInit
<1>3. part = "settings" => SettingsInv
  BY SettingsStart DEF PeopleAssumption, PeopleInit
<1>4. part = "chat" => ChatInv
  BY ChatStart DEF PeopleInit
<1>5. part = "limits" => LimitsInv
  BY LimitsStart DEF PeopleAssumption, PeopleInit
<1>6. part = "search" => SearchInv
  BY SearchStart DEF PeopleInit
<1> QED BY <1>1, <1>2, <1>3, <1>4, <1>5, <1>6 DEF PeopleInv

(* And stays in it.                                                           *)
LEMMA PeopleStep ==
    ASSUME PeopleAssumption, PeopleInv, [PeopleNext]_<<part, people>>
    PROVE  PeopleInv'
<1>1. part = "accounts" => (BaseInv /\ AdminRemains /\ HashInv)'
  BY PartSteps, BaseStep, AdminStep, HashStep DEF PeopleAssumption, PeopleInv
<1>2. part = "registry" => RegistryInv'
  BY PartSteps, RegistryStep DEF PeopleInv
<1>3. part = "settings" => SettingsInv'
  BY PartSteps, SettingsStep DEF PeopleAssumption, PeopleInv
<1>4. part = "chat" => ChatInv'
  BY PartSteps, ChatStep DEF PeopleAssumption, PeopleInv
<1>5. part = "limits" => LimitsInv'
  BY PartSteps, LimitsStep DEF PeopleAssumption, PeopleInv
<1>6. part = "search" => SearchInv'
  BY PartSteps, SearchStep DEF PeopleAssumption, PeopleInv
<1> QED BY <1>1, <1>2, <1>3, <1>4, <1>5, <1>6, PartSteps DEF PeopleInv

(* So every behaviour does.                                                   *)
LEMMA PeopleAlways == ASSUME PeopleAssumption PROVE PeopleSpec => []PeopleInv
  BY PeopleStart, PeopleStep, PTL DEF PeopleSpec

(* Accounts, as the run checks them: an active admin is left, whatever        *)
(* requests overlap, unless a demotion was committed over a change of the     *)
(* admins it had counted.                                                     *)
THEOREM AdminStaysInService == ASSUME PeopleAssumption PROVE PeopleSpec => []AnAdminStays
<1>1. PeopleInv => AnAdminStays
  BY DEF PeopleInv, AnAdminStays
<1> QED BY <1>1, PeopleAlways, PTL

(* A password is replaced at most once through the reset links made for it.   *)
THEOREM LinksDieInService == ASSUME PeopleAssumption PROVE PeopleSpec => []ResetLinksDie
<1>1. PeopleInv => ResetLinksDie
  BY DEF PeopleInv, ResetLinksDie, HashInv, LinksDieTogether
<1> QED BY <1>1, PeopleAlways, PTL

(* An address gets one mail per cooldown and the daily number per day, for    *)
(* any number of callers, addresses and windows, unless a full table of       *)
(* counters has dropped one of its own.                                       *)
THEOREM MailsAreFew == ASSUME PeopleAssumption PROVE PeopleSpec => []MailsBounded
<1>1. PeopleInv => MailsBounded
  BY LimitsHold DEF PeopleInv, MailsBounded
<1> QED BY <1>1, PeopleAlways, PTL

(* No name, owner or active step has two rows, for any number of rows and     *)
(* requests: the unique index keeps it, or, where the table has none, a       *)
(* commit overtook a look-up.                                                 *)
THEOREM OneRowEach == ASSUME PeopleAssumption PROVE PeopleSpec => []OneHolder
<1>1. PeopleInv => OneHolder
  BY HoldersAlone DEF PeopleInv, OneHolder
<1> QED BY <1>1, PeopleAlways, PTL

(* What a streamed turn stores is what it showed, for any number of turns,    *)
(* models, tool calls and chunks.                                             *)
THEOREM StoredIsShown == ASSUME PeopleAssumption PROVE PeopleSpec => []ReplyIsWhatWasShown
<1>1. PeopleInv => ReplyIsWhatWasShown
  BY ShownIsSaved DEF PeopleInv, ReplyIsWhatWasShown
<1> QED BY <1>1, PeopleAlways, PTL

(* No worker uses a chain for longer than the cache lives after a change, nor *)
(* after an update of its own has ended, for any number of workers, requests  *)
(* and commits.                                                               *)
THEOREM StaleForTheCacheTime == ASSUME PeopleAssumption PROVE PeopleSpec => []StaleIsShort
<1>1. PeopleInv => StaleIsShort
  BY SettingsHold DEF PeopleInv, PeopleAssumption, StaleIsShort
<1> QED BY <1>1, PeopleAlways, PTL

(* An update that was accepted and not overtaken is the chain in effect when  *)
(* it is written, whatever fields it left out or reset.                       *)
THEOREM AcceptedIsInEffect == ASSUME PeopleAssumption PROVE PeopleSpec => []AcceptedTakesEffect
<1>1. PeopleInv => AcceptedTakesEffect
  BY SettingsHold DEF PeopleInv, PeopleAssumption, AcceptedTakesEffect
<1> QED BY <1>1, PeopleAlways, PTL

(* What a search shows is within the budget, or the answer says that the      *)
(* budget was raised and by how much; and it is only raised when no laptop    *)
(* within it is viable. The last part is of a catalogue that the retrieval    *)
(* takes in whole: what it leaves out, nobody has scored.                     *)
THEOREM BudgetIsHonoured ==
    ASSUME PeopleAssumption, RecallIsAll
    PROVE  PeopleSpec => []BudgetHonoured
<1>1. PeopleInv => BudgetHonoured
  BY DEF PeopleInv, BudgetHonoured, SearchInv
<1> QED BY <1>1, PeopleAlways, PTL

(* The first part of it, of any catalogue.                                    *)
THEOREM OverBudgetIsSaid ==
    ASSUME PeopleAssumption
    PROVE  PeopleSpec => [](part = "search" => SaidWhenOver)
<1>1. PeopleInv => (part = "search" => SaidWhenOver)
  BY DEF PeopleInv, SearchInv
<1> QED BY <1>1, PeopleAlways, PTL
=============================================================================
