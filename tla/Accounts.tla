------------------------------ MODULE Accounts ------------------------------
(* The users table behind the authentication and the admin endpoints:         *)
(* registration, verification and reset links, password and Google logins,    *)
(* and the lockout guards of the role and status endpoints.                   *)
(*                                                                            *)
(* A request is two steps, as in the code: the SELECTs, the guards and the    *)
(* assignments on the loaded row (Begin...), then the COMMIT, which sends one *)
(* UPDATE of the columns that differ from the row as loaded, or one INSERT.   *)
(* Sessions run READ COMMITTED, and nothing locks a row in between.           *)
EXTENDS Naturals, FiniteSets

CONSTANTS Users,     \* accounts: one email address and one Google subject each
          Admins,    \* the accounts that exist, as active admins, at the start
          Requests,  \* the requests that may be open at once
          Statuses,  \* "active" and one or more of "inactive", "suspended"
          MaxHash    \* bound on the password hashes ever made

AdminsAssumption == Admins \subseteq Users /\ Admins # {}
StatusesAssumption == "active" \in Statuses
MaxHashAssumption == MaxHash \in Nat \ {0}

VARIABLES users,     \* the users table
          links,     \* signed links mailed; an expired one is one never opened
          sessions,  \* accounts that were issued an access token
          request,   \* what each open request is about to commit
          hashes,    \* the number of bcrypt hashes made (each is salted anew)
          replaced,  \* history: resets done with links minted against each hash
          raced      \* history: a guard's answer was overtaken by a commit

vars == <<users, links, sessions, request, hashes, replaced, raced>>

(* Columns of a row. A password is the number of its hash, 0 for none; google *)
(* says that provider_sub is set.                                             *)
NoRow == [exists |-> FALSE, role |-> "user", status |-> "active",
          verified |-> FALSE, password |-> 0, google |-> FALSE]

(* A reset link's fingerprint, and the hash it was minted against (history).  *)
VerifyLink(u) == [kind |-> "verify", user |-> u, fp |-> 0, hash |-> 0]

(* An open request: the row it loaded and the row it will flush. `admins` is  *)
(* the active admins a lockout guard counted; `link` the hash a link is for.  *)
Idle == [op |-> "idle"]
Open(op, u, old, new) == [op |-> op, user |-> u, old |-> old, new |-> new,
                          admins |-> {}, link |-> 0]

ActiveAdmin(row) == row.role = "admin" /\ row.status = "active"
CountedAdmins == {u \in Users : users[u].exists /\ ActiveAdmin(users[u])}

Init ==
    /\ users = [u \in Users |->
                  IF u \in Admins
                  THEN [NoRow EXCEPT !.exists = TRUE, !.role = "admin",
                                     !.verified = TRUE, !.google = TRUE]
                  ELSE NoRow]
    /\ links = {}
    /\ sessions = {}
    /\ request = [r \in Requests |-> Idle]
    /\ hashes = 0
    /\ replaced = [h \in 1..MaxHash |-> 0]
    /\ raced = FALSE

Free(r) == request[r] = Idle
Start(r, req) == Free(r) /\ request' = [request EXCEPT ![r] = req]
Hash == hashes < MaxHash /\ hashes' = hashes + 1

-----------------------------------------------------------------------------
(* Registration and verification                                             *)

(* Refused when the address is taken as far as the request can see; two       *)
(* requests may both pass, and the unique index then fails the second INSERT. *)
Register(r, u) ==
    /\ ~users[u].exists
    /\ Hash
    /\ Start(r, Open("register", u, NoRow,
                     [NoRow EXCEPT !.exists = TRUE, !.password = hashes + 1]))
    /\ UNCHANGED <<users, links, sessions, replaced, raced>>

VerifyEmail(r, link) ==
    /\ link.kind = "verify"
    /\ LET row == users[link.user] IN
       /\ row.exists /\ ~row.verified
       /\ Start(r, Open("verify", link.user, row, [row EXCEPT !.verified = TRUE]))
    /\ UNCHANGED <<users, links, sessions, hashes, replaced, raced>>

(* Only an unverified account with a password is sent a new link.             *)
ResendVerification(u) ==
    /\ users[u].exists /\ ~users[u].verified /\ users[u].password # 0
    /\ links' = links \cup {VerifyLink(u)}
    /\ UNCHANGED <<users, sessions, request, hashes, replaced, raced>>

-----------------------------------------------------------------------------
(* Logins                                                                    *)

(* The owner gives the current password; then the status and verified gates.  *)
Login(u) ==
    /\ users[u].exists /\ users[u].password # 0
    /\ users[u].status = "active" /\ users[u].verified
    /\ sessions' = sessions \cup {u}
    /\ UNCHANGED <<users, links, request, hashes, replaced, raced>>

(* By subject, else by email (the account is linked and counts as verified),  *)
(* else a new account without a password.                                     *)
GoogleLogin(r, u) ==
    LET row == users[u]
        linked == [row EXCEPT !.google = TRUE, !.verified = TRUE]
        created == [NoRow EXCEPT !.exists = TRUE, !.verified = TRUE, !.google = TRUE]
    IN
    /\ \/ /\ row.exists /\ row.google /\ row.status = "active"
          /\ sessions' = sessions \cup {u}
          /\ UNCHANGED request
       \/ /\ row.exists /\ ~row.google /\ row.status = "active"
          /\ Start(r, Open("google", u, row, linked))
          /\ UNCHANGED sessions
       \/ /\ ~row.exists
          /\ Start(r, Open("google", u, NoRow, created))
          /\ UNCHANGED sessions
    /\ UNCHANGED <<users, links, hashes, replaced, raced>>

-----------------------------------------------------------------------------
(* Password reset                                                            *)

(* A link carries the fingerprint of the hash it was minted against.          *)
FingerprintOfAddress(hash) == 0    \* mutant: bound to the account only

Fingerprint(hash) == hash

ForgotPassword(u) ==
    /\ users[u].exists /\ users[u].password # 0
    /\ links' = links \cup {[kind |-> "reset", user |-> u,
                             fp |-> Fingerprint(users[u].password),
                             hash |-> users[u].password]}
    /\ UNCHANGED <<users, sessions, request, hashes, replaced, raced>>

ResetPassword(r, link) ==
    /\ link.kind = "reset"
    /\ LET row == users[link.user] IN
       /\ row.exists /\ link.fp = Fingerprint(row.password)
       /\ Hash
       /\ Start(r, [Open("reset", link.user, row, [row EXCEPT !.password = hashes + 1])
                      EXCEPT !.link = link.hash])
    /\ UNCHANGED <<users, links, sessions, replaced, raced>>

-----------------------------------------------------------------------------
(* Administration                                                            *)

(* The caller's token is resolved and its status and role read again on every *)
(* request.                                                                   *)
IsAdmin(by) == by \in sessions /\ users[by].exists /\ ActiveAdmin(users[by])

IsDemotionAfter(row, new) == FALSE    \* mutant: asked after the assignment

IsDemotion(row, new) == \/ row.role = "admin" /\ new.role # "admin"
                        \/ row.status = "active" /\ new.status # "active"

(* assert_not_self_lockout, then assert_not_last_admin.                       *)
Allowed(by, u, row, new) ==
    IsDemotion(row, new) => /\ u # by
                            /\ ~(ActiveAdmin(row) /\ Cardinality(CountedAdmins) <= 1)

Update(r, by, u, new) ==
    /\ IsAdmin(by) /\ users[u].exists
    /\ Allowed(by, u, users[u], new)
    /\ Start(r, [Open("admin", u, users[u], new) EXCEPT !.admins = CountedAdmins])
    /\ UNCHANGED <<users, links, sessions, hashes, replaced, raced>>

UpdateRole(r, by, u, role) == Update(r, by, u, [users[u] EXCEPT !.role = role])
UpdateStatus(r, by, u, status) == Update(r, by, u, [users[u] EXCEPT !.status = status])

-----------------------------------------------------------------------------
(* Commits                                                                   *)

(* The flush writes the columns the request changed, over whatever the row    *)
(* holds by now.                                                              *)
Flushed(row, req) == [c \in DOMAIN row |->
                        IF req.old[c] # req.new[c] THEN req.new[c] ELSE row[c]]

Insert(req) == ~req.old.exists
Overtaken(req) ==
    \/ req.op = "admin" /\ CountedAdmins # req.admins
    \/ req.op = "reset" /\ users[req.user].password # req.old.password

Commit(r) ==
    LET req == request[r] IN
    /\ ~Free(r)
    /\ request' = [request EXCEPT ![r] = Idle]
    /\ IF Insert(req) /\ users[req.user].exists
       THEN UNCHANGED <<users, links, sessions, replaced, raced>>   \* the unique index
       ELSE /\ users' = [users EXCEPT ![req.user] = Flushed(@, req)]
            /\ links' = IF req.op = "register"
                        THEN links \cup {VerifyLink(req.user)}
                        ELSE links
            /\ sessions' = IF req.op = "google" THEN sessions \cup {req.user} ELSE sessions
            /\ replaced' = IF req.op = "reset" THEN [replaced EXCEPT ![req.link] = @ + 1]
                           ELSE replaced
            /\ raced' = (raced \/ Overtaken(req))
    /\ UNCHANGED hashes

Next ==
    \/ \E u \in Users : ResendVerification(u) \/ Login(u) \/ ForgotPassword(u)
    \/ \E r \in Requests :
          \/ Commit(r)
          \/ \E u \in Users : Register(r, u) \/ GoogleLogin(r, u)
          \/ \E link \in links : VerifyEmail(r, link) \/ ResetPassword(r, link)
          \/ \E by \in sessions, u \in Users :
                \/ \E role \in {"user", "admin"} : UpdateRole(r, by, u, role)
                \/ \E s \in Statuses : UpdateStatus(r, by, u, s)

Spec == Init /\ [][Next]_vars

-----------------------------------------------------------------------------
(* Properties                                                                *)

(* Somebody can always administer the portal, unless a commit overtook the    *)
(* count of a demotion: the self and the last-admin guards of both endpoints  *)
(* (role and status are separate columns) leave an active admin together.     *)
AdminRemains == raced \/ CountedAdmins # {}

(* The same without the exception, as assert_not_last_admin's comment has it. *)
NeverWithoutAdmin == CountedAdmins # {}

(* A password is replaced through its reset links at most once, however many  *)
(* links were mailed and however often each is opened, unless two resets of   *)
(* the account overlapped between fingerprint check and commit.               *)
LinksDieTogether == raced \/ \A h \in 1..MaxHash : replaced[h] <= 1
=============================================================================
