------------------------------ MODULE Accounts ------------------------------
(***************************************************************************)
(* Accounts: password registration, e-mail verification, magic links,      *)
(* social sign-in, sessions, the demo matter a new account is given, and   *)
(* the ways to become an administrator.  Every handler commits several     *)
(* times: what it has added to its session since lands with its next       *)
(* commit, whichever that is, or is lost when there is none.               *)
(***************************************************************************)
EXTENDS Naturals, FiniteSets

CONSTANTS
    People,     \* e-mail addresses
    Acts,       \* requests
    NoUser,
    AutoAdmin   \* DEV_AUTO_ADMIN_FIRST_USER

Roles == {"solicitor", "workspace_admin"}
Account == [verified : BOOLEAN, active : BOOLEAN, superuser : BOOLEAN, role : Roles]

ASSUME AccountAssumption ==
    NoUser \notin People /\ NoUser \notin Account /\ AutoAdmin \in BOOLEAN

Environments == {"production", "development"}

VARIABLES
    env,      \* settings.environment
    users,    \* users by address: [verified, active, superuser, role] or NoUser
    mailed,   \* addresses a verification link was sent to
    demo,     \* the demo matter as committed: "none", "partial" or "seeded"
    tokens,   \* access tokens, by the request that wrote them: "none", "live" or "gone"
    log,      \* audit rows: [event, who, by]
    act,      \* request -> where it is, what it read, what its session holds
    proved    \* history: addresses whose owner followed a link, or that a provider or
              \* an administrator vouched for

accountVars == <<env, users, mailed, demo, tokens, log, act, proved>>

Resting == [at |-> "idle", kind |-> "none", who |-> NoUser, pending |-> {}, staged |-> FALSE,
            saw |-> "none", role |-> "none", promoted |-> FALSE]

AccountInit ==
    /\ env \in Environments
    /\ users = [e \in People |-> NoUser]
    /\ mailed = {} /\ proved = {} /\ log = {}
    /\ demo = [e \in People |-> "none"]
    /\ tokens = [r \in Acts |-> "none"]
    /\ act = [r \in Acts |-> Resting]

Who(r) == act[r].who
Audit(event, r) == [event |-> event, who |-> Who(r), by |-> r]
Finished(r) == [Resting EXCEPT !.at = "over", !.who = act[r].who, !.promoted = act[r].promoted]
Known(e) == users[e] # NoUser
Goes(r, at) == act' = [act EXCEPT ![r].at = at]

(* A commit of the session: the rows it holds, and a demo matter that was  *)
(* flushed and left behind by a seeding that failed.                       *)
Lands(r) == log' = log \cup act[r].pending
DemoLands(r) == demo' = IF act[r].staged /\ demo[Who(r)] = "none"
                        THEN [demo EXCEPT ![Who(r)] = "partial"] ELSE demo

Fresh(verified) == [verified |-> verified, active |-> TRUE, superuser |-> FALSE,
                    role |-> "solicitor"]

-----------------------------------------------------------------------------
(* How a request starts.  The request reads the user and decides.          *)
Start(r, kind, e, at) ==
    /\ act[r].at = "idle"
    /\ act' = [act EXCEPT ![r].kind = kind, ![r].who = e, ![r].at = at]
    /\ UNCHANGED <<env, users, mailed, demo, tokens, log>>

Register(r) ==
    \E e \in People : /\ ~ Known(e)
                      /\ Start(r, "register", e, "create")
                      /\ UNCHANGED proved

(* POST /auth/verify with the token that was mailed. *)
VerifyEmail(r) ==
    \E e \in mailed : /\ Known(e) /\ ~ users[e].verified
                      /\ Start(r, "verify", e, "verify")
                      /\ proved' = proved \cup {e}

(* POST /auth/request-verify-token: the mail is all it does. *)
ResendVerification(r) ==
    /\ \E e \in People : /\ Known(e) /\ users[e].active /\ ~ users[e].verified
                         /\ act[r].at = "idle"
                         /\ mailed' = mailed \cup {e}
                         /\ act' = [act EXCEPT ![r].at = "over"]
    /\ UNCHANGED <<env, users, demo, tokens, log, proved>>

(* verify_magic_link: the token is a signed address, good for its          *)
(* lifetime.                                                               *)
MagicLink(r) ==
    \E e \in People :
        /\ Start(r, "magic", e, CASE ~ Known(e) -> "create"
                                  [] Known(e) /\ ~ users[e].active -> "over"
                                  [] Known(e) /\ users[e].active /\ users[e].verified -> "login"
                                  [] OTHER -> "verify")
        /\ proved' = proved \cup {e}

(* The provider's callback: an account with the address is linked to the   *)
(* identity and signed in, verified or not.                                *)
OAuthCallback(r) ==
    \E e \in People :
        /\ Start(r, "oauth", e, CASE ~ Known(e) -> "create"
                                  [] Known(e) /\ ~ users[e].active -> "over"
                                  [] OTHER -> "login")
        /\ proved' = proved \cup {e}

(* mutant: password login without requires_verification *)
MutMayLogIn(e) == Known(e) /\ users[e].active

MayLogIn(e) == Known(e) /\ users[e].active /\ users[e].verified

Login(r) ==
    \E e \in People : MayLogIn(e) /\ Start(r, "login", e, "login") /\ UNCHANGED proved

-----------------------------------------------------------------------------
(* user_db.create commits; the unique address fails the second of two.     *)
(* What follows differs: a registration sends its verification mail, a     *)
(* magic link goes on by itself, and a new social account, created         *)
(* verified, has request_verify raise in production.                       *)
CreateUser(r) ==
    LET kind == act[r].kind
        next == CASE kind = "magic" -> "promote"
                  [] kind # "magic" /\ env = "development" -> "autoverify"
                  [] kind = "register" /\ env = "production" -> "mail"
                  [] OTHER -> "over"
    IN
    /\ act[r].at = "create"
    /\ IF Known(Who(r)) THEN /\ act' = [act EXCEPT ![r] = Finished(r)]
                             /\ UNCHANGED users
       ELSE /\ users' = [users EXCEPT ![Who(r)] = Fresh(kind # "register")]
            /\ act' = [act EXCEPT ![r].at = next,
                                  ![r].pending = IF next = "over" THEN {}
                                                 ELSE {Audit("registered", r)}]
    /\ UNCHANGED <<env, mailed, demo, tokens, log, proved>>

(* request_verify and _send.  On success UserManager.create updates the    *)
(* e-mail domain, and that commit carries the row.                         *)
SendMail(r) ==
    /\ act[r].at = "mail"
    /\ act' = [act EXCEPT ![r] = Finished(r)]
    /\ \/ mailed' = mailed \cup {Who(r)} /\ Lands(r)
       \/ UNCHANGED <<mailed, log>>
    /\ UNCHANGED <<env, users, demo, tokens, proved>>

(* on_after_register in development. *)
AutoVerify(r) ==
    /\ act[r].at = "autoverify"
    /\ users' = [users EXCEPT ![Who(r)].verified = TRUE]
    /\ Lands(r)
    /\ act' = [act EXCEPT ![r].at = "promote", ![r].pending = {}]
    /\ UNCHANGED <<env, mailed, demo, tokens, proved>>

IsFirst(r) == Cardinality({e \in People : Known(e)}) = 1

(* _maybe_promote_first_dev_user: the update commits, its row is pending. *)
Promote(r) ==
    LET promotes == AutoAdmin /\ env = "development" /\ IsFirst(r) IN
    /\ act[r].at = "promote"
    /\ IF promotes
       THEN /\ users' = [users EXCEPT ![Who(r)].superuser = TRUE, ![Who(r)].role = "workspace_admin"]
            /\ Lands(r)
            /\ act' = [act EXCEPT ![r].at = "postverify", ![r].promoted = TRUE,
                                  ![r].pending = {Audit("auto_bootstrapped", r)}]
       ELSE Goes(r, "postverify") /\ UNCHANGED <<users, log>>
    /\ UNCHANGED <<env, mailed, demo, tokens, proved>>

(* The verified flag is committed before the hooks run. *)
MarkVerified(r) ==
    /\ act[r].at = "verify"
    /\ users' = [users EXCEPT ![Who(r)].verified = TRUE]
    /\ Goes(r, "postverify")
    /\ UNCHANGED <<env, mailed, demo, tokens, log, proved>>

(* mutant: the row of the demo matter is logged before it is seeded *)
MutPostVerify(r) ==
    /\ act[r].at = "postverify"
    /\ act' = [act EXCEPT ![r].at = "seed", ![r].saw = demo[Who(r)],
                          ![r].pending = @ \cup {Audit("verified", r), Audit("demo_seeded", r)}]
    /\ UNCHANGED <<env, users, mailed, demo, tokens, log, proved>>

(* _post_verify: the audit row, then seed_demo_matter_for_user, which      *)
(* looks for the matter first ...                                          *)
PostVerify(r) ==
    /\ act[r].at = "postverify"
    /\ act' = [act EXCEPT ![r].at = "seed", ![r].saw = demo[Who(r)],
                          ![r].pending = @ \cup {Audit("verified", r)}]
    /\ UNCHANGED <<env, users, mailed, demo, tokens, log, proved>>

(* ... and inserts or completes it.  Every failure is swallowed: a failed  *)
(* flush, such as the second of two inserts, leaves a session whose next   *)
(* use raises; a failure of the file store leaves what was flushed.        *)
Seed(r) ==
    /\ act[r].at = "seed"
    /\ \/ /\ act[r].saw # "none" \/ demo[Who(r)] = "none"
          /\ demo' = [demo EXCEPT ![Who(r)] = "seeded"]
          /\ Lands(r)
          /\ act' = [act EXCEPT ![r].at = "seeded", ![r].pending = {Audit("demo_seeded", r)}]
       \/ /\ act[r].saw # "none" \/ demo[Who(r)] = "none"
          /\ act' = [act EXCEPT ![r].at = "after", ![r].staged = TRUE]
          /\ UNCHANGED <<demo, log>>
       \/ /\ act' = [act EXCEPT ![r] = Finished(r)]
          /\ UNCHANGED <<demo, log>>
    /\ UNCHANGED <<env, users, mailed, tokens, proved>>

DemoSeeded(r) ==
    /\ act[r].at = "seeded"
    /\ Lands(r)
    /\ act' = [act EXCEPT ![r].at = "after", ![r].pending = {}]
    /\ UNCHANGED <<env, users, mailed, demo, tokens, proved>>

(* The rest of the handler: a registration's last update commits, the      *)
(* verification route has nothing more to commit, the others sign in.      *)
AfterHooks(r) ==
    /\ act[r].at = "after"
    /\ \/ /\ act[r].kind = "register"
          /\ Lands(r) /\ DemoLands(r)
          /\ act' = [act EXCEPT ![r] = Finished(r)]
       \/ /\ act[r].kind = "verify"
          /\ act' = [act EXCEPT ![r] = Finished(r)]
          /\ UNCHANGED <<log, demo>>
       \/ /\ act[r].kind \in {"magic", "oauth"}
          /\ Goes(r, "login")
          /\ UNCHANGED <<log, demo>>
    /\ UNCHANGED <<env, users, mailed, tokens, proved>>

(* AuditingDatabaseStrategy.write_token: the token is committed, and with  *)
(* it what the session holds; its audit row by the next commit.            *)
WriteToken(r) ==
    /\ act[r].at = "login"
    /\ tokens' = [tokens EXCEPT ![r] = "live"]
    /\ Lands(r) /\ DemoLands(r)
    /\ act' = [act EXCEPT ![r].at = "row", ![r].pending = {Audit("logged_in", r)}, ![r].staged = FALSE]
    /\ UNCHANGED <<env, users, mailed, proved>>

(* destroy_token, of a session some request opened. *)
Logout(r) ==
    \E s \in Acts :
        /\ tokens[s] = "live" /\ act[r].at = "idle"
        /\ tokens' = [tokens EXCEPT ![s] = "gone"]
        /\ act' = [act EXCEPT ![r].kind = "logout", ![r].who = Who(s), ![r].at = "row",
                              ![r].pending = {[event |-> "logged_out", who |-> Who(s), by |-> r]}]
        /\ UNCHANGED <<env, users, mailed, demo, log, proved>>

CommitRow(r) ==
    /\ act[r].at = "row"
    /\ Lands(r)
    /\ act' = [act EXCEPT ![r] = Finished(r)]
    /\ UNCHANGED <<env, users, mailed, demo, tokens, proved>>

-----------------------------------------------------------------------------
(* change_user_role_endpoint: a superuser, not its own role, and nothing   *)
(* when the role read is the role asked for.                               *)
ChangeRole(r) ==
    /\ \E caller, e \in People, role \in Roles :
        /\ Known(caller) /\ users[caller].superuser /\ users[caller].active
        /\ users[caller].verified
        /\ Known(e) /\ e # caller /\ users[e].role # role
        /\ act[r].at = "idle"
        /\ act' = [act EXCEPT ![r].kind = "role", ![r].who = e, ![r].at = "role", ![r].role = role]
    /\ UNCHANGED <<env, users, mailed, demo, tokens, log, proved>>

(* _bootstrap without --force: refused while a superuser exists. *)
Bootstrap(r) ==
    /\ \E e \in People, role \in Roles \cup {"none"} :
        /\ Known(e)
        /\ \A s \in People : Known(s) => ~ users[s].superuser
        /\ act[r].at = "idle"
        /\ act' = [act EXCEPT ![r].kind = "bootstrap", ![r].who = e, ![r].at = "role",
                              ![r].role = role]
    /\ UNCHANGED <<env, users, mailed, demo, tokens, log, proved>>

(* The change and its row, in one commit. *)
CommitRole(r) ==
    LET boot == act[r].kind = "bootstrap" IN
    /\ act[r].at = "role"
    /\ users' = [users EXCEPT ![Who(r)].superuser = @ \/ boot,
                              ![Who(r)].role = IF act[r].role = "none" THEN @ ELSE act[r].role]
    /\ log' = log \cup {Audit(IF boot THEN "bootstrapped" ELSE "role_changed", r)}
    /\ act' = [act EXCEPT ![r] = Finished(r)]
    /\ UNCHANGED <<env, mailed, demo, tokens, proved>>

(* PATCH /users/{id} by a superuser: the change is committed, then its     *)
(* row.  One who marks an address verified vouches for it.                 *)
UpdateUser(r) ==
    /\ \E caller, e \in People :
        /\ Known(caller) /\ users[caller].superuser /\ users[caller].active
        /\ Known(e) /\ e # caller
        /\ act[r].at = "idle"
        /\ \/ users' = [users EXCEPT ![e].active = ~ @] /\ UNCHANGED proved
           \/ users' = [users EXCEPT ![e].verified = TRUE] /\ proved' = proved \cup {e}
        /\ act' = [act EXCEPT ![r].kind = "update", ![r].who = e, ![r].at = "row",
                              ![r].pending = {[event |-> "profile_updated", who |-> e, by |-> r]}]
    /\ UNCHANGED <<env, mailed, demo, tokens, log>>

(* The process dies, or the connection: what was not committed is gone. *)
Crash(r) ==
    /\ act[r].at \notin {"idle", "over"}
    /\ act' = [act EXCEPT ![r] = Finished(r)]
    /\ UNCHANGED <<env, users, mailed, demo, tokens, log, proved>>

AccountNext ==
    \/ \E r \in Acts :
          \/ Register(r) \/ ResendVerification(r) \/ VerifyEmail(r) \/ MagicLink(r)
          \/ OAuthCallback(r) \/ Login(r)
          \/ CreateUser(r) \/ SendMail(r) \/ AutoVerify(r) \/ Promote(r) \/ MarkVerified(r)
          \/ PostVerify(r) \/ Seed(r) \/ DemoSeeded(r) \/ AfterHooks(r) \/ WriteToken(r)
          \/ Logout(r) \/ CommitRow(r) \/ ChangeRole(r) \/ Bootstrap(r) \/ CommitRole(r)
          \/ UpdateUser(r) \/ Crash(r)

AccountSpec == AccountInit /\ [][AccountNext]_accountVars

-----------------------------------------------------------------------------
(* The audit trail of accounts never says what did not happen, however     *)
(* handlers fail between their commits, swallow what their hooks raise or  *)
(* race for one address: a row names an account that exists, verified,     *)
(* promoted, seeded or signed in as it says; and of all requests at most   *)
(* one made its account the first administrator by itself.                 *)
AccountTrailTrue ==
    /\ \A row \in log :
        /\ Known(row.who)
        /\ row.event = "verified" => users[row.who].verified
        /\ row.event \in {"auto_bootstrapped", "bootstrapped"} => users[row.who].superuser
        /\ row.event = "demo_seeded" => demo[row.who] = "seeded"
        /\ row.event = "logged_in" => tokens[row.by] \in {"live", "gone"}
    /\ Cardinality({r \in Acts : act[r].promoted}) <= 1

(* In production nobody is verified, and no session is open, for an        *)
(* address that its owner has not followed a link sent to and that no      *)
(* provider or administrator vouched for, whichever way the account was    *)
(* made and whatever handlers of other routes do to it at the same time.   *)
SessionsProved ==
    env = "production" =>
        /\ \A e \in People : Known(e) /\ users[e].verified => e \in proved
        /\ \A r \in Acts : tokens[r] = "live" => Who(r) \in proved
=============================================================================
