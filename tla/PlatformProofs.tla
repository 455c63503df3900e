--------------------------- MODULE PlatformProofs ---------------------------
(***************************************************************************)
(* The safety properties of what surrounds the work on a matter, for any   *)
(* number of requests: accounts and sessions, provider keys, external      *)
(* packs, the module registry, contributed state machines and the limits.  *)
(***************************************************************************)
EXTENDS ModuleRegistry, ExternalPack, ProviderKeys, Accounts, StateMachines, UsageLimits,
        FiniteSetTheorems, SequenceTheorems, WellFoundedInduction, TLAPS

-----------------------------------------------------------------------------
(* Accounts.                                                               *)
(*                                                                         *)
(* What a row of the trail says stays true once it is: accounts are never  *)
(* removed, and nothing takes back a verification, a promotion or a seeded *)
(* demo matter.  So it is enough that a row is true when a request puts it *)
(* into its session.                                                       *)

Places == {"idle", "over", "create", "mail", "autoverify", "promote", "verify", "postverify",
           "seed", "seeded", "after", "login", "row", "role"}
RouteKinds == {"none", "register", "verify", "magic", "oauth", "login", "logout", "role",
               "bootstrap", "update"}
Events == {"registered", "auto_bootstrapped", "verified", "demo_seeded", "logged_in",
           "logged_out", "role_changed", "bootstrapped", "profile_updated"}
TrailRow == [event : Events, who : People, by : Acts]
Act == [at : Places, kind : RouteKinds, who : People \cup {NoUser}, pending : SUBSET TrailRow,
        staged : BOOLEAN, saw : {"none", "partial", "seeded"}, role : Roles \cup {"none"},
        promoted : BOOLEAN]

AccountTypes ==
    /\ env \in Environments
    /\ users \in [People -> Account \cup {NoUser}]
    /\ mailed \subseteq People /\ proved \subseteq People /\ log \subseteq TrailRow
    /\ demo \in [People -> {"none", "partial", "seeded"}]
    /\ tokens \in [Acts -> {"none", "live", "gone"}]
    /\ act \in [Acts -> Act]

RowTrue(row) ==
    /\ Known(row.who)
    /\ row.event = "verified" => users[row.who].verified
    /\ row.event \in {"auto_bootstrapped", "bootstrapped"} => users[row.who].superuser
    /\ row.event = "demo_seeded" => demo[row.who] = "seeded"
    /\ row.event = "logged_in" => tokens[row.by] \in {"live", "gone"}

\* An address that the environment accepts a verification or a session for.
Vouched(e) == env = "production" => e \in proved

\* What a request knows about the account it works on.
ActSound(r) ==
    /\ act[r].at = "idle" => act[r] = Resting
    /\ act[r].at \notin {"idle", "over"} => act[r].who \in People
    /\ act[r].at \notin {"idle", "over", "create"} => Known(act[r].who)
    /\ act[r].at = "create" => act[r].kind \in {"register", "magic", "oauth"}
    /\ act[r].at = "autoverify" => env = "development"
    /\ act[r].at = "verify" => act[r].kind \in {"magic", "verify"}
    /\ act[r].at \in {"promote", "postverify"} => users[act[r].who].verified
    /\ act[r].at = "login" => Vouched(act[r].who)
    /\ act[r].kind \in {"magic", "oauth", "verify"} => act[r].who \in proved
    /\ \A row \in act[r].pending : RowTrue(row)
    /\ tokens[r] = "live" =>
          /\ act[r].at # "idle" /\ act[r].who \in People
          /\ Known(act[r].who) /\ Vouched(act[r].who)

\* The request has made the account it works on.
Creator(r) == act[r].promoted \/ act[r].at \in {"autoverify", "promote"}

Registered == {e \in People : Known(e)}

AccountInv ==
    /\ AccountTypes
    /\ \A r \in Acts : ActSound(r)
    /\ \A row \in log : RowTrue(row)
    /\ \A e \in People : Known(e) /\ users[e].verified => Vouched(e)
    /\ \A r \in Acts : Creator(r) => act[r].who \in People /\ Known(act[r].who)
    /\ \A r, s \in Acts : Creator(r) /\ Creator(s) /\ act[r].who = act[s].who => r = s
    /\ \A r, s \in Acts : act[r].promoted /\ act[s].promoted => r = s
    /\ IsFiniteSet(Registered)

\* What no request takes back.
Grown ==
    /\ env' = env /\ proved \subseteq proved'
    /\ \A e \in People :
          /\ Known(e) => Known(e)'
          /\ Known(e) /\ users[e].verified => users'[e].verified
          /\ Known(e) /\ users[e].superuser => users'[e].superuser
          /\ demo[e] = "seeded" => demo'[e] = "seeded"
    /\ \A s \in Acts : tokens[s] \in {"live", "gone"} => tokens'[s] \in {"live", "gone"}

\* A row stays true.
LEMMA RowStays ==
  ASSUME Grown, NEW row \in TrailRow, RowTrue(row)
  PROVE  RowTrue(row)'
  BY DEF Grown, RowTrue, TrailRow, Known

\* A request is not disturbed by another one.
LEMMA OtherStays ==
  ASSUME AccountInv, Grown, NEW s \in Acts, act'[s] = act[s],
         tokens'[s] = "live" => tokens[s] = "live"
  PROVE  ActSound(s)'
<1>1. act[s] \in Act /\ ActSound(s)
  BY DEF AccountInv, AccountTypes
<1>2. act[s].pending \subseteq TrailRow
  BY <1>1 DEF Act
<1>3. \A row \in act'[s].pending : RowTrue(row)'
  BY <1>1, <1>2, RowStays DEF ActSound
<1>4. \A e \in People : /\ Known(e) => Known(e)'
                        /\ Known(e) /\ users[e].verified => users'[e].verified
                        /\ Vouched(e) => Vouched(e)'
  BY DEF Grown, Vouched
<1>5. act[s].who \in proved => act'[s].who \in proved'
  BY DEF Grown
<1>6. env' = env
  BY DEF Grown
<1> QED BY <1>1, <1>3, <1>4, <1>5, <1>6 DEF ActSound

\* What is left to show of a step of request r.
LEMMA StepKeeps ==
  ASSUME AccountInv, NEW r \in Acts, AccountTypes', Grown, ActSound(r)',
         \A s \in Acts \ {r} : /\ act'[s] = act[s]
                               /\ tokens'[s] = "live" => tokens[s] = "live",
         \A row \in log' : row \in log \/ row \in act[r].pending \/ RowTrue(row)',
         \A e \in People : Known(e)' /\ users'[e].verified =>
            (Known(e) /\ users[e].verified) \/ Vouched(e)',
         Creator(r)' => /\ act'[r].who = act[r].who
                        /\ \/ Creator(r)
                           \/ act[r].who \in People /\ ~ Known(act[r].who) /\ Known(act[r].who)',
         act'[r].promoted => act[r].promoted \/ (Creator(r) /\ Registered = {act[r].who}),
         Registered' \subseteq Registered \cup {act[r].who}
  PROVE  AccountInv'
<1>1. \A s \in Acts : ActSound(s)'
  BY OtherStays
<1>2. \A row \in log' : RowTrue(row)'
  <2>1. act[r].pending \subseteq TrailRow /\ log \subseteq TrailRow
    BY DEF AccountInv, AccountTypes, Act
  <2>2. \A row \in log \cup act[r].pending : RowTrue(row)
    BY DEF AccountInv, ActSound
  <2> QED BY <2>1, <2>2, RowStays
<1>3. \A e \in People : Known(e)' /\ users'[e].verified => Vouched(e)'
  BY DEF AccountInv, Grown, Vouched
<1>4. \A s \in Acts \ {r} : Creator(s)' <=> Creator(s)
  BY DEF Creator
<1>5. \A s \in Acts : Creator(s)' => act'[s].who \in People /\ Known(act[s].who)'
  BY <1>4 DEF AccountInv, Grown, Known
<1>6. \A s, t \in Acts :
         Creator(s)' /\ Creator(t)' /\ act'[s].who = act'[t].who => s = t
  <2>1. ASSUME NEW s \in Acts \ {r}, Creator(s)', Creator(r)', act'[s].who = act'[r].who
        PROVE  FALSE
    BY <1>4, <2>1 DEF AccountInv
  <2> QED BY <1>4, <2>1 DEF AccountInv
<1>7. \A s, t \in Acts : act'[s].promoted /\ act'[t].promoted => s = t
  <2>1. ASSUME NEW s \in Acts \ {r}, act'[s].promoted, act'[r].promoted PROVE FALSE
    <3>1. act[s].promoted /\ Creator(s)
      BY <2>1 DEF Creator
    <3>2. CASE act[r].promoted
      BY <3>1, <3>2 DEF AccountInv
    <3>3. CASE Creator(r) /\ Registered = {act[r].who}
      <4>1. act[s].who \in Registered
        BY <3>1 DEF AccountInv, Registered
      <4> QED BY <3>1, <3>3, <4>1 DEF AccountInv
    <3> QED BY <2>1, <3>2, <3>3
  <2> QED BY <2>1 DEF AccountInv
<1>8. IsFiniteSet(Registered')
  BY FS_AddElement, FS_Subset DEF AccountInv
<1> QED BY <1>1, <1>2, <1>3, <1>5, <1>6, <1>7, <1>8 DEF AccountInv

\* A request that reads an account and decides.
LEMMA StartKeeps ==
  ASSUME AccountInv, NEW r \in Acts, NEW kind \in RouteKinds \ {"none"}, NEW e \in People,
         NEW at \in {"over", "create", "verify", "login"}, Start(r, kind, e, at),
         proved \subseteq proved', proved' \subseteq People,
         at = "create" => kind \in {"register", "magic", "oauth"},
         at = "verify" => kind \in {"magic", "verify"},
         at \in {"verify", "login"} => Known(e),
         at = "login" => Vouched(e)',
         kind \in {"magic", "oauth", "verify"} => e \in proved'
  PROVE  AccountInv'
<1>1. /\ act[r] = Resting
      /\ act' = [act EXCEPT ![r] = [Resting EXCEPT !.kind = kind, !.who = e, !.at = at]]
  BY DEF Start, AccountInv, ActSound, AccountTypes, Resting
<1> DEFINE a == [Resting EXCEPT !.kind = kind, !.who = e, !.at = at]
<1>2. /\ a \in Act /\ a.kind = kind /\ a.who = e /\ a.at = at /\ a.pending = {}
      /\ a.promoted = FALSE
  BY DEF Resting, Act, Places
<1> HIDE DEF a
<1>3. /\ act' = [act EXCEPT ![r] = a] /\ act \in [Acts -> Act]
      /\ UNCHANGED <<env, users, mailed, demo, tokens, log>>
  BY <1>1 DEF a, Start, AccountInv, AccountTypes
<1>4. act'[r] = a /\ \A s \in Acts \ {r} : act'[s] = act[s]
  BY <1>3
<1>5. AccountTypes'
  BY <1>2, <1>3 DEF AccountInv, AccountTypes
<1>6. Grown
  BY <1>3 DEF Grown, Known
<1>7. tokens[r] # "live" /\ ~ act[r].promoted
  BY <1>1 DEF AccountInv, ActSound, Resting
<1>8. ActSound(r)'
  BY <1>2, <1>3, <1>4, <1>7 DEF ActSound, Known
<1>9. ~ Creator(r)'
  BY <1>2, <1>4 DEF Creator
<1>10. Registered' = Registered
  BY <1>3 DEF Registered, Known
<1> QED
  BY <1>2, <1>3, <1>4, <1>5, <1>6, <1>8, <1>9, <1>10, StepKeeps DEF Known

\* The ways in.
LEMMA EntryKeeps ==
  ASSUME AccountInv, NEW r \in Acts,
         Register(r) \/ VerifyEmail(r) \/ MagicLink(r) \/ OAuthCallback(r) \/ Login(r)
  PROVE  AccountInv'
<1> USE DEF RouteKinds
<1>1. CASE Register(r)
  BY <1>1, StartKeeps DEF Register, AccountInv, AccountTypes
<1>2. CASE VerifyEmail(r)
  <2>1. PICK e \in mailed : /\ Known(e)
                            /\ Start(r, "verify", e, "verify")
                            /\ proved' = proved \cup {e}
    BY <1>2 DEF VerifyEmail
  <2>2. e \in People /\ proved \subseteq People
    BY DEF AccountInv, AccountTypes
  <2> QED BY <2>1, <2>2, StartKeeps
<1>3. CASE MagicLink(r)
  <2>1. PICK e \in People :
          /\ Start(r, "magic", e, CASE ~ Known(e) -> "create"
                                    [] Known(e) /\ ~ users[e].active -> "over"
                                    [] Known(e) /\ users[e].active /\ users[e].verified -> "login"
                                    [] OTHER -> "verify")
          /\ proved' = proved \cup {e}
    BY <1>3 DEF MagicLink
  <2>2. PICK at \in {"over", "create", "verify", "login"} :
          Start(r, "magic", e, at) /\ (at \in {"verify", "login"} => Known(e))
    BY <2>1
  <2>3. proved \subseteq People /\ e \in proved' /\ Vouched(e)'
    BY <2>1 DEF AccountInv, AccountTypes, Vouched
  <2> QED BY <2>1, <2>2, <2>3, StartKeeps
<1>4. CASE OAuthCallback(r)
  <2>1. PICK e \in People :
          /\ Start(r, "oauth", e, CASE ~ Known(e) -> "create"
                                    [] Known(e) /\ ~ users[e].active -> "over"
                                    [] OTHER -> "login")
          /\ proved' = proved \cup {e}
    BY <1>4 DEF OAuthCallback
  <2>2. PICK at \in {"over", "create", "login"} :
          Start(r, "oauth", e, at) /\ (at = "login" => Known(e))
    BY <2>1
  <2>3. proved \subseteq People /\ e \in proved' /\ Vouched(e)'
    BY <2>1 DEF AccountInv, AccountTypes, Vouched
  <2> QED BY <2>1, <2>2, <2>3, StartKeeps
<1>5. CASE Login(r)
  <2>1. PICK e \in People : MayLogIn(e) /\ Start(r, "login", e, "login") /\ proved' = proved
    BY <1>5 DEF Login
  <2>2. Known(e) /\ Vouched(e) /\ env' = env /\ proved \subseteq People
    BY <2>1 DEF MayLogIn, AccountInv, AccountTypes, Start
  <2>3. Vouched(e)'
    BY <2>1, <2>2 DEF Vouched
  <2> QED BY <2>1, <2>2, <2>3, StartKeeps
<1> QED BY <1>1, <1>2, <1>3, <1>4, <1>5

\* A request that is over keeps who it worked for and whether it promoted it.
LEMMA FinishedIs ==
  ASSUME AccountTypes, NEW r \in Acts
  PROVE  /\ Finished(r) \in Act /\ Finished(r).at = "over" /\ Finished(r).kind = "none"
         /\ Finished(r).who = act[r].who /\ Finished(r).promoted = act[r].promoted
         /\ Finished(r).pending = {}
<1>1. PICK a \in Act : a = act[r]
  BY DEF AccountTypes
<1>2. a.who \in People \cup {NoUser}
  BY DEF Act
<1>3. a.promoted \in BOOLEAN
  BY DEF Act
<1>4. /\ Finished(r).at = "over" /\ Finished(r).kind = "none" /\ Finished(r).pending = {}
      /\ Finished(r).who = a.who /\ Finished(r).promoted = a.promoted
  BY <1>1 DEF Finished, Resting
<1>5. Finished(r) \in [at : Places, kind : RouteKinds, who : People \cup {NoUser},
                      pending : SUBSET TrailRow, staged : BOOLEAN,
                      saw : {"none", "partial", "seeded"}, role : Roles \cup {"none"},
                      promoted : BOOLEAN]
  BY <1>1, <1>2, <1>3 DEF Finished, Resting, Places, RouteKinds
<1> QED BY <1>1, <1>4, <1>5 DEF Act

\* A request ends, with or without the commit of what its session holds.
LEMMA FinishKeeps ==
  ASSUME AccountInv, NEW r \in Acts, act[r].at # "idle",
         act' = [act EXCEPT ![r] = Finished(r)],
         Lands(r) \/ log' = log, DemoLands(r) \/ demo' = demo,
         act[r].at # "over", mailed' \subseteq People,
         UNCHANGED <<env, users, tokens, proved>>
  PROVE  AccountInv'
<1> DEFINE a == Finished(r)
<1>1. /\ a \in Act /\ a.at = "over" /\ a.kind = "none" /\ a.who = act[r].who
      /\ a.promoted = act[r].promoted /\ a.pending = {}
  BY FinishedIs DEF AccountInv
<1> HIDE DEF a
<1>2. act' = [act EXCEPT ![r] = a] /\ act \in [Acts -> Act]
  BY DEF a, AccountInv, AccountTypes
<1>3. act'[r] = a /\ \A s \in Acts \ {r} : act'[s] = act[s]
  BY <1>2
<1>4. act[r] \in Act /\ act[r].pending \subseteq TrailRow /\ act[r].who \in People
  <2>1. act[r] \in Act
    BY <1>2
  <2> QED BY <2>1 DEF Act, AccountInv, ActSound
<1>5. /\ demo' \in [People -> {"none", "partial", "seeded"}]
      /\ \A e \in People : demo[e] = "seeded" => demo'[e] = "seeded"
  <2>1. demo \in [People -> {"none", "partial", "seeded"}]
    BY DEF AccountInv, AccountTypes
  <2> QED BY <1>4, <2>1 DEF DemoLands, Who
<1>6. AccountTypes'
  BY <1>1, <1>2, <1>4, <1>5 DEF AccountInv, AccountTypes, Lands
<1>7. Grown
  BY <1>5 DEF Grown, Known
<1>8. ActSound(r)'
  <2>1. ActSound(r)
    BY DEF AccountInv
  <2> QED BY <1>1, <1>3, <2>1 DEF ActSound, Known, Vouched
<1>9. Creator(r)' => Creator(r) /\ act'[r].who = act[r].who
  BY <1>1, <1>3 DEF Creator
<1>10. Registered' = Registered
  BY DEF Registered, Known
<1>11. \A row \in log' : row \in log \/ row \in act[r].pending
  BY DEF Lands
<1>12. \A e \in People : Known(e)' /\ users'[e].verified => Known(e) /\ users[e].verified
  BY DEF Known
<1>13. act'[r].promoted => act[r].promoted
  BY <1>1, <1>3
<1>14. \A s \in Acts \ {r} : act'[s] = act[s] /\ (tokens'[s] = "live" => tokens[s] = "live")
  BY <1>3
<1>15. Registered' \subseteq Registered \cup {act[r].who}
  BY <1>10
<1>16. \A row \in log' : row \in log \/ row \in act[r].pending \/ RowTrue(row)'
  BY <1>11
<1>17. \A e \in People : Known(e)' /\ users'[e].verified =>
            (Known(e) /\ users[e].verified) \/ Vouched(e)'
  BY <1>12
<1>18. Creator(r)' => /\ act'[r].who = act[r].who
                     /\ \/ Creator(r)
                        \/ act[r].who \in People /\ ~ Known(act[r].who) /\ Known(act[r].who)'
  BY <1>9
<1>19. act'[r].promoted => act[r].promoted \/ (Creator(r) /\ Registered = {act[r].who})
  BY <1>13
<1> QED
  BY <1>6, <1>7, <1>8, <1>14, <1>15, <1>16, <1>17, <1>18, <1>19, StepKeeps

\* What a request at work knows.
LEMMA AtWork ==
  ASSUME AccountInv, NEW r \in Acts
  PROVE  /\ act[r] \in Act /\ act[r].pending \subseteq TrailRow
         /\ \A row \in act[r].pending : RowTrue(row)
         /\ act[r].at \notin {"idle", "over"} => act[r].who \in People
         /\ act[r].at \notin {"idle", "over", "create"} =>
               Known(act[r].who) /\ users[act[r].who] \in Account
         /\ \A row \in log : RowTrue(row)
         /\ AccountTypes /\ ActSound(r)
<1>1. act[r] \in Act /\ ActSound(r)
  BY DEF AccountInv, AccountTypes
<1>2. act[r].pending \subseteq TrailRow
  BY <1>1 DEF Act
<1>3. \A e \in People : Known(e) => users[e] \in Account
  BY DEF AccountInv, AccountTypes, Known
<1> QED BY <1>1, <1>2, <1>3 DEF ActSound, AccountInv

\* An account that is written.
LEMMA UserEdit ==
  ASSUME AccountTypes, NEW e \in People, NEW u \in Account, users' = [users EXCEPT ![e] = u]
  PROVE  /\ users' \in [People -> Account \cup {NoUser}]
         /\ Known(e)' /\ users'[e] = u
         /\ \A f \in People \ {e} : users'[f] = users[f]
         /\ Registered' \subseteq Registered \cup {e}
         /\ Known(e) => Registered' = Registered
<1>1. users \in [People -> Account \cup {NoUser}]
  BY DEF AccountTypes
<1>2. users' \in [People -> Account \cup {NoUser}] /\ users'[e] = u
  BY <1>1
<1>3. \A f \in People \ {e} : users'[f] = users[f]
  BY <1>1
<1>4. u # NoUser
  BY AccountAssumption
<1> QED BY <1>2, <1>3, <1>4 DEF Known, Registered

\* A request that moves on, writing the account it works on or none.
LEMMA MoveKeeps ==
  ASSUME AccountInv, NEW r \in Acts, NEW b \in Act, act' = [act EXCEPT ![r] = b],
         NEW e \in People, Known(e), NEW u \in Account, users' = [users EXCEPT ![e] = u],
         users[e].verified => u.verified, users[e].superuser => u.superuser,
         u.verified => users[e].verified \/ Vouched(e)',
         log' = log \/ Lands(r), proved \subseteq proved', proved' \subseteq People,
         mailed' \subseteq People,
         UNCHANGED <<env, demo, tokens>>,
         b.who = act[r].who \/ (act[r].at = "idle" /\ ~ b.promoted),
         b.promoted => act[r].promoted \/ (Creator(r) /\ Registered = {act[r].who}),
         b.at \in {"autoverify", "promote"} => Creator(r),
         b.pending \subseteq TrailRow,
         ActSound(r)'
  PROVE  AccountInv'
<1>1. act'[r] = b /\ \A s \in Acts \ {r} : act'[s] = act[s]
  BY DEF AccountInv, AccountTypes
<1>2. AccountTypes
  BY DEF AccountInv
<1>3. /\ users' \in [People -> Account \cup {NoUser}]
      /\ Known(e)' /\ users'[e] = u
      /\ \A f \in People \ {e} : users'[f] = users[f]
      /\ Registered' = Registered
  BY <1>2, UserEdit
<1>4. Grown
  BY <1>3 DEF Grown, Known
<1>5. log' \subseteq TrailRow
  <2>1. act[r].pending \subseteq TrailRow
    BY AtWork
  <2> QED BY <1>2, <2>1 DEF Lands, AccountTypes
<1>6. act' \in [Acts -> Act]
  BY <1>2 DEF AccountTypes
<1>7. AccountTypes'
  BY <1>2, <1>3, <1>5, <1>6 DEF AccountTypes
<1>8. \A row \in log' : row \in log \/ row \in act[r].pending \/ RowTrue(row)'
  BY DEF Lands
<1>9. \A f \in People : Known(f)' /\ users'[f].verified =>
         (Known(f) /\ users[f].verified) \/ Vouched(f)'
  BY <1>3 DEF Known
<1>10. act'[r].promoted => act[r].promoted \/ (Creator(r) /\ Registered = {act[r].who})
  BY <1>1
<1>11. Creator(r)' => Creator(r)
  BY <1>1 DEF Creator
<1>12. Creator(r) => act[r].at # "idle"
  <2>1. act[r].at = "idle" => ~ act[r].promoted
    BY DEF AccountInv, ActSound, Resting
  <2> QED BY <2>1 DEF Creator
<1>13. Creator(r)' => /\ act'[r].who = act[r].who
                     /\ \/ Creator(r)
                        \/ act[r].who \in People /\ ~ Known(act[r].who) /\ Known(act[r].who)'
  BY <1>1, <1>11, <1>12
<1>14. \A s \in Acts \ {r} : act'[s] = act[s] /\ (tokens'[s] = "live" => tokens[s] = "live")
  BY <1>1
<1>15. Registered' \subseteq Registered \cup {act[r].who}
  BY <1>3
<1> QED
  BY <1>4, <1>7, <1>8, <1>9, <1>10, <1>13, <1>14, <1>15, StepKeeps

\* Nothing is written.
LEMMA SameUsers ==
  ASSUME AccountInv, NEW e \in People, Known(e), users' = users
  PROVE  users[e] \in Account /\ users' = [users EXCEPT ![e] = users[e]]
  BY DEF AccountInv, AccountTypes, Known

\* A request at rest holds nothing and has no token.
LEMMA AtRest ==
  ASSUME AccountInv, NEW r \in Acts, act[r].at = "idle"
  PROVE  /\ act[r] = Resting /\ act[r].pending = {} /\ ~ act[r].promoted
         /\ tokens[r] # "live"
<1>1. ActSound(r)
  BY DEF AccountInv
<1>2. act[r] = Resting
  BY <1>1 DEF ActSound
<1>3. tokens[r] # "live"
  BY <1>1 DEF ActSound
<1>4. Resting.pending = {} /\ Resting.promoted = FALSE
  BY DEF Resting
<1> QED BY <1>2, <1>3, <1>4

LEMMA ResendKeeps ==
  ASSUME AccountInv, NEW r \in Acts, ResendVerification(r)
  PROVE  AccountInv'
<1>1. PICK e \in People : /\ Known(e) /\ act[r].at = "idle"
                          /\ mailed' = mailed \cup {e}
                          /\ act' = [act EXCEPT ![r].at = "over"]
  BY DEF ResendVerification
<1>2. UNCHANGED <<env, users, demo, tokens, log, proved>>
  BY DEF ResendVerification
<1>3. act[r] \in Act /\ act[r] = Resting /\ tokens[r] # "live"
  BY <1>1, AtWork, AtRest
<1> DEFINE b == [Resting EXCEPT !.at = "over"]
<1>4. b \in Act /\ b.at = "over" /\ b.kind = "none" /\ b.who = NoUser /\ b.pending = {} /\ ~ b.promoted
  BY DEF Act, Places, RouteKinds, Resting
<1>5. act' = [act EXCEPT ![r] = b] /\ act'[r] = b
  BY <1>1, <1>3, <1>4 DEF AccountInv, AccountTypes
<1> HIDE DEF b
<1>6. ActSound(r)'
  BY <1>2, <1>3, <1>4, <1>5 DEF ActSound
<1>7. users[e] \in Account /\ users' = [users EXCEPT ![e] = users[e]]
  BY <1>1, <1>2, SameUsers
<1>8. mailed' \subseteq People /\ proved' \subseteq People
  BY <1>1, <1>2 DEF AccountInv, AccountTypes
<1> QED BY <1>1, <1>2, <1>4, <1>5, <1>6, <1>7, <1>8, MoveKeeps

LEMMA AutoVerifyKeeps ==
  ASSUME AccountInv, NEW r \in Acts, AutoVerify(r)
  PROVE  AccountInv'
<1>0. PICK e \in People : e = act[r].who
  BY AtWork DEF AutoVerify, MarkVerified
<1> DEFINE u == [users[e] EXCEPT !.verified = TRUE]
<1>1. act[r] \in Act /\ e \in People /\ Known(e) /\ users[e] \in Account /\ env = "development"
  BY <1>0, AtWork DEF AutoVerify, AccountInv, ActSound
<1>2. u \in Account /\ u.verified /\ u.superuser = users[e].superuser
  BY <1>0, <1>1 DEF Account
<1>3. users' = [users EXCEPT ![e] = u]
  BY <1>0, <1>1 DEF AutoVerify, Who, AccountInv, AccountTypes
<1> DEFINE b == [act[r] EXCEPT !.at = "promote", !.pending = {}]
<1>4. b \in Act /\ b.at = "promote" /\ b.kind = act[r].kind /\ b.who = e /\ b.pending = {} /\ b.promoted = act[r].promoted
  BY <1>0, <1>1 DEF Act, Places
<1>5. act' = [act EXCEPT ![r] = b] /\ act'[r] = b
  BY <1>4 DEF AutoVerify, AccountInv, AccountTypes
<1> HIDE DEF b
<1> HIDE DEF u
<1>6. /\ users' \in [People -> Account \cup {NoUser}]
      /\ Known(e)' /\ users'[e] = u
  BY <1>0, <1>1, <1>2, <1>3, AtWork, UserEdit
<1>7. UNCHANGED <<env, mailed, demo, tokens, proved>>
  BY DEF AutoVerify
<1>8. ActSound(r)'
  <2>1. ActSound(r)
    BY DEF AccountInv
  <2> QED BY <1>0, <1>1, <1>2, <1>4, <1>5, <1>6, <1>7, <2>1 DEF ActSound, Vouched, Known
<1>9. Vouched(e)'
  BY <1>0, <1>1, <1>7 DEF Vouched
<1>10. mailed' \subseteq People /\ proved' \subseteq People
  BY <1>7 DEF AccountInv, AccountTypes
<1>11. Creator(r) /\ Lands(r)
  BY DEF AutoVerify, Creator
<1> QED
  BY <1>0, <1>1, <1>2, <1>3, <1>4, <1>5, <1>7, <1>8, <1>9, <1>10, <1>11, MoveKeeps

LEMMA MarkVerifiedKeeps ==
  ASSUME AccountInv, NEW r \in Acts, MarkVerified(r)
  PROVE  AccountInv'
<1>0. PICK e \in People : e = act[r].who
  BY AtWork DEF AutoVerify, MarkVerified
<1> DEFINE u == [users[e] EXCEPT !.verified = TRUE]
<1>1. /\ act[r] \in Act /\ e \in People /\ Known(e) /\ users[e] \in Account
      /\ act[r].at = "verify" /\ e \in proved
  BY <1>0, AtWork DEF MarkVerified, AccountInv, ActSound
<1>2. u \in Account /\ u.verified /\ u.superuser = users[e].superuser
  BY <1>0, <1>1 DEF Account
<1>3. users' = [users EXCEPT ![e] = u]
  BY <1>0, <1>1 DEF MarkVerified, Who, AccountInv, AccountTypes
<1> DEFINE b == [act[r] EXCEPT !.at = "postverify"]
<1>4. b \in Act /\ b.at = "postverify" /\ b.kind = act[r].kind /\ b.who = e /\ b.pending = act[r].pending /\ b.promoted = act[r].promoted
  BY <1>0, <1>1 DEF Act, Places
<1>5. act' = [act EXCEPT ![r] = b] /\ act'[r] = b
  BY <1>4 DEF MarkVerified, Goes, AccountInv, AccountTypes
<1> HIDE DEF b
<1> HIDE DEF u
<1>6. /\ users' \in [People -> Account \cup {NoUser}]
      /\ Known(e)' /\ users'[e] = u
      /\ \A f \in People \ {e} : users'[f] = users[f]
  BY <1>0, <1>1, <1>2, <1>3, AtWork, UserEdit
<1>7. UNCHANGED <<env, mailed, demo, tokens, log, proved>>
  BY DEF MarkVerified
<1>8. \A row \in b.pending : RowTrue(row)'
  <2>1. Grown
    BY <1>2, <1>6, <1>7 DEF Grown, Known
  <2> QED BY <1>4, <2>1, AtWork, RowStays
<1>9. ActSound(r)'
  <2>1. ActSound(r)
    BY DEF AccountInv
  <2> QED BY <1>0, <1>1, <1>2, <1>4, <1>5, <1>6, <1>7, <1>8, <2>1 DEF ActSound, Vouched, Known
<1>10. Vouched(e)'
  BY <1>0, <1>1, <1>7 DEF Vouched
<1>11. mailed' \subseteq People /\ proved' \subseteq People
  BY <1>7 DEF AccountInv, AccountTypes
<1>12. b.pending \subseteq TrailRow
  BY <1>4, AtWork
<1> QED
  BY <1>0, <1>1, <1>2, <1>3, <1>4, <1>5, <1>7, <1>9, <1>10, <1>11, <1>12, MoveKeeps

LEMMA PostVerifyKeeps ==
  ASSUME AccountInv, NEW r \in Acts, PostVerify(r)
  PROVE  AccountInv'
<1>0. PICK e \in People : e = act[r].who
  BY AtWork DEF PostVerify
<1> DEFINE row == [event |-> "verified", who |-> e, by |-> r]
<1>1. /\ act[r] \in Act /\ e \in People /\ Known(e) /\ users[e] \in Account
      /\ act[r].at = "postverify" /\ users[e].verified
  BY <1>0, AtWork DEF PostVerify, AccountInv, ActSound
<1>2. UNCHANGED <<env, users, mailed, demo, tokens, log, proved>>
  BY DEF PostVerify
<1>3. row \in TrailRow /\ RowTrue(row)
  BY <1>0, <1>1 DEF TrailRow, Events, RowTrue
<1>4. act' = [act EXCEPT ![r] = [act[r] EXCEPT !.at = "seed", !.saw = demo[e],
                                              !.pending = act[r].pending \cup {row}]]
  BY <1>0 DEF PostVerify, Audit, Who, AccountInv, AccountTypes
<1> HIDE DEF row
<1>5. demo[e] \in {"none", "partial", "seeded"} /\ act[r].pending \subseteq TrailRow
  BY <1>0, <1>1, AtWork DEF AccountInv, AccountTypes
<1> DEFINE b == [act[r] EXCEPT !.at = "seed", !.saw = demo[e], !.pending = act[r].pending \cup {row}]
<1>6. b \in Act /\ b.at = "seed" /\ b.kind = act[r].kind /\ b.who = e /\ b.pending = act[r].pending \cup {row} /\ b.promoted = act[r].promoted
  BY <1>0, <1>1, <1>3, <1>5 DEF Act, Places
<1>7. act' = [act EXCEPT ![r] = b] /\ act'[r] = b
  BY <1>4, <1>6 DEF AccountInv, AccountTypes
<1> HIDE DEF b
<1>8. \A x \in b.pending : RowTrue(x)'
  BY <1>2, <1>3, <1>6, AtWork DEF RowTrue, Known
<1>9. ActSound(r)'
  <2>1. ActSound(r)
    BY DEF AccountInv
  <2> QED BY <1>0, <1>1, <1>2, <1>6, <1>7, <1>8, <2>1 DEF ActSound, Vouched, Known
<1>10. users[e] \in Account /\ users' = [users EXCEPT ![e] = users[e]]
  BY <1>0, <1>1, <1>2, SameUsers
<1>11. mailed' \subseteq People /\ proved' \subseteq People
  BY <1>2 DEF AccountInv, AccountTypes
<1>12. b.pending \subseteq TrailRow
  BY <1>3, <1>5, <1>6
<1>13. b \in Act /\ b.who = act[r].who /\ b.promoted = act[r].promoted /\ b.at \notin {"autoverify", "promote"}
  BY <1>0, <1>6
<1>14. PICK u \in Account : u = users[e]
  BY <1>1
<1>15. users' = [users EXCEPT ![e] = u]
  BY <1>10, <1>14
<1>16. UNCHANGED <<env, demo, tokens>> /\ log' = log /\ proved \subseteq proved'
  BY <1>2
<1> QED
  BY <1>1, <1>7, <1>9, <1>11, <1>12, <1>13, <1>14, <1>15, <1>16, MoveKeeps

\* A request that moves on and writes no account.
LEMMA QuietKeeps ==
  ASSUME AccountInv, NEW r \in Acts, NEW b \in Act, act' = [act EXCEPT ![r] = b],
         NEW e \in People, Known(e),
         log' = log \/ Lands(r), UNCHANGED <<env, users, mailed, demo, tokens, proved>>,
         b.who = act[r].who \/ (act[r].at = "idle" /\ ~ b.promoted),
         b.promoted => act[r].promoted, b.at \notin {"autoverify", "promote"},
         b.pending \subseteq TrailRow, ActSound(r)'
  PROVE  AccountInv'
<1>1. users[e] \in Account /\ users' = [users EXCEPT ![e] = users[e]]
  BY SameUsers
<1>2. PICK u \in Account : u = users[e]
  BY <1>1
<1>3. users' = [users EXCEPT ![e] = u]
  BY <1>1, <1>2
<1>4. mailed' \subseteq People /\ proved' \subseteq People /\ proved \subseteq proved'
  BY DEF AccountInv, AccountTypes
<1> QED BY <1>2, <1>3, <1>4, MoveKeeps

LEMMA PromoteKeeps ==
  ASSUME AccountInv, NEW r \in Acts, Promote(r)
  PROVE  AccountInv'
<1>0. PICK e \in People : e = act[r].who
  BY AtWork DEF Promote
<1>1. /\ act[r] \in Act /\ Known(e) /\ users[e] \in Account /\ users[e].verified
      /\ act[r].at = "promote" /\ act[r].pending \subseteq TrailRow /\ AccountTypes
  BY <1>0, AtWork DEF Promote, ActSound
<1>2. UNCHANGED <<env, mailed, demo, tokens, proved>> /\ Creator(r) /\ ActSound(r)
  BY AtWork DEF Promote, Creator
<1>3. CASE AutoAdmin /\ env = "development" /\ IsFirst(r)
  <2> DEFINE row == [event |-> "auto_bootstrapped", who |-> e, by |-> r]
             b == [act[r] EXCEPT !.at = "postverify", !.promoted = TRUE, !.pending = {row}]
             u == [users[e] EXCEPT !.superuser = TRUE, !.role = "workspace_admin"]
  <2>1. /\ users' = [users EXCEPT ![e] = u] /\ Lands(r)
        /\ act' = [act EXCEPT ![r] = b] /\ act'[r] = b
    BY <1>0, <1>1, <1>3 DEF Promote, Who, Audit, AccountTypes
  <2>2. u \in Account /\ u.verified /\ u.superuser
    BY <1>1 DEF Account, Roles
  <2>3. row \in TrailRow /\ row.event = "auto_bootstrapped" /\ row.who = e
    BY DEF TrailRow, Events
  <2> HIDE DEF row
  <2>4. /\ b \in Act /\ b.at = "postverify" /\ b.kind = act[r].kind /\ b.who = e
        /\ b.pending = {row}
    BY <1>0, <1>1, <2>3 DEF Act, Places
  <2> HIDE DEF u, b
  <2>5. Known(e)' /\ users'[e] = u
    BY <1>1, <2>1, <2>2, UserEdit
  <2>6. \A x \in b.pending : RowTrue(x)'
    BY <2>2, <2>3, <2>4, <2>5 DEF RowTrue, Known
  <2>7. ActSound(r)'
    BY <1>0, <1>1, <1>2, <2>1, <2>2, <2>4, <2>5, <2>6 DEF ActSound, Vouched, Known
  <2>8. Registered = {e}
    <3>1. Cardinality(Registered) = 1 /\ IsFiniteSet(Registered) /\ e \in Registered
      BY <1>1, <1>3 DEF IsFirst, Registered, AccountInv
    <3> QED BY <3>1, FS_Singleton
  <2>9. mailed' \subseteq People /\ proved' \subseteq People /\ b.pending \subseteq TrailRow
    BY <1>1, <1>2, <2>3, <2>4 DEF AccountTypes
  <2>10. /\ b \in Act /\ b.who = act[r].who /\ b.at \notin {"autoverify", "promote"}
         /\ u \in Account /\ (u.verified => users[e].verified)
         /\ (users[e].verified => u.verified) /\ (users[e].superuser => u.superuser)
    BY <1>0, <1>1, <2>2, <2>4
  <2>11. /\ Creator(r) /\ Registered = {act[r].who} /\ proved \subseteq proved'
         /\ UNCHANGED <<env, demo, tokens>>
    BY <1>0, <1>2, <2>8
  <2> QED
    BY <1>1, <2>1, <2>7, <2>9, <2>10, <2>11, MoveKeeps
<1>4. CASE ~ (AutoAdmin /\ env = "development" /\ IsFirst(r))
  <2> DEFINE b == [act[r] EXCEPT !.at = "postverify"]
  <2>1. users' = users /\ log' = log /\ act' = [act EXCEPT ![r] = b] /\ act'[r] = b
    BY <1>1, <1>4 DEF Promote, Goes, AccountTypes
  <2>2. /\ b \in Act /\ b.at = "postverify" /\ b.kind = act[r].kind /\ b.who = e
        /\ b.pending = act[r].pending /\ b.promoted = act[r].promoted
    BY <1>0, <1>1 DEF Act, Places
  <2> HIDE DEF b
  <2>3. ActSound(r)'
    BY <1>0, <1>1, <1>2, <2>1, <2>2 DEF ActSound, Vouched, Known, RowTrue
  <2>4. /\ b.pending \subseteq TrailRow /\ b.who = act[r].who
        /\ b.at \notin {"autoverify", "promote"} /\ b \in Act
    BY <1>0, <1>1, <2>2
  <2> QED BY <1>1, <1>2, <2>1, <2>2, <2>3, <2>4, QuietKeeps
<1> QED BY <1>3, <1>4

\* A request that has found the account to give a role to.
LEMMA RoleStartKeeps ==
  ASSUME AccountInv, NEW r \in Acts, ChangeRole(r) \/ Bootstrap(r)
  PROVE  AccountInv'
<1>1. PICK e \in People, kind \in {"role", "bootstrap"}, role \in Roles \cup {"none"} :
         /\ Known(e) /\ act[r].at = "idle"
         /\ act' = [act EXCEPT ![r].kind = kind, ![r].who = e, ![r].at = "role", ![r].role = role]
  <2>1. CASE ChangeRole(r)
    BY <2>1 DEF ChangeRole
  <2>2. CASE Bootstrap(r)
    BY <2>2 DEF Bootstrap
  <2> QED BY <2>1, <2>2
<1>2. UNCHANGED <<env, users, mailed, demo, tokens, log, proved>>
  BY DEF ChangeRole, Bootstrap
<1>3. /\ act[r] \in Act /\ act[r] = Resting /\ tokens[r] # "live" /\ AccountTypes
  BY <1>1, AtWork, AtRest
<1> DEFINE b == [Resting EXCEPT !.kind = kind, !.who = e, !.at = "role", !.role = role]
<1>4. /\ b \in Act /\ b.at = "role" /\ b.kind = kind /\ b.who = e /\ b.pending = {}
      /\ ~ b.promoted
  BY DEF Act, Places, RouteKinds, Resting, Roles
<1>5. act' = [act EXCEPT ![r] = b] /\ act'[r] = b
  BY <1>1, <1>3 DEF AccountTypes
<1> HIDE DEF b
<1>6. ActSound(r)'
  BY <1>1, <1>2, <1>3, <1>4, <1>5 DEF ActSound, Known
<1>7. b.pending \subseteq TrailRow /\ b.at \notin {"autoverify", "promote"} /\ b \in Act
  BY <1>4
<1> QED BY <1>1, <1>2, <1>4, <1>5, <1>6, <1>7, QuietKeeps

\* An administrator writes an account: its row waits for the next commit.
LEMMA UpdateKeeps ==
  ASSUME AccountInv, NEW r \in Acts, UpdateUser(r)
  PROVE  AccountInv'
<1>1. PICK e \in People :
         /\ Known(e) /\ act[r].at = "idle"
         /\ \/ users' = [users EXCEPT ![e].active = ~ @] /\ UNCHANGED proved
            \/ users' = [users EXCEPT ![e].verified = TRUE] /\ proved' = proved \cup {e}
         /\ act' = [act EXCEPT ![r].kind = "update", ![r].who = e, ![r].at = "row",
                              ![r].pending = {[event |-> "profile_updated", who |-> e, by |-> r]}]
  BY DEF UpdateUser
<1>2. UNCHANGED <<env, mailed, demo, tokens, log>>
  BY DEF UpdateUser
<1>3. /\ act[r] \in Act /\ act[r] = Resting /\ tokens[r] # "live" /\ AccountTypes
  BY <1>1, AtWork, AtRest
<1>4. users[e] \in Account
  BY <1>1, <1>3 DEF AccountTypes, Known
<1>5. PICK u \in Account :
         /\ users' = [users EXCEPT ![e] = u]
         /\ users[e].verified => u.verified
         /\ users[e].superuser => u.superuser
         /\ u.verified => users[e].verified \/ e \in proved'
  <2>1. CASE users' = [users EXCEPT ![e].active = ~ @]
    <3> DEFINE u == [users[e] EXCEPT !.active = ~ users[e].active]
    <3>1. u \in Account /\ u.verified = users[e].verified /\ u.superuser = users[e].superuser
      BY <1>4 DEF Account
    <3>2. users' = [users EXCEPT ![e] = u]
      BY <2>1, <1>3 DEF AccountTypes
    <3> QED BY <3>1, <3>2
  <2>2. CASE users' = [users EXCEPT ![e].verified = TRUE] /\ proved' = proved \cup {e}
    <3> DEFINE u == [users[e] EXCEPT !.verified = TRUE]
    <3>1. u \in Account /\ u.superuser = users[e].superuser /\ u.verified
      BY <1>4 DEF Account
    <3>2. users' = [users EXCEPT ![e] = u]
      BY <2>2, <1>3 DEF AccountTypes
    <3> QED BY <2>2, <3>1, <3>2
  <2> QED BY <1>1, <2>1, <2>2
<1> DEFINE row == [event |-> "profile_updated", who |-> e, by |-> r]
           b == [Resting EXCEPT !.kind = "update", !.who = e, !.at = "row", !.pending = {row}]
<1>6. row \in TrailRow /\ row.event = "profile_updated" /\ row.who = e
  BY DEF TrailRow, Events
<1>7. act' = [act EXCEPT ![r] = b] /\ act'[r] = b
  BY <1>1, <1>3 DEF AccountTypes
<1> HIDE DEF row
<1>8. /\ b \in Act /\ b.at = "row" /\ b.kind = "update" /\ b.who = e /\ b.pending = {row}
      /\ ~ b.promoted
  BY <1>6 DEF Act, Places, RouteKinds, Resting
<1> HIDE DEF b
<1>9. Known(e)' /\ users'[e] = u
  BY <1>3, <1>5, UserEdit
<1>10. RowTrue(row)'
  BY <1>6, <1>9 DEF RowTrue, Known
<1>11. ActSound(r)'
  BY <1>2, <1>3, <1>7, <1>8, <1>9, <1>10 DEF ActSound, Known
<1>12. proved \subseteq proved' /\ proved' \subseteq People /\ mailed' \subseteq People
  BY <1>1, <1>2, <1>3 DEF AccountTypes
<1>13. u.verified => users[e].verified \/ Vouched(e)'
  BY <1>5 DEF Vouched
<1>14. /\ b.pending \subseteq TrailRow /\ b.at \notin {"autoverify", "promote"} /\ b \in Act
       /\ ~ b.promoted
  BY <1>6, <1>8
<1>15. UNCHANGED <<env, demo, tokens>> /\ log' = log
  BY <1>2
<1> QED
  BY <1>1, <1>5, <1>7, <1>11, <1>12, <1>13, <1>14, <1>15, MoveKeeps

\* A request that moves on, writing its demo matter or a token.
LEMMA CalmKeeps ==
  ASSUME AccountInv, NEW r \in Acts, NEW b \in Act, act' = [act EXCEPT ![r] = b],
         log' = log \/ Lands(r), UNCHANGED <<env, users, mailed, proved>>,
         demo' \in [People -> {"none", "partial", "seeded"}],
         tokens' \in [Acts -> {"none", "live", "gone"}],
         \A e \in People : demo[e] = "seeded" => demo'[e] = "seeded",
         \A s \in Acts : tokens[s] \in {"live", "gone"} => tokens'[s] \in {"live", "gone"},
         \A s \in Acts \ {r} : tokens'[s] = "live" => tokens[s] = "live",
         b.who = act[r].who \/ (act[r].at = "idle" /\ ~ b.promoted),
         b.promoted => act[r].promoted, b.at \notin {"autoverify", "promote"},
         ActSound(r)'
  PROVE  AccountInv'
<1>1. act'[r] = b /\ \A s \in Acts \ {r} : act'[s] = act[s]
  BY DEF AccountInv, AccountTypes
<1>2. AccountTypes /\ act[r].pending \subseteq TrailRow
  BY AtWork
<1>3. log' \subseteq TrailRow
  BY <1>2 DEF Lands, AccountTypes
<1>4. AccountTypes'
  BY <1>2, <1>3 DEF AccountTypes
<1>5. Grown
  BY DEF Grown, Known
<1>6. \A row \in log' : row \in log \/ row \in act[r].pending \/ RowTrue(row)'
  BY DEF Lands
<1>7. \A f \in People : Known(f)' /\ users'[f].verified =>
         (Known(f) /\ users[f].verified) \/ Vouched(f)'
  BY DEF Known
<1>8. act'[r].promoted => act[r].promoted \/ (Creator(r) /\ Registered = {act[r].who})
  BY <1>1
<1>9. act[r].at = "idle" => ~ act[r].promoted
  BY AtRest
<1>10. Creator(r)' => Creator(r) /\ act'[r].who = act[r].who
  BY <1>1, <1>9 DEF Creator
<1>11. \A s \in Acts \ {r} : act'[s] = act[s] /\ (tokens'[s] = "live" => tokens[s] = "live")
  BY <1>1
<1>12. Registered' \subseteq Registered \cup {act[r].who}
  BY DEF Registered, Known
<1> QED
  BY <1>4, <1>5, <1>6, <1>7, <1>8, <1>10, <1>11, <1>12, StepKeeps

LEMMA CreateKeeps ==
  ASSUME AccountInv, NEW r \in Acts, CreateUser(r)
  PROVE  AccountInv'
<1>0. PICK e \in People : e = act[r].who
  BY AtWork DEF CreateUser
<1>1. UNCHANGED <<env, mailed, demo, tokens, log, proved>> /\ act[r].at = "create"
  BY DEF CreateUser
<1>2. act[r] \in Act /\ AccountTypes /\ ActSound(r)
  BY AtWork
<1>3. act[r].kind \in {"register", "magic", "oauth"}
  BY <1>1, <1>2 DEF ActSound
<1>4. CASE Known(e)
  <2>1. act' = [act EXCEPT ![r] = Finished(r)] /\ users' = users
    BY <1>0, <1>4 DEF CreateUser, Who
  <2>2. mailed' \subseteq People /\ act[r].at \notin {"idle", "over"}
    BY <1>1, <1>2 DEF AccountTypes
  <2> QED BY <1>1, <2>1, <2>2, FinishKeeps
<1>5. CASE ~ Known(e)
  <2> DEFINE row == [event |-> "registered", who |-> e, by |-> r]
             u == Fresh(act[r].kind # "register")
  <2>1. PICK next \in {"promote", "autoverify", "mail", "over"}, pending \in {{}, {row}} :
           /\ next = "promote" => act[r].kind = "magic"
           /\ next = "autoverify" => env = "development"
           /\ users' = [users EXCEPT ![e] = u]
           /\ act' = [act EXCEPT ![r].at = next, ![r].pending = pending]
    BY <1>0, <1>5 DEF CreateUser, Who, Audit
  <2> DEFINE b == [act[r] EXCEPT !.at = next, !.pending = pending]
  <2>2. row \in TrailRow /\ row.event = "registered" /\ row.who = e
    BY DEF TrailRow, Events
  <2>3. act' = [act EXCEPT ![r] = b] /\ act'[r] = b
    BY <1>2, <2>1 DEF AccountTypes
  <2> HIDE DEF row
  <2>4. /\ b \in Act /\ b.at = next /\ b.kind = act[r].kind /\ b.who = e
        /\ b.pending = pending /\ b.promoted = act[r].promoted
    BY <1>0, <1>2, <2>2 DEF Act, Places
  <2>5. u \in Account /\ (act[r].kind # "register" => u.verified) /\ ~ u.superuser
    BY DEF Fresh, Account, Roles
  <2>6. u.verified => act[r].kind \in {"magic", "oauth"}
    BY <1>3 DEF Fresh
  <2> HIDE DEF b, u
  <2>7. /\ users' \in [People -> Account \cup {NoUser}] /\ Known(e)' /\ users'[e] = u
        /\ \A f \in People \ {e} : users'[f] = users[f]
        /\ Registered' \subseteq Registered \cup {e}
    BY <1>2, <2>1, <2>5, UserEdit
  <2>8. AccountTypes'
    <3>1. act' \in [Acts -> Act]
      BY <1>2, <2>3, <2>4 DEF AccountTypes
    <3> QED BY <1>1, <1>2, <2>7, <3>1 DEF AccountTypes
  <2>9. Grown
    BY <1>1, <1>5, <2>7 DEF Grown, Known
  <2>10. \A x \in b.pending : RowTrue(x)'
    BY <2>2, <2>4, <2>7 DEF RowTrue, Known
  <2>11. ActSound(r)'
    <3>1. act[r].kind \in {"magic", "oauth"} => e \in proved
      BY <1>0, <1>2 DEF ActSound
    <3>2. tokens[r] # "live"
      BY <1>0, <1>2, <1>5 DEF ActSound
    <3> QED
      BY <1>1, <1>3, <2>1, <2>3, <2>4, <2>5, <2>7, <2>10, <3>1, <3>2 DEF ActSound, Known
  <2>12. \A s \in Acts \ {r} : act'[s] = act[s] /\ (tokens'[s] = "live" => tokens[s] = "live")
    BY <1>1, <1>2, <2>3 DEF AccountTypes
  <2>13. \A f \in People : Known(f)' /\ users'[f].verified =>
            (Known(f) /\ users[f].verified) \/ Vouched(f)'
    <3>1. u.verified => Vouched(e)'
      BY <1>0, <1>1, <1>2, <2>6 DEF ActSound, Vouched
    <3> QED BY <2>7, <3>1 DEF Known
  <2>14. ~ Creator(r)
    BY <1>0, <1>5 DEF AccountInv
  <2>15. ~ act'[r].promoted
    BY <2>3, <2>4, <2>14 DEF Creator
  <2>16. act'[r].who = act[r].who /\ act[r].who \in People
    BY <1>0, <2>3, <2>4
  <2>17. ~ Known(act[r].who) /\ Known(act[r].who)'
    BY <1>0, <1>5, <2>7, <2>16 DEF Known
  <2>18. log' = log /\ Registered' \subseteq Registered \cup {act[r].who}
    BY <1>0, <1>1, <2>7
  <2> QED
    BY <2>8, <2>9, <2>11, <2>12, <2>13, <2>15, <2>16, <2>17, <2>18, StepKeeps
<1> QED BY <1>4, <1>5

\* The mail, the commit of a row, the end of a process.
LEMMA EndKeeps ==
  ASSUME AccountInv, NEW r \in Acts, SendMail(r) \/ CommitRow(r) \/ Crash(r)
  PROVE  AccountInv'
<1>1. /\ act' = [act EXCEPT ![r] = Finished(r)] /\ act[r].at \notin {"idle", "over"}
      /\ Lands(r) \/ log' = log
      /\ UNCHANGED <<env, users, tokens, proved, demo>>
  BY DEF SendMail, CommitRow, Crash
<1>2. mailed' = mailed \/ (mailed' = mailed \cup {act[r].who} /\ act[r].at = "mail")
  BY DEF SendMail, CommitRow, Crash, Who
<1>3. mailed' \subseteq People
  BY <1>2, AtWork DEF AccountTypes
<1> QED BY <1>1, <1>3, FinishKeeps

LEMMA SeedKeeps ==
  ASSUME AccountInv, NEW r \in Acts, Seed(r)
  PROVE  AccountInv'
<1>0. PICK e \in People : e = act[r].who
  BY AtWork DEF Seed
<1>1. UNCHANGED <<env, users, mailed, tokens, proved>> /\ act[r].at = "seed"
  BY DEF Seed
<1>2. act[r] \in Act /\ AccountTypes /\ ActSound(r) /\ Known(e)
  BY <1>0, <1>1, AtWork
<1>3. CASE /\ demo' = [demo EXCEPT ![Who(r)] = "seeded"] /\ Lands(r)
           /\ act' = [act EXCEPT ![r].at = "seeded", ![r].pending = {Audit("demo_seeded", r)}]
  <2> DEFINE row == [event |-> "demo_seeded", who |-> e, by |-> r]
             b == [act[r] EXCEPT !.at = "seeded", !.pending = {row}]
  <2>1. row \in TrailRow /\ row.event = "demo_seeded" /\ row.who = e
    BY DEF TrailRow, Events
  <2>2. act' = [act EXCEPT ![r] = b] /\ act'[r] = b
    BY <1>0, <1>2, <1>3 DEF AccountTypes, Audit, Who
  <2> HIDE DEF row
  <2>3. /\ b \in Act /\ b.at = "seeded" /\ b.kind = act[r].kind /\ b.who = e
        /\ b.pending = {row} /\ b.promoted = act[r].promoted
    BY <1>0, <1>2, <2>1 DEF Act, Places
  <2> HIDE DEF b
  <2>4. /\ demo' \in [People -> {"none", "partial", "seeded"}] /\ demo'[e] = "seeded"
        /\ \A f \in People : demo[f] = "seeded" => demo'[f] = "seeded"
    BY <1>0, <1>2, <1>3 DEF AccountTypes, Who
  <2>5. RowTrue(row)'
    BY <1>1, <1>2, <2>1, <2>4 DEF RowTrue, Known
  <2>6. ActSound(r)'
    BY <1>0, <1>1, <1>2, <2>2, <2>3, <2>5 DEF ActSound, Vouched, Known
  <2>7. /\ \A s \in Acts : tokens'[s] = tokens[s]
        /\ tokens' \in [Acts -> {"none", "live", "gone"}]
    BY <1>1, <1>2 DEF AccountTypes
  <2>8. b \in Act /\ b.who = act[r].who /\ b.at \notin {"autoverify", "promote"}
    BY <1>0, <2>3
  <2>9. Lands(r) /\ UNCHANGED <<env, users, mailed, proved>> /\ (b.promoted => act[r].promoted)
    BY <1>1, <1>3, <2>3
  <2>10. /\ \A s \in Acts : tokens[s] \in {"live", "gone"} => tokens'[s] \in {"live", "gone"}
         /\ \A s \in Acts \ {r} : tokens'[s] = "live" => tokens[s] = "live"
    BY <2>7
  <2> QED BY <2>2, <2>4, <2>6, <2>7, <2>8, <2>9, <2>10, CalmKeeps
<1>4. CASE act' = [act EXCEPT ![r].at = "after", ![r].staged = TRUE] /\ UNCHANGED <<demo, log>>
  <2> DEFINE b == [act[r] EXCEPT !.at = "after", !.staged = TRUE]
  <2>1. act' = [act EXCEPT ![r] = b] /\ act'[r] = b
    BY <1>2, <1>4 DEF AccountTypes
  <2>2. /\ b \in Act /\ b.at = "after" /\ b.kind = act[r].kind /\ b.who = e
        /\ b.pending = act[r].pending /\ b.promoted = act[r].promoted
    BY <1>0, <1>2 DEF Act, Places
  <2> HIDE DEF b
  <2>3. ActSound(r)'
    BY <1>0, <1>1, <1>2, <1>4, <2>1, <2>2 DEF ActSound, Vouched, Known, RowTrue
  <2>4. /\ b \in Act /\ b.who = act[r].who /\ b.at \notin {"autoverify", "promote"}
        /\ b.pending \subseteq TrailRow
    BY <1>0, <2>2, AtWork
  <2> QED BY <1>1, <1>2, <1>4, <2>1, <2>2, <2>3, <2>4, QuietKeeps
<1>5. CASE act' = [act EXCEPT ![r] = Finished(r)] /\ UNCHANGED <<demo, log>>
  <2>1. mailed' \subseteq People
    BY <1>1, <1>2 DEF AccountTypes
  <2> QED BY <1>1, <1>5, <2>1, FinishKeeps
<1> QED BY <1>3, <1>4, <1>5 DEF Seed

LEMMA SeededKeeps ==
  ASSUME AccountInv, NEW r \in Acts, DemoSeeded(r)
  PROVE  AccountInv'
<1>0. PICK e \in People : e = act[r].who
  BY AtWork DEF DemoSeeded
<1>1. UNCHANGED <<env, users, mailed, demo, tokens, proved>> /\ act[r].at = "seeded" /\ Lands(r)
  BY DEF DemoSeeded
<1>2. act[r] \in Act /\ AccountTypes /\ ActSound(r) /\ Known(e)
  BY <1>0, <1>1, AtWork
<1> DEFINE b == [act[r] EXCEPT !.at = "after", !.pending = {}]
<1>3. act' = [act EXCEPT ![r] = b] /\ act'[r] = b
  BY <1>2 DEF AccountTypes, DemoSeeded
<1>4. /\ b \in Act /\ b.at = "after" /\ b.kind = act[r].kind /\ b.who = e
      /\ b.pending = {} /\ b.promoted = act[r].promoted
  BY <1>0, <1>2 DEF Act, Places
<1> HIDE DEF b
<1>5. ActSound(r)'
  BY <1>0, <1>1, <1>2, <1>3, <1>4 DEF ActSound, Vouched, Known
<1>6. /\ b \in Act /\ b.who = act[r].who /\ b.at \notin {"autoverify", "promote"}
      /\ b.pending \subseteq TrailRow
  BY <1>0, <1>4
<1> QED BY <1>1, <1>2, <1>3, <1>4, <1>5, <1>6, QuietKeeps

LEMMA AfterKeeps ==
  ASSUME AccountInv, NEW r \in Acts, AfterHooks(r)
  PROVE  AccountInv'
<1>0. PICK e \in People : e = act[r].who
  BY AtWork DEF AfterHooks
<1>1. UNCHANGED <<env, users, mailed, tokens, proved>> /\ act[r].at = "after"
  BY DEF AfterHooks
<1>2. act[r] \in Act /\ AccountTypes /\ ActSound(r) /\ Known(e) /\ mailed' \subseteq People
  BY <1>0, <1>1, AtWork DEF AccountTypes
<1>3. CASE act' = [act EXCEPT ![r] = Finished(r)]
  <2>1. (Lands(r) \/ log' = log) /\ (DemoLands(r) \/ demo' = demo)
    BY DEF AfterHooks
  <2> QED BY <1>1, <1>2, <1>3, <2>1, FinishKeeps
<1>4. CASE act[r].kind \in {"magic", "oauth"} /\ Goes(r, "login") /\ UNCHANGED <<log, demo>>
  <2> DEFINE b == [act[r] EXCEPT !.at = "login"]
  <2>1. act' = [act EXCEPT ![r] = b] /\ act'[r] = b
    BY <1>2, <1>4 DEF AccountTypes, Goes
  <2>2. /\ b \in Act /\ b.at = "login" /\ b.kind = act[r].kind /\ b.who = e
        /\ b.pending = act[r].pending /\ b.promoted = act[r].promoted
    BY <1>0, <1>2 DEF Act, Places
  <2> HIDE DEF b
  <2>3. e \in proved
    BY <1>0, <1>2, <1>4 DEF ActSound
  <2>4. ActSound(r)'
    BY <1>0, <1>1, <1>2, <1>4, <2>1, <2>2, <2>3 DEF ActSound, Vouched, Known, RowTrue
  <2>5. /\ b \in Act /\ b.who = act[r].who /\ b.at \notin {"autoverify", "promote"}
        /\ b.pending \subseteq TrailRow
    BY <1>0, <2>2, AtWork
  <2> QED BY <1>1, <1>2, <1>4, <2>1, <2>2, <2>4, <2>5, QuietKeeps
<1> QED BY <1>3, <1>4 DEF AfterHooks

LEMMA TokenKeeps ==
  ASSUME AccountInv, NEW r \in Acts, WriteToken(r)
  PROVE  AccountInv'
<1>0. PICK e \in People : e = act[r].who
  BY AtWork DEF WriteToken
<1>1. /\ UNCHANGED <<env, users, mailed, proved>> /\ act[r].at = "login"
      /\ tokens' = [tokens EXCEPT ![r] = "live"] /\ Lands(r) /\ DemoLands(r)
  BY DEF WriteToken
<1>2. act[r] \in Act /\ AccountTypes /\ ActSound(r) /\ Known(e) /\ Vouched(e)
  BY <1>0, <1>1, AtWork DEF ActSound
<1> DEFINE row == [event |-> "logged_in", who |-> e, by |-> r]
           b == [act[r] EXCEPT !.at = "row", !.pending = {row}, !.staged = FALSE]
<1>3. row \in TrailRow /\ row.event = "logged_in" /\ row.who = e /\ row.by = r
  BY DEF TrailRow, Events
<1>4. act' = [act EXCEPT ![r] = b] /\ act'[r] = b
  BY <1>0, <1>2 DEF AccountTypes, WriteToken, Audit, Who
<1> HIDE DEF row
<1>5. /\ b \in Act /\ b.at = "row" /\ b.kind = act[r].kind /\ b.who = e
      /\ b.pending = {row} /\ b.promoted = act[r].promoted
  BY <1>0, <1>2, <1>3 DEF Act, Places
<1> HIDE DEF b
<1>6. /\ demo' \in [People -> {"none", "partial", "seeded"}]
      /\ \A f \in People : demo[f] = "seeded" => demo'[f] = "seeded"
  BY <1>0, <1>1, <1>2 DEF AccountTypes, DemoLands, Who
<1>7. /\ tokens' \in [Acts -> {"none", "live", "gone"}] /\ tokens'[r] = "live"
      /\ \A s \in Acts \ {r} : tokens'[s] = tokens[s]
  BY <1>1, <1>2 DEF AccountTypes
<1>8. RowTrue(row)'
  BY <1>1, <1>2, <1>3, <1>7 DEF RowTrue, Known
<1>9. ActSound(r)'
  BY <1>0, <1>1, <1>2, <1>4, <1>5, <1>7, <1>8 DEF ActSound, Vouched, Known
<1>10. /\ b \in Act /\ b.who = act[r].who /\ b.at \notin {"autoverify", "promote"}
       /\ (b.promoted => act[r].promoted)
  BY <1>0, <1>5
<1>11. /\ \A s \in Acts : tokens[s] \in {"live", "gone"} => tokens'[s] \in {"live", "gone"}
       /\ \A s \in Acts \ {r} : tokens'[s] = "live" => tokens[s] = "live"
  BY <1>7
<1>12. Lands(r) /\ UNCHANGED <<env, users, mailed, proved>>
  BY <1>1
<1>13. tokens' \in [Acts -> {"none", "live", "gone"}]
  BY <1>7
<1> QED BY <1>4, <1>6, <1>9, <1>10, <1>11, <1>12, <1>13, CalmKeeps

LEMMA LogoutKeeps ==
  ASSUME AccountInv, NEW r \in Acts, Logout(r)
  PROVE  AccountInv'
<1>1. PICK s \in Acts :
        /\ tokens[s] = "live" /\ act[r].at = "idle"
        /\ tokens' = [tokens EXCEPT ![s] = "gone"]
        /\ act' = [act EXCEPT ![r].kind = "logout", ![r].who = Who(s), ![r].at = "row",
                              ![r].pending = {[event |-> "logged_out", who |-> Who(s), by |-> r]}]
        /\ UNCHANGED <<env, users, mailed, demo, log, proved>>
  BY DEF Logout
<1>2. PICK e \in People : e = act[s].who /\ Known(e)
  BY <1>1 DEF AccountInv, ActSound
<1>3. act[r] \in Act /\ act[r] = Resting /\ tokens[r] # "live" /\ AccountTypes
  BY <1>1, AtWork, AtRest
<1> DEFINE row == [event |-> "logged_out", who |-> e, by |-> r]
           b == [Resting EXCEPT !.kind = "logout", !.who = e, !.at = "row", !.pending = {row}]
<1>4. row \in TrailRow /\ row.event = "logged_out" /\ row.who = e
  BY DEF TrailRow, Events
<1>5. act' = [act EXCEPT ![r] = b] /\ act'[r] = b
  BY <1>1, <1>2, <1>3 DEF AccountTypes, Who
<1> HIDE DEF row
<1>6. /\ b \in Act /\ b.at = "row" /\ b.kind = "logout" /\ b.who = e
      /\ b.pending = {row} /\ ~ b.promoted
  BY <1>4 DEF Act, Places, RouteKinds, Resting
<1> HIDE DEF b
<1>7. /\ tokens' \in [Acts -> {"none", "live", "gone"}] /\ tokens'[s] = "gone"
      /\ \A t \in Acts \ {s} : tokens'[t] = tokens[t]
  BY <1>1, <1>3 DEF AccountTypes
<1>8. RowTrue(row)'
  BY <1>1, <1>2, <1>4 DEF RowTrue, Known
<1>9. ActSound(r)'
  BY <1>1, <1>2, <1>3, <1>5, <1>6, <1>7, <1>8 DEF ActSound, Known
<1>10. /\ \A t \in Acts : tokens[t] \in {"live", "gone"} => tokens'[t] \in {"live", "gone"}
       /\ \A t \in Acts \ {r} : tokens'[t] = "live" => tokens[t] = "live"
       /\ tokens' \in [Acts -> {"none", "live", "gone"}]
  BY <1>7
<1>11. b \in Act /\ ~ b.promoted /\ b.at \notin {"autoverify", "promote"}
  BY <1>6
<1>12. /\ log' = log /\ UNCHANGED <<env, users, mailed, proved>>
       /\ demo' \in [People -> {"none", "partial", "seeded"}]
       /\ \A f \in People : demo[f] = "seeded" => demo'[f] = "seeded"
  BY <1>1, <1>3 DEF AccountTypes
<1>13. act[r].at = "idle"
  BY <1>1
<1> QED BY <1>5, <1>9, <1>10, <1>11, <1>12, <1>13, CalmKeeps

\* The role, or the first administrator, and its row in one commit.
LEMMA RoleKeeps ==
  ASSUME AccountInv, NEW r \in Acts, CommitRole(r)
  PROVE  AccountInv'
<1>0. PICK e \in People : e = act[r].who
  BY AtWork DEF CommitRole
<1>1. UNCHANGED <<env, mailed, demo, tokens, proved>> /\ act[r].at = "role"
  BY DEF CommitRole
<1>2. /\ act[r] \in Act /\ AccountTypes /\ ActSound(r) /\ Known(e) /\ users[e] \in Account
  BY <1>0, <1>1, AtWork
<1>3. PICK event \in {"bootstrapped", "role_changed"}, u \in Account :
        /\ users' = [users EXCEPT ![e] = u]
        /\ log' = log \cup {[event |-> event, who |-> e, by |-> r]}
        /\ u.verified => users[e].verified
        /\ users[e].verified => u.verified
        /\ users[e].superuser => u.superuser
        /\ event = "bootstrapped" => u.superuser
  <2> DEFINE newRole == IF act[r].role = "none" THEN users[e].role ELSE act[r].role
  <2>1. newRole \in Roles
    <3>1. act[r].role \in Roles \cup {"none"} /\ users[e].role \in Roles
      BY <1>2 DEF Act, Account
    <3> QED BY <3>1
  <2> HIDE DEF newRole
  <2>2. CASE act[r].kind = "bootstrap"
    <3> DEFINE u == [users[e] EXCEPT !.superuser = TRUE, !.role = newRole]
    <3>1. u \in Account /\ u.superuser /\ u.verified = users[e].verified
      BY <1>2, <2>1 DEF Account
    <3>2. /\ users' = [users EXCEPT ![e].superuser = TRUE, ![e].role = newRole]
          /\ log' = log \cup {[event |-> "bootstrapped", who |-> e, by |-> r]}
      BY <1>0, <1>2, <2>2 DEF CommitRole, Who, Audit, newRole, AccountTypes
    <3>3. users' = [users EXCEPT ![e] = u]
      BY <1>2, <3>2 DEF AccountTypes, Account
    <3> QED BY <3>1, <3>2, <3>3
  <2>3. CASE act[r].kind # "bootstrap"
    <3> DEFINE u == [users[e] EXCEPT !.superuser = users[e].superuser, !.role = newRole]
    <3>1. /\ u \in Account /\ u.superuser = users[e].superuser
          /\ u.verified = users[e].verified
      BY <1>2, <2>1 DEF Account
    <3>2. /\ users' = [users EXCEPT ![e].superuser = users[e].superuser, ![e].role = newRole]
          /\ log' = log \cup {[event |-> "role_changed", who |-> e, by |-> r]}
      BY <1>0, <1>2, <2>3 DEF CommitRole, Who, Audit, newRole, AccountTypes, Account
    <3>3. users' = [users EXCEPT ![e] = u]
      BY <1>2, <3>2 DEF AccountTypes, Account
    <3> QED BY <3>1, <3>2, <3>3
  <2> QED BY <2>2, <2>3
<1> DEFINE b == Finished(r)
           row == [event |-> event, who |-> e, by |-> r]
<1>4. /\ b \in Act /\ b.at = "over" /\ b.kind = "none" /\ b.who = e
      /\ b.pending = {} /\ b.promoted = act[r].promoted
  BY <1>0, <1>2, FinishedIs
<1>5. act' = [act EXCEPT ![r] = b] /\ act'[r] = b
  BY <1>2 DEF AccountTypes, CommitRole
<1> HIDE DEF b
<1>6. row \in TrailRow /\ row.event = event /\ row.who = e
  BY DEF TrailRow, Events
<1>7. log' = log \cup {row}
  BY <1>3
<1> HIDE DEF row
<1>8. /\ users' \in [People -> Account \cup {NoUser}] /\ Known(e)' /\ users'[e] = u
      /\ \A f \in People \ {e} : users'[f] = users[f]
      /\ Registered' = Registered
  BY <1>2, <1>3, UserEdit
<1>9. AccountTypes'
  <2>1. act' \in [Acts -> Act]
    BY <1>2, <1>4, <1>5 DEF AccountTypes
  <2> QED BY <1>1, <1>2, <1>6, <1>7, <1>8, <2>1 DEF AccountTypes
<1>10. Grown
  BY <1>1, <1>3, <1>8 DEF Grown, Known
<1>11. RowTrue(row)'
  BY <1>3, <1>6, <1>8 DEF RowTrue, Known
<1>12. ActSound(r)'
  BY <1>0, <1>1, <1>2, <1>4, <1>5, <1>8 DEF ActSound, Vouched, Known
<1>13. \A s \in Acts \ {r} : act'[s] = act[s] /\ (tokens'[s] = "live" => tokens[s] = "live")
  BY <1>1, <1>2, <1>5 DEF AccountTypes
<1>14. \A x \in log' : x \in log \/ x \in act[r].pending \/ RowTrue(x)'
  BY <1>7, <1>11
<1>15. \A f \in People : Known(f)' /\ users'[f].verified =>
          (Known(f) /\ users[f].verified) \/ Vouched(f)'
  BY <1>2, <1>3, <1>8 DEF Known
<1>16. Creator(r)' => Creator(r) /\ act'[r].who = act[r].who
  BY <1>0, <1>4, <1>5 DEF Creator
<1>17. act'[r].promoted => act[r].promoted
  BY <1>4, <1>5
<1>18. Registered' \subseteq Registered \cup {act[r].who}
  BY <1>8
<1> QED
  BY <1>9, <1>10, <1>12, <1>13, <1>14, <1>15, <1>16, <1>17, <1>18, StepKeeps

LEMMA AccountStarts == AccountInit => AccountInv
<1> SUFFICES ASSUME AccountInit PROVE AccountInv
  OBVIOUS
<1>1. /\ Resting \in Act /\ Resting.at = "idle" /\ Resting.kind = "none"
      /\ Resting.pending = {} /\ Resting.promoted = FALSE
  BY DEF Resting, Act, Places, RouteKinds
<1>2. \A r \in Acts : act[r] = Resting /\ tokens[r] = "none"
  BY DEF AccountInit
<1>3. AccountTypes
  BY <1>1 DEF AccountInit, AccountTypes
<1>4. \A r \in Acts : ActSound(r) /\ ~ Creator(r) /\ ~ act[r].promoted
  BY <1>1, <1>2 DEF ActSound, Creator
<1>5. \A e \in People : ~ Known(e)
  BY DEF AccountInit, Known
<1>6. IsFiniteSet(Registered)
  BY <1>5, FS_EmptySet DEF Registered
<1> QED BY <1>3, <1>4, <1>5, <1>6 DEF AccountInv, AccountInit

LEMMA AccountIdle == AccountInv /\ UNCHANGED accountVars => AccountInv'
<1> SUFFICES ASSUME AccountInv, UNCHANGED accountVars PROVE AccountInv'
  OBVIOUS
<1>1. /\ env' = env /\ users' = users /\ mailed' = mailed /\ demo' = demo
      /\ tokens' = tokens /\ log' = log /\ act' = act /\ proved' = proved
  BY DEF accountVars
<1>2. Registered' = Registered
  BY <1>1 DEF Registered, Known
<1>3. AccountTypes'
  BY <1>1 DEF AccountInv, AccountTypes
<1>4. \A r \in Acts : ActSound(r)' /\ (Creator(r)' <=> Creator(r))
  BY <1>1 DEF AccountInv, ActSound, Creator, RowTrue, Known, Vouched
<1> QED BY <1>1, <1>2, <1>3, <1>4 DEF AccountInv, RowTrue, Known, Vouched

LEMMA AccountStep == AccountInv /\ [AccountNext]_accountVars => AccountInv'
<1> SUFFICES ASSUME AccountInv, [AccountNext]_accountVars PROVE AccountInv'
  OBVIOUS
<1>1. CASE UNCHANGED accountVars
  BY <1>1, AccountIdle
<1>2. CASE AccountNext
  <2>1. PICK r \in Acts :
          \/ Register(r) \/ ResendVerification(r) \/ VerifyEmail(r) \/ MagicLink(r)
          \/ OAuthCallback(r) \/ Login(r)
          \/ CreateUser(r) \/ SendMail(r) \/ AutoVerify(r) \/ Promote(r) \/ MarkVerified(r)
          \/ PostVerify(r) \/ Seed(r) \/ DemoSeeded(r) \/ AfterHooks(r) \/ WriteToken(r)
          \/ Logout(r) \/ CommitRow(r) \/ ChangeRole(r) \/ Bootstrap(r) \/ CommitRole(r)
          \/ UpdateUser(r) \/ Crash(r)
    BY <1>2 DEF AccountNext
  <2> QED
    BY <2>1, EntryKeeps, ResendKeeps, CreateKeeps, EndKeeps, AutoVerifyKeeps, PromoteKeeps,
       MarkVerifiedKeeps, PostVerifyKeeps, SeedKeeps, SeededKeeps, AfterKeeps, TokenKeeps,
       LogoutKeeps, RoleStartKeeps, RoleKeeps, UpdateKeeps
<1> QED BY <1>1, <1>2

\* However handlers fail between their commits, swallow what their hooks raise or race for
\* an address, the account trail never says what did not happen, and at most one request
\* ever makes its account the first administrator by itself.
THEOREM AccountTrailHolds == AccountSpec => []AccountTrailTrue
<1>1. AccountInv => AccountTrailTrue
  <2> SUFFICES ASSUME AccountInv PROVE AccountTrailTrue
    OBVIOUS
  <2> DEFINE S == {r \in Acts : act[r].promoted}
  <2>1. Cardinality(S) <= 1
    <3>1. CASE S = {}
      BY <3>1, FS_EmptySet
    <3>2. CASE S # {}
      <4>1. PICK r : r \in S
        BY <3>2
      <4>2. S = {r}
        BY <4>1 DEF AccountInv
      <4>3. Cardinality({r}) = 1
        BY FS_Singleton
      <4> HIDE DEF S
      <4> QED BY <4>2, <4>3
    <3> QED BY <3>1, <3>2
  <2> QED BY <2>1 DEF AccountInv, AccountTrailTrue, RowTrue
<1> QED BY <1>1, AccountStarts, AccountStep, PTL DEF AccountSpec

\* In production nobody is verified and no session is open for an address that its owner
\* has not followed a link sent to and nobody vouched for.
THEOREM SessionsAreProved == AccountSpec => []SessionsProved
<1>1. AccountInv => SessionsProved
  BY DEF AccountInv, ActSound, SessionsProved, Vouched, Who
<1> QED BY <1>1, AccountStarts, AccountStep, PTL DEF AccountSpec

-----------------------------------------------------------------------------
(* Provider keys.                                                          *)
(*                                                                         *)
(* The plaintexts a run read are those of rows that cannot be mistaken for *)
(* another owner's or for a later row of the same owner: the identity of a *)
(* row never comes back.  So a batch puts back what the row holds, or, for *)
(* an owner that saved in between, something it saved.                     *)

Plaintext == [owner : Owners, id : Nat, plain : ApiKeys]

KeyTypes ==
    /\ keyRows \in [Owners -> KeyRow \cup {NoRow}]
    /\ server \in Secrets
    /\ tool \in [at : {"none", "aborted", "ended", "rotating", "done", "interrupted"},
                 old : Secrets, new : Secrets, left : SUBSET Plaintext, resume : BOOLEAN]
    /\ kept \in [Owners -> Seq(ApiKeys)]
    /\ saves \in [Owners -> Nat]
    /\ missed \subseteq Owners

\* What is known of the row of an owner.
RowKept(u) ==
    /\ Stored(u) <=> kept[u] # <<>>
    /\ Stored(u) =>
          /\ keyRows[u].id <= saves[u]
          /\ \E i \in DOMAIN kept[u] : keyRows[u].plain = kept[u][i]
          /\ u \notin missed => keyRows[u].plain = Last(kept[u])
          /\ tool.at = "done" /\ u \notin missed => keyRows[u].secret = tool.new
          /\ tool.at = "rotating" /\ u \notin missed =>
                \/ keyRows[u].secret = tool.new
                \/ \E b \in tool.left : b.owner = u /\ b.id = keyRows[u].id

\* What is known of a plaintext that a run still holds.
PlainKept(b) ==
    /\ b.id <= saves[b.owner]
    /\ Stored(b.owner) /\ keyRows[b.owner].id = b.id =>
          /\ \E i \in DOMAIN kept[b.owner] : b.plain = kept[b.owner][i]
          /\ b.owner \notin missed => b.plain = Last(kept[b.owner])

KeysInv ==
    /\ KeyTypes
    /\ \A u \in Owners : RowKept(u)
    /\ \A b \in tool.left : PlainKept(b)
    /\ \A b, c \in tool.left : b.owner = c.owner => b = c
    /\ tool.at # "rotating" => tool.left = {}

LEMMA KeysStart == KeysInit => KeysInv
<1> SUFFICES ASSUME KeysInit PROVE KeysInv
  OBVIOUS
<1>1. KeyTypes
  BY KeyAssumption DEF KeysInit, KeyTypes, NoTool
<1>2. \A u \in Owners : RowKept(u)
  BY DEF KeysInit, RowKept, Stored
<1> QED BY <1>1, <1>2 DEF KeysInv, KeysInit, NoTool, PlainKept

\* A key that is saved.
LEMMA SaveKeeps ==
  ASSUME KeysInv, NEW u \in Owners, SaveKey(u)
  PROVE  KeysInv'
<1>1. PICK p \in ApiKeys :
        /\ keyRows' = [keyRows EXCEPT ![u] = Upserted(u, p)]
        /\ kept' = [kept EXCEPT ![u] = Append(@, p)]
  BY DEF SaveKey
<1>2. /\ saves' = [saves EXCEPT ![u] = @ + 1] /\ server' = server /\ tool' = tool
      /\ missed' = IF tool.at = "rotating" \/ (tool.at = "done" /\ server # tool.new)
                   THEN missed \cup {u} ELSE missed \ {u}
  BY DEF SaveKey
<1>3. /\ KeyTypes /\ RowKept(u) /\ saves[u] \in Nat /\ kept[u] \in Seq(ApiKeys)
      /\ server \in Secrets
  BY DEF KeysInv, KeyTypes
<1> DEFINE row == Upserted(u, p)
           all == Append(kept[u], p)
<1>4. row \in KeyRow /\ row.id <= saves[u] + 1 /\ row.secret = server /\ row.plain = p
  <2>1. CASE ~ Stored(u)
    BY <1>3, <2>1 DEF Upserted, KeyRow, Stored
  <2>2. CASE Stored(u)
    <3>1. keyRows[u].id \in Nat /\ keyRows[u].id <= saves[u]
      BY <1>3, <2>2 DEF KeyTypes, KeyRow, RowKept, Stored
    <3> QED BY <1>3, <2>2, <3>1 DEF Upserted, KeyRow, Stored
  <2> QED BY <2>1, <2>2
<1>5. row.id = IF Stored(u) THEN keyRows[u].id ELSE saves[u] + 1
  BY DEF Upserted, Stored
<1>6. row # NoRow
  BY <1>4, KeyAssumption
<1> HIDE DEF row
<1>7. /\ all \in Seq(ApiKeys) /\ all # <<>> /\ Len(all) = Len(kept[u]) + 1 /\ Last(all) = p
      /\ all[Len(all)] = p /\ Len(all) \in DOMAIN all
      /\ \A i \in DOMAIN kept[u] : i \in DOMAIN all /\ all[i] = kept[u][i]
  BY <1>3 DEF Last
<1> HIDE DEF all
<1>8. /\ keyRows' = [keyRows EXCEPT ![u] = row] /\ kept' = [kept EXCEPT ![u] = all]
  BY <1>1 DEF row, all
<1>9. /\ keyRows'[u] = row /\ kept'[u] = all /\ saves'[u] = saves[u] + 1
      /\ \A v \in Owners \ {u} : /\ keyRows'[v] = keyRows[v] /\ kept'[v] = kept[v]
                                 /\ saves'[v] = saves[v] /\ (v \in missed' <=> v \in missed)
  BY <1>2, <1>3, <1>8 DEF KeyTypes
<1>10. KeyTypes'
  BY <1>2, <1>3, <1>4, <1>7, <1>8 DEF KeyTypes
<1>11. RowKept(u)'
  BY <1>2, <1>3, <1>4, <1>6, <1>7, <1>9 DEF RowKept, Stored
<1>12. \A v \in Owners \ {u} : RowKept(v)'
  BY <1>2, <1>9 DEF KeysInv, RowKept, Stored
<1>13. ASSUME NEW b \in tool'.left PROVE PlainKept(b)'
  <2>1. /\ b \in tool.left /\ PlainKept(b) /\ b \in Plaintext /\ tool.at = "rotating"
    BY <1>2, <1>13 DEF KeysInv, KeyTypes
  <2>2. b.owner \in Owners /\ b.id \in Nat
    BY <2>1 DEF Plaintext
  <2>3. CASE b.owner # u
    BY <1>9, <2>1, <2>2, <2>3 DEF PlainKept, Stored
  <2>4. CASE b.owner = u
    <3>1. b.id <= saves'[u] /\ u \in missed'
      BY <1>2, <1>3, <1>9, <2>1, <2>2, <2>4 DEF PlainKept
    <3>2. ASSUME row.id = b.id PROVE \E i \in DOMAIN all : b.plain = all[i]
      <4>1. Stored(u) /\ keyRows[u].id = b.id
        BY <1>3, <1>5, <2>1, <2>2, <2>4, <3>2 DEF PlainKept
      <4> QED BY <1>7, <2>1, <2>4, <4>1 DEF PlainKept
    <3> QED BY <1>9, <2>4, <3>1, <3>2 DEF PlainKept
  <2> QED BY <2>3, <2>4
<1> QED BY <1>2, <1>10, <1>11, <1>12, <1>13 DEF KeysInv

\* A key that is removed.
LEMMA DeleteKeeps ==
  ASSUME KeysInv, NEW u \in Owners, DeleteKey(u)
  PROVE  KeysInv'
<1>1. /\ keyRows' = [keyRows EXCEPT ![u] = NoRow] /\ kept' = [kept EXCEPT ![u] = <<>>]
      /\ missed' = missed \ {u} /\ server' = server /\ tool' = tool /\ saves' = saves
  BY DEF DeleteKey
<1>2. KeyTypes
  BY DEF KeysInv
<1>3. KeyTypes'
  BY <1>1, <1>2 DEF KeyTypes
<1>4. /\ keyRows'[u] = NoRow /\ kept'[u] = <<>>
      /\ \A v \in Owners \ {u} : /\ keyRows'[v] = keyRows[v] /\ kept'[v] = kept[v]
                                 /\ (v \in missed' <=> v \in missed)
  BY <1>1, <1>2 DEF KeyTypes
<1>5. \A v \in Owners : RowKept(v)'
  BY <1>1, <1>4 DEF KeysInv, RowKept, Stored
<1>6. ASSUME NEW b \in tool'.left PROVE PlainKept(b)'
  <2>1. b \in tool.left /\ PlainKept(b) /\ b.owner \in Owners
    BY <1>1, <1>2, <1>6 DEF KeysInv, KeyTypes, Plaintext
  <2> QED BY <1>1, <1>4, <2>1 DEF PlainKept, Stored
<1> QED BY <1>1, <1>3, <1>5, <1>6 DEF KeysInv

\* A run reads every row.
LEMMA StartRunKeeps ==
  ASSUME KeysInv, StartRotation
  PROVE  KeysInv'
<1> DEFINE plaintexts == {[owner |-> u, id |-> keyRows[u].id, plain |-> keyRows[u].plain] :
                            u \in {v \in Owners : Stored(v)}}
<1>1. UNCHANGED <<keyRows, server, kept, saves, missed>>
  BY DEF StartRotation
<1>2. PICK old \in Secrets, new \in Secrets, at \in {"aborted", "ended", "rotating"},
           left \in {plaintexts, {}}, resume \in BOOLEAN :
        /\ tool' = [at |-> at, old |-> old, new |-> new, left |-> left, resume |-> resume]
        /\ at = "rotating" => left = plaintexts
        /\ at # "rotating" => left = {}
  <2>1. PICK old \in Secrets, new \in Secrets, dry \in BOOLEAN :
          LET opened == \A u \in Owners : Stored(u) => Opens(old, keyRows[u])
          IN  tool' = [at |-> CASE ~ opened -> "aborted"
                                [] opened /\ (dry \/ plaintexts = {}) -> "ended"
                                [] OTHER -> "rotating",
                       old |-> old, new |-> new,
                       left |-> IF opened /\ ~ dry THEN plaintexts ELSE {},
                       resume |-> /\ tool.at = "interrupted" /\ old = tool.new
                                  /\ \E u \in Owners : Stored(u) /\ Opens(old, keyRows[u])]
    BY DEF StartRotation
  <2> HIDE DEF plaintexts
  <2> DEFINE opened == \A u \in Owners : Stored(u) => Opens(old, keyRows[u])
             res == /\ tool.at = "interrupted" /\ old = tool.new
                    /\ \E u \in Owners : Stored(u) /\ Opens(old, keyRows[u])
  <2>2. res \in BOOLEAN
    OBVIOUS
  <2>3. tool' = [at |-> CASE ~ opened -> "aborted"
                          [] opened /\ (dry \/ plaintexts = {}) -> "ended"
                          [] OTHER -> "rotating",
                 old |-> old, new |-> new,
                 left |-> IF opened /\ ~ dry THEN plaintexts ELSE {}, resume |-> res]
    BY <2>1
  <2> HIDE DEF opened, res
  <2>4. CASE ~ opened
    BY <2>2, <2>3, <2>4
  <2>5. CASE opened /\ (dry \/ plaintexts = {})
    BY <2>2, <2>3, <2>5
  <2>6. CASE opened /\ ~ dry /\ plaintexts # {}
    BY <2>2, <2>3, <2>6
  <2> QED BY <2>4, <2>5, <2>6
<1>3. KeyTypes /\ \A u \in Owners : RowKept(u)
  BY DEF KeysInv
<1>4. ASSUME NEW u \in Owners, Stored(u)
      PROVE  keyRows[u] \in KeyRow /\ keyRows[u].id \in Nat /\ keyRows[u].plain \in ApiKeys
  BY <1>3, <1>4 DEF KeyTypes, Stored, KeyRow
<1>5. ASSUME NEW b \in plaintexts
      PROVE  /\ b \in Plaintext /\ b.owner \in Owners /\ Stored(b.owner)
             /\ b.id = keyRows[b.owner].id /\ b.plain = keyRows[b.owner].plain
             /\ b = [owner |-> b.owner, id |-> keyRows[b.owner].id,
                     plain |-> keyRows[b.owner].plain]
  BY <1>4, <1>5 DEF Plaintext
<1>6. ASSUME NEW u \in Owners, Stored(u)
      PROVE  \E b \in plaintexts : b.owner = u /\ b.id = keyRows[u].id
  <2> DEFINE b == [owner |-> u, id |-> keyRows[u].id, plain |-> keyRows[u].plain]
  <2>1. b \in plaintexts
    BY <1>6
  <2>2. b.owner = u /\ b.id = keyRows[u].id
    OBVIOUS
  <2> HIDE DEF b, plaintexts
  <2> QED BY <2>1, <2>2
<1> HIDE DEF plaintexts
<1>7. left \subseteq plaintexts /\ plaintexts \subseteq Plaintext
  BY <1>2, <1>5
<1>8. /\ tool'.at = at /\ tool'.left = left /\ tool'.new = new
      /\ tool' \in [at : {"none", "aborted", "ended", "rotating", "done", "interrupted"},
                    old : Secrets, new : Secrets, left : SUBSET Plaintext, resume : BOOLEAN]
  BY <1>2, <1>7
<1>9. KeyTypes'
  BY <1>1, <1>3, <1>8 DEF KeyTypes
<1>10. ASSUME NEW u \in Owners PROVE RowKept(u)'
  BY <1>1, <1>2, <1>3, <1>6, <1>8 DEF RowKept, Stored
<1>11. ASSUME NEW b \in tool'.left PROVE PlainKept(b)'
  <2>1. b \in plaintexts
    BY <1>7, <1>8, <1>11
  <2> QED BY <1>1, <1>3, <1>5, <2>1 DEF PlainKept, RowKept, Stored
<1>12. ASSUME NEW b \in tool'.left, NEW c \in tool'.left, b.owner = c.owner PROVE b = c
  <2>1. b \in plaintexts /\ c \in plaintexts
    BY <1>7, <1>8, <1>12
  <2> QED BY <1>5, <1>12, <2>1
<1> QED BY <1>2, <1>8, <1>9, <1>10, <1>11, <1>12 DEF KeysInv

\* A batch.
LEMMA BatchKeeps ==
  ASSUME KeysInv, RotateBatch
  PROVE  KeysInv'
<1>1. PICK batch \in SUBSET tool.left :
        /\ keyRows' = [u \in Owners |-> Rotated(batch, u)]
        /\ tool' = [tool EXCEPT !.left = @ \ batch]
  BY DEF RotateBatch, kSubset
<1>2. UNCHANGED <<server, kept, saves, missed>> /\ tool.at = "rotating" /\ KeyTypes
  BY DEF RotateBatch, KeysInv
<1>3. /\ tool'.at = "rotating" /\ tool'.left = tool.left \ batch /\ tool'.new = tool.new
      /\ tool' \in [at : {"none", "aborted", "ended", "rotating", "done", "interrupted"},
                    old : Secrets, new : Secrets, left : SUBSET Plaintext, resume : BOOLEAN]
  BY <1>1, <1>2 DEF KeyTypes
<1>4. ASSUME NEW u \in Owners,
             NEW b \in batch, b.owner = u, Stored(u), b.id = keyRows[u].id
      PROVE  /\ keyRows'[u] = [id |-> b.id, secret |-> tool.new, plain |-> b.plain]
             /\ keyRows'[u] \in KeyRow /\ b.id \in Nat /\ PlainKept(b)
  <2>1. (CHOOSE c \in batch : c.owner = u) = b
    BY <1>1, <1>4 DEF KeysInv
  <2>2. keyRows'[u] = [id |-> b.id, secret |-> tool.new, plain |-> b.plain]
    BY <1>1, <1>4, <2>1 DEF Rotated
  <2>3. b \in Plaintext /\ tool.new \in Secrets
    BY <1>1, <1>2, <1>4 DEF KeyTypes
  <2>4. PlainKept(b)
    BY <1>1, <1>4 DEF KeysInv
  <2> QED BY <2>2, <2>3, <2>4 DEF Plaintext, KeyRow
<1>5. ASSUME NEW u \in Owners,
             ~ \E b \in batch : b.owner = u /\ Stored(u) /\ b.id = keyRows[u].id
      PROVE  keyRows'[u] = keyRows[u]
  BY <1>1, <1>5 DEF Rotated
<1>6. ASSUME NEW u \in Owners
      PROVE  /\ keyRows'[u] \in KeyRow \cup {NoRow} /\ RowKept(u)'
             /\ Stored(u)' <=> Stored(u)
             /\ Stored(u) => keyRows'[u].id = keyRows[u].id
  <2>1. CASE \E b \in batch : b.owner = u /\ Stored(u) /\ b.id = keyRows[u].id
    <3>1. PICK b \in batch : b.owner = u /\ Stored(u) /\ b.id = keyRows[u].id
      BY <2>1
    <3>2. /\ keyRows'[u] \in KeyRow /\ keyRows'[u] # NoRow /\ keyRows'[u].id = b.id
          /\ keyRows'[u].secret = tool.new /\ keyRows'[u].plain = b.plain /\ PlainKept(b)
      <4>1. keyRows'[u] = [id |-> b.id, secret |-> tool.new, plain |-> b.plain]
        BY <1>4, <3>1
      <4>2. keyRows'[u] \in KeyRow /\ PlainKept(b)
        BY <1>4, <3>1
      <4> QED BY <4>1, <4>2, KeyAssumption
    <3>3. RowKept(u)
      BY DEF KeysInv
    <3> QED BY <1>2, <1>3, <3>1, <3>2, <3>3 DEF RowKept, PlainKept, Stored
  <2>2. CASE ~ \E b \in batch : b.owner = u /\ Stored(u) /\ b.id = keyRows[u].id
    <3>1. keyRows'[u] = keyRows[u]
      BY <1>5, <2>2
    <3>2. RowKept(u) /\ keyRows[u] \in KeyRow \cup {NoRow}
      BY <1>2 DEF KeysInv, KeyTypes
    <3>3. \A b \in tool.left : b.owner = u /\ b.id = keyRows[u].id /\ Stored(u) =>
             b \in tool'.left
      BY <1>3, <2>2
    <3> QED BY <1>2, <1>3, <3>1, <3>2, <3>3 DEF RowKept, Stored
  <2> QED BY <2>1, <2>2
<1>7. KeyTypes'
  BY <1>1, <1>2, <1>3, <1>6 DEF KeyTypes
<1>8. ASSUME NEW b \in tool'.left PROVE PlainKept(b)'
  <2>1. b \in tool.left /\ PlainKept(b) /\ b.owner \in Owners
    BY <1>2, <1>3, <1>8 DEF KeysInv, KeyTypes, Plaintext
  <2> QED BY <1>2, <1>6, <2>1 DEF PlainKept
<1> QED BY <1>3, <1>6, <1>7, <1>8 DEF KeysInv

\* The run ends, is interrupted, or its secret is deployed.
LEMMA RunEndsKeeps ==
  ASSUME KeysInv, FinishRotation \/ Interrupt \/ Redeploy
  PROVE  KeysInv'
<1>1. UNCHANGED <<keyRows, kept, saves, missed>> /\ KeyTypes
  BY DEF FinishRotation, Interrupt, Redeploy, KeysInv
<1>2. \A u \in Owners : Stored(u)' <=> Stored(u)
  BY <1>1 DEF Stored
<1>3. CASE FinishRotation
  <2>1. /\ tool'.at = "done" /\ tool'.left = {} /\ tool'.new = tool.new /\ server' = server
        /\ tool.at = "rotating" /\ tool.left = {}
        /\ tool' = [tool EXCEPT !.at = "done"]
    BY <1>1, <1>3 DEF FinishRotation, KeyTypes
  <2>2. KeyTypes'
    BY <1>1, <2>1 DEF KeyTypes
  <2>3. \A u \in Owners : RowKept(u)'
    BY <1>1, <2>1 DEF KeysInv, RowKept, Stored
  <2> QED BY <2>1, <2>2, <2>3 DEF KeysInv
<1>4. CASE Interrupt
  <2>1. /\ tool'.at = "interrupted" /\ tool'.left = {} /\ server' = server
        /\ tool' = [tool EXCEPT !.at = "interrupted", !.left = {}]
    BY <1>1, <1>4 DEF Interrupt, KeyTypes
  <2>2. KeyTypes'
    BY <1>1, <2>1 DEF KeyTypes
  <2>3. \A u \in Owners : RowKept(u)'
    BY <1>1, <2>1 DEF KeysInv, RowKept, Stored
  <2> QED BY <2>1, <2>2, <2>3 DEF KeysInv
<1>5. CASE Redeploy
  <2>1. tool' = tool /\ server' = tool.new
    BY <1>5 DEF Redeploy
  <2>2. KeyTypes'
    BY <1>1, <2>1 DEF KeyTypes
  <2>3. \A u \in Owners : RowKept(u)'
    BY <1>1, <2>1 DEF KeysInv, RowKept, Stored
  <2>4. \A b \in tool.left : PlainKept(b)'
    BY <1>1 DEF KeysInv, PlainKept, Stored
  <2> QED BY <2>1, <2>2, <2>3, <2>4 DEF KeysInv
<1> QED BY <1>3, <1>4, <1>5

LEMMA KeysStep == KeysInv /\ [KeysNext]_keyVars => KeysInv'
<1> SUFFICES ASSUME KeysInv, [KeysNext]_keyVars PROVE KeysInv'
  OBVIOUS
<1>1. CASE UNCHANGED keyVars
  BY <1>1 DEF keyVars, KeysInv, KeyTypes, RowKept, PlainKept, Stored
<1>2. CASE KeysNext
  BY <1>2, SaveKeeps, DeleteKeeps, StartRunKeeps, BatchKeeps, RunEndsKeeps DEF KeysNext
<1> QED BY <1>1, <1>2

\* However saves and removals interleave with rotations of the master secret and their
\* interruptions, no key is lost, mixed up or brought back.
THEOREM KeysAreKept == KeysSpec => []KeysKept
<1>1. KeysInv => KeysKept
  BY DEF KeysInv, KeysKept, RowKept, Last, Opens
<1> QED BY <1>1, KeysStart, KeysStep, PTL DEF KeysSpec

-----------------------------------------------------------------------------
(* External packs.                                                         *)
(*                                                                         *)
(* Every row comes from an export as normalised, and the rows of a pack    *)
(* are those of one export: the first part of what follows is about the    *)
(* functions that grade a document, the second about the transaction.      *)

\* A nonempty set of positions has a greatest element, and Max finds it.
LEMMA MaxIn ==
  ASSUME NEW n \in Nat, NEW S \in SUBSET (0..n), S # {}
  PROVE  Max(S) \in S /\ \A i \in S : i <= Max(S)
<1> DEFINE D == {n - i : i \in S}
<1>1. D \in SUBSET Nat /\ D # {}
  <2>1. \A i \in S : n - i \in Nat /\ n - i \in D
    OBVIOUS
  <2>2. PICK i : i \in S
    OBVIOUS
  <2>3. \A y \in D : y \in Nat
    BY <2>1
  <2> HIDE DEF D
  <2> QED BY <2>1, <2>2, <2>3
<1> DEFINE R == OpToRel(<, Nat)
<1>2. IsWellFoundedOn(R, Nat)
  BY NatLessThanWellFounded
<1>3. \A x, y \in Nat : x < y => <<x, y>> \in R
  BY DEF OpToRel
<1> HIDE DEF R, D
<1>4. PICK x \in D : \A y \in D : ~ (<<y, x>> \in R)
  BY <1>1, <1>2, WFMin, Zenon
<1>5. \A y \in D : ~ (y < x)
  BY <1>1, <1>3, <1>4, Zenon
<1>6. PICK i \in S : x = n - i
  BY <1>4 DEF D
<1>7. \A j \in S : i >= j
  <2> SUFFICES ASSUME NEW j \in S PROVE i >= j
    OBVIOUS
  <2>1. n - j \in D
    BY DEF D
  <2>2. ~ (n - j < n - i)
    BY <1>5, <1>6, <2>1
  <2> QED BY <2>2
<1> HIDE <1>2, <1>3, <1>4, <1>5
<1> QED BY <1>6, <1>7 DEF Max

\* The files of an export, by name, are entries of it; no entry is left out.
LEMMA FlattenIs ==
  ASSUME NEW x \in Exports
  PROVE  /\ \A i \in DOMAIN x.entries : x.entries[i].name \in DOMAIN Flatten(x.entries)
         /\ \A name \in DOMAIN Flatten(x.entries) : \E i \in DOMAIN x.entries :
               x.entries[i].name = name /\ Flatten(x.entries)[name] = x.entries[i].bytes
<1> DEFINE E == x.entries
<1>1. Len(E) \in Nat /\ DOMAIN E = 1..Len(E)
  BY PackAssumption
<1>2. DOMAIN Flatten(E) = {e.name : e \in {E[i] : i \in DOMAIN E}}
  BY DEF Flatten
<1>3. ASSUME NEW name \in DOMAIN Flatten(E)
      PROVE  \E i \in DOMAIN E : E[i].name = name /\ Flatten(E)[name] = E[i].bytes
  <2> DEFINE S == {i \in DOMAIN E : E[i].name = name}
  <2>1. S # {}
    BY <1>2, <1>3
  <2>2. S \in SUBSET (0..Len(E))
    BY <1>1
  <2>3. Flatten(E)[name] = E[Max(S)].bytes
    BY <1>2, <1>3 DEF Flatten
  <2> HIDE DEF S, E
  <2>4. Max(S) \in S
    BY <1>1, <2>1, <2>2, MaxIn
  <2> QED BY <2>3, <2>4 DEF S
<1>4. \A i \in DOMAIN E : E[i].name \in DOMAIN Flatten(E)
  BY <1>2
<1> QED BY <1>3, <1>4

\* The bytes found for a document.
LEMMA MatchIs ==
  ASSUME NEW x \in Exports, NEW d
  PROVE  LET held == MatchBytes(d, Flatten(x.entries))
             names == {[stem |-> Filename(d), edited |-> n] : n \in {0, Current(d).number}}
         IN  /\ held # None =>
                   held \in {x.entries[i].bytes :
                               i \in {j \in DOMAIN x.entries : x.entries[j].name \in names}}
             /\ held = None =>
                   \A j \in DOMAIN x.entries :
                      x.entries[j].name # [stem |-> Filename(d), edited |-> 0]
<1> DEFINE files == Flatten(x.entries)
           c == Candidates(d)
           plain == [stem |-> Filename(d), edited |-> 0]
           decorated == [stem |-> Filename(d), edited |-> Current(d).number]
           found == {i \in DOMAIN c : c[i] \in DOMAIN files}
           held == MatchBytes(d, files)
<1>1. c = <<decorated, plain>> \/ c = <<plain>>
  BY DEF Candidates
<1>2. held = IF found = {} THEN None ELSE files[c[Min(found)]]
  BY DEF MatchBytes
<1>3. \A i \in DOMAIN x.entries : x.entries[i].bytes # None
  BY PackAssumption
<1>4. /\ \A i \in DOMAIN x.entries : x.entries[i].name \in DOMAIN files
      /\ \A name \in DOMAIN files : \E i \in DOMAIN x.entries :
            x.entries[i].name = name /\ files[name] = x.entries[i].bytes
  BY FlattenIs
<1> HIDE DEF files, c, plain, decorated, held
<1>5. /\ DOMAIN c \subseteq {1, 2} /\ (\A i \in DOMAIN c : c[i] \in {decorated, plain})
      /\ \E i \in DOMAIN c : c[i] = plain
  <2>1. CASE c = <<decorated, plain>>
    <3>1. DOMAIN c = {1, 2} /\ c[1] = decorated /\ c[2] = plain
      BY <2>1
    <3> QED BY <3>1
  <2>2. CASE c = <<plain>>
    <3>1. DOMAIN c = {1} /\ c[1] = plain
      BY <2>2
    <3> QED BY <3>1
  <2> QED BY <1>1, <2>1, <2>2
<1>6. CASE found = {}
  <2>1. held = None
    BY <1>2, <1>6
  <2>2. plain \notin DOMAIN files
    BY <1>5, <1>6
  <2>3. \A j \in DOMAIN x.entries : x.entries[j].name # plain
    BY <1>4, <2>2
  <2> QED BY <2>1, <2>3 DEF held, plain, files
<1>7. CASE found # {}
  <2>1. Min(found) \in found
    BY <1>5, <1>7 DEF Min
  <2>2. PICK name : name = c[Min(found)] /\ name \in DOMAIN files /\ name \in {decorated, plain}
    BY <1>5, <2>1
  <2>3. PICK i \in DOMAIN x.entries : x.entries[i].name = name /\ held = x.entries[i].bytes
    BY <1>2, <1>4, <1>7, <2>2
  <2>4. held # None
    BY <1>3, <2>3
  <2> DEFINE names == {[stem |-> Filename(d), edited |-> n] : n \in {0, Current(d).number}}
  <2>5. name \in names
    BY <2>2 DEF decorated, plain
  <2> HIDE DEF names
  <2>6. held \in {x.entries[k].bytes :
                    k \in {j \in DOMAIN x.entries : x.entries[j].name \in names}}
    BY <2>3, <2>5
  <2> QED BY <2>4, <2>6 DEF held, files, names
<1> QED BY <1>6, <1>7

\* A document of an export and the row made of it.
Honest(x, i, doc) ==
    LET g == doc.grade
        d == x.documents[i]
        E == x.entries
        names == {[stem |-> Filename(d), edited |-> n] : n \in {0, Current(d).number}}
        uploaded == {E[j].bytes : j \in {k \in DOMAIN E : E[k].name \in names}}
    IN  /\ g.origin = "verified_at_source" => g.sha = doc.claim /\ g.sha \in uploaded
        /\ g.origin = "attested_at_ingest" =>
              g.sha \in uploaded /\ g.mismatch = (doc.claim \notin {None, g.sha})
        /\ g.origin = "claimed_by_source" =>
              \A j \in DOMAIN E : E[j].name # [stem |-> Filename(d), edited |-> 0]

\* What normalisation makes of a document is honest.
LEMMA NormalisedHonest ==
  ASSUME NEW x \in Exports, NEW i \in DOMAIN x.documents
  PROVE  Honest(x, i, Normalise(x)[i])
<1> DEFINE d == x.documents[i]
           claim == Current(d).claim
           held == MatchBytes(d, Flatten(x.entries))
           names == {[stem |-> Filename(d), edited |-> n] : n \in {0, Current(d).number}}
           uploaded == {x.entries[j].bytes :
                          j \in {k \in DOMAIN x.entries : x.entries[k].name \in names}}
           lost == \A j \in DOMAIN x.entries :
                      x.entries[j].name # [stem |-> Filename(d), edited |-> 0]
           doc == Normalise(x)[i]
<1>1. /\ held # None => held \in uploaded
      /\ held = None => lost
  BY MatchIs
<1>2. doc.grade = Grade(claim, held) /\ doc.claim = claim
  BY DEF Normalise, NormaliseDocument
<1> HIDE DEF claim, held, uploaded, lost, doc
<1>3. /\ doc.grade.origin = "verified_at_source" =>
            doc.grade.sha = doc.claim /\ doc.grade.sha \in uploaded
      /\ doc.grade.origin = "attested_at_ingest" =>
            doc.grade.sha \in uploaded /\ doc.grade.mismatch = (doc.claim \notin {None, doc.grade.sha})
      /\ doc.grade.origin = "claimed_by_source" => lost
  <2> DEFINE g == Grade(claim, held)
  <2>1. CASE claim # None /\ held # None /\ claim = held
    <3>1. g.sha = claim /\ g.origin = "verified_at_source"
      BY <2>1 DEF Grade
    <3> QED BY <1>1, <1>2, <2>1, <3>1
  <2>2. CASE claim # None /\ held # None /\ claim # held
    <3>1. g.sha = held /\ g.origin = "attested_at_ingest" /\ g.mismatch = TRUE
      BY <2>2 DEF Grade
    <3> QED BY <1>1, <1>2, <2>2, <3>1
  <2>3. CASE claim = None /\ held # None
    <3>1. g.sha = held /\ g.origin = "attested_at_ingest" /\ g.mismatch = FALSE
      BY <2>3 DEF Grade
    <3> QED BY <1>1, <1>2, <2>3, <3>1
  <2>4. CASE claim # None /\ held = None
    <3>1. g.origin = "claimed_by_source"
      BY <2>4 DEF Grade
    <3> QED BY <1>1, <1>2, <2>4, <3>1
  <2>5. CASE claim = None /\ held = None
    <3>1. g.origin = None
      BY <2>5 DEF Grade
    <3> QED BY <1>2, <2>5, <3>1 DEF None
  <2> QED BY <2>1, <2>2, <2>3, <2>4, <2>5
<1> QED BY <1>3 DEF Honest, uploaded, lost, doc

\* The row of a document, and the matter, of a pack made of export x.
Ingested(p, x, i) ==
    [pack |-> p, number |-> i, author |-> None, doc |-> Normalise(x)[i], export |-> x]
MatterOf(p, x) ==
    [pack |-> p, posture |-> "C_paused", documents |-> Len(Normalise(x)),
     counts |-> Counts(Normalise(x))]

PackSteps ==
    [at : {"idle", "done", "failed"}, written : {0}]
      \cup [at : {"documents", "commit"}, written : Nat, export : Exports,
            docs : {Normalise(x) : x \in Exports}]

PackSound(p) ==
    /\ step[p].at \in {"documents", "commit"} =>
          /\ step[p].docs = Normalise(step[p].export)
          /\ step[p].written <= Len(step[p].docs)
          /\ \A i \in 1..step[p].written : <<p, i>> \in objects
    /\ step[p].at = "commit" =>
          step[p].written = Len(step[p].docs) /\ <<p, 0>> \in objects
    /\ step[p].at # "done" =>
          (\A r \in rows : r.pack # p) /\ (\A m \in matters : m.pack # p)
    /\ step[p].at = "done" => \E x \in Exports :
          /\ {r \in rows : r.pack = p} = {Ingested(p, x, i) : i \in DOMAIN Normalise(x)}
          /\ {m \in matters : m.pack = p} = {MatterOf(p, x)}
          /\ \A i \in 0..Len(Normalise(x)) : <<p, i>> \in objects

PackInv ==
    /\ step \in [Packs -> PackSteps]
    /\ \A r \in rows : r.pack \in Packs
    /\ \A m \in matters : m.pack \in Packs
    /\ \A p \in Packs : PackSound(p)

LEMMA NormaliseIs ==
  ASSUME NEW x \in Exports
  PROVE  /\ Len(Normalise(x)) \in Nat
         /\ DOMAIN Normalise(x) = 1..Len(Normalise(x))
         /\ DOMAIN Normalise(x) = DOMAIN x.documents
<1> DEFINE n == Len(x.documents)
           S == {NormaliseDocument(x.documents[i], Flatten(x.entries)) : i \in 1..n}
<1>1. n \in Nat /\ DOMAIN x.documents = 1..n
  BY PackAssumption
<1>2. Normalise(x) \in [1..n -> S]
  BY <1>1 DEF Normalise
<1> HIDE DEF S, n
<1>3. Normalise(x) \in Seq(S)
  BY <1>1, <1>2
<1>4. Len(Normalise(x)) \in Nat /\ DOMAIN Normalise(x) = 1..Len(Normalise(x))
  BY <1>3, LenProperties
<1> QED BY <1>1, <1>2, <1>4

\* A step of the ingest of one pack that adds no row.
LEMMA PackMoves ==
  ASSUME PackInv, NEW p \in Packs, NEW t \in PackSteps, step' = [step EXCEPT ![p] = t],
         objects \subseteq objects', UNCHANGED <<matters, rows>>,
         step[p].at # "done", t.at # "done",
         t.at \in {"documents", "commit"} =>
            /\ t.docs = Normalise(t.export)
            /\ t.written <= Len(t.docs)
            /\ \A i \in 1..t.written : <<p, i>> \in objects',
         t.at = "commit" => t.written = Len(t.docs) /\ <<p, 0>> \in objects'
  PROVE  PackInv'
<1>1. step'[p] = t /\ \A q \in Packs \ {p} : step'[q] = step[q]
  BY DEF PackInv
<1>2. step' \in [Packs -> PackSteps]
  BY DEF PackInv
<1>3. PackSound(p)'
  BY <1>1 DEF PackInv, PackSound
<1>4. ASSUME NEW q \in Packs \ {p} PROVE PackSound(q)'
  <2>1. PackSound(q) /\ step'[q] = step[q]
    BY <1>1 DEF PackInv
  <2> QED BY <2>1 DEF PackSound
<1> QED BY <1>2, <1>3, <1>4 DEF PackInv

LEMMA PackStep == PackInv /\ [PackNext]_packVars => PackInv'
<1> SUFFICES ASSUME PackInv, [PackNext]_packVars PROVE PackInv'
  OBVIOUS
<1>1. CASE UNCHANGED packVars
  BY <1>1 DEF packVars, PackInv, PackSound
<1> SUFFICES ASSUME NEW p \in Packs,
                    \/ BeginIngest(p) \/ WriteArtifact(p) \/ WriteManifest(p)
                    \/ CommitIngest(p) \/ IngestFails(p)
             PROVE  PackInv'
  BY <1>1 DEF PackNext
<1>2. PICK s \in PackSteps : s = step[p]
  BY DEF PackInv
<1>3. step \in [Packs -> PackSteps] /\ PackSound(p)
  BY DEF PackInv
<1>4. /\ s.at \in {"idle", "documents", "commit", "done", "failed"} /\ s.written \in Nat
      /\ s.at \in {"documents", "commit"} =>
            /\ s \in [at : {"documents", "commit"}, written : Nat, export : Exports,
                      docs : {Normalise(x) : x \in Exports}]
            /\ s.export \in Exports
  BY <1>2 DEF PackSteps
<1>5. CASE BeginIngest(p)
  <2>1. PICK x \in Exports :
          step' = [step EXCEPT ![p] = [at |-> "documents", written |-> 0,
                                       docs |-> Normalise(x), export |-> x]]
    BY <1>5 DEF BeginIngest
  <2> DEFINE t == [at |-> "documents", written |-> 0, docs |-> Normalise(x), export |-> x]
  <2>2. /\ t \in PackSteps /\ t.at = "documents" /\ t.written = 0 /\ t.docs = Normalise(t.export)
        /\ t.docs = Normalise(x)
    BY DEF PackSteps
  <2>3. Len(Normalise(x)) \in Nat
    BY NormaliseIs
  <2>4. step' = [step EXCEPT ![p] = t] /\ UNCHANGED <<objects, matters, rows>> /\ step[p].at = "idle"
    BY <1>5, <2>1 DEF BeginIngest
  <2> HIDE DEF t
  <2>5. t.written <= Len(t.docs) /\ \A i \in 1..t.written : <<p, i>> \in objects'
    BY <2>2, <2>3
  <2> QED BY <2>2, <2>4, <2>5, PackMoves
<1>6. CASE WriteArtifact(p)
  <2>1. /\ s.at = "documents" /\ s.written < Len(s.docs)
        /\ objects' = objects \cup {<<p, s.written + 1>>}
        /\ step' = [step EXCEPT ![p] = [s EXCEPT !.written = s.written + 1]]
        /\ UNCHANGED <<matters, rows>>
    BY <1>2, <1>3, <1>6 DEF WriteArtifact
  <2> DEFINE t == [s EXCEPT !.written = s.written + 1]
  <2>2. /\ t \in PackSteps /\ t.at = "documents" /\ t.written = s.written + 1
        /\ t.docs = s.docs /\ t.export = s.export
    BY <1>4, <2>1 DEF PackSteps
  <2> HIDE DEF t
  <2>3. s.docs = Normalise(s.export) /\ \A i \in 1..s.written : <<p, i>> \in objects
    BY <1>2, <1>3, <2>1 DEF PackSound
  <2>4. t.written <= Len(t.docs)
    BY <1>4, <2>1, <2>2, <2>3, NormaliseIs
  <2>5. \A i \in 1..t.written : <<p, i>> \in objects'
    BY <1>4, <2>1, <2>2, <2>3
  <2>6. step' = [step EXCEPT ![p] = t] /\ step[p].at # "done"
    BY <1>2, <2>1 DEF t
  <2> QED BY <2>1, <2>2, <2>3, <2>4, <2>5, <2>6, PackMoves
<1>7. CASE WriteManifest(p)
  <2>1. /\ s.at = "documents" /\ s.written = Len(s.docs)
        /\ objects' = objects \cup {<<p, 0>>}
        /\ step' = [step EXCEPT ![p] = [s EXCEPT !.at = "commit"]]
        /\ UNCHANGED <<matters, rows>>
    BY <1>2, <1>3, <1>7 DEF WriteManifest
  <2> DEFINE t == [s EXCEPT !.at = "commit"]
  <2>2. /\ t \in PackSteps /\ t.at = "commit" /\ t.written = s.written
        /\ t.docs = s.docs /\ t.export = s.export
    BY <1>4, <2>1 DEF PackSteps
  <2> HIDE DEF t
  <2>3. s.docs = Normalise(s.export) /\ \A i \in 1..s.written : <<p, i>> \in objects
    BY <1>2, <1>3, <2>1 DEF PackSound
  <2>4. t.written <= Len(t.docs) /\ t.written = Len(t.docs)
    BY <1>4, <2>1, <2>2
  <2>5. step' = [step EXCEPT ![p] = t] /\ step[p].at # "done"
    BY <1>2, <2>1 DEF t
  <2> QED BY <2>1, <2>2, <2>3, <2>4, <2>5, PackMoves
<1>8. CASE IngestFails(p)
  <2> DEFINE t == [at |-> "failed", written |-> 0]
  <2>1. t \in PackSteps /\ t.at = "failed"
    BY DEF PackSteps
  <2>2. /\ step' = [step EXCEPT ![p] = t] /\ step[p].at # "done"
        /\ UNCHANGED <<objects, matters, rows>>
    BY <1>8 DEF IngestFails
  <2> HIDE DEF t
  <2> QED BY <2>1, <2>2, PackMoves
<1>9. CASE CommitIngest(p)
  <2> DEFINE t == [at |-> "done", written |-> 0]
             x == s.export
  <2>1. t \in PackSteps /\ t.at = "done"
    BY DEF PackSteps
  <2>2. /\ s.at = "commit" /\ s.docs = Normalise(x) /\ x \in Exports
        /\ s.written = Len(s.docs) /\ <<p, 0>> \in objects
        /\ \A i \in 1..s.written : <<p, i>> \in objects
        /\ (\A r \in rows : r.pack # p) /\ (\A m \in matters : m.pack # p)
    BY <1>2, <1>3, <1>4, <1>9 DEF CommitIngest, PackSound
  <2>3. /\ step' = [step EXCEPT ![p] = t] /\ objects' = objects
        /\ matters' = matters \cup {MatterOf(p, x)}
        /\ rows' = rows \cup {Ingested(p, x, i) : i \in DOMAIN Normalise(x)}
    BY <1>2, <1>9, <2>2 DEF CommitIngest, DocumentRow, MatterOf, Ingested
  <2> HIDE DEF t
  <2>4. step'[p] = t /\ step' \in [Packs -> PackSteps] /\ \A q \in Packs \ {p} : step'[q] = step[q]
    BY <1>3, <2>1, <2>3
  <2>5. MatterOf(p, x).pack = p /\ \A i \in DOMAIN Normalise(x) : Ingested(p, x, i).pack = p
    BY DEF MatterOf, Ingested
  <2> DEFINE new == {Ingested(p, x, i) : i \in DOMAIN Normalise(x)}
             m1 == MatterOf(p, x)
  <2>6. \A r \in new : r.pack = p
    BY <2>5
  <2>7. rows' = rows \cup new /\ matters' = matters \cup {m1} /\ m1.pack = p
    BY <2>3, <2>5
  <2>8. \A i \in 0..Len(Normalise(x)) : <<p, i>> \in objects'
    BY <2>2, <2>3, NormaliseIs
  <2> HIDE DEF new, m1
  <2>9. {r \in rows' : r.pack = p} = new /\ {m \in matters' : m.pack = p} = {m1}
    BY <2>2, <2>6, <2>7
  <2>10. PackSound(p)'
    BY <2>1, <2>2, <2>4, <2>8, <2>9 DEF PackSound, new, m1
  <2>11. ASSUME NEW q \in Packs \ {p} PROVE PackSound(q)'
    <3>1. PackSound(q) /\ step'[q] = step[q]
      BY <2>4 DEF PackInv
    <3>2. /\ {r \in rows' : r.pack = q} = {r \in rows : r.pack = q}
          /\ {m \in matters' : m.pack = q} = {m \in matters : m.pack = q}
      BY <2>6, <2>7
    <3>3. /\ (\A r \in rows : r.pack # q) => (\A r \in rows' : r.pack # q)
          /\ (\A m \in matters : m.pack # q) => (\A m \in matters' : m.pack # q)
      BY <2>6, <2>7
    <3> QED BY <2>3, <3>1, <3>2, <3>3 DEF PackSound
  <2>12. (\A r \in rows' : r.pack \in Packs) /\ (\A m \in matters' : m.pack \in Packs)
    BY <2>6, <2>7 DEF PackInv
  <2> QED BY <2>4, <2>10, <2>11, <2>12 DEF PackInv
<1> QED BY <1>5, <1>6, <1>7, <1>8, <1>9

LEMMA PackStarts == PackInit => PackInv
<1> SUFFICES ASSUME PackInit PROVE PackInv
  OBVIOUS
<1>1. NotStarted \in PackSteps /\ NotStarted.at = "idle"
  BY DEF NotStarted, PackSteps
<1>2. \A p \in Packs : step[p] = NotStarted
  BY DEF PackInit
<1>3. step \in [Packs -> PackSteps]
  BY <1>1 DEF PackInit
<1>4. \A p \in Packs : PackSound(p)
  BY <1>1, <1>2 DEF PackSound, PackInit
<1> QED BY <1>3, <1>4 DEF PackInv, PackInit

\* Rows of one pack are as many as the documents they stand for.
LEMMA RowsCounted ==
  ASSUME NEW p, NEW x \in Exports, NEW I \in SUBSET (DOMAIN Normalise(x))
  PROVE  Cardinality({Ingested(p, x, i) : i \in I}) = Cardinality(I)
<1> DEFINE T == {Ingested(p, x, i) : i \in I}
           f == [i \in I |-> Ingested(p, x, i)]
<1>1. IsFiniteSet(I)
  <2> DEFINE n == Len(Normalise(x))
  <2>1. n \in Nat /\ I \in SUBSET (1..n)
    BY NormaliseIs
  <2>2. IsFiniteSet(1..n)
    <3> HIDE DEF n
    <3> QED BY <2>1, FS_Interval
  <2> HIDE DEF n
  <2> QED BY <2>1, <2>2, FS_Subset
<1>2. \A i \in I : f[i].number = i
  BY DEF Ingested
<1>3. f \in [I -> T] /\ \A t \in T : \E i \in I : f[i] = t
  OBVIOUS
<1> HIDE DEF f, T
<1>4. f \in Bijection(I, T)
  BY <1>2, <1>3 DEF Bijection, Injection, Surjection, IsInjective
<1>5. ExistsBijection(I, T)
  BY <1>4 DEF ExistsBijection
<1>6. Cardinality(T) = Cardinality(I)
  BY <1>1, <1>5, FS_Bijection
<1> QED BY <1>6 DEF T

\* However ingests fail or interleave, the grade of every document that was ingested is
\* what a check of the uploaded bytes bears out.
THEOREM GradesAreHonest == PackSpec => []GradesHonest
<1>1. PackInv => GradesHonest
  <2> SUFFICES ASSUME PackInv, NEW r \in rows PROVE Honest(r.export, r.number, r.doc)
    BY DEF GradesHonest, Honest
  <2>1. r.pack \in Packs /\ PackSound(r.pack)
    BY DEF PackInv
  <2>2. PICK x \in Exports :
          {q \in rows : q.pack = r.pack} = {Ingested(r.pack, x, i) : i \in DOMAIN Normalise(x)}
    BY <2>1 DEF PackSound
  <2>3. r \in {Ingested(r.pack, x, i) : i \in DOMAIN Normalise(x)}
    BY <2>2
  <2>4. PICK i \in DOMAIN Normalise(x) : r = Ingested(r.pack, x, i)
    BY <2>3
  <2>5. r.export = x /\ r.number = i /\ r.doc = Normalise(x)[i]
    BY <2>4 DEF Ingested
  <2>6. i \in DOMAIN x.documents
    BY NormaliseIs
  <2> QED BY <2>5, <2>6, NormalisedHonest
<1> QED BY <1>1, PackStarts, PackStep, PTL DEF PackSpec

\* A pack is ingested whole or not at all, with the counts its manifest states.
THEOREM PacksAreWhole == PackSpec => []PackWhole
<1>1. PackInv => PackWhole
  <2> SUFFICES ASSUME PackInv, NEW m \in matters
               PROVE  LET mine == {r \in rows : r.pack = m.pack} IN
                      /\ Cardinality(mine) = m.documents
                      /\ \A o \in DOMAIN m.counts :
                            m.counts[o] = Cardinality({r \in mine : r.doc.grade.origin = o})
                      /\ <<m.pack, 0>> \in objects
                      /\ \A r \in mine : <<r.pack, r.number>> \in objects
    BY DEF PackWhole
  <2>1. PICK p \in Packs : p = m.pack /\ PackSound(p)
    BY DEF PackInv
  <2> DEFINE mine == {r \in rows : r.pack = p}
  <2>2. PICK x \in Exports :
          /\ mine = {Ingested(p, x, i) : i \in DOMAIN Normalise(x)}
          /\ {k \in matters : k.pack = p} = {MatterOf(p, x)}
          /\ \A i \in 0..Len(Normalise(x)) : <<p, i>> \in objects
    BY <2>1 DEF PackSound
  <2>3. m = MatterOf(p, x)
    BY <2>1, <2>2
  <2> DEFINE docs == Normalise(x)
             n == Len(docs)
  <2>4. n \in Nat /\ DOMAIN docs = 1..n
    BY NormaliseIs
  <2>5. Cardinality(mine) = n
    <3>1. Cardinality({Ingested(p, x, i) : i \in DOMAIN docs}) = Cardinality(DOMAIN docs)
      BY RowsCounted
    <3>2. Cardinality(mine) = Cardinality(1..n)
      BY <2>2, <2>4, <3>1
    <3> HIDE DEF mine, n, docs
    <3>3. Cardinality(1..n) = n
      BY <2>4, FS_Interval
    <3> QED BY <3>2, <3>3
  <2>6. ASSUME NEW o \in DOMAIN m.counts
        PROVE  m.counts[o] = Cardinality({r \in mine : r.doc.grade.origin = o})
    <3> DEFINE I == {i \in DOMAIN docs : docs[i].grade.origin = o}
    <3>1. m.counts[o] = Cardinality(I)
      BY <2>3, <2>6 DEF MatterOf, Counts
    <3>2. {r \in mine : r.doc.grade.origin = o} = {Ingested(p, x, i) : i \in I}
      <4>1. \A i \in DOMAIN docs : Ingested(p, x, i).doc = docs[i]
        BY DEF Ingested
      <4> HIDE DEF mine, docs
      <4> QED BY <2>2, <4>1 DEF docs
    <3>3. Cardinality({Ingested(p, x, i) : i \in I}) = Cardinality(I)
      <4>1. I \in SUBSET (DOMAIN Normalise(x))
        OBVIOUS
      <4> HIDE DEF I
      <4> QED BY <4>1, RowsCounted
    <3> QED BY <3>1, <3>2, <3>3
  <2>7. \A r \in mine : <<r.pack, r.number>> \in objects
    <3>1. ASSUME NEW r \in mine PROVE <<r.pack, r.number>> \in objects
      <4>1. PICK i \in DOMAIN docs : r = Ingested(p, x, i)
        BY <2>2, <3>1
      <4>2. r.pack = p /\ r.number = i
        BY <4>1 DEF Ingested
      <4>3. i \in 0..Len(Normalise(x))
        BY <2>4, <4>1
      <4> QED BY <2>2, <4>2, <4>3
    <3> QED BY <3>1
  <2>8. <<p, 0>> \in objects /\ m.documents = n
    BY <2>2, <2>3, <2>4 DEF MatterOf
  <2> QED BY <2>1, <2>5, <2>6, <2>7, <2>8
<1> QED BY <1>1, PackStarts, PackStep, PTL DEF PackSpec

-----------------------------------------------------------------------------
(* The module registry.                                                    *)
(*                                                                         *)
(* A manifest is covered when the ceremonies of its module that reached    *)
(* ENABLED showed everything it asks for.  Reviews only add to what covers *)
(* a manifest, and a manifest that asks for no more than a covered one is  *)
(* covered: an update, whose comparison may be stale by the time it is     *)
(* written, was made with a covered manifest all the same.                 *)

Accepted == {m \in Posted : m.schemaOk}

CoveredBy(m, R) ==
    LET seen == {k \in R : k.id = m.id}
    IN  seen # {} /\ DetectExpansion(Union(seen), Raw(m)) = {}

Rows == [version : {m.version : m \in Accepted}, manifest : Accepted,
         sig : {SignatureStatus(m) : m \in Accepted}, enabled : BOOLEAN]

IsCeremony(k) == k = [state |-> k.state, manifest |-> k.manifest, fast |-> k.fast,
                      persisted |-> k.persisted]
IsTxn(t) == t = [op |-> t.op, at |-> t.at, row |-> t.row, ceremony |-> t.ceremony,
                 manifest |-> t.manifest, locked |-> t.locked, keys |-> t.keys,
                 add |-> t.add, del |-> t.del]

\* What a transaction may write at its commit.
TxnSound(t) ==
    /\ IsTxn(t)
    /\ t.at = "select" => t.op = "advance" /\ t.locked = {}
    /\ t.op = "advance" =>
          /\ t.at \in {"select", "flush"} \/ t.keys # {} \/ t.locked # {} => t.manifest \in reviewed
          /\ t.row \in {0} \cup DOMAIN installed
          /\ t.locked # {} => t.row # 0 /\ t.keys = {}
    /\ t.op = "update" =>
          /\ t.manifest \in Accepted /\ CoveredBy(t.manifest, reviewed)
          /\ t.row \in DOMAIN installed

CeremoniesSound ==
    /\ ceremonies = [c \in CeremonyIds |-> ceremonies[c]]
    /\ \A c \in CeremonyIds : ceremonies[c] # NoCeremony =>
          IsCeremony(ceremonies[c]) /\ ceremonies[c].manifest \in Accepted

InstalledSound(rows1, R) ==
    rows1 \in Seq(Rows) /\ \A i \in DOMAIN rows1 : CoveredBy(rows1[i].manifest, R)

RegistryInv ==
    /\ started \in Nat
    /\ InstalledSound(installed, reviewed)
    /\ reviewed \subseteq Accepted
    /\ CeremoniesSound
    /\ txn = [a \in Actors |-> txn[a]]
    /\ \A a \in Actors : TxnSound(txn[a])

\* What a snapshot of the capabilities C amounts to, in each dimension of the diff.
Level(c) == ModelAccessRank(c.model)
Measures(s, C) ==
    /\ Reads(s) = UNION {c.reads : c \in C}
    /\ Writes(s) = UNION {c.writes : c \in C}
    /\ AllGates(s) = UNION {c.gates : c \in C}
    /\ AllDestinations(s) = UNION {c.dests : c \in C}
    /\ AnyExternalNetwork(s) <=> \E c \in C : c.network
    /\ HighestTier(s) \in 1..5 /\ MaxModelAccess(s) \in 0..3
    /\ (\E c \in C : c.tier = HighestTier(s)) /\ \A c \in C : c.tier <= HighestTier(s)
    /\ (\E c \in C : Level(c) = MaxModelAccess(s)) /\ \A c \in C : Level(c) <= MaxModelAccess(s)

\* Capabilities of accepted manifests.
Proper(C) ==
    /\ C # {}
    /\ \A c \in C : c.model \in {"none", "optional", "delegated", "required"} /\ c.tier \in 1..5

LEMMA NoExpansionIs ==
  ASSUME NEW old, NEW new
  PROVE  DetectExpansion(old, new) = {} <=>
            /\ Reads(new) \subseteq Reads(old) /\ Writes(new) \subseteq Writes(old)
            /\ ~ (HighestTier(new) > HighestTier(old))
            /\ AnyExternalNetwork(new) => AnyExternalNetwork(old)
            /\ AllDestinations(new) \subseteq AllDestinations(old)
            /\ AllGates(new) \subseteq AllGates(old)
            /\ ~ (MaxModelAccess(new) > MaxModelAccess(old))
<1> DEFINE D == DetectExpansion(old, new)
<1>1. /\ "reads" \in D <=> ~ (Reads(new) \subseteq Reads(old))
      /\ "writes" \in D <=> ~ (Writes(new) \subseteq Writes(old))
      /\ "tier" \in D <=> HighestTier(new) > HighestTier(old)
      /\ "network" \in D <=> AnyExternalNetwork(new) /\ ~ AnyExternalNetwork(old)
      /\ "destinations" \in D <=> ~ (AllDestinations(new) \subseteq AllDestinations(old))
      /\ "gates" \in D <=> ~ (AllGates(new) \subseteq AllGates(old))
      /\ "model" \in D <=> MaxModelAccess(new) > MaxModelAccess(old)
  BY DEF DetectExpansion
<1>2. D \subseteq {"reads", "writes", "tier", "network", "destinations", "gates", "model"}
  BY DEF DetectExpansion
<1> HIDE DEF D
<1>3. D = {} <=> /\ "reads" \notin D /\ "writes" \notin D /\ "tier" \notin D
                 /\ "network" \notin D /\ "destinations" \notin D /\ "gates" \notin D
                 /\ "model" \notin D
  BY <1>2
<1> QED BY <1>1, <1>3 DEF D

\* A snapshot of some of the capabilities asks for no more, and asking for no more is
\* transitive.
LEMMA FewerAskLess ==
  ASSUME NEW s, NEW t, NEW C, NEW D, Measures(s, C), Measures(t, D), C \subseteq D
  PROVE  DetectExpansion(t, s) = {}
<1>1. Reads(s) \subseteq Reads(t) /\ Writes(s) \subseteq Writes(t)
  BY DEF Measures
<1>2. AllGates(s) \subseteq AllGates(t) /\ AllDestinations(s) \subseteq AllDestinations(t)
  BY DEF Measures
<1>3. AnyExternalNetwork(s) => AnyExternalNetwork(t)
  BY DEF Measures
<1>4. ~ (HighestTier(s) > HighestTier(t)) /\ ~ (MaxModelAccess(s) > MaxModelAccess(t))
  <2>1. HighestTier(s) <= HighestTier(t) /\ MaxModelAccess(s) <= MaxModelAccess(t)
    BY DEF Measures
  <2>2. /\ HighestTier(s) \in Nat /\ HighestTier(t) \in Nat
        /\ MaxModelAccess(s) \in Nat /\ MaxModelAccess(t) \in Nat
    BY DEF Measures
  <2> QED BY <2>1, <2>2
<1> QED BY <1>1, <1>2, <1>3, <1>4, NoExpansionIs

LEMMA AskingLessChains ==
  ASSUME NEW s, NEW t, NEW u, NEW C, NEW D, NEW E,
         Measures(s, C), Measures(t, D), Measures(u, E),
         DetectExpansion(t, s) = {}, DetectExpansion(u, t) = {}
  PROVE  DetectExpansion(u, s) = {}
<1>1. /\ HighestTier(s) \in Nat /\ HighestTier(t) \in Nat /\ HighestTier(u) \in Nat
      /\ MaxModelAccess(s) \in Nat /\ MaxModelAccess(t) \in Nat /\ MaxModelAccess(u) \in Nat
  BY DEF Measures
<1>2. /\ Reads(s) \subseteq Reads(t) /\ Writes(s) \subseteq Writes(t)
      /\ ~ (HighestTier(s) > HighestTier(t))
      /\ AnyExternalNetwork(s) => AnyExternalNetwork(t)
      /\ AllDestinations(s) \subseteq AllDestinations(t)
      /\ AllGates(s) \subseteq AllGates(t)
      /\ ~ (MaxModelAccess(s) > MaxModelAccess(t))
  BY NoExpansionIs
<1>3. /\ Reads(t) \subseteq Reads(u) /\ Writes(t) \subseteq Writes(u)
      /\ ~ (HighestTier(t) > HighestTier(u))
      /\ AnyExternalNetwork(t) => AnyExternalNetwork(u)
      /\ AllDestinations(t) \subseteq AllDestinations(u)
      /\ AllGates(t) \subseteq AllGates(u)
      /\ ~ (MaxModelAccess(t) > MaxModelAccess(u))
  BY NoExpansionIs
<1>4. ~ (HighestTier(s) > HighestTier(u)) /\ ~ (MaxModelAccess(s) > MaxModelAccess(u))
  BY <1>1, <1>2, <1>3
<1>5. Reads(s) \subseteq Reads(u) /\ Writes(s) \subseteq Writes(u)
  BY <1>2, <1>3
<1>6. AllDestinations(s) \subseteq AllDestinations(u) /\ AllGates(s) \subseteq AllGates(u)
  BY <1>2, <1>3
<1>7. AnyExternalNetwork(s) => AnyExternalNetwork(u)
  BY <1>2, <1>3
<1> QED BY <1>4, <1>5, <1>6, <1>7, NoExpansionIs

\* The greatest tier and the greatest level of some capabilities.
LEMMA TopsExist ==
  ASSUME NEW C, Proper(C)
  PROVE  /\ HighestTierOf(C) \in 1..5
         /\ (\E c \in C : c.tier = HighestTierOf(C)) /\ \A c \in C : c.tier <= HighestTierOf(C)
         /\ Max({Level(c) : c \in C}) \in 0..3
         /\ \E c \in C : Level(c) = Max({Level(c2) : c2 \in C})
         /\ \A c \in C : Level(c) <= Max({Level(c2) : c2 \in C})
<1> DEFINE T == {c.tier : c \in C}
           L == {Level(c) : c \in C}
<1>1. T \in SUBSET (0..5) /\ T # {} /\ T \subseteq 1..5
  BY DEF Proper
<1>2. L \in SUBSET (0..3) /\ L # {}
  BY DEF Proper, Level, ModelAccessRank
<1>3. HighestTierOf(C) = Max(T)
  BY DEF HighestTierOf, Proper
<1> HIDE DEF T, L
<1>4. Max(T) \in T /\ \A i \in T : i <= Max(T)
  BY <1>1, MaxIn
<1>5. Max(L) \in L /\ \A i \in L : i <= Max(L)
  BY <1>2, MaxIn
<1>6. HighestTierOf(C) \in T /\ \A i \in T : i <= HighestTierOf(C)
  BY <1>3, <1>4
<1>7. Max(L) \in 0..3
  BY <1>2, <1>5
<1>8. /\ HighestTierOf(C) \in 1..5 /\ (\E c \in C : c.tier = HighestTierOf(C))
      /\ \A c \in C : c.tier <= HighestTierOf(C)
  BY <1>1, <1>6 DEF T
<1>9. (\E c \in C : Level(c) = Max(L)) /\ \A c \in C : Level(c) <= Max(L)
  <2> DEFINE top == Max(L)
  <2>1. top \in L /\ \A i \in L : i <= top
    BY <1>5
  <2> HIDE DEF top
  <2>2. (\E c \in C : Level(c) = top) /\ \A c \in C : Level(c) <= top
    BY <2>1 DEF L
  <2> QED BY <2>2 DEF top
<1> QED BY <1>7, <1>8, <1>9 DEF L

\* The capabilities of a snapshot are those of C, as far as the diff reads them.
SameAsked(S, C) ==
    /\ \A c \in S : \E d \in C : /\ c.reads = d.reads /\ c.writes = d.writes
                                 /\ c.network = d.network /\ c.tier = d.tier
                                 /\ c.model = d.model
    /\ \A d \in C : \E c \in S : /\ c.reads = d.reads /\ c.writes = d.writes
                                 /\ c.network = d.network /\ c.tier = d.tier
                                 /\ c.model = d.model

LEMMA SnapshotMeasures ==
  ASSUME NEW s, NEW C, Proper(C), SameAsked(s.capabilities, C),
         AllGates(s) = UNION {c.gates : c \in C},
         AllDestinations(s) = UNION {c.dests : c \in C},
         s.tier \in 0..5, s.tier = 0 \/ \E c \in C : c.tier = s.tier
  PROVE  Measures(s, C)
<1> DEFINE S == s.capabilities
<1>1. Proper(S)
  BY DEF Proper, SameAsked
<1>2. /\ HighestTierOf(S) \in 1..5
      /\ (\E c \in S : c.tier = HighestTierOf(S)) /\ \A c \in S : c.tier <= HighestTierOf(S)
      /\ Max({Level(c) : c \in S}) \in 0..3
      /\ \E c \in S : Level(c) = Max({Level(c2) : c2 \in S})
      /\ \A c \in S : Level(c) <= Max({Level(c2) : c2 \in S})
  BY <1>1, TopsExist
<1>3. MaxModelAccess(s) = Max({Level(c) : c \in S})
  BY <1>1 DEF MaxModelAccess, Proper, Level
<1> DEFINE top == Max({Level(c2) : c2 \in S})
           high == HighestTierOf(S)
<1>4. /\ top \in 0..3 /\ (\E c \in S : Level(c) = top) /\ \A c \in S : Level(c) <= top
  BY <1>2
<1>5. (\E c \in C : Level(c) = top) /\ \A c \in C : Level(c) <= top
  <2> HIDE DEF top, S
  <2>1. \A c \in S : \E d \in C : c.model = d.model
    BY DEF SameAsked, S
  <2>2. \A d \in C : \E c \in S : c.model = d.model
    BY DEF SameAsked, S
  <2> QED BY <1>4, <2>1, <2>2 DEF Level
<1>6. /\ high \in 1..5 /\ (\E c \in C : c.tier = high) /\ \A c \in C : c.tier <= high
  <2> HIDE DEF high
  <2>1. /\ high \in 1..5 /\ (\E c \in S : c.tier = high) /\ \A c \in S : c.tier <= high
    BY <1>2 DEF high
  <2> QED BY <2>1 DEF SameAsked
<1>7. HighestTier(s) = high
  <2> DEFINE P == {s.tier, high}
  <2>1. P \in SUBSET (0..5) /\ P # {} /\ high \in P /\ s.tier <= high
    BY <1>6
  <2>2. Max(P) \in P /\ high <= Max(P)
    <3> HIDE DEF P, high
    <3> QED BY <2>1, MaxIn
  <2>3. Max(P) = high
    <3> HIDE DEF high
    <3> DEFINE mx == Max(P)
    <3>1. mx \in P /\ high <= mx /\ high \in Nat /\ s.tier \in Nat
      BY <2>2, <1>6
    <3> HIDE DEF mx
    <3>2. mx = high
      BY <2>1, <3>1
    <3> QED BY <3>2 DEF mx
  <2> QED BY <2>3 DEF HighestTier
<1>8. Reads(s) = UNION {c.reads : c \in C}
  BY DEF Reads, SameAsked
<1>9. Writes(s) = UNION {c.writes : c \in C}
  BY DEF Writes, SameAsked
<1>10. AnyExternalNetwork(s) <=> \E c \in C : c.network
  BY DEF AnyExternalNetwork, SameAsked
<1> HIDE DEF top, high
<1>11. HighestTier(s) \in 1..5 /\ (\E c \in C : c.tier = HighestTier(s)) /\ \A c \in C : c.tier <= HighestTier(s)
  BY <1>6, <1>7
<1>12. MaxModelAccess(s) \in 0..3 /\ (\E c \in C : Level(c) = MaxModelAccess(s))
       /\ \A c \in C : Level(c) <= MaxModelAccess(s)
  BY <1>3, <1>4, <1>5 DEF top
<1> QED BY <1>8, <1>9, <1>10, <1>11, <1>12 DEF Measures

LEMMA AcceptedProper ==
  ASSUME NEW m \in Accepted
  PROVE  Proper(m.capabilities)
  BY RegistryAssumption DEF Accepted, MeetsSchema, Proper

LEMMA RawMeasures ==
  ASSUME NEW m \in Accepted
  PROVE  Measures(Raw(m), m.capabilities)
<1> DEFINE s == Raw(m)
<1>1. s.capabilities = m.capabilities /\ s.gates = {} /\ s.dests = {} /\ s.tier = 0
  BY DEF Raw, NoTier
<1> HIDE DEF s
<1>2. SameAsked(s.capabilities, m.capabilities)
  BY <1>1 DEF SameAsked
<1>3. /\ AllGates(s) = UNION {c.gates : c \in m.capabilities}
      /\ AllDestinations(s) = UNION {c.dests : c \in m.capabilities}
  BY <1>1 DEF AllGates, AllDestinations
<1>4. Measures(s, m.capabilities)
  BY <1>1, <1>2, <1>3, AcceptedProper, SnapshotMeasures
<1> QED BY <1>4 DEF s

\* What the card shows of a manifest.
LEMMA CardShows ==
  ASSUME NEW m \in Accepted
  PROVE  /\ SameAsked(Card(m).capabilities, m.capabilities)
         /\ \A c \in Card(m).capabilities : c.gates = {} /\ c.dests = {}
         /\ Card(m).gates = UNION {c.gates : c \in m.capabilities}
         /\ Card(m).dests = UNION {c.dests : c \in m.capabilities}
         /\ Card(m).tier \in 1..5 /\ \E c \in m.capabilities : c.tier = Card(m).tier
<1> DEFINE S == {Shown(c) : c \in m.capabilities}
<1>1. /\ Card(m).capabilities = S /\ Card(m).tier = HighestTierOf(m.capabilities)
      /\ Card(m).gates = UNION {c.gates : c \in m.capabilities}
      /\ Card(m).dests = UNION {c.dests : c \in m.capabilities}
  BY DEF Card
<1>2. \A d \in m.capabilities :
         /\ Shown(d) \in S /\ Shown(d).reads = d.reads /\ Shown(d).writes = d.writes
         /\ Shown(d).network = d.network /\ Shown(d).tier = d.tier
         /\ Shown(d).model = d.model /\ Shown(d).gates = {} /\ Shown(d).dests = {}
  BY DEF Shown
<1>3. \A c \in S : \E d \in m.capabilities : c = Shown(d)
  OBVIOUS
<1> HIDE DEF S
<1>4. SameAsked(S, m.capabilities)
  BY <1>2, <1>3 DEF SameAsked
<1>5. \A c \in S : c.gates = {} /\ c.dests = {}
  BY <1>2, <1>3
<1>6. /\ HighestTierOf(m.capabilities) \in 1..5
      /\ \E c \in m.capabilities : c.tier = HighestTierOf(m.capabilities)
  BY AcceptedProper, TopsExist
<1> QED BY <1>1, <1>4, <1>5, <1>6

LEMMA CardMeasures ==
  ASSUME NEW m \in Accepted
  PROVE  Measures(Card(m), m.capabilities)
<1> DEFINE s == Card(m)
<1>1. /\ SameAsked(s.capabilities, m.capabilities)
      /\ \A c \in s.capabilities : c.gates = {} /\ c.dests = {}
      /\ s.gates = UNION {c.gates : c \in m.capabilities}
      /\ s.dests = UNION {c.dests : c \in m.capabilities}
      /\ s.tier \in 1..5 /\ \E c \in m.capabilities : c.tier = s.tier
  BY CardShows
<1> HIDE DEF s
<1>2. AllGates(s) = UNION {c.gates : c \in m.capabilities}
  BY <1>1 DEF AllGates
<1>3. AllDestinations(s) = UNION {c.dests : c \in m.capabilities}
  BY <1>1 DEF AllDestinations
<1>4. Measures(s, m.capabilities)
  BY <1>1, <1>2, <1>3, AcceptedProper, SnapshotMeasures
<1> QED BY <1>4 DEF s

Asked(ms) == UNION {m.capabilities : m \in ms}

LEMMA UnionMeasures ==
  ASSUME NEW ms \in SUBSET Accepted, ms # {}
  PROVE  Measures(Union(ms), Asked(ms))
<1> DEFINE s == Union(ms)
           C == Asked(ms)
<1>1. /\ s.capabilities = UNION {Card(m).capabilities : m \in ms}
      /\ s.gates = UNION {Card(m).gates : m \in ms}
      /\ s.dests = UNION {Card(m).dests : m \in ms}
      /\ s.tier = Max({Card(m).tier : m \in ms})
  BY DEF Union
<1> HIDE DEF s
<1>2. Proper(C)
  BY AcceptedProper DEF Proper, Asked
<1>3. SameAsked(s.capabilities, C)
  <2>1. \A m \in ms : SameAsked(Card(m).capabilities, m.capabilities)
    BY CardShows
  <2>2. \A m \in ms : Card(m).capabilities \subseteq s.capabilities /\ m.capabilities \subseteq C
    BY <1>1 DEF Asked
  <2>3. \A c \in s.capabilities : \E m \in ms : c \in Card(m).capabilities
    BY <1>1
  <2>4. \A c \in C : \E m \in ms : c \in m.capabilities
    BY DEF Asked
  <2> HIDE DEF C
  <2> QED BY <2>1, <2>2, <2>3, <2>4 DEF SameAsked
<1>4. AllGates(s) = UNION {c.gates : c \in C}
  <2>1. \A c \in s.capabilities : c.gates = {}
    BY <1>1, CardShows
  <2>2. \A m \in ms : Card(m).gates = UNION {c.gates : c \in m.capabilities}
    BY CardShows
  <2>3. s.gates = UNION {c.gates : c \in C}
    BY <1>1, <2>2 DEF Asked
  <2> HIDE DEF C
  <2> QED BY <2>1, <2>3 DEF AllGates
<1>5. AllDestinations(s) = UNION {c.dests : c \in C}
  <2>1. \A c \in s.capabilities : c.dests = {}
    BY <1>1, CardShows
  <2>2. \A m \in ms : Card(m).dests = UNION {c.dests : c \in m.capabilities}
    BY CardShows
  <2>3. s.dests = UNION {c.dests : c \in C}
    BY <1>1, <2>2 DEF Asked
  <2> HIDE DEF C
  <2> QED BY <2>1, <2>3 DEF AllDestinations
<1>6. s.tier \in 0..5 /\ \E c \in C : c.tier = s.tier
  <2> DEFINE T == {Card(m).tier : m \in ms}
  <2>1. T \in SUBSET (0..5) /\ T # {}
    BY CardShows
  <2>2. \A t \in T : \E m \in ms : t = Card(m).tier
    OBVIOUS
  <2>3. s.tier = Max(T)
    BY <1>1
  <2> HIDE DEF T
  <2>4. s.tier \in T
    BY <2>1, <2>3, MaxIn
  <2>5. PICK m \in ms : s.tier = Card(m).tier
    BY <2>2, <2>4
  <2>6. PICK c \in m.capabilities : c.tier = s.tier
    BY <2>5, CardShows
  <2>7. c \in C
    BY <2>6 DEF Asked
  <2> QED BY <2>1, <2>4, <2>6, <2>7
<1> HIDE DEF C
<1>7. Measures(s, C)
  BY <1>2, <1>3, <1>4, <1>5, <1>6, SnapshotMeasures
<1> QED BY <1>7 DEF s, C

\* Reviews only add to what covers a manifest.
LEMMA CoverGrows ==
  ASSUME NEW m \in Accepted, NEW R \in SUBSET Accepted, NEW R2 \in SUBSET Accepted,
         R \subseteq R2, CoveredBy(m, R)
  PROVE  CoveredBy(m, R2)
<1> DEFINE old == {k \in R : k.id = m.id}
           new == {k \in R2 : k.id = m.id}
<1>1. /\ old # {} /\ new # {} /\ old \in SUBSET Accepted /\ new \in SUBSET Accepted
      /\ DetectExpansion(Union(old), Raw(m)) = {} /\ old \subseteq new
  BY DEF CoveredBy
<1> HIDE DEF old, new
<1>2. Asked(old) \subseteq Asked(new)
  BY <1>1 DEF Asked
<1>3. /\ Measures(Union(old), Asked(old)) /\ Measures(Union(new), Asked(new))
      /\ Measures(Raw(m), m.capabilities)
  BY <1>1, UnionMeasures, RawMeasures
<1>4. DetectExpansion(Union(new), Union(old)) = {}
  BY <1>2, <1>3, FewerAskLess
<1>5. DetectExpansion(Union(new), Raw(m)) = {}
  BY <1>1, <1>3, <1>4, AskingLessChains
<1> QED BY <1>1, <1>5 DEF CoveredBy, new

\* A reviewed manifest is covered.
LEMMA CoverSelf ==
  ASSUME NEW R \in SUBSET Accepted, NEW m \in R
  PROVE  CoveredBy(m, R)
<1> DEFINE seen == {k \in R : k.id = m.id}
<1>1. seen # {} /\ seen \in SUBSET Accepted /\ m \in seen /\ m \in Accepted
  OBVIOUS
<1> HIDE DEF seen
<1>2. m.capabilities \subseteq Asked(seen)
  BY <1>1 DEF Asked
<1>3. Measures(Union(seen), Asked(seen)) /\ Measures(Raw(m), m.capabilities)
  BY <1>1, UnionMeasures, RawMeasures
<1>4. DetectExpansion(Union(seen), Raw(m)) = {}
  BY <1>2, <1>3, FewerAskLess
<1> QED BY <1>1, <1>4 DEF CoveredBy, seen

\* So is one that needs no ceremony where a covered one is installed.
LEMMA CoverUpdate ==
  ASSUME NEW R \in SUBSET Accepted, NEW k \in Accepted, NEW m \in Accepted, m.id = k.id,
         CoveredBy(k, R), ~ RequiresReprompt(Card(k), Raw(m))
  PROVE  CoveredBy(m, R)
<1> DEFINE seen == {j \in R : j.id = m.id}
<1>1. /\ seen # {} /\ seen \in SUBSET Accepted /\ DetectExpansion(Union(seen), Raw(k)) = {}
      /\ DetectExpansion(Card(k), Raw(m)) = {}
  BY DEF CoveredBy, RequiresReprompt
<1> HIDE DEF seen
<1>2. /\ Measures(Union(seen), Asked(seen)) /\ Measures(Raw(m), m.capabilities)
      /\ Measures(Raw(k), k.capabilities) /\ Measures(Card(k), k.capabilities)
  BY <1>1, UnionMeasures, RawMeasures, CardMeasures
<1>3. DetectExpansion(Raw(k), Card(k)) = {}
  BY <1>2, FewerAskLess
<1>4. DetectExpansion(Raw(k), Raw(m)) = {}
  BY <1>1, <1>2, <1>3, AskingLessChains
<1>5. DetectExpansion(Union(seen), Raw(m)) = {}
  BY <1>1, <1>2, <1>4, AskingLessChains
<1> QED BY <1>1, <1>5 DEF CoveredBy, seen

\* What a transaction was sound for stays.
LEMMA TxnStays ==
  ASSUME RegistryInv, NEW b \in Actors, reviewed \subseteq reviewed', reviewed' \subseteq Accepted,
         DOMAIN installed \subseteq DOMAIN installed', txn'[b] = txn[b]
  PROVE  TxnSound(txn[b])'
<1>1. PICK t : t = txn[b] /\ TxnSound(t)
  BY DEF RegistryInv
<1>2. reviewed \in SUBSET Accepted /\ reviewed' \in SUBSET Accepted
  BY DEF RegistryInv
<1>3. t.op = "update" => CoveredBy(t.manifest, reviewed')
  BY <1>1, <1>2, CoverGrows DEF TxnSound
<1>4. TxnSound(t)'
  BY <1>1, <1>2, <1>3 DEF TxnSound
<1> QED BY <1>1, <1>4

\* A step of the request of one actor.
LEMMA RequestKeeps ==
  ASSUME RegistryInv, NEW a \in Actors, NEW t, txn' = [txn EXCEPT ![a] = t],
         reviewed \subseteq reviewed', reviewed' \subseteq Accepted,
         DOMAIN installed \subseteq DOMAIN installed',
         installed' = installed \/ InstalledSound(installed', reviewed'),
         CeremoniesSound', TxnSound(t)', started' \in Nat
  PROVE  RegistryInv'
<1>1. DOMAIN txn = Actors /\ txn' = [b \in Actors |-> txn'[b]]
  BY DEF RegistryInv
<1>2. txn'[a] = t /\ \A b \in Actors \ {a} : txn'[b] = txn[b]
  BY <1>1
<1>3. \A b \in Actors : TxnSound(txn[b])'
  BY <1>2, TxnStays
<1>4. InstalledSound(installed', reviewed')
  <2>1. CASE installed' = installed
    <3>1. reviewed \in SUBSET Accepted /\ reviewed' \in SUBSET Accepted
      BY DEF RegistryInv
    <3>2. ASSUME NEW i \in DOMAIN installed PROVE installed[i].manifest \in Accepted
      <4>1. installed \in Seq(Rows)
        BY DEF RegistryInv, InstalledSound
      <4>2. installed[i] \in Rows
        BY <4>1
      <4> QED BY <4>2 DEF Rows
    <3> QED BY <2>1, <3>1, <3>2, CoverGrows DEF RegistryInv, InstalledSound
  <2> QED BY <2>1
<1> QED BY <1>1, <1>3, <1>4 DEF RegistryInv

\* An installed row that is written anew is covered when its manifest is.
LEMMA RowsStay ==
  ASSUME RegistryInv, NEW i \in DOMAIN installed
  PROVE  /\ installed[i] \in Rows /\ installed[i].manifest \in Accepted
         /\ CoveredBy(installed[i].manifest, reviewed)
<1>1. installed \in Seq(Rows)
  BY DEF RegistryInv, InstalledSound
<1>2. installed[i] \in Rows
  BY <1>1
<1>3. CoveredBy(installed[i].manifest, reviewed)
  BY DEF RegistryInv, InstalledSound
<1> QED BY <1>2, <1>3 DEF Rows

\* The newest row of a module that has one.
LEMMA NewestIs ==
  ASSUME RegistryInv, NEW module, RowsOf(module) # {}
  PROVE  Newest(module) \in DOMAIN installed
         /\ installed[Newest(module)].manifest.id = module
<1>1. installed \in Seq(Rows)
  BY DEF RegistryInv, InstalledSound
<1>2. PICK n \in Nat : n = Len(installed) /\ DOMAIN installed = 1..n
  BY <1>1
<1>3. RowsOf(module) \in SUBSET (0..n)
  BY <1>2 DEF RowsOf
<1>4. Max(RowsOf(module)) \in RowsOf(module)
  <2> DEFINE S == RowsOf(module)
  <2>1. S \in SUBSET (0..n) /\ S # {}
    BY <1>3
  <2> HIDE DEF S
  <2>2. Max(S) \in S
    BY <2>1, MaxIn
  <2> QED BY <2>2 DEF S
<1>5. Newest(module) \in RowsOf(module)
  BY <1>4 DEF Newest
<1> QED BY <1>5 DEF RowsOf

\* A request that writes no installed row.
LEMMA PlainKeeps ==
  ASSUME RegistryInv, NEW a \in Actors, NEW t, txn' = [txn EXCEPT ![a] = t],
         IsTxn(t), t.op \notin {"advance", "update"}, t.at # "select",
         UNCHANGED <<installed, reviewed>>, CeremoniesSound', started' \in Nat
  PROVE  RegistryInv'
<1>1. TxnSound(t)'
  BY DEF TxnSound
<1>2. reviewed \subseteq reviewed' /\ reviewed' \subseteq Accepted
  BY DEF RegistryInv
<1> QED BY <1>1, <1>2, RequestKeeps

LEMMA IdleSound ==
  /\ IsTxn(Idle) /\ Idle.op = "idle" /\ Idle.at = "start"
  BY DEF IsTxn, Idle

LEMMA StartedSound ==
  ASSUME RegistryInv, NEW m \in Accepted, started + 1 \in CeremonyIds,
         ceremonies' = [ceremonies EXCEPT ![started + 1] = StartedCeremony(m)]
  PROVE  CeremoniesSound'
<1>1. CeremoniesSound
  BY DEF RegistryInv
<1>2. PICK k : k = StartedCeremony(m) /\ IsCeremony(k) /\ k.manifest = m
  BY DEF StartedCeremony, IsCeremony
<1> QED BY <1>1, <1>2 DEF CeremoniesSound

\* What is admissible is accepted.
LEMMA AdmissibleAccepted ==
  ASSUME NEW m \in Posted, NEW i, Admissible(m, i)
  PROVE  m \in Accepted
  BY DEF Admissible, Valid, Accepted

LEMMA CeremonyStarts ==
  ASSUME RegistryInv, NEW a \in Actors, NEW m \in Accepted, NEW op \in {"start", "reprompt"},
         StartCeremony(a, m, op), UNCHANGED <<installed, reviewed>>
  PROVE  RegistryInv'
<1>1. PICK t : t = [Idle EXCEPT !.op = op, !.at = "commit"]
  OBVIOUS
<1>2. txn' = [txn EXCEPT ![a] = t] /\ IsTxn(t) /\ t.op = op /\ t.at = "commit"
  BY <1>1 DEF StartCeremony, Begin, IsTxn, Idle
<1>3. started + 1 \in CeremonyIds
  BY RegistryAssumption DEF StartCeremony, CeremonyIds, RegistryInv
<1>4. CeremoniesSound'
  BY <1>3, StartedSound DEF StartCeremony
<1>5. started' \in Nat
  BY DEF StartCeremony, RegistryInv
<1> QED BY <1>2, <1>4, <1>5, PlainKeeps

LEMMA StartInstallKeeps ==
  ASSUME RegistryInv, NEW a \in Actors, StartInstall(a)
  PROVE  RegistryInv'
<1>1. PICK m \in Manifests \cup {EntryManifest(e) : e \in Catalogue} :
         Admissible(m, InstalledPairs) /\ StartCeremony(a, m, "start")
  BY DEF StartInstall
<1>2. m \in Accepted
  BY <1>1, AdmissibleAccepted DEF Posted
<1>3. UNCHANGED <<installed, reviewed>>
  BY DEF StartInstall
<1> QED BY <1>1, <1>2, <1>3, CeremonyStarts

\* A ceremony that moves: only one that reaches ENABLED lets its request write.
LEMMA AdvanceKeeps ==
  ASSUME RegistryInv, NEW a \in Actors, NEW c \in CeremonyIds, NEW next,
         ceremonies[c] # NoCeremony, Advance(a, c, next), UNCHANGED <<started, installed>>
  PROVE  RegistryInv'
<1>1. PICK now : now = [ceremonies[c] EXCEPT !.state = next]
  OBVIOUS
<1>2. IsCeremony(ceremonies[c]) /\ ceremonies[c].manifest \in Accepted
  BY DEF RegistryInv, CeremoniesSound
<1>3. IsCeremony(now) /\ now.manifest \in Accepted /\ now.state = next
  <2> DEFINE k == ceremonies[c]
  <2>1. PICK k0 : k0 = ceremonies[c] /\ IsCeremony(k0) /\ k0.manifest \in Accepted
    BY <1>2
  <2>2. now = [k0 EXCEPT !.state = next]
    BY <1>1, <2>1
  <2> QED BY <2>1, <2>2 DEF IsCeremony
<1>4. /\ ceremonies' = [ceremonies EXCEPT ![c] = now]
      /\ reviewed' = IF next = "enabled" THEN reviewed \cup {now.manifest} ELSE reviewed
      /\ txn' = [txn EXCEPT ![a] = [Idle EXCEPT !.op = "advance", !.ceremony = c,
                                       !.at = AfterAdvance(now), !.manifest = now.manifest]]
  BY <1>1 DEF Advance, Begin
<1>5. CeremoniesSound'
  <2>1. CeremoniesSound
    BY DEF RegistryInv
  <2> QED BY <1>3, <1>4, <2>1 DEF CeremoniesSound
<1>6. reviewed \subseteq reviewed' /\ reviewed' \subseteq Accepted
  BY <1>3, <1>4 DEF RegistryInv
<1>7. PICK t : t = [Idle EXCEPT !.op = "advance", !.ceremony = c, !.at = AfterAdvance(now),
                                !.manifest = now.manifest]
  OBVIOUS
<1>8. /\ IsTxn(t) /\ t.op = "advance" /\ t.at = AfterAdvance(now) /\ t.manifest = now.manifest
      /\ t.row = 0 /\ t.keys = {} /\ t.locked = {}
  BY <1>7 DEF IsTxn, Idle
<1>9. AfterAdvance(now) = "commit" \/ (AfterAdvance(now) = "select" /\ next = "enabled")
  BY <1>3 DEF AfterAdvance
<1>10. t.at = "select" => t.manifest \in reviewed'
  BY <1>4, <1>8, <1>9
<1>11. TxnSound(t)'
  BY <1>8, <1>9, <1>10 DEF TxnSound
<1>12. started' \in Nat
  BY DEF RegistryInv
<1> QED BY <1>4, <1>5, <1>6, <1>7, <1>11, <1>12, RequestKeeps

LEMMA AdvanceInstallKeeps ==
  ASSUME RegistryInv, NEW a \in Actors, AdvanceInstall(a)
  PROVE  RegistryInv'
<1>1. PICK c \in CeremonyIds : ceremonies[c] # NoCeremony /\ \E next : Advance(a, c, next)
  BY DEF AdvanceInstall
<1>2. UNCHANGED <<started, installed>>
  BY DEF AdvanceInstall
<1> QED BY <1>1, <1>2, AdvanceKeeps

LEMMA SelectKeeps ==
  ASSUME RegistryInv, NEW a \in Actors, SelectExisting(a)
  PROVE  RegistryInv'
<1>1. PICK t0 : t0 = txn[a] /\ TxnSound(t0)
  BY DEF RegistryInv
<1>2. PICK r : r = IF RowFor(t0.manifest) = {} THEN 0 ELSE Max(RowFor(t0.manifest))
  OBVIOUS
<1>3. r \in {0} \cup DOMAIN installed
  <2> DEFINE S == RowFor(t0.manifest)
  <2>1. installed \in Seq(Rows)
    BY DEF RegistryInv, InstalledSound
  <2>2. PICK n \in Nat : n = Len(installed) /\ DOMAIN installed = 1..n
    BY <2>1
  <2>3. S \in SUBSET (1..n)
    BY <2>2 DEF RowFor, RowsOf
  <2> HIDE DEF S
  <2>4. S # {} => Max(S) \in S
    <3>1. S \in SUBSET (0..n)
      BY <2>3
    <3> QED BY <3>1, MaxIn
  <2>5. r = IF S = {} THEN 0 ELSE Max(S)
    BY <1>2 DEF S
  <2> QED BY <2>2, <2>3, <2>4, <2>5
<1>4. PICK t : t = [t0 EXCEPT !.row = r, !.at = "flush"]
  OBVIOUS
<1>5. txn' = [txn EXCEPT ![a] = t]
  <2>1. txn' = [txn EXCEPT ![a].row = r, ![a].at = "flush"]
    BY <1>1, <1>2 DEF SelectExisting
  <2>2. txn = [b \in Actors |-> txn[b]]
    BY DEF RegistryInv
  <2> QED BY <1>1, <1>4, <2>1, <2>2
<1>6. /\ IsTxn(t0) /\ t0.at = "select" /\ t0.op = "advance" /\ t0.manifest \in reviewed
      /\ t0.locked = {}
  BY <1>1 DEF SelectExisting, TxnSound
<1>7. IsTxn(t) /\ t.op = "advance" /\ t.at = "flush" /\ t.manifest = t0.manifest /\ t.row = r
      /\ t.locked = t0.locked
  BY <1>4, <1>6 DEF IsTxn
<1>8. UNCHANGED <<started, ceremonies, installed, reviewed>>
  BY DEF SelectExisting
<1>9. TxnSound(t)'
  BY <1>3, <1>6, <1>7, <1>8 DEF TxnSound
<1>10. CeremoniesSound'
  BY <1>8 DEF RegistryInv, CeremoniesSound
<1>11. reviewed \subseteq reviewed' /\ reviewed' \subseteq Accepted /\ started' \in Nat
  BY <1>8 DEF RegistryInv
<1> QED BY <1>5, <1>8, <1>9, <1>10, <1>11, RequestKeeps

\* An update compares with the newest row, and that row is covered.
LEMMA UpdateKeepsRows ==
  ASSUME RegistryInv, NEW a \in Actors, Update(a)
  PROVE  RegistryInv'
<1>1. PICK m \in Updates :
         /\ RowsOf(m.id) # {}
         /\ Admissible(m, InstalledPairs)
         /\ IF RequiresReprompt(Card(installed[Newest(m.id)].manifest), Raw(m))
            THEN StartCeremony(a, m, "reprompt")
            ELSE /\ Begin(a, [Idle EXCEPT !.op = "update", !.at = "flush", !.manifest = m,
                                          !.row = Newest(m.id)])
                 /\ UNCHANGED <<started, ceremonies>>
  BY DEF Update
<1>2. m \in Accepted
  BY <1>1, AdmissibleAccepted DEF Posted
<1>3. UNCHANGED <<installed, reviewed>>
  BY DEF Update
<1>4. CASE StartCeremony(a, m, "reprompt")
  BY <1>2, <1>3, <1>4, CeremonyStarts
<1>5. CASE ~ StartCeremony(a, m, "reprompt")
  <2>1. PICK i : i = Newest(m.id)
    OBVIOUS
  <2>2. i \in DOMAIN installed /\ installed[i].manifest.id = m.id
    BY <1>1, <2>1, NewestIs
  <2>3. PICK k : k = installed[i].manifest /\ k \in Accepted /\ CoveredBy(k, reviewed)
    BY <2>2, RowsStay
  <2>4. ~ RequiresReprompt(Card(k), Raw(m)) /\ k.id = m.id
    BY <1>1, <1>5, <2>1, <2>2, <2>3
  <2>5. reviewed \in SUBSET Accepted
    BY DEF RegistryInv
  <2>6. CoveredBy(m, reviewed)
    BY <1>2, <2>3, <2>4, <2>5, CoverUpdate
  <2>7. PICK t : t = [Idle EXCEPT !.op = "update", !.at = "flush", !.manifest = m, !.row = i]
    OBVIOUS
  <2>8. txn' = [txn EXCEPT ![a] = t] /\ UNCHANGED <<started, ceremonies>>
    BY <1>1, <1>5, <2>1, <2>7 DEF Begin
  <2>9. IsTxn(t) /\ t.op = "update" /\ t.at = "flush" /\ t.manifest = m /\ t.row = i
    BY <2>7 DEF IsTxn, Idle
  <2>10. CoveredBy(m, reviewed)'
    <3>1. CoveredBy(m, reviewed')
      BY <1>3, <2>6
    <3> QED BY <3>1
  <2>11. TxnSound(t)'
    BY <1>2, <1>3, <2>2, <2>9, <2>10 DEF TxnSound
  <2>12. CeremoniesSound' /\ started' \in Nat
    BY <2>8 DEF RegistryInv, CeremoniesSound
  <2>13. reviewed \subseteq reviewed' /\ reviewed' \subseteq Accepted
    BY <1>3, <2>5
  <2> QED BY <1>3, <2>8, <2>11, <2>12, <2>13, RequestKeeps
<1> QED BY <1>4, <1>5

LEMMA OtherRequests ==
  ASSUME RegistryInv, NEW a \in Actors,
         Revoke(a) \/ CreateGrants(a) \/ RevokeGrant(a) \/ FlushFails(a) \/ CommitFails(a)
  PROVE  RegistryInv'
<1>1. UNCHANGED <<started, ceremonies, installed, reviewed>>
  BY DEF Revoke, CreateGrants, RevokeGrant, FlushFails, CommitFails
<1>2. PICK t : /\ txn' = [txn EXCEPT ![a] = t] /\ IsTxn(t)
               /\ t.op \notin {"advance", "update"} /\ t.at # "select"
  <2>1. CASE Revoke(a)
    <3>1. PICK module : txn' = [txn EXCEPT ![a] =
                [Idle EXCEPT !.op = "revoke", !.at = "flush", !.manifest.id = module,
                             !.row = Len(installed)]]
      BY <2>1 DEF Revoke, Begin
    <3>2. PICK t : t = [Idle EXCEPT !.op = "revoke", !.at = "flush", !.manifest.id = module,
                             !.row = Len(installed)]
      OBVIOUS
    <3>3. IsTxn(t) /\ t.op = "revoke" /\ t.at = "flush"
      BY <3>2 DEF IsTxn, Idle
    <3> QED BY <3>1, <3>2, <3>3
  <2>2. CASE CreateGrants(a)
    <3>1. PICK new : txn' = [txn EXCEPT ![a] =
                [Idle EXCEPT !.op = "grant", !.at = "flush", !.add = new]]
      BY <2>2 DEF CreateGrants, Begin
    <3>2. PICK t : t = [Idle EXCEPT !.op = "grant", !.at = "flush", !.add = new]
      OBVIOUS
    <3>3. IsTxn(t) /\ t.op = "grant" /\ t.at = "flush"
      BY <3>2 DEF IsTxn, Idle
    <3> QED BY <3>1, <3>2, <3>3
  <2>3. CASE RevokeGrant(a)
    <3>1. PICK g : txn' = [txn EXCEPT ![a] =
                [Idle EXCEPT !.op = "ungrant", !.at = "flush", !.del = {g}]]
      BY <2>3 DEF RevokeGrant, Begin
    <3>2. PICK t : t = [Idle EXCEPT !.op = "ungrant", !.at = "flush", !.del = {g}]
      OBVIOUS
    <3>3. IsTxn(t) /\ t.op = "ungrant" /\ t.at = "flush"
      BY <3>2 DEF IsTxn, Idle
    <3> QED BY <3>1, <3>2, <3>3
  <2>4. CASE FlushFails(a) \/ CommitFails(a)
    BY <2>4, IdleSound DEF FlushFails, CommitFails
  <2> QED BY <2>1, <2>2, <2>3, <2>4
<1>3. CeremoniesSound' /\ started' \in Nat
  BY <1>1 DEF RegistryInv, CeremoniesSound
<1> QED BY <1>1, <1>2, <1>3, PlainKeeps

\* The flush locks the row an admission refreshes, or takes the key of a new one.
LEMMA FlushKeeps ==
  ASSUME RegistryInv, NEW a \in Actors, Flush(a)
  PROVE  RegistryInv'
<1>1. PICK t0 : t0 = txn[a] /\ TxnSound(t0)
  BY DEF RegistryInv
<1>2. PICK locks : locks = Locks(a)
  OBVIOUS
<1>3. t0.op = "advance" /\ locks # {} => t0.row # 0 /\ NewKey(a) = {}
  BY <1>1, <1>2 DEF Locks, NewKey
<1>4. PICK keys, gone : keys = NewKey(a) /\ txn' = [txn EXCEPT ![a] = [t0 EXCEPT !.at = "commit", !.locked = locks,
                                                     !.keys = keys, !.del = gone]]
  BY <1>1, <1>2 DEF Flush
<1>5. PICK t : t = [t0 EXCEPT !.at = "commit", !.locked = locks, !.keys = keys, !.del = gone]
  OBVIOUS
<1>6. /\ t0.at = "flush"
      /\ ceremonies' = IF t0.op = "advance" /\ ceremonies[t0.ceremony] # NoCeremony
                       THEN [ceremonies EXCEPT ![t0.ceremony].persisted = TRUE] ELSE ceremonies
      /\ UNCHANGED <<started, installed, reviewed>>
  BY <1>1 DEF Flush
<1>7. IsTxn(t0)
  BY <1>1 DEF TxnSound
<1>8. /\ IsTxn(t) /\ t.op = t0.op /\ t.at = "commit" /\ t.manifest = t0.manifest /\ t.row = t0.row
      /\ t.locked = locks /\ t.keys = keys
  BY <1>5, <1>7 DEF IsTxn
<1>9. TxnSound(t)'
  <2>1. CASE t0.op = "advance"
    <3>1. t0.manifest \in reviewed /\ t0.row \in {0} \cup DOMAIN installed
      BY <1>1, <1>6, <2>1 DEF TxnSound
    <3> QED BY <1>3, <1>4, <1>6, <1>8, <2>1, <3>1 DEF TxnSound
  <2>2. CASE t0.op = "update"
    <3>1. t0.manifest \in Accepted /\ CoveredBy(t0.manifest, reviewed) /\ t0.row \in DOMAIN installed
      BY <1>1, <2>2 DEF TxnSound
    <3>2. CoveredBy(t.manifest, reviewed)'
      <4>1. CoveredBy(t.manifest, reviewed')
        BY <1>6, <1>8, <3>1
      <4> QED BY <4>1
    <3> QED BY <1>6, <1>8, <2>2, <3>1, <3>2 DEF TxnSound
  <2>3. CASE t0.op \notin {"advance", "update"}
    BY <1>8, <2>3 DEF TxnSound
  <2> QED BY <2>1, <2>2, <2>3
<1>10. CeremoniesSound'
  <2>1. CeremoniesSound
    BY DEF RegistryInv
  <2>2. CASE ceremonies' = ceremonies
    BY <2>1, <2>2 DEF CeremoniesSound
  <2>3. CASE ceremonies' # ceremonies
    <3>1. PICK c : c = t0.ceremony /\ ceremonies[c] # NoCeremony
                   /\ ceremonies' = [ceremonies EXCEPT ![c].persisted = TRUE]
      BY <1>6, <2>3
    <3>2. ASSUME NEW x \in CeremonyIds, ceremonies'[x] # NoCeremony
          PROVE  IsCeremony(ceremonies'[x]) /\ ceremonies'[x].manifest \in Accepted
      <4>1. CASE x # c
        BY <2>1, <3>1, <3>2, <4>1 DEF CeremoniesSound
      <4>2. CASE x = c
        <5>1. PICK k : k = ceremonies[x] /\ IsCeremony(k) /\ k.manifest \in Accepted
          BY <2>1, <3>1, <4>2 DEF CeremoniesSound
        <5>2. ceremonies'[x] = [k EXCEPT !.persisted = TRUE]
          BY <2>1, <3>1, <4>2, <5>1 DEF CeremoniesSound
        <5> QED BY <5>1, <5>2 DEF IsCeremony
      <4> QED BY <4>1, <4>2
    <3>3. ceremonies' = [x \in CeremonyIds |-> ceremonies'[x]]
      BY <2>1, <3>1 DEF CeremoniesSound
    <3> QED BY <3>2, <3>3 DEF CeremoniesSound
  <2> QED BY <2>2, <2>3
<1>11. reviewed \subseteq reviewed' /\ reviewed' \subseteq Accepted /\ started' \in Nat
  BY <1>6 DEF RegistryInv
<1> QED BY <1>4, <1>5, <1>6, <1>9, <1>10, <1>11, RequestKeeps

\* One row of the table written anew, with a manifest that is covered.
LEMMA RowWritten ==
  ASSUME RegistryInv, NEW i \in DOMAIN installed, NEW row \in Rows,
         CoveredBy(row.manifest, reviewed)
  PROVE  InstalledSound([installed EXCEPT ![i] = row], reviewed)
<1>1. installed \in Seq(Rows) /\ \A j \in DOMAIN installed : CoveredBy(installed[j].manifest, reviewed)
  BY DEF RegistryInv, InstalledSound
<1>2. [installed EXCEPT ![i] = row] \in Seq(Rows)
  BY <1>1, ExceptSeq
<1> QED BY <1>1, <1>2 DEF InstalledSound

LEMMA RowsAfterSound ==
  ASSUME RegistryInv, NEW a \in Actors
  PROVE  InstalledSound(RowsAfter(a), reviewed) /\ DOMAIN installed \subseteq DOMAIN RowsAfter(a)
<1>1. PICK t : t = txn[a] /\ TxnSound(t)
  BY DEF RegistryInv
<1>2. /\ installed \in Seq(Rows)
      /\ \A i \in DOMAIN installed : CoveredBy(installed[i].manifest, reviewed)
      /\ reviewed \in SUBSET Accepted
  BY DEF RegistryInv, InstalledSound
<1>3. InstalledSound(installed, reviewed)
  BY <1>2 DEF InstalledSound
<1>4. CASE t.op = "advance" /\ t.keys # {}
  <2>1. PICK row : row = Admitted(t.manifest, t.manifest.version)
    OBVIOUS
  <2>2. t.manifest \in reviewed /\ t.manifest \in Accepted
    BY <1>1, <1>2, <1>4 DEF TxnSound
  <2>3. row \in Rows /\ row.manifest = t.manifest
    BY <2>1, <2>2 DEF Admitted, Rows
  <2>4. CoveredBy(row.manifest, reviewed)
    BY <1>2, <2>2, <2>3, CoverSelf
  <2>5. RowsAfter(a) = Append(installed, row)
    <3>1. t.locked = {}
      BY <1>1, <1>4 DEF TxnSound
    <3> QED BY <1>1, <1>4, <2>1, <3>1 DEF RowsAfter
  <2>6. InstalledSound(Append(installed, row), reviewed)
    BY <1>2, <2>3, <2>4 DEF InstalledSound
  <2> QED BY <1>2, <2>3, <2>5, <2>6
<1>5. CASE t.op = "advance" /\ t.keys = {} /\ t.locked # {}
  <2>1. t.row \in DOMAIN installed /\ t.manifest \in reviewed /\ t.manifest \in Accepted
    BY <1>1, <1>2, <1>5 DEF TxnSound
  <2>2. PICK row : row = Admitted(t.manifest, installed[t.row].version)
    OBVIOUS
  <2>3. installed[t.row].version \in {m.version : m \in Accepted}
    BY <2>1, RowsStay DEF Rows
  <2>4. row \in Rows /\ row.manifest = t.manifest
    BY <2>1, <2>2, <2>3 DEF Admitted, Rows
  <2>5. CoveredBy(row.manifest, reviewed)
    BY <1>2, <2>1, <2>4, CoverSelf
  <2>6. RowsAfter(a) = [installed EXCEPT ![t.row] = row]
    BY <1>1, <1>5, <2>2 DEF RowsAfter
  <2> QED BY <2>1, <2>4, <2>5, <2>6, RowWritten
<1>6. CASE t.op = "update"
  <2>1. t.row \in DOMAIN installed /\ t.manifest \in Accepted /\ CoveredBy(t.manifest, reviewed)
    BY <1>1, <1>6 DEF TxnSound
  <2>2. PICK old : old = installed[t.row] /\ old \in Rows
    BY <2>1, RowsStay
  <2>3. PICK row : row = [old EXCEPT !.manifest = t.manifest, !.version = t.manifest.version]
    OBVIOUS
  <2>4. row \in Rows /\ row.manifest = t.manifest
    BY <2>1, <2>2, <2>3 DEF Rows
  <2>5. RowsAfter(a) = [installed EXCEPT ![t.row] = row]
    <3>1. RowsAfter(a) = [installed EXCEPT ![t.row].manifest = t.manifest,
                                           ![t.row].version = t.manifest.version]
      BY <1>1, <1>6 DEF RowsAfter
    <3> QED BY <1>2, <2>1, <2>2, <2>3, <3>1
  <2> QED BY <2>1, <2>4, <2>5, RowWritten
<1>7. CASE t.op = "revoke"
  <2>1. PICK rows1 : rows1 = [i \in DOMAIN installed |->
                                 IF <<"row", i>> \in t.locked
                                 THEN [installed[i] EXCEPT !.enabled = FALSE]
                                 ELSE installed[i]]
    OBVIOUS
  <2>2. RowsAfter(a) = rows1
    BY <1>1, <1>7, <2>1 DEF RowsAfter
  <2>3. ASSUME NEW i \in DOMAIN installed
        PROVE  rows1[i] \in Rows /\ rows1[i].manifest = installed[i].manifest
    <3>1. installed[i] \in Rows
      BY RowsStay
    <3>2. PICK old : old = installed[i] /\ old \in Rows
      BY <3>1
    <3>3. rows1[i] = [old EXCEPT !.enabled = FALSE] \/ rows1[i] = old
      BY <2>1, <3>2
    <3> QED BY <3>2, <3>3 DEF Rows
  <2>4. PICK n \in Nat : DOMAIN installed = 1..n
    BY <1>2
  <2>5. rows1 \in Seq(Rows) /\ DOMAIN rows1 = DOMAIN installed
    <3>1. DOMAIN rows1 = 1..n
      BY <2>1, <2>4
    <3>2. rows1 = [i \in 1..n |-> rows1[i]]
      BY <2>1, <2>4
    <3>3. \A i \in 1..n : rows1[i] \in Rows
      BY <2>3, <2>4
    <3>4. rows1 \in [1..n -> Rows]
      BY <3>2, <3>3
    <3> QED BY <2>4, <3>1, <3>4, SeqDef
  <2> QED BY <1>2, <2>2, <2>3, <2>5 DEF InstalledSound
<1>8. CASE /\ ~ (t.op = "advance" /\ t.keys # {})
           /\ ~ (t.op = "advance" /\ t.keys = {} /\ t.locked # {})
           /\ t.op \notin {"update", "revoke"}
  <2>1. RowsAfter(a) = installed
    BY <1>1, <1>8 DEF RowsAfter
  <2> QED BY <1>3, <2>1
<1> QED BY <1>4, <1>5, <1>6, <1>7, <1>8

LEMMA CommitKeeps ==
  ASSUME RegistryInv, NEW a \in Actors, CommitTxn(a)
  PROVE  RegistryInv'
<1>1. /\ installed' = RowsAfter(a) /\ txn' = [txn EXCEPT ![a] = Idle]
      /\ UNCHANGED <<started, ceremonies, reviewed>>
  BY DEF CommitTxn
<1>2. InstalledSound(installed', reviewed') /\ DOMAIN installed \subseteq DOMAIN installed'
  BY <1>1, RowsAfterSound
<1>3. TxnSound(Idle)'
  BY IdleSound DEF TxnSound
<1>4. CeremoniesSound' /\ started' \in Nat
  BY <1>1 DEF RegistryInv, CeremoniesSound
<1>5. reviewed \subseteq reviewed' /\ reviewed' \subseteq Accepted
  BY <1>1 DEF RegistryInv
<1> QED BY <1>1, <1>2, <1>3, <1>4, <1>5, RequestKeeps

\* After a restart there is no ceremony and no open transaction.
LEMMA RestartKeeps == RegistryInv /\ Restart => RegistryInv'
<1> SUFFICES ASSUME RegistryInv, Restart PROVE RegistryInv'
  OBVIOUS
<1>1. /\ ceremonies' = [c \in CeremonyIds |-> NoCeremony] /\ txn' = [a \in Actors |-> Idle]
      /\ UNCHANGED <<started, installed, reviewed>>
  BY DEF Restart
<1>2. TxnSound(Idle)'
  BY IdleSound DEF TxnSound
<1>3. \A a \in Actors : TxnSound(txn[a])'
  BY <1>1, <1>2
<1>4. txn' = [a \in Actors |-> txn'[a]] /\ ceremonies' = [c \in CeremonyIds |-> ceremonies'[c]]
      /\ \A c \in CeremonyIds : ceremonies'[c] = NoCeremony
  BY <1>1
<1>5. /\ installed' \in Seq(Rows) /\ reviewed' \subseteq Accepted /\ started' \in Nat
      /\ \A i \in DOMAIN installed' : CoveredBy(installed'[i].manifest, reviewed')
  BY <1>1 DEF RegistryInv, InstalledSound
<1> QED BY <1>3, <1>4, <1>5 DEF RegistryInv, CeremoniesSound, InstalledSound

LEMMA RegistryStarts == RegistryInit => RegistryInv
<1> SUFFICES ASSUME RegistryInit PROVE RegistryInv
  OBVIOUS
<1>1. \A a \in Actors : TxnSound(txn[a])
  BY IdleSound DEF TxnSound, RegistryInit
<1>2. txn = [a \in Actors |-> txn[a]] /\ ceremonies = [c \in CeremonyIds |-> ceremonies[c]]
      /\ \A c \in CeremonyIds : ceremonies[c] = NoCeremony
  BY DEF RegistryInit
<1>3. /\ installed \in Seq(Rows) /\ reviewed \subseteq Accepted /\ started \in Nat
      /\ \A i \in DOMAIN installed : CoveredBy(installed[i].manifest, reviewed)
  BY DEF RegistryInit
<1> QED BY <1>1, <1>2, <1>3 DEF RegistryInv, CeremoniesSound, InstalledSound

LEMMA RegistryStep == RegistryInv /\ [RegistryNext]_registryVars => RegistryInv'
<1> SUFFICES ASSUME RegistryInv, [RegistryNext]_registryVars PROVE RegistryInv'
  OBVIOUS
<1>1. CASE UNCHANGED registryVars
  <2>1. \A a \in Actors : TxnSound(txn[a])'
    BY <1>1 DEF RegistryInv, registryVars, TxnSound
  <2>2. UNCHANGED <<started, ceremonies, installed, txn, reviewed>>
    BY <1>1 DEF registryVars
  <2> QED BY <2>1, <2>2 DEF RegistryInv, CeremoniesSound
<1>2. ASSUME NEW a \in Actors,
             \/ StartInstall(a) \/ AdvanceInstall(a) \/ SelectExisting(a)
             \/ Update(a) \/ Revoke(a) \/ CreateGrants(a) \/ RevokeGrant(a)
             \/ Flush(a) \/ FlushFails(a) \/ CommitTxn(a) \/ CommitFails(a)
      PROVE  RegistryInv'
  BY <1>2, StartInstallKeeps, AdvanceInstallKeeps, SelectKeeps, UpdateKeepsRows, OtherRequests,
     FlushKeeps, CommitKeeps
<1>3. CASE Restart
  BY <1>3, RestartKeeps
<1> QED BY <1>1, <1>2, <1>3 DEF RegistryNext

(***************************************************************************)
(* What is installed was reviewed (persist after ENABLED in the modules    *)
(* API, detect_permission_expansion before an update): every row's         *)
(* manifest asks for nothing that the cards of ceremonies of its module    *)
(* that reached ENABLED did not show, for every set of manifests, every    *)
(* interleaving of requests and every failed commit or restart.            *)
(***************************************************************************)
THEOREM NothingIsUnreviewed == RegistrySpec => []NothingUnreviewed
<1>1. RegistryInv => NothingUnreviewed
  <2> SUFFICES ASSUME RegistryInv, NEW r \in Range(installed)
               PROVE  /\ {m \in reviewed : m.id = r.manifest.id} # {}
                      /\ DetectExpansion(Union({m \in reviewed : m.id = r.manifest.id}),
                                         Raw(r.manifest)) = {}
    BY DEF NothingUnreviewed
  <2>1. PICK i \in DOMAIN installed : r = installed[i]
    BY DEF Range
  <2>2. CoveredBy(r.manifest, reviewed)
    BY <2>1, RowsStay
  <2> QED BY <2>2 DEF CoveredBy
<1> QED BY <1>1, RegistryStarts, RegistryStep, PTL DEF RegistrySpec
-----------------------------------------------------------------------------
(* Contributed state machines.                                             *)
(*                                                                         *)
(* The version of an instance is immutable and a request keeps the edge it *)
(* found, so what it was allowed stays what the definition declares.  The  *)
(* state of the instance is written only with a row of the history.        *)

MachineStates == UNION {s.states : s \in Shapes}
HistoryRow == [by : Callers, from : MachineStates, to : MachineStates,
               status : {"none", "blocked", "failed", "completed"}]

IsCall(q) == q = [at |-> q.at, edge |-> q.edge, version |-> q.version, shape |-> q.shape,
                  status |-> q.status, held |-> q.held, passed |-> q.passed]

Declared(e) == e \in defs[instance.version].edges

\* What a request has found, been granted and passed.
CallSound(q) ==
    /\ IsCall(q)
    /\ q.at = "insert" => q.version \in Versions /\ q.shape \in Shapes /\ ValidShape(q.shape)
    /\ q.at \in {"caps", "gates", "append"} =>
          /\ instance # NoInstance
          /\ q.edge.from \in MachineStates /\ q.edge.to \in MachineStates
          /\ q.status \in {"none", "blocked", "failed", "completed"}
    /\ q.at \in {"caps", "gates"} => Declared(q.edge)
    /\ q.at = "gates" => q.edge.caps \subseteq q.held
    /\ q.at = "append" /\ q.status = "completed" =>
          Declared(q.edge) /\ q.edge.caps \subseteq q.held /\ q.edge.gates \subseteq q.passed

\* A completed transition was declared, and its request had what it asks for.
RowAllowed(row) ==
    /\ call[row.by].at = "done"
    /\ row.status = "completed" =>
          \E e \in defs[instance.version].edges :
              /\ e.from = row.from /\ e.to = row.to
              /\ e.caps \subseteq call[row.by].held /\ e.gates \subseteq call[row.by].passed

\* The instance is where the last move led.
WhereMoved ==
    IF Moves = {} THEN instance.state = defs[instance.version].initial
    ELSE \E i \in Moves : instance.state = history[i].to /\ \A j \in Moves : j <= i

MachineInv ==
    /\ defs = [v \in Versions |-> defs[v]] /\ call = [c \in Callers |-> call[c]]
    /\ \A v \in Versions : defs[v] = NoShape \/ (defs[v] \in Shapes /\ ValidShape(defs[v]))
    /\ history \in Seq(HistoryRow)
    /\ \A c \in Callers : CallSound(call[c])
    /\ \A i \in DOMAIN history : RowAllowed(history[i])
    /\ IF instance = NoInstance THEN history = <<>>
       ELSE /\ instance = [version |-> instance.version, state |-> instance.state,
                           scope |-> instance.scope]
            /\ instance.scope # "none" /\ instance.version \in Versions
            /\ defs[instance.version] # NoShape /\ instance.state \in MachineStates
            /\ WhereMoved

\* A request with other fields.
LEMMA MovedCall ==
  ASSUME NEW q, IsCall(q), NEW a, NEW b
  PROVE  [q EXCEPT !.at = a, !.status = b] =
           [at |-> a, edge |-> q.edge, version |-> q.version, shape |-> q.shape, status |-> b,
            held |-> q.held, passed |-> q.passed]
<1> DEFINE r == [q EXCEPT !.at = a]
<1>1. r = [at |-> a, edge |-> q.edge, version |-> q.version, shape |-> q.shape,
           status |-> q.status, held |-> q.held, passed |-> q.passed]
  BY DEF IsCall
<1> HIDE DEF r
<1>2. [r EXCEPT !.status = b] =
         [at |-> a, edge |-> q.edge, version |-> q.version, shape |-> q.shape, status |-> b,
          held |-> q.held, passed |-> q.passed]
  BY <1>1
<1> QED BY <1>2 DEF r

LEMMA RoutedCall ==
  ASSUME NEW q, IsCall(q), NEW a, NEW b, NEW e
  PROVE  [q EXCEPT !.at = a, !.status = b, !.edge = e] =
           [at |-> a, edge |-> e, version |-> q.version, shape |-> q.shape, status |-> b,
            held |-> q.held, passed |-> q.passed]
<1> DEFINE r == [q EXCEPT !.at = a, !.status = b]
<1>1. r = [at |-> a, edge |-> q.edge, version |-> q.version, shape |-> q.shape, status |-> b,
           held |-> q.held, passed |-> q.passed]
  BY MovedCall
<1> HIDE DEF r
<1>2. [r EXCEPT !.edge = e] =
         [at |-> a, edge |-> e, version |-> q.version, shape |-> q.shape, status |-> b,
          held |-> q.held, passed |-> q.passed]
  BY <1>1
<1> QED BY <1>2 DEF r

LEMMA ShapedCall ==
  ASSUME NEW q, IsCall(q), NEW a, NEW b, NEW e
  PROVE  [q EXCEPT !.at = a, !.version = b, !.shape = e] =
           [at |-> a, edge |-> q.edge, version |-> b, shape |-> e, status |-> q.status,
            held |-> q.held, passed |-> q.passed]
<1> DEFINE r == [q EXCEPT !.at = a]
           t == [r EXCEPT !.version = b]
<1>1. r = [at |-> a, edge |-> q.edge, version |-> q.version, shape |-> q.shape,
           status |-> q.status, held |-> q.held, passed |-> q.passed]
  BY DEF IsCall
<1> HIDE DEF r
<1>2. t = [at |-> a, edge |-> q.edge, version |-> b, shape |-> q.shape,
           status |-> q.status, held |-> q.held, passed |-> q.passed]
  BY <1>1
<1> HIDE DEF t
<1>3. [t EXCEPT !.shape = e] =
         [at |-> a, edge |-> q.edge, version |-> b, shape |-> e, status |-> q.status,
          held |-> q.held, passed |-> q.passed]
  BY <1>2
<1> QED BY <1>3, Zenon DEF r, t

LEMMA MachineStarts == MachineInit => MachineInv
<1> SUFFICES ASSUME MachineInit PROVE MachineInv
  OBVIOUS
<1>1. \A c \in Callers : CallSound(call[c])
  BY DEF MachineInit, Waiting, CallSound, IsCall
<1>2. history \in Seq(HistoryRow) /\ DOMAIN history = {}
  BY DEF MachineInit
<1> QED BY <1>1, <1>2 DEF MachineInit, MachineInv

\* A step of a request that is not finished, which writes no history and no
\* definition.
LEMMA CallMoves ==
  ASSUME MachineInv, NEW c \in Callers, NEW q, call[c].at # "done",
         call' = [call EXCEPT ![c] = q], CallSound(q),
         UNCHANGED <<defs, instance, history>>
  PROVE  MachineInv'
<1>1. call' = [d \in Callers |-> call'[d]] /\ call'[c] = q
      /\ \A d \in Callers \ {c} : call'[d] = call[d]
  BY DEF MachineInv
<1>2. \A d \in Callers : CallSound(call[d])'
  BY <1>1 DEF MachineInv, CallSound, Declared
<1>3. ASSUME NEW i \in DOMAIN history PROVE RowAllowed(history[i])'
  <2>1. history[i].by \in Callers /\ RowAllowed(history[i])
    <3>1. history[i] \in HistoryRow
      BY DEF MachineInv
    <3> QED BY <3>1 DEF MachineInv, HistoryRow
  <2>2. history[i].by # c
    BY <2>1 DEF RowAllowed
  <2> QED BY <1>1, <2>1, <2>2 DEF RowAllowed
<1>4. WhereMoved' <=> WhereMoved
  BY DEF WhereMoved, Moves, Completed
<1> QED BY <1>1, <1>2, <1>3, <1>4 DEF MachineInv

LEMMA RegisterKeeps ==
  ASSUME MachineInv, NEW c \in Callers, RegisterDefinition(c)
  PROVE  MachineInv'
<1>1. PICK v \in Versions, s \in Shapes :
        /\ ValidShape(s)
        /\ call' = [call EXCEPT ![c].at = IF defs[v] = NoShape THEN "insert" ELSE "done",
                                ![c].version = v, ![c].shape = s]
  BY DEF RegisterDefinition
<1> DEFINE q == [call[c] EXCEPT !.at = IF defs[v] = NoShape THEN "insert" ELSE "done",
                                !.version = v, !.shape = s]
<1>2. call' = [call EXCEPT ![c] = q]
  BY <1>1 DEF MachineInv
<1>3. /\ call[c].at = "idle" /\ IsCall(call[c])
      /\ UNCHANGED <<defs, instance, history>>
  BY DEF RegisterDefinition, MachineInv, CallSound
<1>4. /\ IsCall(q) /\ q.at \in {"insert", "done"} /\ q.version = v /\ q.shape = s
      /\ q.status = call[c].status
  <2> DEFINE a == IF defs[v] = NoShape THEN "insert" ELSE "done"
  <2>1. q = [at |-> a, edge |-> call[c].edge, version |-> v, shape |-> s,
             status |-> call[c].status, held |-> call[c].held, passed |-> call[c].passed]
    <3> DEFINE p == call[c]
    <3>1. IsCall(p)
      BY <1>3
    <3> HIDE DEF p, a
    <3>2. [p EXCEPT !.at = a, !.version = v, !.shape = s] =
            [at |-> a, edge |-> p.edge, version |-> v, shape |-> s,
             status |-> p.status, held |-> p.held, passed |-> p.passed]
      BY <3>1, ShapedCall, Zenon
    <3> QED BY <3>2 DEF p, a
  <2> HIDE DEF q
  <2> QED BY <2>1 DEF IsCall
<1> HIDE DEF q
<1>5. CallSound(q)
  BY <1>1, <1>4 DEF CallSound
<1> QED BY <1>2, <1>3, <1>5, CallMoves

\* A version that has a shape keeps it.
LEMMA InsertKeeps ==
  ASSUME MachineInv, NEW c \in Callers, InsertDefinition(c)
  PROVE  MachineInv'
<1> DEFINE v == call[c].version
           q == [call[c] EXCEPT !.at = "done"]
<1>1. /\ call[c].at = "insert" /\ v \in Versions /\ call[c].shape \in Shapes
      /\ ValidShape(call[c].shape) /\ IsCall(call[c])
      /\ call' = [call EXCEPT ![c] = q]
      /\ UNCHANGED <<instance, history>>
  BY DEF InsertDefinition, MachineInv, CallSound
<1>2. /\ defs' = [d \in Versions |-> defs'[d]]
      /\ \A d \in Versions : \/ defs'[d] = defs[d]
                             \/ defs[d] = NoShape /\ defs'[d] = call[c].shape
  BY <1>1 DEF InsertDefinition, MachineInv
<1>3. \A d \in Versions : defs'[d] = NoShape \/ (defs'[d] \in Shapes /\ ValidShape(defs'[d]))
  BY <1>1, <1>2 DEF MachineInv
<1>4. instance # NoInstance => defs'[instance.version] = defs[instance.version]
  BY <1>2 DEF MachineInv
<1>5. call' = [d \in Callers |-> call'[d]] /\ call'[c] = q /\ q.at = "done" /\ IsCall(q)
      /\ \A d \in Callers \ {c} : call'[d] = call[d]
  BY <1>1 DEF MachineInv, IsCall
<1>6. CallSound(q)'
  BY <1>5 DEF CallSound
<1>7. \A d \in Callers : CallSound(call[d])'
  <2> SUFFICES ASSUME NEW d \in Callers \ {c} PROVE CallSound(call[d])'
    BY <1>5, <1>6
  <2>1. call'[d] = call[d] /\ CallSound(call[d])
    BY <1>5 DEF MachineInv
  <2> QED BY <1>1, <1>4, <2>1 DEF CallSound, Declared
<1>8. ASSUME NEW i \in DOMAIN history PROVE RowAllowed(history[i])'
  <2>1. history[i].by \in Callers /\ RowAllowed(history[i]) /\ instance # NoInstance
    <3>1. history[i] \in HistoryRow
      BY DEF MachineInv
    <3>2. history # <<>>
      OBVIOUS
    <3> QED BY <3>1, <3>2 DEF MachineInv, HistoryRow
  <2>2. call'[history[i].by] = call[history[i].by]
    BY <1>1, <1>5, <2>1 DEF RowAllowed
  <2> QED BY <1>1, <1>4, <2>1, <2>2 DEF RowAllowed
<1>9. instance # NoInstance => (WhereMoved' <=> WhereMoved)
  BY <1>1, <1>4 DEF WhereMoved, Moves, Completed
<1> QED BY <1>1, <1>2, <1>3, <1>4, <1>5, <1>7, <1>8, <1>9 DEF MachineInv, ValidShape, NoShape

LEMMA CreateInstanceKeeps ==
  ASSUME MachineInv, CreateInstance
  PROVE  MachineInv'
<1>1. PICK v \in Versions, scope \in {"workspace", "matter"} :
        defs[v] # NoShape /\ instance' = [version |-> v, state |-> defs[v].initial, scope |-> scope]
  BY DEF CreateInstance
<1>2. instance = NoInstance /\ history = <<>> /\ UNCHANGED <<defs, history, call>>
  BY DEF CreateInstance, MachineInv
<1>3. /\ instance'.version = v /\ instance'.state = defs[v].initial /\ instance'.scope = scope
      /\ instance' # NoInstance
  BY <1>1 DEF NoInstance
<1>4. defs[v].initial \in MachineStates
  BY <1>1 DEF MachineInv, ValidShape, MachineStates
<1>5. \A c \in Callers : CallSound(call[c])'
  <2> SUFFICES ASSUME NEW c \in Callers PROVE CallSound(call[c])'
    OBVIOUS
  <2>1. CallSound(call[c]) /\ call[c].at \notin {"caps", "gates", "append"}
    BY <1>2 DEF MachineInv, CallSound
  <2> QED BY <1>2, <2>1 DEF CallSound
<1>6. DOMAIN history = {} /\ Moves' = {}
  BY <1>2 DEF Moves, Completed
<1>7. WhereMoved'
  BY <1>2, <1>3, <1>6 DEF WhereMoved
<1> QED BY <1>1, <1>2, <1>3, <1>4, <1>5, <1>6, <1>7 DEF MachineInv

LEMMA RequestTransitionKeeps ==
  ASSUME MachineInv, NEW c \in Callers, RequestTransition(c)
  PROVE  MachineInv'
<1>1. PICK to \in defs[instance.version].states :
        call' = [call EXCEPT ![c].at = IF Found(instance.state, to) = {} THEN "append" ELSE "caps",
                   ![c].status = IF Found(instance.state, to) = {} THEN "blocked" ELSE "none",
                   ![c].edge = IF Found(instance.state, to) = {}
                               THEN [NoEdge EXCEPT !.from = instance.state, !.to = to]
                               ELSE CHOOSE e \in Found(instance.state, to) : TRUE]
  BY Zenon DEF RequestTransition
<1> DEFINE found == Found(instance.state, to)
           edge == IF found = {} THEN [NoEdge EXCEPT !.from = instance.state, !.to = to]
                   ELSE CHOOSE e \in found : TRUE
           q == [call[c] EXCEPT !.at = IF found = {} THEN "append" ELSE "caps",
                                !.status = IF found = {} THEN "blocked" ELSE "none",
                                !.edge = edge]
<1>2. /\ call[c].at = "idle" /\ instance # NoInstance /\ IsCall(call[c])
      /\ instance.version \in Versions /\ instance.state \in MachineStates
      /\ defs[instance.version] \in Shapes
      /\ UNCHANGED <<defs, instance, history>>
  BY DEF RequestTransition, MachineInv, CallSound
<1>3. to \in MachineStates
  BY <1>2 DEF MachineStates
<1>4. /\ edge.from = instance.state /\ edge.to = to
      /\ found # {} => Declared(edge)
  BY DEF NoEdge, Found, Declared
<1>5. call' = [call EXCEPT ![c] = q]
  BY <1>1 DEF MachineInv
<1> HIDE DEF edge
<1>6. /\ IsCall(q) /\ q.edge = edge
      /\ q.at = (IF found = {} THEN "append" ELSE "caps")
      /\ q.status = (IF found = {} THEN "blocked" ELSE "none")
  <2> DEFINE a == IF found = {} THEN "append" ELSE "caps"
             b == IF found = {} THEN "blocked" ELSE "none"
  <2>1. q = [at |-> a, edge |-> edge, version |-> call[c].version, shape |-> call[c].shape,
             status |-> b, held |-> call[c].held, passed |-> call[c].passed]
    <3> DEFINE p == call[c]
    <3>1. IsCall(p)
      BY <1>2
    <3> HIDE DEF p, a, b
    <3>2. [p EXCEPT !.at = a, !.status = b, !.edge = edge] =
            [at |-> a, edge |-> edge, version |-> p.version, shape |-> p.shape,
             status |-> b, held |-> p.held, passed |-> p.passed]
      BY <3>1, RoutedCall, Zenon
    <3> QED BY <3>2 DEF p, a, b
  <2> HIDE DEF q
  <2> QED BY <2>1 DEF IsCall
<1> HIDE DEF q, found
<1>7. CallSound(q)
  BY <1>2, <1>3, <1>4, <1>6 DEF CallSound
<1> QED BY <1>2, <1>5, <1>7, CallMoves

LEMMA CheckCapabilityKeeps ==
  ASSUME MachineInv, NEW c \in Callers, CheckCapability(c)
  PROVE  MachineInv'
<1>1. /\ call[c].at = "caps" /\ CallSound(call[c]) /\ UNCHANGED <<defs, instance, history>>
  BY DEF CheckCapability, MachineInv
<1>2. \/ call[c].edge.caps \ call[c].held = {} /\ call' = [call EXCEPT ![c].at = "gates"]
      \/ \E cap : call' = [call EXCEPT ![c].held = @ \cup {cap}]
      \/ call' = [call EXCEPT ![c].at = "append", ![c].status = "blocked"]
  BY DEF CheckCapability
<1>3. CASE call[c].edge.caps \ call[c].held = {} /\ call' = [call EXCEPT ![c].at = "gates"]
  <2> DEFINE q == [call[c] EXCEPT !.at = "gates"]
  <2>1. CallSound(q)
    BY <1>1, <1>3 DEF CallSound, IsCall, Declared
  <2>2. call' = [call EXCEPT ![c] = q]
    BY <1>3 DEF MachineInv
  <2> HIDE DEF q
  <2> QED BY <1>1, <2>1, <2>2, CallMoves
<1>4. CASE \E cap : call' = [call EXCEPT ![c].held = @ \cup {cap}]
  <2>1. PICK cap : call' = [call EXCEPT ![c].held = @ \cup {cap}]
    BY <1>4
  <2> DEFINE q == [call[c] EXCEPT !.held = @ \cup {cap}]
  <2>2. CallSound(q)
    BY <1>1 DEF CallSound, IsCall, Declared
  <2>3. call' = [call EXCEPT ![c] = q]
    BY <2>1 DEF MachineInv
  <2> HIDE DEF q
  <2> QED BY <1>1, <2>2, <2>3, CallMoves
<1>5. CASE call' = [call EXCEPT ![c].at = "append", ![c].status = "blocked"]
  <2> DEFINE q == [call[c] EXCEPT !.at = "append", !.status = "blocked"]
  <2>3. /\ IsCall(q) /\ q.edge = call[c].edge /\ q.at = "append" /\ q.status = "blocked"
    <3>1. q = [at |-> "append", edge |-> call[c].edge, version |-> call[c].version,
               shape |-> call[c].shape, status |-> "blocked", held |-> call[c].held,
               passed |-> call[c].passed]
      BY <1>1, MovedCall, Zenon DEF CallSound
    <3> HIDE DEF q
    <3> QED BY <3>1 DEF IsCall
  <2>1. CallSound(q)
    <3> HIDE DEF q
    <3> QED BY <1>1, <2>3 DEF CallSound
  <2>2. call' = [call EXCEPT ![c] = q]
    BY <1>5 DEF MachineInv
  <2> HIDE DEF q
  <2> QED BY <1>1, <2>1, <2>2, CallMoves
<1> QED BY <1>2, <1>3, <1>4, <1>5

LEMMA RunGateKeeps ==
  ASSUME MachineInv, NEW c \in Callers, RunGate(c)
  PROVE  MachineInv'
<1>1. /\ call[c].at = "gates" /\ CallSound(call[c]) /\ UNCHANGED <<defs, instance, history>>
  BY DEF RunGate, MachineInv
<1>2. \/ /\ call[c].edge.gates \ call[c].passed = {}
         /\ call' = [call EXCEPT ![c].at = "append", ![c].status = "completed"]
      \/ \E g : call' = [call EXCEPT ![c].passed = @ \cup {g}]
      \/ \E answer \in {"blocked", "failed"} :
           call' = [call EXCEPT ![c].at = "append", ![c].status = answer]
  <2>1. CASE call[c].edge.gates \ call[c].passed = {}
    BY <2>1 DEF RunGate
  <2>2. CASE call[c].edge.gates \ call[c].passed # {}
    <3>1. PICK g \in call[c].edge.gates \ call[c].passed,
               answer \in {"allow", "blocked", "failed"} :
            IF g \in handlers /\ answer = "allow"
            THEN call' = [call EXCEPT ![c].passed = @ \cup {g}]
            ELSE call' = [call EXCEPT ![c].at = "append",
                            ![c].status = IF g \in handlers THEN answer ELSE "blocked"]
      BY <2>2 DEF RunGate
    <3>2. CASE g \in handlers /\ answer = "allow"
      BY <3>1, <3>2
    <3>3. CASE ~ (g \in handlers /\ answer = "allow")
      <4> DEFINE given == IF g \in handlers THEN answer ELSE "blocked"
      <4>1. given \in {"blocked", "failed"}
        BY <3>3
      <4>2. call' = [call EXCEPT ![c].at = "append", ![c].status = given]
        BY <3>1, <3>3
      <4> HIDE DEF given
      <4> QED BY <4>1, <4>2
    <3> QED BY <3>2, <3>3
  <2> QED BY <2>1, <2>2
<1>3. CASE /\ call[c].edge.gates \ call[c].passed = {}
           /\ call' = [call EXCEPT ![c].at = "append", ![c].status = "completed"]
  <2> DEFINE q == [call[c] EXCEPT !.at = "append", !.status = "completed"]
  <2>3. /\ IsCall(q) /\ q.edge = call[c].edge /\ q.at = "append" /\ q.status = "completed"
        /\ q.held = call[c].held /\ q.passed = call[c].passed
    <3>1. q = [at |-> "append", edge |-> call[c].edge, version |-> call[c].version,
               shape |-> call[c].shape, status |-> "completed", held |-> call[c].held,
               passed |-> call[c].passed]
      BY <1>1, MovedCall, Zenon DEF CallSound
    <3> HIDE DEF q
    <3> QED BY <3>1 DEF IsCall
  <2>1. CallSound(q)
    <3> HIDE DEF q
    <3> QED BY <1>1, <1>3, <2>3 DEF CallSound
  <2>2. call' = [call EXCEPT ![c] = q]
    BY <1>3 DEF MachineInv
  <2> HIDE DEF q
  <2> QED BY <1>1, <2>1, <2>2, CallMoves
<1>4. CASE \E g : call' = [call EXCEPT ![c].passed = @ \cup {g}]
  <2>1. PICK g : call' = [call EXCEPT ![c].passed = @ \cup {g}]
    BY <1>4
  <2> DEFINE q == [call[c] EXCEPT !.passed = @ \cup {g}]
  <2>2. CallSound(q)
    BY <1>1 DEF CallSound, IsCall, Declared
  <2>3. call' = [call EXCEPT ![c] = q]
    BY <2>1 DEF MachineInv
  <2> HIDE DEF q
  <2> QED BY <1>1, <2>2, <2>3, CallMoves
<1>5. CASE \E answer \in {"blocked", "failed"} :
             call' = [call EXCEPT ![c].at = "append", ![c].status = answer]
  <2>1. PICK answer \in {"blocked", "failed"} :
          call' = [call EXCEPT ![c].at = "append", ![c].status = answer]
    BY <1>5
  <2> DEFINE q == [call[c] EXCEPT !.at = "append", !.status = answer]
  <2>4. /\ IsCall(q) /\ q.edge = call[c].edge /\ q.at = "append" /\ q.status = answer
    <3>1. q = [at |-> "append", edge |-> call[c].edge, version |-> call[c].version,
               shape |-> call[c].shape, status |-> answer, held |-> call[c].held,
               passed |-> call[c].passed]
      <4> DEFINE p == call[c]
                 b == answer
      <4>1. IsCall(p)
        BY <1>1 DEF CallSound
      <4> HIDE DEF p, b
      <4>2. [p EXCEPT !.at = "append", !.status = b] =
              [at |-> "append", edge |-> p.edge, version |-> p.version, shape |-> p.shape,
               status |-> b, held |-> p.held, passed |-> p.passed]
        BY <4>1, MovedCall
      <4> QED BY <4>2 DEF p, b
    <3> HIDE DEF q
    <3> QED BY <3>1 DEF IsCall
  <2>2. CallSound(q)
    <3> HIDE DEF q
    <3> QED BY <1>1, <2>1, <2>4 DEF CallSound
  <2>3. call' = [call EXCEPT ![c] = q]
    BY <2>1 DEF MachineInv
  <2> HIDE DEF q
  <2> QED BY <1>1, <2>2, <2>3, CallMoves
<1> QED BY <1>2, <1>3, <1>4, <1>5

\* The row, the new state and the end of the request are one commit.
LEMMA AppendKeeps ==
  ASSUME MachineInv, NEW c \in Callers, AppendTransition(c)
  PROVE  MachineInv'
<1> DEFINE q == call[c]
           row == [by |-> c, from |-> q.edge.from, to |-> q.edge.to, status |-> q.status]
           n == Len(history)
<1>1. /\ q.at = "append" /\ CallSound(q) /\ instance # NoInstance
      /\ history' = Append(history, row)
      /\ instance' = [instance EXCEPT !.state = StateAfterTransition(c)]
      /\ call' = [call EXCEPT ![c] = [q EXCEPT !.at = "done"]]
      /\ defs' = defs
  BY DEF AppendTransition, MachineInv, CallSound
<1>2. row \in HistoryRow /\ history \in Seq(HistoryRow)
  BY <1>1 DEF CallSound, HistoryRow, MachineInv
<1>3. /\ n \in Nat /\ DOMAIN history = 1..n
      /\ history' \in Seq(HistoryRow) /\ DOMAIN history' = 1..(n + 1)
      /\ history'[n + 1] = row
      /\ \A i \in 1..n : history'[i] = history[i]
  <2> HIDE DEF row
  <2> QED BY <1>1, <1>2
<1>4. /\ instance'.version = instance.version /\ instance'.scope = instance.scope
      /\ instance'.state = StateAfterTransition(c)
      /\ instance' = [version |-> instance'.version, state |-> instance'.state,
                      scope |-> instance'.scope]
      /\ instance' # NoInstance
  BY <1>1 DEF MachineInv, NoInstance
<1>5. /\ call' = [d \in Callers |-> call'[d]]
      /\ call'[c] = [q EXCEPT !.at = "done"] /\ IsCall(call'[c])
      /\ call'[c].at = "done" /\ call'[c].held = q.held /\ call'[c].passed = q.passed
      /\ \A d \in Callers \ {c} : call'[d] = call[d]
  BY <1>1 DEF MachineInv, CallSound, IsCall
<1>6. \A d \in Callers : CallSound(call[d])'
  <2>1. CallSound(call[c])'
    BY <1>5 DEF CallSound
  <2>2. ASSUME NEW d \in Callers \ {c} PROVE CallSound(call[d])'
    BY <1>1, <1>4, <1>5 DEF MachineInv, CallSound, Declared
  <2> QED BY <2>1, <2>2
<1>7. ASSUME NEW i \in DOMAIN history' PROVE RowAllowed(history[i])'
  <2>1. CASE i = n + 1
    <3>1. row.by = c /\ row.status = q.status /\ row.from = q.edge.from /\ row.to = q.edge.to
      OBVIOUS
    <3>2. q.status = "completed" =>
            /\ q.edge \in defs[instance.version].edges
            /\ q.edge.caps \subseteq q.held /\ q.edge.gates \subseteq q.passed
      BY <1>1 DEF CallSound, Declared
    <3>3. row.by = c /\ call'[c].at = "done" /\ call'[c].held = q.held /\ call'[c].passed = q.passed
      BY <1>5
    <3>4. history'[i] = row /\ defs'[instance'.version].edges = defs[instance.version].edges
      BY <1>1, <1>3, <1>4, <2>1
    <3> HIDE DEF row, q
    <3>5. row.status = "completed" =>
            \E e \in defs[instance.version].edges :
              /\ e.from = row.from /\ e.to = row.to
              /\ e.caps \subseteq call'[row.by].held /\ e.gates \subseteq call'[row.by].passed
      BY <3>1, <3>2, <3>3, Zenon
    <3> QED BY <3>3, <3>4, <3>5, Zenon DEF RowAllowed
  <2>2. CASE i \in 1..n
    <3>1. history[i].by \in Callers /\ RowAllowed(history[i])
      <4>1. history[i] \in HistoryRow
        BY <1>2, <1>3, <2>2
      <4> QED BY <1>3, <2>2, <4>1 DEF MachineInv, HistoryRow
    <3>2. history[i].by # c
      BY <1>1, <3>1 DEF RowAllowed
    <3> QED BY <1>1, <1>3, <1>4, <1>5, <2>2, <3>1, <3>2 DEF RowAllowed
  <2> QED BY <1>3, <2>1, <2>2
<1>8. instance'.state \in MachineStates
  BY <1>1, <1>4 DEF StateAfterTransition, CallSound, MachineInv
<1>9. WhereMoved'
  <2>1. WhereMoved /\ Moves \subseteq 1..n
    BY <1>1, <1>3 DEF MachineInv, Moves, Completed
  <2>2. CASE q.status = "completed" /\ q.edge.to # q.edge.from
    <3>1. n + 1 \in Moves' /\ Moves' \subseteq 1..(n + 1)
      <4>1. row.status = "completed" /\ row.from # row.to
        BY <2>2
      <4> HIDE DEF row
      <4> QED BY <1>3, <4>1 DEF Moves, Completed
    <3>2. instance'.state = row.to
      BY <1>4, <2>2 DEF StateAfterTransition
    <3> HIDE DEF row
    <3>3. instance'.state = history'[n + 1].to
      BY <1>3, <3>2
    <3>4. \A j \in Moves' : j <= n + 1
      BY <1>3, <3>1
    <3> QED BY <3>1, <3>3, <3>4 DEF WhereMoved
  <2>3. CASE ~ (q.status = "completed" /\ q.edge.to # q.edge.from)
    <3>1. Moves' = Moves
      <4>1. ~ (row.status = "completed" /\ row.from # row.to)
        BY <2>3
      <4> HIDE DEF row
      <4> QED BY <1>3, <4>1 DEF Moves, Completed
    <3>2. instance'.state = instance.state
      BY <1>4, <2>3 DEF StateAfterTransition
    <3>3. \A i \in Moves : history'[i] = history[i]
      BY <1>3, <2>1
    <3> QED BY <1>1, <1>4, <2>1, <3>1, <3>2, <3>3 DEF WhereMoved
  <2> QED BY <2>2, <2>3
<1> HIDE DEF row, q
<1> QED BY <1>1, <1>3, <1>4, <1>5, <1>6, <1>7, <1>8, <1>9 DEF MachineInv

LEMMA MachineStep == MachineInv /\ [MachineNext]_machineVars => MachineInv'
<1> SUFFICES ASSUME MachineInv, [MachineNext]_machineVars PROVE MachineInv'
  OBVIOUS
<1>1. CASE UNCHANGED <<defs, instance, history, call>>
  BY <1>1 DEF MachineInv, CallSound, Declared, RowAllowed, WhereMoved, Moves, Completed
<1>2. CASE ChangeGrant \/ ChangeGate \/ ArchiveOwner \/ UNCHANGED machineVars
  BY <1>1, <1>2 DEF ChangeGrant, ChangeGate, ArchiveOwner, machineVars
<1> QED BY <1>2, RegisterKeeps, InsertKeeps, CreateInstanceKeeps, RequestTransitionKeeps,
           CheckCapabilityKeeps, RunGateKeeps, AppendKeeps
        DEF MachineNext

\* The state of an instance is where the last completed move of its history
\* led, and every completed transition was declared and allowed (runtime.py of
\* the state machine primitive), for any number of callers and definitions.
THEOREM StatesAreExplained == MachineSpec => []StateExplained
<1>1. MachineInv => StateExplained
  <2> SUFFICES ASSUME MachineInv, instance # NoInstance
               PROVE  /\ instance.state = IF Moves = {} THEN defs[instance.version].initial
                                          ELSE history[Max(Moves)].to
                      /\ \A i \in Completed :
                            \E e \in defs[instance.version].edges :
                                /\ e.from = history[i].from /\ e.to = history[i].to
                                /\ e.caps \subseteq call[history[i].by].held
                                /\ e.gates \subseteq call[history[i].by].passed
    BY DEF StateExplained
  <2>1. \A i \in Completed :
          \E e \in defs[instance.version].edges :
              /\ e.from = history[i].from /\ e.to = history[i].to
              /\ e.caps \subseteq call[history[i].by].held
              /\ e.gates \subseteq call[history[i].by].passed
    BY DEF MachineInv, RowAllowed, Completed
  <2>2. CASE Moves = {}
    BY <2>1, <2>2 DEF MachineInv, WhereMoved
  <2>3. CASE Moves # {}
    <3>1. PICK i \in Moves : instance.state = history[i].to /\ \A j \in Moves : j <= i
      BY <2>3 DEF MachineInv, WhereMoved
    <3>2. Moves \in SUBSET (0..Len(history)) /\ Len(history) \in Nat
      BY DEF MachineInv, Moves, Completed
    <3>3. Max(Moves) \in Moves /\ i <= Max(Moves)
      BY <2>3, <3>2, MaxIn
    <3>4. Max(Moves) <= i /\ i \in 0..Len(history) /\ Max(Moves) \in 0..Len(history)
      BY <3>1, <3>2, <3>3, Zenon
    <3>5. Max(Moves) = i
      BY <3>2, <3>3, <3>4
    <3> QED BY <2>1, <2>3, <3>1, <3>5
  <2> QED BY <2>2, <2>3
<1> QED BY <1>1, MachineStarts, MachineStep, PTL DEF MachineSpec
-----------------------------------------------------------------------------
(* Usage limits.                                                           *)
(*                                                                         *)
(* What is committed and what is in flight stay together within the limit  *)
(* and the slack: the request that passes a check finds room for its cost, *)
(* and from then on the slack covers the ones in flight beside it.         *)

CallRow == [at : {"idle", "open", "first", "refused", "ended"}, cost : [Kinds -> Nat],
            passed : SUBSET Kinds]

LimitInv ==
    /\ usage \in [Kinds -> Nat] /\ slack \in [Kinds -> Nat] /\ rejected \in Nat
    /\ quota \in [Calls -> CallRow]
    /\ \A k \in Kinds : /\ IsFiniteSet(Units(k))
                        /\ usage[k] + InFlight(k) <= Limit[k] + slack[k]

\* The units of one request beside others that are not its own.
LEMMA OneMore ==
  ASSUME NEW U, IsFiniteSet(U), NEW c, NEW n \in Nat, \A u \in U : u[1] # c
  PROVE  /\ IsFiniteSet(U \cup ({c} \X (1..n)))
         /\ Cardinality(U \cup ({c} \X (1..n))) = Cardinality(U) + n
<1> DEFINE T == {c} \X (1..n)
<1>1. IsFiniteSet({c}) /\ Cardinality({c}) = 1
  BY FS_Singleton
<1>2. IsFiniteSet(1..n) /\ Cardinality(1..n) = n
  BY FS_Interval
<1>3. IsFiniteSet(T) /\ Cardinality(T) = n
  <2>1. IsFiniteSet(T) /\ Cardinality(T) = Cardinality({c}) * Cardinality(1..n)
    BY <1>1, <1>2, FS_Product, Zenon
  <2> HIDE DEF T
  <2>2. Cardinality(T) = 1 * n
    BY <1>1, <1>2, <2>1, Zenon
  <2> QED BY <2>1, <2>2
<1>4. U \cap T = {}
  OBVIOUS
<1> HIDE DEF T
<1>5. /\ IsFiniteSet(U \cup T)
      /\ Cardinality(U \cup T) = Cardinality(U) + Cardinality(T) - Cardinality(U \cap T)
  BY <1>3, FS_Union
<1>6. Cardinality(U) \in Nat /\ Cardinality(U \cap T) = 0
  BY <1>4, FS_CardinalityType, FS_EmptySet
<1> QED BY <1>3, <1>5, <1>6 DEF T

LEMMA UnitsIn ==
  ASSUME NEW k
  PROVE  \A u : u \in Units(k) <=>
            \E c \in Passed(k) : u \in {c} \X (1 .. quota[c].cost[k])
  BY DEF Units

LEMMA LimitStarts == LimitsInit => LimitInv
<1> SUFFICES ASSUME LimitsInit PROVE LimitInv
  OBVIOUS
<1> USE LimitsAssumption
<1>1. NoCall \in CallRow /\ NoCall.at = "idle"
  BY DEF NoCall, NoCost, CallRow
<1>2. \A c \in Calls : quota[c].at = "idle"
  BY <1>1 DEF LimitsInit
<1>3. ASSUME NEW k \in Kinds
      PROVE  IsFiniteSet(Units(k)) /\ usage[k] + InFlight(k) <= Limit[k] + slack[k]
  <2>1. Units(k) = {}
    BY <1>2 DEF Units, Passed
  <2>2. IsFiniteSet(Units(k)) /\ InFlight(k) = 0
    BY <2>1, FS_EmptySet DEF InFlight
  <2>3. usage[k] = 0 /\ slack[k] = 0
    BY DEF LimitsInit, NoCost
  <2> QED BY <2>2, <2>3
<1> QED BY <1>1, <1>3 DEF LimitsInit, LimitInv, NoCost

\* A step that changes no request that has passed a check, nor what it passed,
\* and commits no more.
LEMMA NothingPasses ==
  ASSUME LimitInv, slack' = slack, rejected' \in Nat, quota' \in [Calls -> CallRow],
         usage' \in [Kinds -> Nat], \A k \in Kinds : usage'[k] <= usage[k],
         NEW c \in Calls, quota'[c].at # "open" \/ quota'[c].passed = {},
         quota[c].at = "open" => quota'[c].at # "open",
         \A d \in Calls \ {c} : quota'[d] = quota[d]
  PROVE  LimitInv'
<1> USE LimitsAssumption
<1>1. ASSUME NEW k \in Kinds
      PROVE  IsFiniteSet(Units(k)') /\ usage'[k] + InFlight(k)' <= Limit[k] + slack'[k]
  <2>1. Passed(k)' \subseteq Passed(k) /\ \A d \in Passed(k)' : quota'[d] = quota[d]
    BY DEF Passed
  <2>2. Units(k)' \subseteq Units(k)
    BY <2>1 DEF Units
  <2>3. IsFiniteSet(Units(k)) /\ usage[k] + InFlight(k) <= Limit[k] + slack[k]
    BY DEF LimitInv
  <2>4. IsFiniteSet(Units(k)') /\ Cardinality(Units(k)') <= Cardinality(Units(k))
    BY <2>2, <2>3, FS_Subset
  <2>5. Cardinality(Units(k)') \in Nat /\ Cardinality(Units(k)) \in Nat
    BY <2>3, <2>4, FS_CardinalityType
  <2>6. usage'[k] <= usage[k] /\ usage[k] \in Nat /\ usage'[k] \in Nat
        /\ slack[k] \in Nat /\ slack'[k] = slack[k] /\ Limit[k] \in Nat
    BY DEF LimitInv
  <2> QED BY <2>3, <2>4, <2>5, <2>6 DEF InFlight
<1> QED BY <1>1 DEF LimitInv

\* A request passes the check of one limit.
LEMMA CheckKeeps ==
  ASSUME LimitInv, NEW c \in Calls, CheckLimit(c)
  PROVE  LimitInv'
<1> USE LimitsAssumption
<1> DEFINE cost == quota[c].cost
<1>1. PICK k \in Checked(cost) \ quota[c].passed :
        \/ /\ Over(k, cost[k]) /\ k # "attempts"
           /\ quota' = [quota EXCEPT ![c] = Ended]
           /\ UNCHANGED slack
        \/ /\ Over(k, cost[k]) /\ k = "attempts"
           /\ quota' = [quota EXCEPT ![c].at = IF Counted(k) = Limit[k] THEN "first" ELSE "refused"]
           /\ UNCHANGED slack
        \/ /\ ~ Over(k, cost[k])
           /\ quota' = [quota EXCEPT ![c].passed = @ \cup {k}]
           /\ slack' = [slack EXCEPT ![k] = Max({@, InFlight(k)})]
  BY DEF CheckLimit
<1>2. /\ quota[c] \in CallRow /\ quota[c].at = "open" /\ k \in Kinds
      /\ usage' = usage /\ rejected' = rejected /\ quota \in [Calls -> CallRow]
  BY DEF CheckLimit, Checked, LimitInv
<1>3. Ended \in CallRow /\ Ended.at = "ended"
  BY DEF Ended, NoCall, NoCost, CallRow
<1>4. CASE quota' = [quota EXCEPT ![c] = Ended] /\ UNCHANGED slack
  BY <1>2, <1>3, <1>4, NothingPasses DEF LimitInv
<1>5. CASE /\ quota' = [quota EXCEPT ![c].at = IF Counted(k) = Limit[k] THEN "first" ELSE "refused"]
           /\ UNCHANGED slack
  <2>1. quota' \in [Calls -> CallRow] /\ quota'[c].at # "open"
        /\ \A d \in Calls \ {c} : quota'[d] = quota[d]
    BY <1>2, <1>5 DEF CallRow
  <2> QED BY <1>2, <1>5, <2>1, NothingPasses DEF LimitInv
<1>6. CASE /\ ~ Over(k, cost[k])
           /\ quota' = [quota EXCEPT ![c].passed = @ \cup {k}]
           /\ slack' = [slack EXCEPT ![k] = Max({@, InFlight(k)})]
  <2>1. /\ quota' \in [Calls -> CallRow]
        /\ quota'[c].at = "open" /\ quota'[c].cost = cost
        /\ quota'[c].passed = quota[c].passed \cup {k}
        /\ \A d \in Calls \ {c} : quota'[d] = quota[d]
    BY <1>2, <1>6 DEF CallRow
  <2>2. \A j \in Kinds \ {k} : Passed(j)' = Passed(j)
    BY <1>2, <2>1 DEF Passed
  <2>3. c \notin Passed(k) /\ Passed(k)' = Passed(k) \cup {c}
    BY <1>1, <1>2, <2>1 DEF Passed
  <2>4. \A j \in Kinds : \A d \in Calls : quota'[d].cost[j] = quota[d].cost[j]
    BY <2>1
  <2>5. /\ IsFiniteSet(Units(k)) /\ InFlight(k) \in Nat
        /\ slack[k] \in Nat /\ usage[k] \in Nat /\ Limit[k] \in Nat /\ cost[k] \in Nat
        /\ slack \in [Kinds -> Nat] /\ rejected \in Nat /\ usage \in [Kinds -> Nat]
    BY <1>2, FS_CardinalityType DEF LimitInv, InFlight, CallRow
  <2>6. Max({slack[k], InFlight(k)}) \in Nat /\ Max({slack[k], InFlight(k)}) >= InFlight(k)
    <3> DEFINE M == {slack[k], InFlight(k)}
    <3>1. \E x \in M : \A y \in M : x >= y
      BY <2>5
    <3>2. Max(M) \in M /\ \A y \in M : Max(M) >= y
      BY <3>1 DEF Max
    <3> QED BY <2>5, <3>2
  <2>7. slack' \in [Kinds -> Nat] /\ slack'[k] >= InFlight(k)
        /\ \A j \in Kinds \ {k} : slack'[j] = slack[j]
    BY <1>2, <1>6, <2>5, <2>6
  <2>8. ASSUME NEW j \in Kinds \ {k}
        PROVE  IsFiniteSet(Units(j)') /\ usage'[j] + InFlight(j)' <= Limit[j] + slack'[j]
    <3>1. Units(j)' = Units(j)
      BY <2>2, <2>4 DEF Units, Passed
    <3> QED BY <1>2, <2>7, <3>1 DEF LimitInv, InFlight
  <2>9. IsFiniteSet(Units(k)') /\ usage'[k] + InFlight(k)' <= Limit[k] + slack'[k]
    <3>1. Units(k)' = Units(k) \cup ({c} \X (1 .. cost[k]))
      <4> DEFINE F(d) == {d} \X (1 .. quota[d].cost[k])
      <4>1. Units(k)' = UNION {F(d) : d \in Passed(k)'}
        BY <1>2, <2>4 DEF Units, Passed
      <4>2. Units(k) = UNION {F(d) : d \in Passed(k)}
        BY DEF Units
      <4>3. F(c) = {c} \X (1 .. cost[k])
        OBVIOUS
      <4> HIDE DEF F
      <4> QED BY <2>3, <4>1, <4>2, <4>3
    <3>2. \A u \in Units(k) : u[1] # c
      BY <2>3 DEF Units
    <3>3. IsFiniteSet(Units(k)') /\ InFlight(k)' = InFlight(k) + cost[k]
      <4> DEFINE n == cost[k]
      <4>1. n \in Nat /\ IsFiniteSet(Units(k)) /\ Units(k)' = Units(k) \cup ({c} \X (1 .. n))
        BY <2>5, <3>1
      <4> HIDE DEF n
      <4>2. /\ IsFiniteSet(Units(k) \cup ({c} \X (1 .. n)))
            /\ Cardinality(Units(k) \cup ({c} \X (1 .. n))) = Cardinality(Units(k)) + n
        BY <3>2, <4>1, OneMore
      <4> QED BY <4>1, <4>2 DEF InFlight, n
    <3>4. usage[k] + cost[k] <= Limit[k]
      BY <1>6, <2>5 DEF Over, Counted
    <3>5. slack'[k] \in Nat
      BY <1>2, <2>7
    <3> QED BY <1>2, <2>5, <2>7, <3>3, <3>4, <3>5
  <2> QED BY <1>2, <2>1, <2>5, <2>7, <2>8, <2>9 DEF LimitInv
<1> QED BY <1>1, <1>4, <1>5, <1>6

\* A request commits what it costs, all of which was in flight.
LEMMA EndCallKeeps ==
  ASSUME LimitInv, NEW c \in Calls, EndCall(c)
  PROVE  LimitInv'
<1> USE LimitsAssumption
<1> DEFINE cost == quota[c].cost
<1>1. /\ quota[c] \in CallRow /\ quota[c].at = "open" /\ quota[c].passed = Checked(cost)
      /\ quota' = [quota EXCEPT ![c] = Ended] /\ slack' = slack /\ rejected' = rejected
      /\ quota \in [Calls -> CallRow]
  BY DEF EndCall, LimitInv
<1>2. Ended \in CallRow /\ Ended.at = "ended"
  BY DEF Ended, NoCall, NoCost, CallRow
<1>3. /\ quota' \in [Calls -> CallRow] /\ quota'[c].at = "ended"
      /\ \A d \in Calls \ {c} : quota'[d] = quota[d]
  BY <1>1, <1>2
<1>4. CASE usage' = usage
  BY <1>1, <1>3, <1>4, NothingPasses DEF LimitInv
<1>5. CASE usage' = [k \in Kinds |-> usage[k] + cost[k]]
  <2>1. cost \in [Kinds -> Nat]
    BY <1>1 DEF CallRow
  <2>2. ASSUME NEW k \in Kinds
        PROVE  IsFiniteSet(Units(k)') /\ usage'[k] + InFlight(k)' <= Limit[k] + slack'[k]
    <3>1. Passed(k)' = Passed(k) \ {c} /\ \A d \in Passed(k)' : quota'[d] = quota[d]
      BY <1>1, <1>3 DEF Passed
    <3>2. c \in Passed(k) \/ cost[k] = 0
      BY <1>1, <2>1 DEF Passed, Checked
    <3>3. Units(k) = Units(k)' \cup ({c} \X (1 .. cost[k]))
      <4> DEFINE F(d) == {d} \X (1 .. quota[d].cost[k])
      <4>1. Units(k)' = UNION {F(d) : d \in Passed(k) \ {c}}
        BY <3>1 DEF Units
      <4>2. Units(k) = UNION {F(d) : d \in Passed(k)}
        BY DEF Units
      <4>3. F(c) = {c} \X (1 .. cost[k]) /\ (cost[k] = 0 => F(c) = {})
        OBVIOUS
      <4> HIDE DEF F
      <4> QED BY <3>2, <4>1, <4>2, <4>3
    <3>4. \A u \in Units(k)' : u[1] # c
      BY <3>1 DEF Units
    <3>5. Units(k)' \subseteq Units(k) /\ IsFiniteSet(Units(k))
      BY <3>3 DEF LimitInv
    <3>6. IsFiniteSet(Units(k)') /\ InFlight(k)' \in Nat
      BY <3>5, FS_Subset, FS_CardinalityType DEF InFlight
    <3>7. InFlight(k) = InFlight(k)' + cost[k]
      <4> DEFINE n == cost[k]
                 rest == Units(k)'
      <4>1. n \in Nat /\ IsFiniteSet(rest) /\ Units(k) = rest \cup ({c} \X (1 .. n))
        BY <2>1, <3>3, <3>6
      <4>2. InFlight(k)' = Cardinality(rest)
        BY DEF InFlight
      <4>3. \A u \in rest : u[1] # c
        BY <3>4
      <4> HIDE DEF n, rest
      <4>4. Cardinality(rest \cup ({c} \X (1 .. n))) = Cardinality(rest) + n
        BY <4>1, <4>3, OneMore
      <4> QED BY <4>1, <4>2, <4>4 DEF InFlight, n
    <3>8. /\ usage'[k] = usage[k] + cost[k] /\ usage[k] \in Nat /\ cost[k] \in Nat
          /\ slack[k] \in Nat /\ Limit[k] \in Nat
          /\ usage[k] + InFlight(k) <= Limit[k] + slack[k]
      BY <1>5, <2>1 DEF LimitInv
    <3> QED BY <1>1, <3>6, <3>7, <3>8
  <2>3. usage' \in [Kinds -> Nat]
    BY <1>5, <2>1 DEF LimitInv
  <2> QED BY <1>1, <1>3, <2>2, <2>3 DEF LimitInv
<1> QED BY <1>4, <1>5 DEF EndCall

\* A step of no request, which commits no more.
LEMMA CountsFall ==
  ASSUME LimitInv, slack' = slack, rejected' \in Nat, quota' = quota,
         usage' \in [Kinds -> Nat], \A k \in Kinds : usage'[k] <= usage[k]
  PROVE  LimitInv'
<1>1. ASSUME NEW k \in Kinds
      PROVE  IsFiniteSet(Units(k)') /\ usage'[k] + InFlight(k)' <= Limit[k] + slack'[k]
  <2>1. Units(k)' = Units(k)
    BY DEF Units, Passed
  <2>2. /\ IsFiniteSet(Units(k)) /\ InFlight(k)' = InFlight(k) /\ InFlight(k) \in Nat
        /\ usage[k] + InFlight(k) <= Limit[k] + slack[k]
        /\ usage[k] \in Nat /\ usage'[k] \in Nat /\ usage'[k] <= usage[k]
        /\ slack[k] \in Nat /\ Limit[k] \in Nat
    BY <2>1, FS_CardinalityType, LimitsAssumption DEF LimitInv, InFlight
  <2> QED BY <2>1, <2>2
<1> QED BY <1>1 DEF LimitInv

LEMMA LimitStep == LimitInv /\ [LimitsNext]_limitVars => LimitInv'
<1> SUFFICES ASSUME LimitInv, [LimitsNext]_limitVars PROVE LimitInv'
  OBVIOUS
<1> USE LimitsAssumption
<1>1. ASSUME NEW c \in Calls, OpenCall(c) PROVE LimitInv'
  <2>1. PICK cost \in Costs : quota' = [quota EXCEPT ![c] = [at |-> "open", cost |-> cost, passed |-> {}]]
    BY <1>1 DEF OpenCall
  <2>2. cost \in [Kinds -> Nat]
    <3>1. CASE \E k \in Kinds : cost = [NoCost EXCEPT ![k] = 1]
      BY <3>1 DEF NoCost
    <3>2. CASE \E s \in Sizes : cost = [NoCost EXCEPT !.documents = 1, !.bytes = s]
      <4>1. PICK s \in Sizes : cost = [NoCost EXCEPT !.documents = 1, !.bytes = s]
        BY <3>2
      <4>2. NoCost \in [Kinds -> Nat] /\ s \in Nat
        BY DEF NoCost
      <4>3. [NoCost EXCEPT !["documents"] = 1, !["bytes"] = s] \in [Kinds -> Nat]
        BY <4>2
      <4> QED BY <4>1, <4>3
    <3> QED BY <3>1, <3>2 DEF Costs
  <2>3. /\ quota' \in [Calls -> CallRow] /\ quota'[c].passed = {} /\ quota[c].at = "idle"
        /\ \A d \in Calls \ {c} : quota'[d] = quota[d]
    BY <1>1, <2>1, <2>2 DEF OpenCall, LimitInv, CallRow
  <2>4. UNCHANGED <<usage, rejected, slack>>
    BY <1>1 DEF OpenCall
  <2> QED BY <2>3, <2>4, NothingPasses DEF LimitInv
<1>2. ASSUME NEW c \in Calls, RecordRejection(c) PROVE LimitInv'
  <2>1. Ended \in CallRow /\ Ended.at = "ended"
    BY DEF Ended, NoCall, NoCost, CallRow
  <2>2. /\ quota' \in [Calls -> CallRow] /\ quota'[c].at # "open"
        /\ \A d \in Calls \ {c} : quota'[d] = quota[d]
        /\ rejected' \in Nat /\ UNCHANGED <<usage, slack>>
    BY <1>2, <2>1 DEF RecordRejection, LimitInv
  <2> QED BY <2>2, NothingPasses DEF LimitInv
<1>3. CASE Release
  <2>1. \A k \in Kinds : usage[k] \in Nat
    BY DEF LimitInv
  <2>2. UNCHANGED <<rejected, quota, slack>> /\ usage \in [Kinds -> Nat]
    BY <1>3 DEF Release, LimitInv
  <2>3. usage' \in [Kinds -> Nat] /\ \A k \in Kinds : usage'[k] <= usage[k]
    <3> USE DEF Kinds
    <3>1. CASE /\ usage.matters > 0
               /\ \E holds \in BOOLEAN :
                    usage' = [usage EXCEPT !.matters = @ - 1,
                                           !.documents = IF holds THEN 0 ELSE @,
                                           !.bytes = IF holds THEN 0 ELSE @]
      <4>1. PICK b \in BOOLEAN :
              usage' = [usage EXCEPT !.matters = @ - 1, !.documents = IF b THEN 0 ELSE @,
                                     !.bytes = IF b THEN 0 ELSE @]
        BY <3>1
      <4>2. /\ usage.matters \in Nat /\ usage.matters > 0 /\ usage.documents \in Nat
            /\ usage.bytes \in Nat
        BY <2>1, <3>1
      <4> DEFINE m == usage.matters - 1
                 d == IF b THEN 0 ELSE usage.documents
                 e == IF b THEN 0 ELSE usage.bytes
      <4>3. /\ m \in Nat /\ m <= usage.matters /\ d \in Nat /\ d <= usage.documents
            /\ e \in Nat /\ e <= usage.bytes
        BY <4>2
      <4>4. usage' = [usage EXCEPT !.matters = m, !.documents = d, !.bytes = e]
        BY <4>1
      <4> HIDE DEF m, d, e
      <4>5. usage' \in [Kinds -> Nat]
        BY <2>2, <4>3, <4>4
      <4>6. ASSUME NEW k \in Kinds PROVE usage'[k] <= usage[k]
        <5>1. CASE k \notin {"matters", "documents", "bytes"}
          <6>1. usage'[k] = usage[k]
            BY <2>2, <4>4, <5>1, Zenon
          <6> QED BY <2>1, <6>1
        <5>2. CASE k \in {"matters", "documents", "bytes"}
          BY <2>2, <4>3, <4>4, <5>2
        <5> QED BY <5>1, <5>2
      <4> QED BY <4>5, <4>6
    <3>2. CASE /\ usage.documents > 0
               /\ \E s \in Sizes :
                    s <= usage.bytes /\ usage' = [usage EXCEPT !.documents = @ - 1, !.bytes = @ - s]
      <4>1. PICK s \in Sizes :
              s <= usage.bytes /\ usage' = [usage EXCEPT !.documents = @ - 1, !.bytes = @ - s]
        BY <3>2
      <4>2. usage.documents \in Nat /\ usage.documents > 0 /\ usage.bytes \in Nat /\ s \in Nat
        BY <2>1, <3>2
      <4> DEFINE d == usage.documents - 1
                 e == usage.bytes - s
      <4>3. d \in Nat /\ d <= usage.documents /\ e \in Nat /\ e <= usage.bytes
        BY <4>1, <4>2
      <4>4. usage' = [usage EXCEPT !.documents = d, !.bytes = e]
        BY <4>1
      <4> HIDE DEF d, e
      <4>5. usage' \in [Kinds -> Nat]
        BY <2>2, <4>3, <4>4
      <4>6. ASSUME NEW k \in Kinds PROVE usage'[k] <= usage[k]
        <5>1. CASE k \notin {"documents", "bytes"}
          <6>1. usage'[k] = usage[k]
            BY <2>2, <4>4, <5>1, Zenon
          <6> QED BY <2>1, <6>1
        <5>2. CASE k \in {"documents", "bytes"}
          BY <2>2, <4>3, <4>4, <5>2
        <5> QED BY <5>1, <5>2
      <4> QED BY <4>5, <4>6
    <3>3. CASE usage.jobs > 0 /\ usage' = [usage EXCEPT !.jobs = @ - 1]
      BY <2>1, <2>2, <3>3 DEF Kinds
    <3> QED BY <1>3, <3>1, <3>2, <3>3 DEF Release
  <2> QED BY <2>2, <2>3, CountsFall DEF LimitInv
<1>4. CASE Expire
  <2>1. usage' \in [Kinds -> Nat] /\ (\A k \in Kinds : usage'[k] <= usage[k]) /\ rejected' \in Nat
    BY <1>4 DEF Expire, LimitInv, Kinds
  <2> QED BY <1>4, <2>1, CountsFall DEF Expire
<1>5. CASE NewDay
  <2>1. usage' \in [Kinds -> Nat] /\ (\A k \in Kinds : usage'[k] <= usage[k]) /\ rejected' \in Nat
    BY <1>5 DEF NewDay, LimitInv
  <2> QED BY <1>5, <2>1, CountsFall DEF NewDay
<1>6. CASE UNCHANGED limitVars
  <2>1. /\ UNCHANGED <<usage, rejected, quota, slack>>
        /\ usage \in [Kinds -> Nat] /\ rejected \in Nat
        /\ \A k \in Kinds : usage[k] <= usage[k]
    BY <1>6 DEF limitVars, LimitInv
  <2> QED BY <2>1, CountsFall
<1> QED BY <1>1, <1>2, <1>3, <1>4, <1>5, <1>6, CheckKeeps, EndCallKeeps DEF LimitsNext

\* A limit is exceeded by no more than what was in flight beside a request that
\* passed its check (limits.py, rate_limit.py, jobs.py), for any number of
\* requests, any limits and any costs.
THEOREM OvershootStays == LimitsSpec => []OvershootBounded
<1>1. LimitInv => OvershootBounded
  <2> SUFFICES ASSUME LimitInv, NEW k \in Kinds PROVE usage[k] <= Limit[k] + slack[k]
    BY DEF OvershootBounded
  <2>1. /\ usage[k] \in Nat /\ slack[k] \in Nat /\ Limit[k] \in Nat /\ InFlight(k) \in Nat
        /\ usage[k] + InFlight(k) <= Limit[k] + slack[k]
    BY LimitsAssumption, FS_CardinalityType DEF LimitInv, InFlight
  <2> QED BY <2>1
<1> QED BY <1>1, LimitStarts, LimitStep, PTL DEF LimitsSpec
=============================================================================
