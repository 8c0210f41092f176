----------------------------- MODULE AuthTokens -----------------------------
(***************************************************************************)
(* Refresh tokens, password-reset tokens and the user cache of one account  *)
(* (api/auth.py, api/jwt.py, api/profile.py), and the tasks that delete     *)
(* expired tokens (tasks/aggregation.py).  Requests are coroutines that     *)
(* interleave at every await; PostgreSQL runs at READ COMMITTED, so a       *)
(* statement works on the rows committed when it started, waits for a row   *)
(* another transaction has locked, and looks at the newest version then.    *)
(* A row inserted by an open transaction is invisible: it appears when the  *)
(* transaction commits.  A request slot serves one request after another.   *)
(* Passwords are abstracted to "matched or not", expiry times to "may have  *)
(* passed"; the blocklist of access tokens is in Sockets.                   *)
(***************************************************************************)
EXTENDS Naturals, FiniteSets

CONSTANTS
  Requests,  \* concurrent request slots
  Tokens,    \* rows of refresh_tokens that can be issued (a bound)
  Resets,    \* rows of password_reset_tokens that can be issued (a bound)
  MaxIssued, \* rows of both tables that can be issued (a bound)
  UserRow,   \* the row of users
  None       \* no token

Rows == Tokens \cup Resets \cup {UserRow}

ASSUME AuthConstants ==
  /\ IsFiniteSet(Requests) /\ IsFiniteSet(Tokens) /\ IsFiniteSet(Resets)
  /\ MaxIssued \in Nat
  /\ Tokens \cap Resets = {}
  /\ UserRow \notin Tokens \cup Resets
  /\ None \notin Rows

VARIABLES
  account,   \* "absent", "active" or "inactive" (is_active)
  rt,        \* token -> "none", "live", "revoked" or "gone": the committed row
  root,      \* token -> the token of the login it descends from
  reset,     \* reset token -> "none", "unused", "used" or "gone"
  redeemed,  \* reset token -> passwords set with it
  cache,     \* cache:user:{id}: "empty", "active" or "inactive"
  pc,        \* request -> where its handler is
  op,        \* request -> the operation behind an authenticated request
  tok,       \* request -> token it presented
  seen,      \* request -> what it read before an await
  todo,      \* request -> rows its statement has still to lock
  held       \* request -> rows its transaction has locked

db    == <<account, rt, root, reset, redeemed>>
local == <<op, tok, seen, todo, held>>
vars  == <<account, rt, root, reset, redeemed, cache,
           pc, op, tok, seen, todo, held>>

Places == {"idle", "login", "issue", "refresh", "lookup", "reuse", "rotate",
           "mint", "logout", "load", "fill", "refetch", "flush",
           "revoke", "evict", "redeem", "forgot", "supersede"}
Ops == {"none", "change", "delete", "reset"}

TypeOK ==
  /\ account \in {"absent", "active", "inactive"}
  /\ rt \in [Tokens -> {"none", "live", "revoked", "gone"}]
  /\ root \in [Tokens -> Tokens]
  /\ reset \in [Resets -> {"none", "unused", "used", "gone"}]
  /\ redeemed \in [Resets -> Nat]
  /\ cache \in {"empty", "active", "inactive"}
  /\ pc \in [Requests -> Places]
  /\ op \in [Requests -> Ops]
  /\ tok \in [Requests -> Tokens \cup Resets \cup {None}]
  /\ seen \in [Requests -> {"none", "active", "inactive"}]
  /\ todo \in [Requests -> SUBSET Rows]
  /\ held \in [Requests -> SUBSET Rows]

Init ==
  /\ account = "absent"
  /\ rt = [t \in Tokens |-> "none"]
  /\ root = [t \in Tokens |-> t]
  /\ reset = [p \in Resets |-> "none"]
  /\ redeemed = [p \in Resets |-> 0]
  /\ cache = "empty"
  /\ pc = [r \in Requests |-> "idle"]
  /\ op = [r \in Requests |-> "none"]
  /\ tok = [r \in Requests |-> None]
  /\ seen = [r \in Requests |-> "none"]
  /\ todo = [r \in Requests |-> {}]
  /\ held = [r \in Requests |-> {}]

-----------------------------------------------------------------------------
Goto(r, place) == pc' = [pc EXCEPT ![r] = place]

\* The handler returns: its session is closed, its locks are released.
Answer(r) ==
  /\ Goto(r, "idle")
  /\ op' = [op EXCEPT ![r] = "none"]
  /\ tok' = [tok EXCEPT ![r] = None]
  /\ seen' = [seen EXCEPT ![r] = "none"]
  /\ todo' = [todo EXCEPT ![r] = {}]
  /\ held' = [held EXCEPT ![r] = {}]

\* A request begins with the token it presents (x) and what it has read.
Begin(r, place, o, x, what) ==
  /\ pc[r] = "idle"
  /\ Goto(r, place)
  /\ op' = [op EXCEPT ![r] = o]
  /\ tok' = [tok EXCEPT ![r] = x]
  /\ seen' = [seen EXCEPT ![r] = what]
  /\ UNCHANGED <<todo, held>>

Live   == {t \in Tokens : rt[t] = "live"}
Issued == {t \in Tokens : rt[t] # "none"}
Fresh  == {t \in Tokens : rt[t] = "none"}
Present == {t \in Tokens : rt[t] \in {"live", "revoked"}}
Unused == {p \in Resets : reset[p] = "unused"}
FreshResets == {p \in Resets : reset[p] = "none"}

\* Bounds: a request that may issue a token or a reset link starts only
\* while a row is left for it.
TokenIssuers == {r \in Requests : pc[r] \in {"login", "issue", "refresh",
                                            "rotate", "mint"}}
ResetIssuers == {r \in Requests : pc[r] \in {"forgot", "supersede"}}
RowLeft ==
  Cardinality(TokenIssuers \cup ResetIssuers) + Cardinality(Issued)
    + Cardinality(Resets \ FreshResets) < MaxIssued
TokenLeft == RowLeft /\ Cardinality(TokenIssuers) < Cardinality(Fresh)
ResetLeft == RowLeft /\ Cardinality(ResetIssuers) < Cardinality(FreshResets)

\* A row is free unless another transaction has locked it.
MayLock(r, x) == \A q \in Requests \ {r} : x \notin held[q]


-----------------------------------------------------------------------------
(* Faulty variants of definitions below.                                    *)

\* The claim is a SELECT followed by an UPDATE: the row is not waited for.
MayClaim_Unlocked(r) == rt[tok[r]] = "live"

\* SELECT without FOR UPDATE: the token row is not locked.
RedeemLocks_Plain(r) == {}

\* revoked is not part of the WHERE clause of the claim.
MayClaim_AnyStatus(r) == MayLock(r, tok[r])

\* SET instead of SETEX: a cached row stays until it is evicted.
CacheExpires_Never ==
  /\ cache = "inactive"
  /\ cache' = "empty"
  /\ UNCHANGED <<db, pc, local>>

-----------------------------------------------------------------------------
(* POST /auth/register and POST /auth/login.                                *)

Register(r) ==
  /\ account = "absent"
  /\ TokenLeft
  /\ account' = "active"
  /\ Begin(r, "issue", "none", None, "none")
  /\ UNCHANGED <<rt, root, reset, redeemed, cache>>

\* IntegrityError: the name is taken, 409.
RegisterConflict(r) ==
  /\ pc[r] = "idle"
  /\ account # "absent"
  /\ UNCHANGED vars

LoginRead(r) ==
  /\ account # "absent"
  /\ TokenLeft
  /\ Begin(r, "login", "none", None, account)
  /\ UNCHANGED <<db, cache>>

\* Wrong password or inactive account, both judged by the row read before
\* the bcrypt comparison.
LoginFails(r) ==
  /\ pc[r] = "login"
  /\ Answer(r)
  /\ UNCHANGED <<db, cache>>

\* last_login_at is written and committed.
LoginStamp(r) ==
  /\ pc[r] = "login"
  /\ seen[r] = "active"
  /\ MayLock(r, UserRow)
  /\ Goto(r, "issue")
  /\ UNCHANGED <<db, cache, local>>

\* _issue_auth_tokens: a new row, the root of a new chain.
IssueTokens(r) ==
  /\ pc[r] = "issue"
  /\ \E n \in Fresh :
       /\ n = CHOOSE m \in Fresh : TRUE
       /\ rt' = [rt EXCEPT ![n] = "live"]
       /\ root' = [root EXCEPT ![n] = n]
  /\ Answer(r)
  /\ UNCHANGED <<account, reset, redeemed, cache>>

-----------------------------------------------------------------------------
(* POST /auth/refresh.                                                      *)

\* Any token may have expired by the time the request begins; the claim
\* then matches no row.
RefreshBegin(r, t) ==
  /\ rt[t] # "none"
  /\ TokenLeft
  /\ \E place \in {"refresh", "lookup"} : Begin(r, place, "none", t, "none")
  /\ UNCHANGED <<db, cache>>

MayClaim(r) == rt[tok[r]] = "live" /\ MayLock(r, tok[r])

\* UPDATE ... SET revoked WHERE NOT revoked AND expires_at > now RETURNING:
\* the row is locked, the change becomes visible on commit.
RefreshClaim(r) ==
  /\ pc[r] = "refresh"
  /\ MayClaim(r)
  /\ held' = [held EXCEPT ![r] = {tok[r]}]
  /\ Goto(r, "rotate")
  /\ UNCHANGED <<db, cache, op, tok, seen, todo>>

\* No row matched.
RefreshMiss(r) ==
  /\ pc[r] = "refresh"
  /\ rt[tok[r]] # "live"
  /\ Goto(r, "lookup")
  /\ UNCHANGED <<db, cache, local>>

\* A token that is revoked already: the UPDATE of all tokens of the user
\* starts, on the rows committed by now.  Otherwise a plain 401.
RefreshLookup(r) ==
  /\ pc[r] = "lookup"
  /\ IF rt[tok[r]] = "revoked"
     THEN /\ todo' = [todo EXCEPT ![r] = Present]
          /\ Goto(r, "reuse")
          /\ UNCHANGED <<op, tok, seen, held>>
     ELSE Answer(r)
  /\ UNCHANGED <<db, cache>>

ReuseCommit(r) ==
  /\ pc[r] = "reuse"
  /\ todo[r] = {}
  /\ rt' = [t \in Tokens |-> IF t \in held[r] THEN "revoked" ELSE rt[t]]
  /\ Answer(r)
  /\ UNCHANGED <<account, root, reset, redeemed, cache>>

\* The owner of the claimed token is read; the claim of a token of an
\* inactive user is committed without a successor.
RotateCheck(r) ==
  /\ pc[r] = "rotate"
  /\ IF account = "active"
     THEN Goto(r, "mint") /\ UNCHANGED <<rt, local>>
     ELSE rt' = [rt EXCEPT ![tok[r]] = "revoked"] /\ Answer(r)
  /\ UNCHANGED <<account, root, reset, redeemed, cache>>

\* The successor is inserted and the transaction commits.
Mint(r) ==
  /\ pc[r] = "mint"
  /\ \E n \in Fresh :
       /\ n = CHOOSE m \in Fresh : TRUE
       /\ rt' = [rt EXCEPT ![tok[r]] = "revoked", ![n] = "live"]
       /\ root' = [root EXCEPT ![n] = root[tok[r]]]
  /\ Answer(r)
  /\ UNCHANGED <<account, reset, redeemed, cache>>

-----------------------------------------------------------------------------
(* POST /auth/logout: the row is read, then updated by its primary key; if   *)
(* it was deleted in between the update fails and so does the request.      *)

LogoutRead(r, t) ==
  /\ rt[t] = "live"
  /\ Begin(r, "logout", "none", t, "none")
  /\ UNCHANGED <<db, cache>>

LogoutWrite(r) ==
  /\ pc[r] = "logout"
  /\ MayLock(r, tok[r])
  /\ rt' = [rt EXCEPT ![tok[r]] = IF @ = "gone" THEN @ ELSE "revoked"]
  /\ Answer(r)
  /\ UNCHANGED <<account, root, reset, redeemed, cache>>

-----------------------------------------------------------------------------
(* _authenticate_user with an access token that was issued and is neither    *)
(* expired nor blocklisted.                                                 *)

\* The handler behind @jwt_required: one that leaves this state alone (so
\* does a wrong current password), change_password or delete_profile.
Proceed(r) ==
  \/ Answer(r)
  \/ /\ Goto(r, "refetch")
     /\ \E o \in {"change", "delete"} : op' = [op EXCEPT ![r] = o]
     /\ seen' = [seen EXCEPT ![r] = "none"]
     /\ UNCHANGED <<tok, todo, held>>

\* The request's first look at shared state is the GET of the cached row; a
\* hit on an inactive user is refused at once.
Authenticate(r) ==
  /\ pc[r] = "idle"
  /\ Issued # {}
  /\ \/ cache = "active" /\ Proceed(r)
     \/ Goto(r, "load") /\ UNCHANGED local  \* a miss, or Redis is down
  /\ UNCHANGED <<db, cache>>

\* session.get(User); without a row the request is refused.
ReadUser(r, from, to) ==
  /\ pc[r] = from
  /\ IF account = "absent"
     THEN Answer(r)
     ELSE /\ seen' = [seen EXCEPT ![r] = account]
          /\ Goto(r, to)
          /\ UNCHANGED <<op, tok, todo, held>>
  /\ UNCHANGED <<db, cache>>

CacheLoad(r) == ReadUser(r, "load", "fill")

\* SETEX with what was read from the database; a Redis error is swallowed.
CacheFill(r) ==
  /\ pc[r] = "fill"
  /\ cache' \in {cache, seen[r]}
  /\ IF seen[r] = "active" THEN Proceed(r) ELSE Answer(r)
  /\ UNCHANGED db

CacheExpires ==
  /\ cache # "empty"
  /\ cache' = "empty"
  /\ UNCHANGED <<db, pc, local>>

-----------------------------------------------------------------------------
(* change_password, delete_profile and reset_password end the same way.     *)

\* change_password and delete_profile load the row in a session of their own.
Refetch(r) == ReadUser(r, "refetch", "flush")

\* A new password hash is always a change; is_active = False is one only if
\* the row that was loaded is active.
Dirty(r) == op[r] # "delete" \/ seen[r] = "active"

\* The SELECT of the live tokens flushes the change of the users row first.
FlushAndSelect(r) ==
  /\ pc[r] = "flush"
  /\ Dirty(r) => MayLock(r, UserRow)
  /\ held' = [held EXCEPT ![r] = IF Dirty(r) THEN @ \cup {UserRow} ELSE @]
  /\ todo' = [todo EXCEPT ![r] = Live]
  /\ Goto(r, "revoke")
  /\ UNCHANGED <<db, cache, op, tok, seen>>

\* Only delete_profile changes is_active.
StatusAfter(r) == IF op[r] = "delete" /\ Dirty(r) THEN "inactive" ELSE account

CredentialCommit(r) ==
  /\ pc[r] = "revoke"
  /\ todo[r] = {}
  /\ rt' = [t \in Tokens |-> IF t \in held[r] THEN "revoked" ELSE rt[t]]
  /\ account' = StatusAfter(r)
  /\ reset' = [p \in Resets |-> IF p \in held[r] THEN "used" ELSE reset[p]]
  /\ redeemed' = [p \in Resets |-> redeemed[p] +
                   (IF op[r] = "reset" /\ p = tok[r] THEN 1 ELSE 0)]
  /\ held' = [held EXCEPT ![r] = {}]
  /\ op' = [op EXCEPT ![r] = "none"]
  /\ tok' = [tok EXCEPT ![r] = None]
  /\ seen' = [seen EXCEPT ![r] = "none"]
  /\ Goto(r, "evict")
  /\ UNCHANGED <<root, cache, todo>>

\* invalidate_user_cache; a Redis error is swallowed.
Evict(r) ==
  /\ pc[r] = "evict"
  /\ cache' \in {cache, "empty"}
  /\ Answer(r)
  /\ UNCHANGED db

\* ensure_hardcoded_admin at the start of a process, when this account is the
\* bootstrap admin: created, reactivated, or left alone.
Bootstrap(r) ==
  /\ account # "active"
  /\ MayLock(r, UserRow)
  /\ account' = "active"
  /\ IF account = "inactive"
     THEN Begin(r, "evict", "none", None, "none")
     ELSE pc[r] = "idle" /\ UNCHANGED <<pc, local>>
  /\ UNCHANGED <<rt, root, reset, redeemed, cache>>

-----------------------------------------------------------------------------
(* POST /auth/forgot-password and POST /auth/reset-password.                *)

ForgotRead(r) ==
  /\ account = "active"
  /\ ResetLeft
  /\ Begin(r, "forgot", "none", None, "none")
  /\ UNCHANGED <<db, cache>>

\* UPDATE ... WHERE used_at IS NULL starts on the rows committed by now.
SupersedeBegin(r) ==
  /\ pc[r] = "forgot"
  /\ todo' = [todo EXCEPT ![r] = Unused]
  /\ Goto(r, "supersede")
  /\ UNCHANGED <<db, cache, op, tok, seen, held>>

\* The new row is inserted and the transaction commits; the link is mailed.
MintReset(r) ==
  /\ pc[r] = "supersede"
  /\ todo[r] = {}
  /\ \E n \in FreshResets :
       /\ n = CHOOSE m \in FreshResets : TRUE
       /\ reset' = [p \in Resets |-> IF p = n THEN "unused"
                                     ELSE IF p \in held[r] THEN "used"
                                     ELSE reset[p]]
  /\ Answer(r)
  /\ UNCHANGED <<account, rt, root, redeemed, cache>>

RedeemBegin(r, p) ==
  /\ reset[p] # "none"
  /\ Begin(r, "redeem", "reset", p, "none")
  /\ UNCHANGED <<db, cache>>

RedeemLocks(r) == {tok[r]}

\* SELECT ... FOR UPDATE, then the checks on the locked row and on its user.
RedeemCheck(r) ==
  /\ pc[r] = "redeem"
  /\ MayLock(r, tok[r])
  /\ \/ /\ reset[tok[r]] = "unused"
        /\ account = "active"
        /\ held' = [held EXCEPT ![r] = RedeemLocks(r)]
        /\ Goto(r, "flush")
        /\ UNCHANGED <<op, tok, seen, todo>>
     \/ Answer(r)  \* used, expired, or the account is inactive: 401
  /\ UNCHANGED <<db, cache>>

-----------------------------------------------------------------------------
(* PostgreSQL.                                                              *)

Gone(x) == \/ x \in Tokens /\ rt[x] = "gone"
           \/ x \in Resets /\ reset[x] = "gone"
Skipped(x) == Gone(x) \/ (x \in Resets /\ reset[x] = "used")

\* A multi-row statement locks its rows one by one.  A row that is deleted, or no
\* longer satisfies used_at IS NULL, when its turn comes is skipped.
LockRow(r, x) ==
  /\ pc[r] \in {"reuse", "revoke", "supersede"}
  /\ x \in todo[r]
  /\ MayLock(r, x)
  /\ todo' = [todo EXCEPT ![r] = @ \ {x}]
  /\ held' = [held EXCEPT ![r] = IF Skipped(x) THEN @ ELSE @ \cup {x}]
  /\ UNCHANGED <<db, cache, pc, op, tok, seen>>

\* change_password and its like update token by token.  An UPDATE that should
\* have met a row and met none makes the session fail, unless it was sent in a
\* batch, whose row counts are not known.
StaleRow(r) ==
  /\ pc[r] = "revoke"
  /\ \E x \in todo[r] : Gone(x)
  /\ Answer(r)
  /\ UNCHANGED <<db, cache>>

\* r may be waiting for a row held by a member of S.
WaitsIn(r, S) == \E q \in S \ {r} : todo[r] \cap held[q] # {}

\* A cycle of waiting transactions: one of them is aborted, the request fails
\* with a server error.
DeadlockAbort(r) ==
  /\ \E S \in SUBSET Requests : r \in S /\ \A q \in S : WaitsIn(q, S)
  /\ Answer(r)
  /\ UNCHANGED <<db, cache>>

-----------------------------------------------------------------------------
(* refresh_token_cleanup and password_reset_token_cleanup: one DELETE each,  *)
(* which waits for rows that a request has locked.  Which tokens have        *)
(* expired, long enough ago for those kept per user, is left open.           *)

Unlocked(D) == \A r \in Requests : held[r] \cap D = {}

refresh_token_cleanup ==
  \E D \in SUBSET Present :
    /\ D # {} /\ Unlocked(D)
    /\ rt' = [t \in Tokens |-> IF t \in D THEN "gone" ELSE rt[t]]
    /\ UNCHANGED <<account, root, reset, redeemed, cache, pc, local>>

\* Used rows are deleted as well.
password_reset_token_cleanup ==
  \E Expired \in SUBSET Unused :
    LET D == Expired \cup {p \in Resets : reset[p] = "used"}
    IN  /\ D # {} /\ Unlocked(D)
        /\ reset' = [p \in Resets |-> IF p \in D THEN "gone" ELSE reset[p]]
        /\ UNCHANGED <<account, rt, root, redeemed, cache, pc, local>>

-----------------------------------------------------------------------------
Request(r) ==
  \/ Register(r) \/ RegisterConflict(r)
  \/ LoginRead(r) \/ LoginFails(r) \/ LoginStamp(r) \/ IssueTokens(r)
  \/ \E t \in Tokens : RefreshBegin(r, t)
  \/ RefreshClaim(r) \/ RefreshMiss(r) \/ RefreshLookup(r) \/ ReuseCommit(r)
  \/ RotateCheck(r) \/ Mint(r)
  \/ \E t \in Tokens : LogoutRead(r, t)
  \/ LogoutWrite(r)
  \/ Authenticate(r)
  \/ CacheLoad(r) \/ CacheFill(r)
  \/ Refetch(r) \/ FlushAndSelect(r) \/ CredentialCommit(r) \/ Evict(r) \/ Bootstrap(r)
  \/ ForgotRead(r) \/ SupersedeBegin(r) \/ MintReset(r)
  \/ \E p \in Resets : RedeemBegin(r, p)
  \/ RedeemCheck(r)
  \/ \E x \in Rows : LockRow(r, x)
  \/ DeadlockAbort(r) \/ StaleRow(r)

Next ==
  \/ \E r \in Requests : Request(r)
  \/ CacheExpires
  \/ refresh_token_cleanup \/ password_reset_token_cleanup

Spec == Init /\ [][Next]_vars

\* Redis removes an entry when its time to live is over.
FairSpec == Spec /\ WF_vars(CacheExpires)

-----------------------------------------------------------------------------
\* Rotation never multiplies a session: of all tokens that descend from one
\* login at most one is live, however many refreshes, logouts, replays and
\* password changes run at the same time (auth.refresh's claiming UPDATE).
OneLivePerLogin ==
  \A t, u \in Tokens : rt[t] = "live" /\ rt[u] = "live" /\ root[t] = root[u]
                         => t = u

\* The chain of a login that has no live token left never gets one again: a
\* refresh that is in flight while the chain is revoked cannot revive it
\* (auth.logout, auth.refresh, profile.change_password).
DeadChainStaysDead ==
  [][\A n \in Tokens :
       (rt[n] # "none" /\ \A t \in Live : root[t] # root[n])
         => \A t \in Tokens : rt'[t] = "live" => root'[t] # root[n]]_vars

\* A reset link that was redeemed, superseded by a newer request, or deleted sets
\* no password any more: the check and the commit of reset_password see the same
\* row (FOR UPDATE).
ResetIsOneTime ==
  [][\A p \in Resets : reset[p] \in {"used", "gone"} => redeemed'[p] = redeemed[p]]_vars

\* When an account stays deactivated, the user cache ends up without a row
\* that calls it active, also if the eviction failed or a slow reader stored
\* the row it had read before (_get_user_cached, invalidate_user_cache).
DeactivationTakesEffect ==
  <>[](account = "inactive") => <>[](cache # "active")
=============================================================================
