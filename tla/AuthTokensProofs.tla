-------------------------- MODULE AuthTokensProofs --------------------------
(***************************************************************************)
(* Proofs about AuthTokens for any number of concurrent requests and any    *)
(* number of tokens.  The argument rests on row locks being exclusive: a    *)
(* refresh that has claimed a token holds its row until it commits, so the  *)
(* token is still live when its successor replaces it; and reset_password   *)
(* holds the row of the reset token from the check to the commit.           *)
(***************************************************************************)
EXTENDS AuthTokens, TLAPS

\* Two transactions never hold the same row.
Exclusive == \A r, q \in Requests : r # q => held[r] \cap held[q] = {}

\* The root of an issued token is an issued token.
RootsIssued == \A t \in Tokens : rt[t] # "none" => rt[root[t]] # "none"

\* What a request relies on from one of its steps to the next.
ReqOK(r) ==
  /\ pc[r] \in {"refresh", "lookup", "logout", "rotate", "mint"}
       => tok[r] \in Tokens /\ rt[tok[r]] # "none"
  /\ pc[r] \in {"rotate", "mint"} => rt[tok[r]] = "live" /\ tok[r] \in held[r]
  /\ pc[r] = "redeem" => tok[r] \in Resets
  /\ pc[r] \in {"flush", "revoke"} /\ op[r] = "reset"
       => tok[r] \in Resets /\ tok[r] \in held[r] /\ reset[tok[r]] = "unused"
  /\ pc[r] = "refetch" => op[r] # "reset"
  /\ pc[r] = "fill" => seen[r] # "none"

RequestsOK == \A r \in Requests : ReqOK(r)

\* Only rows that exist are locked or waited for.
RowThere(x) == /\ x \in Tokens => rt[x] # "none"
               /\ x \in Resets => reset[x] # "none"
OwnRows(r) == \A x \in held[r] \cup todo[r] : RowThere(x)
RowsExist == \A r \in Requests : OwnRows(r)

AuthInv == /\ TypeOK
           /\ Exclusive
           /\ RootsIssued
           /\ OneLivePerLogin
           /\ RequestsOK
           /\ RowsExist

\* A step of r leaves the other requests alone, and every row they hold.
Others(r) ==
  /\ \A q \in Requests \ {r} : /\ pc'[q] = pc[q] /\ op'[q] = op[q]
                               /\ tok'[q] = tok[q] /\ held'[q] = held[q]
                               /\ seen'[q] = seen[q] /\ todo'[q] = todo[q]
  /\ \A x \in held'[r] : x \in held[r] \/ MayLock(r, x)
  /\ \A x \in held'[r] \cup todo'[r] : x \in held[r] \cup todo[r] \/ RowThere(x)
Kept(r) ==
  \A q \in Requests \ {r} : \A x \in held[q] :
    /\ x \in Tokens => rt'[x] = rt[x]
    /\ x \in Resets => reset'[x] = reset[x]

-----------------------------------------------------------------------------
\* No request is under way and no token is issued at the start.
LEMMA InitInv == Init => AuthInv
BY AuthConstants DEF Init, AuthInv, TypeOK, Exclusive, RootsIssued,
   OneLivePerLogin, RequestsOK, ReqOK, RowsExist, OwnRows, Places, Ops

\* What the end of a handler does to the request's own variables.
LEMMA AnswerFacts ==
  ASSUME TypeOK, NEW r \in Requests, Answer(r)
  PROVE  /\ Others(r) /\ ReqOK(r)' /\ held'[r] = {}
         /\ pc' \in [Requests -> Places] /\ op' \in [Requests -> Ops]
         /\ tok' \in [Requests -> Tokens \cup Resets \cup {None}]
         /\ seen' \in [Requests -> {"none", "active", "inactive"}]
         /\ todo' \in [Requests -> SUBSET Rows]
         /\ held' \in [Requests -> SUBSET Rows]
BY DEF Answer, Goto, TypeOK, Others, ReqOK, Places, Ops

\* The tables may change where no other request holds a row: the other
\* requests can still rely on what they knew.
LEMMA Frame ==
  ASSUME AuthInv, TypeOK', NEW r \in Requests, Others(r), Kept(r), ReqOK(r)',
         \A t \in Tokens : rt[t] # "none" => rt'[t] # "none",
         \A p \in Resets : reset[p] # "none" => reset'[p] # "none"
  PROVE  Exclusive' /\ RequestsOK' /\ RowsExist'
<1>1. Exclusive'
  BY DEF AuthInv, Exclusive, Others, MayLock
<1>2. ASSUME NEW q \in Requests, q # r PROVE ReqOK(q)'
  <2>1. ReqOK(q) /\ pc'[q] = pc[q] /\ op'[q] = op[q] /\ tok'[q] = tok[q]
        /\ held'[q] = held[q] /\ seen'[q] = seen[q] /\ todo'[q] = todo[q]
    BY <1>2 DEF AuthInv, RequestsOK, Others
  <2>2. \A x \in held[q] : /\ x \in Tokens => rt'[x] = rt[x]
                           /\ x \in Resets => reset'[x] = reset[x]
    BY <1>2 DEF Kept
  <2> QED BY <2>1, <2>2 DEF ReqOK
<1>3. RequestsOK'
  BY <1>2 DEF RequestsOK
<1>4. ASSUME NEW q \in Requests, q # r PROVE OwnRows(q)'
  <2>1. OwnRows(q) /\ held'[q] = held[q] /\ todo'[q] = todo[q]
    BY <1>4 DEF AuthInv, RowsExist, Others
  <2> QED BY <2>1 DEF OwnRows, RowThere
<1>5. OwnRows(r)'
  BY DEF AuthInv, RowsExist, OwnRows, RowThere, Others
<1>6. RowsExist'
  BY <1>4, <1>5 DEF RowsExist
<1> QED BY <1>1, <1>3, <1>6

\* A step that changes no token row.
LEMMA QuietStep ==
  ASSUME AuthInv, TypeOK', NEW r \in Requests, Others(r), ReqOK(r)',
         UNCHANGED <<rt, root, reset>>
  PROVE  AuthInv'
<1>1. Kept(r)
  BY DEF Kept
<1>2. Exclusive' /\ RequestsOK' /\ RowsExist'
  BY <1>1, Frame
<1>3. RootsIssued' /\ OneLivePerLogin'
  BY DEF AuthInv, RootsIssued, OneLivePerLogin
<1> QED BY <1>2, <1>3 DEF AuthInv

\* A step that only revokes tokens, none of them held by another request.
LEMMA RevokeStep ==
  ASSUME AuthInv, TypeOK', NEW r \in Requests, Others(r), Kept(r), ReqOK(r)',
         UNCHANGED root,
         \A t \in Tokens : rt'[t] = rt[t] \/ (rt'[t] = "revoked" /\ rt[t] # "none"),
         \A p \in Resets : reset[p] # "none" => reset'[p] # "none"
  PROVE  AuthInv'
<1>1. \A t \in Tokens : rt[t] # "none" <=> rt'[t] # "none"
  BY DEF AuthInv, TypeOK
<1>2. Exclusive' /\ RequestsOK' /\ RowsExist'
  BY <1>1, Frame
<1>3. RootsIssued'
  BY <1>1 DEF AuthInv, RootsIssued, TypeOK
<1>4. OneLivePerLogin'
  BY DEF AuthInv, OneLivePerLogin
<1> QED BY <1>2, <1>3, <1>4 DEF AuthInv

\* The part of TypeOK that is about the requests.
LocalTypeOK ==
  /\ pc \in [Requests -> Places] /\ op \in [Requests -> Ops]
  /\ tok \in [Requests -> Tokens \cup Resets \cup {None}]
  /\ seen \in [Requests -> {"none", "active", "inactive"}]
  /\ todo \in [Requests -> SUBSET Rows]
  /\ held \in [Requests -> SUBSET Rows]

\* What the start of a request does to its own variables.
LEMMA BeginFacts ==
  ASSUME TypeOK, NEW r \in Requests, NEW place \in Places, NEW o \in Ops,
         NEW x \in Tokens \cup Resets \cup {None},
         NEW what \in {"none", "active", "inactive"},
         Begin(r, place, o, x, what)
  PROVE  /\ Others(r)
         /\ pc'[r] = place /\ op'[r] = o /\ tok'[r] = x /\ seen'[r] = what
         /\ held'[r] = held[r] /\ todo'[r] = todo[r]
         /\ LocalTypeOK'
BY DEF Begin, Goto, TypeOK, LocalTypeOK, Others

\* Requests that begin.
LEMMA BeginStep ==
  ASSUME AuthInv, NEW r \in Requests,
         \/ Register(r) \/ LoginRead(r) \/ ForgotRead(r)
         \/ Bootstrap(r)
         \/ \E t \in Tokens : RefreshBegin(r, t) \/ LogoutRead(r, t)
         \/ \E p \in Resets : RedeemBegin(r, p)
  PROVE  AuthInv'
<1>0. TypeOK /\ ReqOK(r) /\ OwnRows(r)
  BY DEF AuthInv, RequestsOK, RowsExist
<1>1. CASE Register(r)
  <2>1. Begin(r, "issue", "none", None, "none")
    BY <1>1 DEF Register
  <2>2. /\ Others(r) /\ LocalTypeOK'
        /\ pc'[r] \in {"issue", "login", "forgot", "evict"}
    BY <1>0, <2>1, BeginFacts DEF Places, Ops
  <2>3. TypeOK'
    BY <1>0, <1>1, <2>2 DEF TypeOK, LocalTypeOK, Register
  <2>4. ReqOK(r)'
    BY <2>2 DEF ReqOK
  <2> QED BY <1>1, <2>2, <2>3, <2>4, QuietStep DEF Register
<1>2. CASE LoginRead(r)
  <2>1. Begin(r, "login", "none", None, account) /\ account \in {"active", "inactive"}
    BY <1>0, <1>2 DEF LoginRead, TypeOK
  <2>2. /\ Others(r) /\ LocalTypeOK'
        /\ pc'[r] \in {"issue", "login", "forgot", "evict"}
    BY <1>0, <2>1, BeginFacts DEF Places, Ops
  <2>3. TypeOK'
    BY <1>0, <1>2, <2>2 DEF TypeOK, LocalTypeOK, LoginRead, db
  <2>4. ReqOK(r)'
    BY <2>2 DEF ReqOK
  <2> QED BY <1>2, <2>2, <2>3, <2>4, QuietStep DEF LoginRead, db
<1>4. CASE ForgotRead(r)
  <2>1. Begin(r, "forgot", "none", None, "none")
    BY <1>4 DEF ForgotRead
  <2>2. /\ Others(r) /\ LocalTypeOK'
        /\ pc'[r] \in {"issue", "login", "forgot", "evict"}
    BY <1>0, <2>1, BeginFacts DEF Places, Ops
  <2>3. TypeOK'
    BY <1>0, <1>4, <2>2 DEF TypeOK, LocalTypeOK, ForgotRead, db
  <2>4. ReqOK(r)'
    BY <2>2 DEF ReqOK
  <2> QED BY <1>4, <2>2, <2>3, <2>4, QuietStep DEF ForgotRead, db
<1>5. CASE Bootstrap(r)
  <2>1. CASE account = "inactive"
    <3>1. Begin(r, "evict", "none", None, "none")
      BY <1>5, <2>1 DEF Bootstrap
    <3>2. /\ Others(r) /\ LocalTypeOK'
          /\ pc'[r] \in {"issue", "login", "forgot", "evict"}
      BY <1>0, <3>1, BeginFacts DEF Places, Ops
    <3>3. TypeOK'
      BY <1>0, <1>5, <3>2 DEF TypeOK, LocalTypeOK, Bootstrap
    <3>4. ReqOK(r)'
      BY <3>2 DEF ReqOK
    <3> QED BY <1>5, <3>2, <3>3, <3>4, QuietStep DEF Bootstrap
  <2>2. CASE account # "inactive"
    <3>1. TypeOK' /\ Others(r)
      BY <1>0, <1>5, <2>2 DEF TypeOK, Bootstrap, Others, local
    <3>2. ReqOK(r)'
      BY <1>5, <2>2 DEF AuthInv, RequestsOK, ReqOK, Bootstrap, local
    <3> QED BY <1>5, <3>1, <3>2, QuietStep DEF Bootstrap
  <2> QED BY <2>1, <2>2
<1>6. ASSUME NEW t \in Tokens, RefreshBegin(r, t) PROVE AuthInv'
  <2>1. PICK place \in {"refresh", "lookup"} : Begin(r, place, "none", t, "none")
    BY <1>6 DEF RefreshBegin
  <2>a. Others(r) /\ LocalTypeOK'
    BY <1>0, <2>1, BeginFacts DEF Places, Ops
  <2>2. TypeOK'
    BY <1>0, <1>6, <2>a DEF TypeOK, LocalTypeOK, RefreshBegin, db
  <2>3. pc'[r] = place /\ tok'[r] = t /\ UNCHANGED <<rt, reset>> /\ rt[t] # "none"
        /\ held'[r] = held[r] /\ todo'[r] = todo[r]
    BY <1>0, <1>6, <2>1, BeginFacts DEF RefreshBegin, Places, Ops, db
  <2>4. ReqOK(r)'
    BY <1>0, <2>3 DEF ReqOK
  <2> QED BY <1>6, <2>a, <2>2, <2>3, <2>4, QuietStep DEF RefreshBegin, db
<1>7. ASSUME NEW t \in Tokens, LogoutRead(r, t) PROVE AuthInv'
  <2>1. Begin(r, "logout", "none", t, "none")
    BY <1>7 DEF LogoutRead
  <2>a. Others(r) /\ LocalTypeOK'
    BY <1>0, <2>1, BeginFacts DEF Places, Ops
  <2>2. TypeOK'
    BY <1>0, <1>7, <2>a DEF TypeOK, LocalTypeOK, LogoutRead, db
  <2>3. pc'[r] = "logout" /\ tok'[r] = t /\ UNCHANGED <<rt, reset>> /\ rt[t] # "none"
        /\ held'[r] = held[r] /\ todo'[r] = todo[r]
    BY <1>0, <1>7, <2>1, BeginFacts DEF LogoutRead, Places, Ops, db
  <2>4. ReqOK(r)'
    BY <1>0, <2>3 DEF ReqOK
  <2> QED BY <1>7, <2>a, <2>2, <2>3, <2>4, QuietStep DEF LogoutRead, db
<1>8. ASSUME NEW p \in Resets, RedeemBegin(r, p) PROVE AuthInv'
  <2>1. Begin(r, "redeem", "reset", p, "none")
    BY <1>8 DEF RedeemBegin
  <2>a. Others(r) /\ LocalTypeOK'
    BY <1>0, <2>1, BeginFacts DEF Places, Ops
  <2>2. TypeOK'
    BY <1>0, <1>8, <2>a DEF TypeOK, LocalTypeOK, RedeemBegin, db
  <2>3. pc'[r] = "redeem" /\ tok'[r] = p /\ UNCHANGED <<rt, reset>>
        /\ held'[r] = held[r] /\ todo'[r] = todo[r]
    BY <1>0, <1>8, <2>1, BeginFacts DEF RedeemBegin, Places, Ops, db
  <2>4. ReqOK(r)'
    BY <1>0, <2>3 DEF ReqOK
  <2> QED BY <1>8, <2>a, <2>2, <2>3, <2>4, QuietStep DEF RedeemBegin, db
<1> QED BY <1>1, <1>2, <1>4, <1>5, <1>6, <1>7, <1>8

\* Steps that leave the token tables alone.
LEMMA LocalStep ==
  ASSUME AuthInv, NEW r \in Requests,
         \/ LoginFails(r) \/ LoginStamp(r) \/ RefreshClaim(r) \/ RefreshMiss(r)
         \/ RefreshLookup(r) \/ Authenticate(r) \/ CacheLoad(r) \/ CacheFill(r)
         \/ Refetch(r) \/ FlushAndSelect(r) \/ Evict(r) \/ SupersedeBegin(r)
         \/ RedeemCheck(r) \/ DeadlockAbort(r) \/ StaleRow(r)
         \/ \E x \in Rows : LockRow(r, x)
  PROVE  AuthInv'
<1>0. TypeOK /\ ReqOK(r) /\ OwnRows(r)
  BY DEF AuthInv, RequestsOK, RowsExist
<1>a. ASSUME Answer(r), UNCHANGED <<account, rt, root, reset, redeemed>>,
             cache' \in {"empty", "active", "inactive"}
      PROVE  AuthInv'
  <2>1. TypeOK' /\ Others(r) /\ ReqOK(r)'
    BY <1>0, <1>a, AnswerFacts DEF TypeOK
  <2> QED BY <1>a, <2>1, QuietStep
<1>p. ASSUME Proceed(r), UNCHANGED <<account, rt, root, reset, redeemed>>,
             cache' \in {"empty", "active", "inactive"}
      PROVE  AuthInv'
  <2>1. CASE Answer(r)
    BY <1>a, <1>p, <2>1
  <2>2. CASE ~Answer(r)
    <3>1. PICK o \in {"change", "delete"} : op' = [op EXCEPT ![r] = o]
      BY <1>p, <2>2 DEF Proceed
    <3>2. TypeOK' /\ Others(r)
      BY <1>0, <1>p, <2>2, <3>1 DEF Proceed, Goto, TypeOK, Others, Places, Ops
    <3>3. pc'[r] = "refetch" /\ op'[r] # "reset" /\ held' = held /\ todo' = todo
      BY <1>0, <1>p, <2>2, <3>1 DEF Proceed, Goto, TypeOK
    <3>4. ReqOK(r)'
      BY <1>0, <1>p, <3>3 DEF ReqOK
    <3> QED BY <1>p, <3>2, <3>4, QuietStep
  <2> QED BY <2>1, <2>2
<1>1. CASE LoginFails(r)
  BY <1>0, <1>1, <1>a DEF LoginFails, db, TypeOK
<1>2. CASE LoginStamp(r)
  <2>1. TypeOK' /\ Others(r) /\ ReqOK(r)'
    BY <1>0, <1>2 DEF LoginStamp, Goto, TypeOK, Others, ReqOK, Places, Ops, db, local
  <2> QED BY <1>2, <2>1, QuietStep DEF LoginStamp, db
<1>3. CASE RefreshClaim(r)
  <2>1. tok[r] \in Tokens /\ rt[tok[r]] = "live" /\ MayLock(r, tok[r])
    BY <1>0, <1>3 DEF RefreshClaim, MayClaim, ReqOK
  <2>2. TypeOK' /\ Others(r)
    BY <1>0, <1>3, <2>1, AuthConstants DEF RefreshClaim, Goto, TypeOK, Others, Places,
       Rows, db, RowThere
  <2>3. pc'[r] = "rotate" /\ tok'[r] = tok[r] /\ held'[r] = {tok[r]}
        /\ UNCHANGED <<rt, reset, todo>>
    BY <1>0, <1>3 DEF RefreshClaim, Goto, TypeOK, db
  <2>4. ReqOK(r)'
    BY <1>0, <2>1, <2>3, AuthConstants DEF ReqOK
  <2> QED BY <1>3, <2>2, <2>4, QuietStep DEF RefreshClaim, db
<1>4. CASE RefreshMiss(r)
  <2>1. TypeOK' /\ Others(r) /\ ReqOK(r)'
    BY <1>0, <1>4 DEF RefreshMiss, Goto, TypeOK, Others, ReqOK, Places, db, local
  <2> QED BY <1>4, <2>1, QuietStep DEF RefreshMiss, db
<1>5. CASE RefreshLookup(r)
  <2>1. CASE rt[tok[r]] = "revoked"
    <3>1. TypeOK' /\ ReqOK(r)'
      BY <1>0, <1>5, <2>1 DEF RefreshLookup, Goto, TypeOK, ReqOK, Places,
         Present, Rows, db
    <3>2. Others(r)
      BY <1>0, <1>5, <2>1, AuthConstants DEF RefreshLookup, Goto, TypeOK, Others,
         Present, RowThere
    <3> QED BY <1>5, <3>1, <3>2, QuietStep DEF RefreshLookup, db
  <2>2. CASE rt[tok[r]] # "revoked"
    BY <1>0, <1>5, <2>2, <1>a DEF RefreshLookup, db, TypeOK
  <2> QED BY <2>1, <2>2
<1>6. CASE Authenticate(r)
  <2>1. CASE Proceed(r)
    BY <1>0, <1>6, <2>1, <1>p DEF Authenticate, db, TypeOK
  <2>2. CASE Goto(r, "load") /\ UNCHANGED local
    <3>1. TypeOK' /\ Others(r) /\ ReqOK(r)'
      BY <1>0, <1>6, <2>2 DEF Authenticate, Goto, TypeOK, Others, ReqOK, Places, db, local
    <3> QED BY <1>6, <3>1, QuietStep DEF Authenticate, db
  <2> QED BY <1>6, <2>1, <2>2 DEF Authenticate
<1>7. ASSUME ReadUser(r, "load", "fill") \/ ReadUser(r, "refetch", "flush")
      PROVE  AuthInv'
  <2>1. CASE account = "absent"
    BY <1>0, <1>7, <2>1, <1>a DEF ReadUser, db, TypeOK
  <2>2. CASE account # "absent"
    <3>1. TypeOK' /\ Others(r)
      BY <1>0, <1>7, <2>2 DEF ReadUser, Goto, TypeOK, Others, Places, db
    <3>2. /\ pc'[r] = "fill" \/ (pc[r] = "refetch" /\ pc'[r] = "flush")
          /\ seen'[r] = account /\ op'[r] = op[r] /\ UNCHANGED <<tok, held, rt, reset>>
      BY <1>0, <1>7, <2>2 DEF ReadUser, Goto, TypeOK, db
    <3>3. ReqOK(r)'
      BY <1>0, <3>2 DEF ReqOK, TypeOK
    <3> QED BY <1>7, <2>2, <3>1, <3>3, QuietStep DEF ReadUser, db
  <2> QED BY <2>1, <2>2
<1>8. CASE CacheFill(r)
  <2>1. cache' \in {"empty", "active", "inactive"}
    BY <1>0, <1>8 DEF CacheFill, TypeOK, ReqOK
  <2>2. Proceed(r) \/ Answer(r)
    BY <1>8 DEF CacheFill
  <2> QED BY <1>8, <2>1, <2>2, <1>a, <1>p DEF CacheFill, db
<1>9. CASE FlushAndSelect(r)
  <2>1. TypeOK'
    BY <1>0, <1>9 DEF FlushAndSelect, Goto, TypeOK, Places, Live, Rows, db
  <2>2. Others(r)
    BY <1>0, <1>9, AuthConstants DEF FlushAndSelect, Goto, TypeOK, Others, Live, RowThere
  <2>3. pc[r] = "flush" /\ pc'[r] = "revoke" /\ op'[r] = op[r] /\ tok'[r] = tok[r]
        /\ held[r] \subseteq held'[r] /\ todo'[r] = Live
        /\ UNCHANGED <<rt, reset>>
    BY <1>0, <1>9 DEF FlushAndSelect, Goto, TypeOK, db
  <2>4. ReqOK(r)'
    BY <1>0, <2>3, AuthConstants DEF ReqOK, Live
  <2> QED BY <1>9, <2>1, <2>2, <2>4, QuietStep DEF FlushAndSelect, db
<1>10. CASE Evict(r)
  BY <1>0, <1>10, <1>a DEF Evict, db, TypeOK
<1>11. CASE SupersedeBegin(r)
  <2>1. TypeOK' /\ ReqOK(r)'
    BY <1>0, <1>11 DEF SupersedeBegin, Goto, TypeOK, ReqOK, Places, Unused, Rows, db
  <2>2. Others(r)
    BY <1>0, <1>11, AuthConstants DEF SupersedeBegin, Goto, TypeOK, Others, Unused, RowThere
  <2> QED BY <1>11, <2>1, <2>2, QuietStep DEF SupersedeBegin, db
<1>12. CASE RedeemCheck(r)
  <2>1. CASE Answer(r)
    BY <1>0, <1>12, <2>1, <1>a DEF RedeemCheck, db, TypeOK
  <2>2. CASE ~Answer(r)
    <3>1. tok[r] \in Resets /\ reset[tok[r]] = "unused" /\ MayLock(r, tok[r])
      BY <1>0, <1>12, <2>2 DEF RedeemCheck, ReqOK
    <3>2. TypeOK' /\ Others(r)
      BY <1>0, <1>12, <2>2, <3>1, AuthConstants DEF RedeemCheck, RedeemLocks, Goto, TypeOK, Others,
         Places, Rows, db, RowThere
    <3>3. pc'[r] = "flush" /\ tok'[r] = tok[r] /\ held'[r] = {tok[r]}
          /\ UNCHANGED <<rt, reset, todo>>
      BY <1>0, <1>12, <2>2 DEF RedeemCheck, RedeemLocks, Goto, TypeOK, db
    <3>4. ReqOK(r)'
      BY <1>0, <3>1, <3>3, AuthConstants DEF ReqOK
    <3> QED BY <1>12, <3>2, <3>4, QuietStep DEF RedeemCheck, db
  <2> QED BY <2>1, <2>2
<1>13. CASE DeadlockAbort(r)
  BY <1>0, <1>13, <1>a DEF DeadlockAbort, db, TypeOK
<1>14. ASSUME NEW x \in Rows, LockRow(r, x) PROVE AuthInv'
  <2>1. TypeOK' /\ Others(r)
    BY <1>0, <1>14 DEF LockRow, Skipped, TypeOK, Others, db
  <2>2. pc' = pc /\ op' = op /\ tok' = tok /\ rt' = rt /\ reset' = reset
        /\ held[r] \subseteq held'[r] /\ seen' = seen
        /\ held'[r] \cup todo'[r] \subseteq held[r] \cup todo[r]
    BY <1>0, <1>14 DEF LockRow, TypeOK, db
  <2>3. ReqOK(r)'
    BY <1>0, <2>2 DEF ReqOK
  <2> QED BY <1>14, <2>1, <2>3, QuietStep DEF LockRow, db
<1>15. CASE StaleRow(r)
  BY <1>0, <1>15, <1>a DEF StaleRow, db, TypeOK
<1> QED BY <1>1, <1>2, <1>3, <1>4, <1>5, <1>6, <1>7, <1>8, <1>9, <1>10, <1>11,
           <1>12, <1>13, <1>14, <1>15 DEF CacheLoad, Refetch

\* Rows held by r are held by nobody else.
LEMMA HeldByOne ==
  ASSUME AuthInv, NEW r \in Requests, NEW q \in Requests \ {r}, NEW x \in held[q]
  PROVE  x \notin held[r] /\ ~MayLock(r, x)
BY DEF AuthInv, Exclusive, MayLock

\* Steps that commit a change of the token tables.
LEMMA CommitStep ==
  ASSUME AuthInv, NEW r \in Requests,
         \/ IssueTokens(r) \/ ReuseCommit(r) \/ RotateCheck(r) \/ Mint(r)
         \/ LogoutWrite(r) \/ CredentialCommit(r) \/ MintReset(r)
  PROVE  AuthInv'
<1>0. /\ TypeOK /\ ReqOK(r) /\ OwnRows(r)
      /\ Exclusive /\ RootsIssued /\ OneLivePerLogin
  BY DEF AuthInv, RequestsOK, RowsExist
<1>h. \A q \in Requests \ {r} : \A x \in held[q] : x \notin held[r] /\ ~MayLock(r, x)
  BY HeldByOne
<1>e. \A q \in Requests : \A x \in held[q] : RowThere(x)
  BY DEF AuthInv, RowsExist, OwnRows
<1>1. CASE IssueTokens(r)
  <2>1. PICK n \in Fresh : /\ rt' = [rt EXCEPT ![n] = "live"]
                            /\ root' = [root EXCEPT ![n] = n]
    BY <1>1 DEF IssueTokens
  <2>2. n \in Tokens /\ rt[n] = "none"
    BY <2>1 DEF Fresh
  <2>3. TypeOK' /\ Others(r) /\ ReqOK(r)'
    BY <1>0, <1>1, <2>1, <2>2, AnswerFacts DEF IssueTokens, TypeOK
  <2>4. \A t \in Tokens : rt'[t] = (IF t = n THEN "live" ELSE rt[t])
                           /\ root'[t] = (IF t = n THEN n ELSE root[t])
    BY <1>0, <2>1, <2>2 DEF TypeOK
  <2>5. RootsIssued' /\ OneLivePerLogin'
    BY <1>0, <2>2, <2>4 DEF RootsIssued, OneLivePerLogin, TypeOK
  <2>6. Kept(r)
    BY <1>1, <1>e, <2>2, <2>4 DEF Kept, IssueTokens, RowThere
  <2>7. Exclusive' /\ RequestsOK' /\ RowsExist'
    BY <1>1, <2>3, <2>4, <2>6, Frame DEF IssueTokens
  <2> QED BY <2>3, <2>5, <2>7 DEF AuthInv
<1>2. CASE ReuseCommit(r)
  <2>1. \A t \in Tokens : rt'[t] = (IF t \in held[r] THEN "revoked" ELSE rt[t])
    BY <1>2 DEF ReuseCommit
  <2>2. TypeOK' /\ Others(r) /\ ReqOK(r)'
    BY <1>0, <1>2, AnswerFacts DEF ReuseCommit, TypeOK
  <2>3. Kept(r)
    BY <1>2, <1>h, <2>1 DEF ReuseCommit, Kept
  <2>4. \A t \in Tokens : rt'[t] = rt[t] \/ (rt'[t] = "revoked" /\ rt[t] # "none")
    BY <1>e, <2>1 DEF RowThere
  <2> QED BY <1>2, <2>2, <2>3, <2>4, RevokeStep DEF ReuseCommit
<1>3. CASE RotateCheck(r)
  <2>1. tok[r] \in Tokens /\ rt[tok[r]] = "live" /\ tok[r] \in held[r]
    BY <1>0, <1>3 DEF RotateCheck, ReqOK
  <2>2. CASE account = "active"
    <3>1. TypeOK' /\ Others(r) /\ ReqOK(r)'
      BY <1>0, <1>3, <2>1, <2>2 DEF RotateCheck, Goto, TypeOK, Others, ReqOK, Places, local
    <3> QED BY <1>3, <2>2, <3>1, QuietStep DEF RotateCheck
  <2>3. CASE account # "active"
    <3>1. rt' = [rt EXCEPT ![tok[r]] = "revoked"] /\ Answer(r)
          /\ UNCHANGED <<account, root, reset, redeemed, cache>>
      BY <1>3, <2>3 DEF RotateCheck
    <3>2. TypeOK' /\ Others(r) /\ ReqOK(r)'
      BY <1>0, <3>1, <2>1, AnswerFacts DEF TypeOK
    <3>3. Kept(r)
      BY <1>0, <1>h, <2>1, <3>1 DEF Kept, TypeOK
    <3>4. \A t \in Tokens : rt'[t] = rt[t] \/ (rt'[t] = "revoked" /\ rt[t] # "none")
      BY <1>0, <2>1, <3>1 DEF TypeOK
    <3> QED BY <3>1, <3>2, <3>3, <3>4, RevokeStep
  <2> QED BY <2>2, <2>3
<1>4. CASE Mint(r)
  <2>0. tok[r] \in Tokens /\ rt[tok[r]] = "live" /\ tok[r] \in held[r]
    BY <1>0, <1>4 DEF Mint, ReqOK
  <2>1. PICK n \in Fresh : /\ rt' = [rt EXCEPT ![tok[r]] = "revoked", ![n] = "live"]
                            /\ root' = [root EXCEPT ![n] = root[tok[r]]]
    BY <1>4 DEF Mint
  <2>2. n \in Tokens /\ rt[n] = "none" /\ n # tok[r]
    BY <2>0, <2>1 DEF Fresh
  <2>3. TypeOK' /\ Others(r) /\ ReqOK(r)' /\ reset' = reset
    BY <1>0, <1>4, <2>0, <2>1, <2>2, AnswerFacts DEF Mint, TypeOK
  <2>4. \A t \in Tokens :
          /\ rt'[t] = (IF t = n THEN "live" ELSE IF t = tok[r] THEN "revoked" ELSE rt[t])
          /\ root'[t] = (IF t = n THEN root[tok[r]] ELSE root[t])
    BY <1>0, <2>0, <2>1, <2>2 DEF TypeOK
  <2>5. RootsIssued'
    BY <1>0, <2>0, <2>2, <2>4 DEF RootsIssued, TypeOK
  <2>6. OneLivePerLogin'
    BY <1>0, <2>0, <2>2, <2>4 DEF OneLivePerLogin, TypeOK
  <2>7. Kept(r)
    BY <1>e, <1>h, <2>0, <2>2, <2>3, <2>4 DEF Kept, RowThere
  <2>8. Exclusive' /\ RequestsOK' /\ RowsExist'
    BY <2>3, <2>4, <2>7, Frame
  <2> QED BY <2>3, <2>5, <2>6, <2>8 DEF AuthInv
<1>5. CASE LogoutWrite(r)
  <2>1. tok[r] \in Tokens /\ rt[tok[r]] # "none" /\ MayLock(r, tok[r])
    BY <1>0, <1>5 DEF LogoutWrite, ReqOK
  <2>2. TypeOK' /\ Others(r) /\ ReqOK(r)'
    BY <1>0, <1>5, <2>1, AnswerFacts DEF LogoutWrite, TypeOK
  <2>3. Kept(r)
    BY <1>0, <1>5, <1>h, <2>1 DEF LogoutWrite, Kept, TypeOK
  <2>4. \A t \in Tokens : rt'[t] = rt[t] \/ (rt'[t] = "revoked" /\ rt[t] # "none")
    BY <1>0, <1>5, <2>1 DEF LogoutWrite, TypeOK
  <2> QED BY <1>5, <2>2, <2>3, <2>4, RevokeStep DEF LogoutWrite
<1>6. CASE CredentialCommit(r)
  <2>1. /\ \A t \in Tokens : rt'[t] = (IF t \in held[r] THEN "revoked" ELSE rt[t])
        /\ \A p \in Resets : reset'[p] = (IF p \in held[r] THEN "used" ELSE reset[p])
    BY <1>6 DEF CredentialCommit
  <2>2. /\ pc'[r] = "evict" /\ held'[r] = {} /\ todo'[r] = {}
        /\ pc' \in [Requests -> Places]
        /\ Others(r)
    BY <1>0, <1>6 DEF CredentialCommit, Goto, TypeOK, Places, Others
  <2>3. redeemed' \in [Resets -> Nat]
    BY <1>0, <1>6 DEF CredentialCommit, TypeOK
  <2>4. TypeOK'
    BY <1>0, <1>6, <2>2, <2>3 DEF CredentialCommit, StatusAfter, TypeOK, Ops
  <2>5. ReqOK(r)'
    BY <2>2 DEF ReqOK
  <2>6. Kept(r)
    BY <1>h, <2>1 DEF Kept
  <2>7. \A t \in Tokens : rt'[t] = rt[t] \/ (rt'[t] = "revoked" /\ rt[t] # "none")
    BY <1>e, <2>1 DEF RowThere
  <2> QED BY <1>6, <2>1, <2>2, <2>4, <2>5, <2>6, <2>7, RevokeStep DEF CredentialCommit
<1>7. CASE MintReset(r)
  <2>1. PICK n \in FreshResets :
          reset' = [p \in Resets |-> IF p = n THEN "unused"
                                     ELSE IF p \in held[r] THEN "used" ELSE reset[p]]
    BY <1>7 DEF MintReset
  <2>2. TypeOK' /\ Others(r) /\ ReqOK(r)' /\ UNCHANGED <<rt, root>>
    BY <1>0, <1>7, <2>1, AnswerFacts DEF MintReset, TypeOK
  <2>3. \A q \in Requests : n \notin held[q]
    BY <1>e, <2>1 DEF RowThere, FreshResets
  <2>4. Kept(r)
    BY <1>h, <2>1, <2>2, <2>3 DEF Kept
  <2> QED BY <2>1, <2>2, <2>4, RevokeStep
<1> QED BY <1>1, <1>2, <1>3, <1>4, <1>5, <1>6, <1>7

\* The clean-ups delete rows that nobody has locked.
LEMMA CleanupStep ==
  ASSUME AuthInv, refresh_token_cleanup \/ password_reset_token_cleanup
  PROVE  AuthInv'
<1>0. TypeOK /\ Exclusive /\ RootsIssued /\ OneLivePerLogin /\ RequestsOK /\ RowsExist
  BY DEF AuthInv
<1>1. UNCHANGED <<account, root, redeemed, cache, pc, op, tok, seen, todo, held>>
  BY DEF refresh_token_cleanup, password_reset_token_cleanup, local
<1>2. /\ \A t \in Tokens : rt'[t] = rt[t] \/ (rt'[t] = "gone" /\ rt[t] # "none")
      /\ \A p \in Resets : reset'[p] = reset[p] \/ (reset'[p] = "gone" /\ reset[p] # "none")
      /\ \A r \in Requests : \A x \in held[r] :
           (x \in Tokens => rt'[x] = rt[x]) /\ (x \in Resets => reset'[x] = reset[x])
      /\ rt' \in [Tokens -> {"none", "live", "revoked", "gone"}]
      /\ reset' \in [Resets -> {"none", "unused", "used", "gone"}]
  <2>1. CASE refresh_token_cleanup
    <3>1. PICK D \in SUBSET Present :
            /\ Unlocked(D)
            /\ rt' = [t \in Tokens |-> IF t \in D THEN "gone" ELSE rt[t]]
      BY <2>1 DEF refresh_token_cleanup
    <3>2. reset' = reset
      BY <2>1 DEF refresh_token_cleanup
    <3>3. \A r \in Requests : \A x \in held[r] : x \notin D
      BY <3>1 DEF Unlocked
    <3> QED BY <1>0, <3>1, <3>2, <3>3 DEF Present, TypeOK
  <2>2. CASE password_reset_token_cleanup
    <3>1. PICK D \in SUBSET Resets :
            /\ \A p \in D : reset[p] # "none"
            /\ Unlocked(D)
            /\ reset' = [p \in Resets |-> IF p \in D THEN "gone" ELSE reset[p]]
      BY <2>2 DEF password_reset_token_cleanup, Unused
    <3>2. rt' = rt
      BY <2>2 DEF password_reset_token_cleanup
    <3>3. \A r \in Requests : \A x \in held[r] : x \notin D
      BY <3>1 DEF Unlocked
    <3> QED BY <1>0, <3>1, <3>2, <3>3 DEF TypeOK
  <2> QED BY <2>1, <2>2
<1>3. TypeOK'
  BY <1>0, <1>1, <1>2 DEF TypeOK
<1>4. Exclusive' /\ RootsIssued' /\ OneLivePerLogin'
  BY <1>0, <1>1, <1>2 DEF Exclusive, RootsIssued, OneLivePerLogin, TypeOK
<1>5. ASSUME NEW r \in Requests PROVE ReqOK(r)'
  <2>1. ReqOK(r)
    BY <1>0 DEF RequestsOK
  <2> QED BY <1>1, <1>2, <2>1 DEF ReqOK
<1>6. ASSUME NEW r \in Requests PROVE OwnRows(r)'
  <2>1. OwnRows(r)
    BY <1>0 DEF RowsExist
  <2> QED BY <1>1, <1>2, <2>1 DEF OwnRows, RowThere
<1> QED BY <1>3, <1>4, <1>5, <1>6 DEF AuthInv, RequestsOK, RowsExist

\* Every step keeps the invariant.
LEMMA NextInv == AuthInv /\ [Next]_vars => AuthInv'
<1> SUFFICES ASSUME AuthInv, [Next]_vars PROVE AuthInv'
  OBVIOUS
<1>1. ASSUME NEW r \in Requests, Request(r) PROVE AuthInv'
  <2>1. CASE RegisterConflict(r)
    BY <2>1 DEF RegisterConflict, vars, AuthInv, TypeOK, Exclusive, RootsIssued,
       OneLivePerLogin, RequestsOK, ReqOK, RowsExist, OwnRows, RowThere
  <2>2. CASE ~RegisterConflict(r)
    BY <1>1, <2>2, BeginStep, LocalStep, CommitStep DEF Request
  <2> QED BY <2>1, <2>2
<1>2. CASE CacheExpires
  BY <1>2 DEF CacheExpires, db, local, AuthInv, TypeOK, Exclusive, RootsIssued,
     OneLivePerLogin, RequestsOK, ReqOK, RowsExist, OwnRows, RowThere
<1>3. CASE UNCHANGED vars
  BY <1>3 DEF vars, AuthInv, TypeOK, Exclusive, RootsIssued,
     OneLivePerLogin, RequestsOK, ReqOK, RowsExist, OwnRows, RowThere
<1>4. CASE refresh_token_cleanup \/ password_reset_token_cleanup
  BY <1>4, CleanupStep
<1> QED BY <1>1, <1>2, <1>3, <1>4 DEF Next

\* The inductive invariant holds in every behaviour.
THEOREM AuthInvariant == Spec => []AuthInv
<1>1. Init => AuthInv
  BY InitInv
<1>2. AuthInv /\ [Next]_vars => AuthInv'
  BY NextInv
<1> QED BY <1>1, <1>2, PTL DEF Spec

\* Type correctness for any number of requests and tokens.
THEOREM AuthTypeOK == Spec => []TypeOK
<1>1. AuthInv => TypeOK
  BY DEF AuthInv
<1> QED BY <1>1, AuthInvariant, PTL

\* However refreshes, logouts, replays and password changes interleave, at
\* most one of the refresh tokens that descend from a login is live.
THEOREM RotationKeepsOne == Spec => []OneLivePerLogin
<1>1. AuthInv => OneLivePerLogin
  BY DEF AuthInv
<1> QED BY <1>1, AuthInvariant, PTL

\* Only CredentialCommit redeems a reset token.
LEMMA RedeemStep ==
  ASSUME AuthInv, [Next]_vars, NEW p \in Resets, reset[p] \in {"used", "gone"}
  PROVE  redeemed'[p] = redeemed[p]
<1>1. ASSUME NEW r \in Requests, CredentialCommit(r) PROVE redeemed'[p] = redeemed[p]
  <2>1. ReqOK(r) /\ TypeOK
    BY DEF AuthInv, RequestsOK
  <2>2. ~(op[r] = "reset" /\ p = tok[r])
    BY <1>1, <2>1 DEF CredentialCommit, ReqOK
  <2> QED BY <1>1, <2>1, <2>2 DEF CredentialCommit, TypeOK
<1>2. ASSUME NEW r \in Requests, Request(r), ~CredentialCommit(r) PROVE redeemed' = redeemed
  BY <1>2 DEF Request, Register, RegisterConflict, LoginRead, LoginFails, LoginStamp,
     IssueTokens, RefreshBegin, RefreshClaim, RefreshMiss, RefreshLookup, ReuseCommit,
     RotateCheck, Mint, LogoutRead, LogoutWrite, Authenticate,
     CacheLoad, Refetch, ReadUser, CacheFill, FlushAndSelect, Evict, Bootstrap, ForgotRead, SupersedeBegin, MintReset,
     RedeemBegin, RedeemCheck, LockRow, DeadlockAbort, StaleRow, db, vars
<1>3. CASE \/ CacheExpires \/ UNCHANGED vars
           \/ refresh_token_cleanup \/ password_reset_token_cleanup
  BY <1>3 DEF CacheExpires, refresh_token_cleanup, password_reset_token_cleanup, db, vars
<1> QED BY <1>1, <1>2, <1>3 DEF Next

\* A redeemed or superseded reset link sets no password any more.
THEOREM ResetLinksOneTime == Spec => ResetIsOneTime
<1>1. AuthInv /\ [Next]_vars
        => [\A p \in Resets : reset[p] \in {"used", "gone"} => redeemed'[p] = redeemed[p]]_vars
  BY RedeemStep
<1> QED BY <1>1, AuthInvariant, PTL DEF Spec, ResetIsOneTime

\* A token becomes live by a login, as its own root, or by the rotation of a
\* live token, with the same root.
LEMMA BirthStep ==
  ASSUME AuthInv, [Next]_vars, NEW t \in Tokens, rt'[t] = "live"
  PROVE  \/ rt[t] = "live" /\ root'[t] = root[t]
         \/ rt[t] = "none" /\ root'[t] = t
         \/ \E u \in Live : root'[t] = root[u]
<1>0. TypeOK
  BY DEF AuthInv
<1>1. ASSUME NEW r \in Requests, IssueTokens(r)
      PROVE  \/ rt[t] = "live" /\ root'[t] = root[t]
             \/ rt[t] = "none" /\ root'[t] = t
  BY <1>0, <1>1 DEF IssueTokens, Fresh, TypeOK
<1>2. ASSUME NEW r \in Requests, Mint(r)
      PROVE  \/ rt[t] = "live" /\ root'[t] = root[t]
             \/ \E u \in Live : root'[t] = root[u]
  <2>1. tok[r] \in Live
    BY <1>2 DEF AuthInv, RequestsOK, ReqOK, Mint, Live
  <2> QED BY <1>0, <1>2, <2>1 DEF Mint, Fresh, Live, TypeOK
<1>3. ASSUME NEW r \in Requests, ReuseCommit(r) \/ RotateCheck(r) \/ LogoutWrite(r)
                                  \/ CredentialCommit(r)
      PROVE  rt[t] = "live" /\ root'[t] = root[t]
  <2>1. CASE ReuseCommit(r)
    BY <1>0, <2>1 DEF ReuseCommit, TypeOK
  <2>2. CASE RotateCheck(r)
    BY <1>0, <2>2 DEF RotateCheck, TypeOK
  <2>3. CASE LogoutWrite(r)
    BY <1>0, <2>3 DEF LogoutWrite, TypeOK
  <2>4. CASE CredentialCommit(r)
    BY <1>0, <2>4 DEF CredentialCommit, TypeOK
  <2> QED BY <1>3, <2>1, <2>2, <2>3, <2>4
<1>4. ASSUME NEW r \in Requests, Request(r), ~IssueTokens(r), ~Mint(r), ~ReuseCommit(r),
             ~RotateCheck(r), ~LogoutWrite(r), ~CredentialCommit(r)
      PROVE  rt' = rt /\ root' = root
  BY <1>4 DEF Request, Register, RegisterConflict, LoginRead, LoginFails, LoginStamp,
     RefreshBegin, RefreshClaim, RefreshMiss, RefreshLookup,
     LogoutRead, Authenticate,
     CacheLoad, Refetch, ReadUser, CacheFill, FlushAndSelect, Evict, Bootstrap, ForgotRead, SupersedeBegin, MintReset,
     RedeemBegin, RedeemCheck, LockRow, DeadlockAbort, StaleRow, db, vars
<1>5. CASE CacheExpires \/ password_reset_token_cleanup \/ UNCHANGED vars
  BY <1>5 DEF CacheExpires, password_reset_token_cleanup, db, vars
<1>6. CASE refresh_token_cleanup
  BY <1>0, <1>6 DEF refresh_token_cleanup, TypeOK
<1> QED BY <1>1, <1>2, <1>3, <1>4, <1>5, <1>6 DEF Next

\* The chain of a login without a live token never gets one again.
THEOREM ChainsStayDead == Spec => DeadChainStaysDead
<1> DEFINE Dead(n) == rt[n] # "none" /\ \A t \in Live : root[t] # root[n]
           Stays(n) == \A t \in Tokens : rt'[t] = "live" => root'[t] # root[n]
<1>1. ASSUME AuthInv, [Next]_vars, NEW n \in Tokens, Dead(n), NEW t \in Tokens,
             rt'[t] = "live"
      PROVE  root'[t] # root[n]
  <2>1. rt[root[n]] # "none"
    BY <1>1 DEF AuthInv, RootsIssued
  <2> QED BY <1>1, <2>1, BirthStep DEF Live
<1>2. AuthInv /\ [Next]_vars => [\A n \in Tokens : Dead(n) => Stays(n)]_vars
  BY <1>1
<1> QED BY <1>2, AuthInvariant, PTL DEF Spec, DeadChainStaysDead
=============================================================================
