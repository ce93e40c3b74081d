----------------------------- MODULE AccountProofs -----------------------------
(***************************************************************************)
(* Proofs about accounts, sessions and the resetting of passwords, for any  *)
(* numbers of users, requests, tokens and challenges and any value of the   *)
(* limits.  A step is described by its effect on the requests and row locks, *)
(* on the tokens and on the challenges; the invariant follows from these.   *)
(***************************************************************************)
EXTENDS AccountSystem, TLAPS, FiniteSetTheorems

\* A request between locking its user and its end.
Holds(r) == r.op \in Locking /\ (r.at = "locked" \/ r.at = "read")

\* What request c that has just read something, and is r now, knows.
Reads(c, r) ==
  /\ r.op = "verify" /\ r.at = "read" =>
       /\ r.code \in ActiveOf(r.who) /\ UNCHANGED challenges
       /\ challenges[r.code].failedAttempts = r.tries /\ r.tries < MaxAttempts
  /\ r.op = "issue" /\ r.at = "read" =>
       MayMail(r.who) /\ r.time = now /\ UNCHANGED <<challenges, mailed, now>>
  /\ r.op = "change" /\ r.at = "saved" => r.prior = Tokens \ Unissued /\ UNCHANGED tokens
  /\ r.op = "change" /\ r.at = "revoking" =>
       /\ Doing(c, "change", "saved") /\ r.prior = request[c].prior
       /\ r.seen = LiveOf(r.who) /\ UNCHANGED tokens

\* Request c becomes r and takes, keeps or gives back the lock on its user.
Turn(c, r) ==
  /\ request' = [request EXCEPT ![c] = r]
  /\ Fits(r) /\ Reads(c, r)
  /\ \/ ~Holds(r) /\ holder' = Unheld(c)
     \/ ~Holds(r) /\ ~Holds(request[c]) /\ holder' = holder
     \/ Holds(r) /\ Holds(request[c]) /\ r.who = request[c].who /\ holder' = holder
     \/ /\ Holds(r) /\ ~Holds(request[c]) /\ Free(r.who)
        /\ holder' = [holder EXCEPT ![r.who] = c]

-----------------------------------------------------------------------------
(* Requests and row locks *)

\* A blank request is well typed.
LEMMA IdleType == Idle \in Request /\ ~Holds(Idle) /\ Idle.op = "idle"
BY DEF Idle, Request, Open, User, Holds, Locking

\* Giving back a lock keeps the type of the locks.
LEMMA UnheldType ==
  ASSUME TypeOK, NEW c \in Clients
  PROVE  Unheld(c) \in [Users -> Clients \cup {None}]
BY DEF TypeOK, AccountTypeOK, Unheld

\* What a request that begins looks like.
LEMMA TypeBegin ==
  ASSUME NEW u \in Users, NEW op \in Kinds
  PROVE  /\ [Idle EXCEPT !.op = op, !.who = u] \in Request
         /\ \A n \in Nat : [Idle EXCEPT !.op = op, !.who = u, !.time = n] \in Request
         /\ \A n \in Nat, t \in Tokens :
              [Idle EXCEPT !.op = op, !.who = u, !.token = t, !.time = n] \in Request
         /\ \A k \in Codes : [Idle EXCEPT !.op = op, !.who = u, !.code = k] \in Request
BY IdleType DEF Request, Kinds

\* What a request that goes on looks like.
LEMMA TypeGo ==
  ASSUME NEW r \in Request,
         NEW at \in {"start", "locked", "read", "reloaded", "saved", "revoking", "sending"}
  PROVE  /\ [r EXCEPT !.at = at] \in Request
         /\ \A row \in User : [r EXCEPT !.at = at, !.copy = row] \in Request
         /\ \A fs \in SUBSET Flags : [r EXCEPT !.at = at, !.drift = fs] \in Request
         /\ \A ts \in SUBSET Tokens : /\ [r EXCEPT !.at = at, !.seen = ts] \in Request
                                      /\ [r EXCEPT !.at = at, !.prior = ts] \in Request
         /\ \A n \in Nat : [r EXCEPT !.at = at, !.time = n] \in Request
         /\ \A k \in Codes : [r EXCEPT !.at = at, !.code = k] \in Request
         /\ \A k \in Codes, n \in Nat :
              [r EXCEPT !.at = at, !.code = k, !.tries = n] \in Request
<1>1. [r EXCEPT !.at = at] \in Request
  BY DEF Request
<1>2. \A row \in User : [r EXCEPT !.at = at, !.copy = row] \in Request
  BY DEF Request
<1>3. \A fs \in SUBSET Flags : [r EXCEPT !.at = at, !.drift = fs] \in Request
  BY DEF Request
<1>4. \A ts \in SUBSET Tokens : /\ [r EXCEPT !.at = at, !.seen = ts] \in Request
                                /\ [r EXCEPT !.at = at, !.prior = ts] \in Request
  BY DEF Request
<1>5. \A n \in Nat : [r EXCEPT !.at = at, !.time = n] \in Request
  BY DEF Request
<1>6. \A k \in Codes : [r EXCEPT !.at = at, !.code = k] \in Request
  BY DEF Request
<1>7. \A k \in Codes, n \in Nat : [r EXCEPT !.at = at, !.code = k, !.tries = n] \in Request
  BY DEF Request
<1> QED BY <1>1, <1>2, <1>3, <1>4, <1>5, <1>6, <1>7

\* The end of a request is a turn of it.
LEMMA EndTurn ==
  ASSUME NEW c \in Clients, End(c)
  PROVE  Turn(c, Idle)
BY IdleType DEF End, Turn, Reads, Fits

\* The begin of a request is a turn of it.
LEMMA BeginTurn ==
  ASSUME NEW c \in Clients, NEW r \in Request, Begin(c, r), UNCHANGED holder,
         r.at = "start", Fits(r)
  PROVE  Turn(c, r)
BY IdleType DEF Begin, Turn, Holds, Reads

\* Steps of a session are turns of the request.
LEMMA SessionTurn ==
  ASSUME TypeOK, RowsFit, NEW c \in Clients, SessionStep(c)
  PROVE  \E r \in Request : Turn(c, r)
<1>1. request[c] \in Request
  BY DEF TypeOK, AccountTypeOK
<1>2. CASE LockUser(c)
  <2> DEFINE r == [request[c] EXCEPT !.at = "locked"]
  <2>1. CASE End(c)
    BY <2>1, IdleType, EndTurn
  <2>2. CASE Go(c, "locked") /\ holder' = [holder EXCEPT ![request[c].who] = c]
    <3>1. r \in Request
      BY <1>1, TypeGo
    <3>2. /\ request[c].op \in Locking /\ request[c].at = "start" /\ Free(request[c].who)
          /\ request[c].who \in Users
      BY <1>2 DEF LockUser, Locking, RowsFit, Fits
    <3>3. /\ r.op = request[c].op /\ r.at = "locked" /\ r.who = request[c].who
          /\ r.token = request[c].token /\ r.code = request[c].code
      BY <1>1 DEF Request
    <3>4. request' = [request EXCEPT ![c] = r]
      BY <2>2 DEF Go
    <3> HIDE DEF r
    <3>5. Fits(r)
      BY <3>2, <3>3 DEF RowsFit, Fits
    <3>6. Turn(c, r)
      BY <2>2, <3>2, <3>3, <3>4, <3>5 DEF Turn, Holds, Reads
    <3> QED BY <3>1, <3>6
  <2> QED BY <1>2, <2>1, <2>2 DEF LockUser
<1>3. CASE CreateRefreshTokenRecord(c) \/ RotateToken(c)
  BY <1>3, IdleType, EndTurn DEF CreateRefreshTokenRecord, RotateToken
<1>4. ASSUME NEW u \in Users, ValidateUser(c, u) PROVE \E r \in Request : Turn(c, r)
  <2> DEFINE r == [Idle EXCEPT !.op = "login", !.who = u, !.time = now + SessionTtl]
  <2>1. r \in Request /\ r.at = "start" /\ Fits(r)
    <3>1. now + SessionTtl \in Nat /\ "login" \in Kinds
      BY AccountLimits DEF TypeOK, AccountTypeOK, Kinds
    <3> QED BY <3>1, TypeBegin, IdleType DEF Idle, Fits
  <2>2. Begin(c, r) /\ UNCHANGED holder
    BY <1>4 DEF ValidateUser
  <2> HIDE DEF r
  <2> QED BY <2>1, <2>2, BeginTurn
<1>5. ASSUME NEW t \in Tokens, FindValidToken(c, t) PROVE \E r \in Request : Turn(c, r)
  <2> DEFINE u == tokens[t].owner
             r == [Idle EXCEPT !.op = "refresh", !.who = u, !.token = t,
                               !.time = now + SessionTtl]
  <2>1. u \in Users
    BY <1>5 DEF FindValidToken, Valid, RowsFit
  <2>2. Begin(c, r) /\ UNCHANGED holder
    BY <1>5 DEF FindValidToken
  <2> HIDE DEF u
  <2>3. r \in Request /\ r.at = "start" /\ Fits(r)
    <3>1. now + SessionTtl \in Nat /\ "refresh" \in Kinds
      BY AccountLimits DEF TypeOK, AccountTypeOK, Kinds
    <3> QED BY <2>1, <3>1, TypeBegin, IdleType DEF Idle, Fits
  <2> HIDE DEF r
  <2> QED BY <2>1, <2>2, <2>3, BeginTurn
<1> QED BY <1>2, <1>3, <1>4, <1>5 DEF SessionStep

\* Steps of a change of the password are turns that hold no lock.
LEMMA ChangeTurn ==
  ASSUME TypeOK, RowsFit, NEW c \in Clients, ChangeStep(c)
  PROVE  \E r \in Request : Turn(c, r)
<1>1. request[c] \in Request
  BY DEF TypeOK, AccountTypeOK
\* The request goes on, or gives up before its first statement.
<1>2. ASSUME NEW r \in Request, request' = [request EXCEPT ![c] = r], UNCHANGED holder,
             request[c].op = "change", (r.op = "change" /\ r.who = request[c].who) \/ r = Idle,
             Reads(c, r)
      PROVE  \E q \in Request : Turn(c, q)
  <2>1. Fits(r)
    BY <1>2, IdleType DEF RowsFit, Fits
  <2>2. ~Holds(r) /\ ~Holds(request[c])
    BY <1>2, IdleType DEF Holds, Locking
  <2> QED BY <1>2, <2>1, <2>2 DEF Turn
<1>3. CASE CopyUser(c)
  <2> DEFINE row == users[request[c].who]
             r == [request[c] EXCEPT !.at = "read", !.copy = row]
  <2>1. CASE request' = [request EXCEPT ![c] = Idle]
    BY <1>2, <1>3, <2>1, IdleType DEF CopyUser, Doing, Reads
  <2>2. CASE request' = [request EXCEPT ![c] = r]
    <3>1. row \in User
      BY <1>3 DEF CopyUser, Doing, RowsFit, Fits, TypeOK, AccountTypeOK
    <3>2. r \in Request
      BY <1>1, <3>1, TypeGo
    <3>3. r.op = request[c].op /\ r.who = request[c].who /\ r.at = "read"
      BY <1>1 DEF Request
    <3> HIDE DEF r
    <3> QED BY <1>2, <1>3, <2>2, <3>2, <3>3 DEF CopyUser, Doing, Reads
  <2> QED BY <1>3, <2>1, <2>2 DEF CopyUser
<1>4. CASE ReloadUser(c)
  <2> DEFINE fs == {f \in Flags : users[request[c].who][f] # request[c].copy[f]}
             r == [request[c] EXCEPT !.at = "reloaded", !.drift = fs]
  <2>1. request' = [request EXCEPT ![c] = r] /\ request[c].op = "change" /\ UNCHANGED holder
    BY <1>4 DEF ReloadUser, Doing
  <2>2. fs \in SUBSET Flags
    OBVIOUS
  <2> HIDE DEF fs
  <2>3. r \in Request
    BY <1>1, <2>2, TypeGo
  <2>4. r.op = request[c].op /\ r.who = request[c].who /\ r.at = "reloaded"
    BY <1>1 DEF Request
  <2> HIDE DEF r
  <2> QED BY <1>2, <2>1, <2>3, <2>4 DEF Reads
<1>5. CASE SaveUser(c)
  <2> DEFINE ts == Tokens \ Unissued
             r == [request[c] EXCEPT !.at = "saved", !.prior = ts]
  <2>1. /\ request' = [request EXCEPT ![c] = r] /\ request[c].op = "change"
        /\ UNCHANGED <<tokens, holder>>
    BY <1>5 DEF SaveUser, Doing
  <2>2. ts \in SUBSET Tokens /\ ts = Tokens \ Unissued
    OBVIOUS
  <2> HIDE DEF ts
  <2>3. r \in Request
    BY <1>1, <2>2, TypeGo
  <2>4. r.op = request[c].op /\ r.who = request[c].who /\ r.at = "saved" /\ r.prior = ts
    BY <1>1 DEF Request
  <2> HIDE DEF r
  <2> QED BY <1>2, <2>1, <2>2, <2>3, <2>4 DEF Reads
<1>6. CASE FindTokens(c)
  <2> DEFINE ts == LiveOf(request[c].who)
             r == [request[c] EXCEPT !.at = "revoking", !.seen = ts]
  <2>1. /\ request' = [request EXCEPT ![c] = r] /\ Doing(c, "change", "saved")
        /\ UNCHANGED <<tokens, holder>>
    BY <1>6 DEF FindTokens
  <2>2. ts \in SUBSET Tokens /\ ts = LiveOf(request[c].who)
    BY DEF LiveOf
  <2> HIDE DEF ts
  <2>3. r \in Request
    BY <1>1, <2>2, TypeGo
  <2>4. /\ r.op = request[c].op /\ r.who = request[c].who /\ r.at = "revoking" /\ r.seen = ts
        /\ r.prior = request[c].prior
    BY <1>1 DEF Request
  <2> HIDE DEF r
  <2>5. Reads(c, r)
    BY <2>1, <2>2, <2>4 DEF Reads, Doing
  <2> QED BY <1>2, <2>1, <2>3, <2>4, <2>5 DEF Doing
<1>7. CASE RevokeFound(c)
  BY <1>7, IdleType, EndTurn DEF RevokeFound, Answer
<1> QED BY <1>3, <1>4, <1>5, <1>6, <1>7 DEF ChangeStep

\* Steps of a reset are turns of the request.
LEMMA ResetTurn ==
  ASSUME TypeOK, RowsFit, NEW c \in Clients, ResetStep(c)
  PROVE  \E r \in Request : Turn(c, r)
<1>1. request[c] \in Request
  BY DEF TypeOK, AccountTypeOK
<1>2. request[c].op # "idle" => request[c].who \in Users
  BY DEF RowsFit, Fits
<1>3. ASSUME End(c) PROVE \E r \in Request : Turn(c, r)
  BY <1>3, IdleType, EndTurn
<1>4. ASSUME NEW r \in Request, r.at = "start", Fits(r), Begin(c, r), UNCHANGED holder
      PROVE  \E q \in Request : Turn(c, q)
  BY <1>4, BeginTurn
\* The request goes on with its lock.
<1>5. ASSUME NEW r \in Request, request' = [request EXCEPT ![c] = r], UNCHANGED holder,
             request[c].op \in {"issue", "verify"}, request[c].at = "locked",
             r.op = request[c].op, r.who = request[c].who, r.at = "read", Reads(c, r)
      PROVE  \E q \in Request : Turn(c, q)
  <2>1. Holds(r) /\ Holds(request[c]) /\ Fits(r)
    BY <1>2, <1>5 DEF Holds, Locking, Fits
  <2> QED BY <1>5, <2>1 DEF Turn
<1>6. CASE CheckQuota(c)
  <2> DEFINE r == [request[c] EXCEPT !.at = "read", !.time = now]
  <2>1. CASE /\ MayMail(request[c].who)
             /\ request' = [request EXCEPT ![c] = r] /\ UNCHANGED holder
    <3>1. now \in Nat
      BY DEF TypeOK, AccountTypeOK
    <3>2. r \in Request
      BY <1>1, <3>1, TypeGo
    <3>3. r.op = request[c].op /\ r.who = request[c].who /\ r.at = "read"
      BY <1>1 DEF Request
    <3>4. r.time = now
      BY <1>1 DEF Request
    <3> HIDE DEF r
    <3>5. Doing(c, "issue", "locked") /\ UNCHANGED <<challenges, mailed, now>>
      BY <1>6 DEF CheckQuota, resetVars
    <3>6. Reads(c, r)
      BY <2>1, <3>3, <3>4, <3>5 DEF Reads, Doing
    <3> QED BY <1>5, <2>1, <3>2, <3>3, <3>5, <3>6 DEF Doing
  <2> QED BY <1>3, <1>6, <2>1 DEF CheckQuota
<1>7. CASE InsertChallenge(c)
  <2>1. PICK k \in Codes :
          request' = [request EXCEPT ![c].at = "sending", ![c].code = k]
    BY <1>7 DEF InsertChallenge
  <2> DEFINE r == [request[c] EXCEPT !.at = "sending", !.code = k]
  <2>2. r \in Request
    BY <1>1, TypeGo
  <2>3. /\ r.op = request[c].op /\ r.who = request[c].who /\ r.at = "sending"
        /\ r.code = k /\ r.op = "issue"
    BY <1>1, <1>7 DEF Request, InsertChallenge, Doing
  <2>4. request' = [request EXCEPT ![c] = r]
    BY <2>1
  <2>5. holder' = Unheld(c)
    BY <1>7 DEF InsertChallenge
  <2> HIDE DEF r
  <2>6. ~Holds(r)
    BY <2>3 DEF Holds
  <2>7. Reads(c, r) /\ Fits(r)
    BY <1>2, <2>3 DEF Reads, Fits
  <2> QED BY <1>2, <2>2, <2>3, <2>4, <2>5, <2>6, <2>7 DEF Turn
<1>8. CASE ReadChallenge(c)
  <2>1. CASE \E k \in ActiveOf(request[c].who) :
               /\ Tryable(k)
               /\ request' = [request EXCEPT ![c].at = "read", ![c].code = k,
                                ![c].tries = challenges[k].failedAttempts]
               /\ UNCHANGED holder
    <3>1. PICK k \in ActiveOf(request[c].who) :
            /\ Tryable(k)
            /\ request' = [request EXCEPT ![c].at = "read", ![c].code = k,
                             ![c].tries = challenges[k].failedAttempts]
            /\ UNCHANGED holder
      BY <2>1
    <3> DEFINE n == challenges[k].failedAttempts
               r == [request[c] EXCEPT !.at = "read", !.code = k, !.tries = n]
    <3> k \in Codes
      BY DEF ActiveOf, KeptOf
    <3>2. n \in Nat /\ n < MaxAttempts
      BY <3>1, ResetLimits DEF TypeOK, ResetTypeOK, Challenge, Tryable
    <3>3. request' = [request EXCEPT ![c] = r]
      BY <3>1
    <3>4. n = challenges[k].failedAttempts
      OBVIOUS
    <3> HIDE DEF n
    <3>5. r \in Request
      BY <1>1, <3>2, TypeGo
    <3>6. /\ r.op = request[c].op /\ r.who = request[c].who /\ r.at = "read"
          /\ r.code = k /\ r.tries = n
      BY <1>1 DEF Request
    <3> HIDE DEF r
    <3>7. Doing(c, "verify", "locked") /\ UNCHANGED challenges
      BY <1>8 DEF ReadChallenge, resetVars
    <3>8. Reads(c, r)
      BY <3>2, <3>4, <3>6, <3>7 DEF Reads, Doing
    <3> QED BY <1>5, <3>1, <3>3, <3>5, <3>6, <3>7, <3>8 DEF Doing
  <2> QED BY <1>3, <1>8, <2>1 DEF ReadChallenge
<1>9. CASE WrongCode(c) \/ RightCode(c) \/ ConsumeChallenge(c)
           \/ \E outcome \in {"active", "failed"} : Settle(c, outcome)
  BY <1>3, <1>9 DEF WrongCode, RightCode, ConsumeChallenge, Settle
<1>10. ASSUME NEW u \in Users, RequestReset(c, u) \/ VerifyOtp(c, u)
       PROVE  \E r \in Request : Turn(c, r)
  <2>1. PICK op \in {"issue", "verify"} :
          Begin(c, [Idle EXCEPT !.op = op, !.who = u]) /\ UNCHANGED holder
    BY <1>10 DEF RequestReset, VerifyOtp
  <2> DEFINE r == [Idle EXCEPT !.op = op, !.who = u]
  <2>2. op \in Kinds
    BY DEF Kinds
  <2>3. r \in Request /\ r.at = "start" /\ Fits(r)
    BY <2>2, TypeBegin, IdleType DEF Idle, Fits
  <2>4. Begin(c, r) /\ UNCHANGED holder
    BY <2>1
  <2> HIDE DEF r
  <2> QED BY <1>4, <2>3, <2>4
<1>11. ASSUME NEW k \in Codes, ResetPassword(c, k)
       PROVE  \E r \in Request : Turn(c, r)
  <2> DEFINE u == challenges[k].user
             r == [Idle EXCEPT !.op = "reset", !.who = u, !.code = k]
  <2>1. u \in Users
    BY <1>11 DEF ResetPassword, RowsFit, OpenStatuses
  <2>2. Begin(c, r) /\ UNCHANGED holder
    BY <1>11 DEF ResetPassword
  <2> HIDE DEF u
  <2>3. "reset" \in Kinds
    BY DEF Kinds
  <2>4. r \in Request /\ r.at = "start" /\ Fits(r)
    BY <2>1, <2>3, TypeBegin, IdleType DEF Idle, Fits
  <2> HIDE DEF r
  <2> QED BY <1>4, <2>1, <2>2, <2>3, <2>4
<1> QED BY <1>6, <1>7, <1>8, <1>9, <1>10, <1>11 DEF ResetStep

\* A change that begins, and the death of an instance, are turns too.
LEMMA OtherTurn ==
  ASSUME TypeOK, RowsFit, NEW c \in Clients,
         Die(c) \/ \E u \in Users : BeginChange(c, u)
  PROVE  \E r \in Request : Turn(c, r)
<1>1. CASE Die(c)
  BY <1>1, IdleType, EndTurn DEF Die
<1>2. ASSUME NEW u \in Users, BeginChange(c, u) PROVE \E r \in Request : Turn(c, r)
  <2> DEFINE r == [Idle EXCEPT !.op = "change", !.who = u]
  <2>1. "change" \in Kinds
    BY DEF Kinds
  <2>2. r \in Request /\ r.at = "start" /\ Fits(r)
    BY <2>1, TypeBegin, IdleType DEF Idle, Fits
  <2>3. Begin(c, r) /\ UNCHANGED holder
    BY <1>2 DEF BeginChange
  <2> HIDE DEF r
  <2> QED BY <2>2, <2>3, BeginTurn
<1> QED BY <1>1, <1>2

\* Every step is a turn of one request or leaves requests and locks alone.
LEMMA StepTurn ==
  ASSUME TypeOK, RowsFit, [Next]_vars
  PROVE  \/ UNCHANGED <<request, holder>>
         \/ \E c \in Clients, r \in Request : Turn(c, r)
<1>1. CASE \E c \in Clients : SessionStep(c)
  BY <1>1, SessionTurn
<1>2. CASE \E c \in Clients : ChangeStep(c)
  BY <1>2, ChangeTurn
<1>3. CASE \E c \in Clients : Die(c) \/ \E u \in Users : BeginChange(c, u)
  BY <1>3, OtherTurn
<1>4. CASE \E c \in Clients : ResetStep(c)
  BY <1>4, ResetTurn
<1>5. CASE \/ \E u \in Users : AccountStep(u)
           \/ \E t \in Tokens : RevokeToken(t)
           \/ CleanupTokens \/ Tick \/ CleanupChallenges
  BY <1>5 DEF AccountStep, LockAccount, UnlockAccount, DeleteOwnAccount, RevokeToken,
              CleanupTokens, Tick, CleanupChallenges, accountVars
<1>6. CASE UNCHANGED vars
  BY <1>6 DEF vars, accountVars
<1> QED BY <1>1, <1>2, <1>3, <1>4, <1>5, <1>6 DEF Next, AccountNext, ResetNext

\* Requests and locks keep their types.
LEMMA RequestType ==
  ASSUME TypeOK, RowsFit, [Next]_vars
  PROVE  /\ request' \in [Clients -> Request]
         /\ holder' \in [Users -> Clients \cup {None}]
<1>1. CASE UNCHANGED <<request, holder>>
  BY <1>1 DEF TypeOK, AccountTypeOK
<1>2. ASSUME NEW c \in Clients, NEW r \in Request, Turn(c, r)
      PROVE  /\ request' \in [Clients -> Request]
             /\ holder' \in [Users -> Clients \cup {None}]
  <2>1. request' \in [Clients -> Request]
    BY <1>2 DEF Turn, TypeOK, AccountTypeOK
  <2>2. Unheld(c) \in [Users -> Clients \cup {None}]
    BY UnheldType
  <2>3. holder' \in [Users -> Clients \cup {None}]
    BY <1>2, <2>2 DEF Turn, TypeOK, AccountTypeOK
  <2> QED BY <2>1, <2>3
<1> QED BY <1>1, <1>2, StepTurn

\* The row of a user is held by one request.
LEMMA HoldersKept ==
  ASSUME TypeOK, RowsFit, HoldersTrue, [Next]_vars
  PROVE  HoldersTrue'
<1> USE DEF HoldersTrue, Holding
<1>1. CASE UNCHANGED <<request, holder>>
  BY <1>1
<1>2. ASSUME NEW c \in Clients, NEW r \in Request, Turn(c, r) PROVE HoldersTrue'
  <2>1. /\ request' = [request EXCEPT ![c] = r] /\ request'[c] = r
        /\ \A d \in Clients : d # c => request'[d] = request[d]
    BY <1>2 DEF Turn, TypeOK, AccountTypeOK
  <2>2. holder \in [Users -> Clients \cup {None}] /\ None \notin Clients
    BY AccountNone DEF TypeOK, AccountTypeOK
  <2>3. \A d \in Clients : Holds(request[d]) => request[d].who \in Users
    BY DEF RowsFit, Fits, Holds, Locking
  <2>4. CASE ~Holds(r) /\ holder' = Unheld(c)
    BY <2>1, <2>2, <2>3, <2>4 DEF Unheld, Holds
  <2>5. CASE ~Holds(r) /\ ~Holds(request[c]) /\ holder' = holder
    BY <2>1, <2>2, <2>5 DEF Holds
  <2>6. CASE Holds(r) /\ Holds(request[c]) /\ r.who = request[c].who /\ holder' = holder
    BY <2>1, <2>2, <2>6 DEF Holds
  <2>7. CASE /\ Holds(r) /\ ~Holds(request[c]) /\ Free(r.who)
             /\ holder' = [holder EXCEPT ![r.who] = c]
    <3>1. r.who \in Users
      BY <1>2, <2>7 DEF Turn, Fits, Holds, Locking
    <3> QED BY <2>1, <2>2, <2>3, <2>7, <3>1 DEF Holds, Free
  <2> QED BY <1>2, <2>4, <2>5, <2>6, <2>7 DEF Turn
<1> QED BY <1>1, <1>2, StepTurn

-----------------------------------------------------------------------------
(* Tokens *)

\* Token t begins a session of u.
Issued(t, u, n) ==
  /\ tokens[t].status = "none" /\ UNCHANGED epoch
  /\ tokens' = [tokens EXCEPT ![t] =
       [status |-> "live", owner |-> u, expires |-> n, family |-> t, epoch |-> epoch[u]]]

\* Token t carries on the session of old.
Inherited(t, old, n) ==
  /\ tokens[t].status = "none" /\ tokens[old].status = "live" /\ UNCHANGED epoch
  /\ tokens' = [Revoked({old}) EXCEPT ![t] = [tokens[old] EXCEPT !.expires = n]]

\* What a step does to the tokens.
LEMMA TokenStep ==
  ASSUME TypeOK, RowsFit, [Next]_vars
  PROVE  \/ UNCHANGED <<tokens, epoch>>
         \/ \E t \in Tokens, u \in Users, n \in Nat : Issued(t, u, n)
         \/ \E t, old \in Tokens, n \in Nat : Inherited(t, old, n)
         \/ \E S \in SUBSET Tokens : tokens' = Revoked(S) /\ UNCHANGED epoch
         \/ CleanupTokens
         \/ \E u \in Users : RevokeAllOf(u)
<1> DEFINE Goal ==
         \/ UNCHANGED <<tokens, epoch>>
         \/ \E t \in Tokens, u \in Users, n \in Nat : Issued(t, u, n)
         \/ \E t, old \in Tokens, n \in Nat : Inherited(t, old, n)
         \/ \E S \in SUBSET Tokens : tokens' = Revoked(S) /\ UNCHANGED epoch
         \/ CleanupTokens
         \/ \E u \in Users : RevokeAllOf(u)
<1>1. \A c \in Clients : request[c] \in Request /\ Fits(request[c])
  BY DEF TypeOK, AccountTypeOK, RowsFit
<1>2. ASSUME NEW c \in Clients, CreateRefreshTokenRecord(c) PROVE Goal
  <2>1. request[c].who \in Users /\ request[c].time \in Nat
    BY <1>1, <1>2 DEF CreateRefreshTokenRecord, Doing, Fits, Request
  <2> QED BY <1>2, <2>1 DEF CreateRefreshTokenRecord, IsNext, Unissued, Issued
<1>3. ASSUME NEW c \in Clients, RotateToken(c) PROVE Goal
  <2>1. request[c].time \in Nat /\ request[c].token \in Tokens
    BY <1>1, <1>3 DEF RotateToken, Doing, Fits, Request
  <2>2. CASE UNCHANGED tokens
    BY <1>3, <2>2 DEF RotateToken
  <2>3. CASE ~UNCHANGED tokens
    BY <1>3, <2>1, <2>3 DEF RotateToken, IsNext, Unissued, Inherited, Valid
  <2> QED BY <2>2, <2>3
<1>4. ASSUME NEW c \in Clients, RevokeFound(c) PROVE Goal
  <2>1. request[c].seen \in SUBSET Tokens
    BY <1>1 DEF Request
  <2> QED BY <1>4, <2>1 DEF RevokeFound, Answer
<1>5. ASSUME NEW c \in Clients, ConsumeChallenge(c) PROVE Goal
  <2>1. request[c].who \in Users
    BY <1>1, <1>5 DEF ConsumeChallenge, Doing, Fits
  <2> QED BY <1>5, <2>1 DEF ConsumeChallenge
<1>6. ASSUME NEW u \in Users, AccountStep(u) PROVE Goal
  BY <1>6 DEF AccountStep, LockAccount, UnlockAccount, DeleteOwnAccount
<1>7. ASSUME NEW t \in Tokens, RevokeToken(t) PROVE Goal
  BY <1>7 DEF RevokeToken
<1>8. ASSUME NEW c \in Clients,
             \/ LockUser(c) \/ \E t \in Tokens : FindValidToken(c, t)
             \/ \E u \in Users : ValidateUser(c, u) \/ BeginChange(c, u)
             \/ CopyUser(c) \/ ReloadUser(c) \/ SaveUser(c) \/ FindTokens(c) \/ Die(c)
      PROVE  Goal
  BY <1>8 DEF LockUser, FindValidToken, ValidateUser, BeginChange, CopyUser, ReloadUser,
              SaveUser, FindTokens, Die
<1>9. ASSUME NEW c \in Clients,
             \/ CheckQuota(c) \/ InsertChallenge(c)
             \/ \E outcome \in {"active", "failed"} : Settle(c, outcome)
             \/ ReadChallenge(c) \/ WrongCode(c) \/ RightCode(c)
             \/ \E u \in Users : RequestReset(c, u) \/ VerifyOtp(c, u)
             \/ \E k \in Codes : ResetPassword(c, k)
      PROVE  Goal
  BY <1>9 DEF CheckQuota, InsertChallenge, Settle, ReadChallenge, WrongCode, RightCode,
              RequestReset, VerifyOtp, ResetPassword
<1>10. ASSUME Tick \/ CleanupChallenges \/ UNCHANGED vars PROVE Goal
  BY <1>10 DEF Tick, CleanupChallenges, vars, accountVars
<1> HIDE DEF Goal
<1>11. ASSUME AccountNext PROVE Goal
  BY <1>2, <1>3, <1>4, <1>6, <1>7, <1>8, <1>10, <1>11
     DEF AccountNext, SessionStep, ChangeStep, Goal
<1>12. ASSUME ResetNext PROVE Goal
  BY <1>5, <1>9, <1>10, <1>12 DEF ResetNext, ResetStep
<1>13. Goal
  BY <1>10, <1>11, <1>12 DEF Next
<1> QED BY <1>13 DEF Goal

\* Two tokens of one session.
SameSession(x, y) == x.owner = y.owner /\ x.family = y.family /\ x.epoch = y.epoch

\* What becomes of the tokens when a session begins or goes on.
LEMMA TokensAfter ==
  ASSUME TypeOK, NEW t \in Tokens
  PROVE  /\ \A u \in Users, n \in Nat : Issued(t, u, n) =>
              /\ tokens' \in [Tokens -> Token] /\ epoch' = epoch
              /\ tokens'[t].status = "live" /\ tokens'[t].owner = u
              /\ tokens'[t].family = t /\ tokens'[t].epoch = epoch[u]
              /\ \A s \in Tokens : s # t => tokens'[s] = tokens[s]
         /\ \A old \in Tokens, n \in Nat : Inherited(t, old, n) =>
              /\ tokens' \in [Tokens -> Token] /\ epoch' = epoch /\ old # t
              /\ SameSession(tokens'[t], tokens[old]) /\ tokens'[t].status = "live"
              /\ SameSession(tokens'[old], tokens[old]) /\ tokens'[old].status = "revoked"
              /\ \A s \in Tokens : s # t /\ s # old => tokens'[s] = tokens[s]
<1>1. tokens \in [Tokens -> Token] /\ epoch \in [Users -> Nat]
  BY DEF TypeOK, AccountTypeOK
<1>2. ASSUME NEW u \in Users, NEW n \in Nat, Issued(t, u, n)
      PROVE  /\ tokens' \in [Tokens -> Token] /\ epoch' = epoch
             /\ tokens'[t].status = "live" /\ tokens'[t].owner = u
             /\ tokens'[t].family = t /\ tokens'[t].epoch = epoch[u]
             /\ \A s \in Tokens : s # t => tokens'[s] = tokens[s]
  <2> DEFINE row == [status |-> "live", owner |-> u, expires |-> n,
                     family |-> t, epoch |-> epoch[u]]
  <2>1. row \in Token
    BY <1>1 DEF Token
  <2>2. tokens' = [tokens EXCEPT ![t] = row] /\ epoch' = epoch
    BY <1>2 DEF Issued
  <2> HIDE DEF row
  <2>3. /\ tokens' \in [Tokens -> Token] /\ tokens'[t] = row
        /\ \A s \in Tokens : s # t => tokens'[s] = tokens[s]
    BY <1>1, <2>1, <2>2
  <2> QED BY <2>2, <2>3 DEF row
<1>3. ASSUME NEW old \in Tokens, NEW n \in Nat, Inherited(t, old, n)
      PROVE  /\ tokens' \in [Tokens -> Token] /\ epoch' = epoch /\ old # t
             /\ SameSession(tokens'[t], tokens[old]) /\ tokens'[t].status = "live"
             /\ SameSession(tokens'[old], tokens[old]) /\ tokens'[old].status = "revoked"
             /\ \A s \in Tokens : s # t /\ s # old => tokens'[s] = tokens[s]
  <2> DEFINE heir == [tokens[old] EXCEPT !.expires = n]
             left == [tokens[old] EXCEPT !.status = "revoked"]
  <2>1. heir \in Token
    BY <1>1 DEF Token
  <2>2. left \in Token
    BY <1>1 DEF Token
  <2>3. /\ tokens' = [Revoked({old}) EXCEPT ![t] = heir] /\ epoch' = epoch /\ old # t
        /\ tokens[old].status = "live"
    BY <1>3 DEF Inherited
  <2>4. Revoked({old}) = [s \in Tokens |-> IF s = old THEN left ELSE tokens[s]]
    BY <2>3 DEF Revoked
  <2>5. /\ SameSession(heir, tokens[old]) /\ heir.status = "live"
        /\ SameSession(left, tokens[old]) /\ left.status = "revoked"
    BY <1>1, <2>3 DEF SameSession, Token
  <2> HIDE DEF heir, left
  <2>6. /\ tokens' \in [Tokens -> Token] /\ tokens'[t] = heir /\ tokens'[old] = left
        /\ \A s \in Tokens : s # t /\ s # old => tokens'[s] = tokens[s]
    BY <1>1, <2>1, <2>2, <2>3, <2>4
  <2> QED BY <2>3, <2>5, <2>6
<1> QED BY <1>2, <1>3

\* Every session that lives was begun after the last revocation.
SessionsCurrent ==
  \A t \in Tokens :
    tokens[t].status = "live" => tokens[t].epoch = epoch[tokens[t].owner]

\* Every session that lives is a current one; a token has one heir; tokens have
\* owners and families.
TokensRight ==
  /\ tokens \in [Tokens -> Token] /\ epoch \in [Users -> Nat]
  /\ SessionsCurrent /\ OneHeir
  /\ \A t \in Tokens : /\ tokens[t].status = "live" => tokens[t].owner \in Users
                       /\ \A s \in Tokens : tokens[t].family = s => tokens[s].status # "none"

\* Only the status of tokens changes, and no token that is not live becomes so.
LEMMA TokensCut ==
  ASSUME TokensRight, tokens' \in [Tokens -> Token], UNCHANGED epoch,
         \A t \in Tokens :
           \/ tokens'[t] = tokens[t]
           \/ /\ tokens'[t].status \in {"revoked", "gone"} /\ tokens[t].status # "none"
              /\ tokens'[t].family \in {tokens[t].family, None}
  PROVE  TokensRight'
BY AccountNone DEF TokensRight, SessionsCurrent, OneHeir

\* Revoking a set of tokens is such a cut.
LEMMA RevokedCut ==
  ASSUME tokens \in [Tokens -> Token], NEW S, tokens' = Revoked(S)
  PROVE  /\ tokens' \in [Tokens -> Token]
         /\ \A t \in Tokens :
              \/ tokens'[t] = tokens[t] /\ ~(t \in S /\ tokens[t].status = "live")
              \/ /\ tokens'[t].status = "revoked" /\ tokens[t].status # "none"
                 /\ tokens'[t].family = tokens[t].family
<1> SUFFICES ASSUME NEW t \in Tokens
             PROVE  /\ tokens'[t] \in Token
                    /\ \/ tokens'[t] = tokens[t] /\ ~(t \in S /\ tokens[t].status = "live")
                       \/ /\ tokens'[t].status = "revoked" /\ tokens[t].status # "none"
                          /\ tokens'[t].family = tokens[t].family
  BY DEF Revoked
<1> DEFINE cut == [tokens[t] EXCEPT !.status = "revoked"]
<1>1. cut \in Token /\ cut.status = "revoked" /\ cut.family = tokens[t].family
  BY DEF Token
<1>2. tokens'[t] = IF t \in S /\ tokens[t].status = "live" THEN cut ELSE tokens[t]
  BY DEF Revoked
<1> HIDE DEF cut
<1> QED BY <1>1, <1>2

\* The tokens stay right.
LEMMA TokensKept ==
  ASSUME TypeOK, RowsFit, SessionsCurrent, OneHeir, [Next]_vars
  PROVE  TokensRight'
<1>1. TokensRight
  BY DEF TokensRight, TypeOK, AccountTypeOK, RowsFit
<1>2. CASE UNCHANGED <<tokens, epoch>>
  BY <1>1, <1>2 DEF TokensRight, SessionsCurrent, OneHeir
<1>3. ASSUME NEW t \in Tokens, NEW u \in Users, NEW n \in Nat, Issued(t, u, n)
      PROVE  TokensRight'
  <2>1. /\ tokens' \in [Tokens -> Token] /\ epoch' = epoch
        /\ tokens'[t].status = "live" /\ tokens'[t].owner = u
        /\ tokens'[t].family = t /\ tokens'[t].epoch = epoch[u]
        /\ \A s \in Tokens : s # t => tokens'[s] = tokens[s]
    BY <1>3, TokensAfter
  <2>2. \A s \in Tokens : tokens[s].family # t
    BY <1>1, <1>3 DEF TokensRight, Issued
  <2> QED BY <1>1, <2>1, <2>2 DEF TokensRight, SessionsCurrent, OneHeir
<1>4. ASSUME NEW t \in Tokens, NEW old \in Tokens, NEW n \in Nat, Inherited(t, old, n)
      PROVE  TokensRight'
  <2>1. /\ tokens' \in [Tokens -> Token] /\ epoch' = epoch /\ old # t
        /\ SameSession(tokens'[t], tokens[old]) /\ tokens'[t].status = "live"
        /\ SameSession(tokens'[old], tokens[old]) /\ tokens'[old].status = "revoked"
        /\ \A s \in Tokens : s # t /\ s # old => tokens'[s] = tokens[s]
    BY <1>4, TokensAfter, Zenon
  <2>2. tokens[old].status = "live" /\ tokens[t].status = "none"
    BY <1>4 DEF Inherited
  <2> QED BY <1>1, <2>1, <2>2
      DEF TokensRight, SessionsCurrent, OneHeir, SameSession
<1>5. ASSUME NEW S \in SUBSET Tokens, tokens' = Revoked(S), UNCHANGED epoch
      PROVE  TokensRight'
  BY <1>1, <1>5, RevokedCut, TokensCut DEF TokensRight
<1>6. CASE CleanupTokens
  <2>1. NoToken.family = None /\ NoToken \in Token
    BY DEF NoToken, Token
  <2> DEFINE row == [NoToken EXCEPT !.status = "gone"]
  <2>2. row \in Token /\ row.status = "gone" /\ row.family = None
    BY DEF NoToken, Token
  <2>3. PICK dead \in SUBSET Tokens :
          /\ \A t \in dead : tokens[t].status # "none"
          /\ tokens' = [t \in Tokens |-> IF t \in dead THEN row ELSE tokens[t]]
    BY <1>6 DEF CleanupTokens
  <2> HIDE DEF row
  <2> QED BY <1>1, <1>6, <2>2, <2>3, TokensCut DEF CleanupTokens, TokensRight
<1>7. ASSUME NEW u \in Users, RevokeAllOf(u) PROVE TokensRight'
  <2>1. /\ tokens' \in [Tokens -> Token]
        /\ \A t \in Tokens :
             \/ tokens'[t] = tokens[t] /\ ~(tokens[t].status = "live" /\ tokens[t].owner = u)
             \/ /\ tokens'[t].status = "revoked" /\ tokens[t].status # "none"
                /\ tokens'[t].family = tokens[t].family
    BY <1>1, <1>7, RevokedCut DEF TokensRight, RevokeAllOf, LiveOf
  <2>2. /\ epoch' \in [Users -> Nat]
        /\ \A w \in Users : w # u => epoch'[w] = epoch[w]
    BY <1>1, <1>7 DEF TokensRight, RevokeAllOf
  <2> QED BY <1>1, <2>1, <2>2 DEF TokensRight, SessionsCurrent, OneHeir
<1> QED BY <1>2, <1>3, <1>4, <1>5, <1>6, <1>7, TokenStep

\* A token that was issued stays issued, and only one that lives still does.
LEMMA TokensAge ==
  ASSUME TypeOK, RowsFit, [Next]_vars, NEW t \in Tokens, tokens[t].status # "none"
  PROVE  /\ tokens'[t].status # "none"
         /\ tokens'[t].status = "live" =>
              tokens[t].status = "live" /\ tokens'[t].owner = tokens[t].owner
<1>1. tokens \in [Tokens -> Token]
  BY DEF TypeOK, AccountTypeOK
<1>2. ASSUME NEW s \in Tokens, NEW u \in Users, NEW n \in Nat, Issued(s, u, n)
      PROVE  tokens'[t] = tokens[t]
  BY <1>2, TokensAfter DEF Issued
<1>3. ASSUME NEW s \in Tokens, NEW old \in Tokens, NEW n \in Nat, Inherited(s, old, n)
      PROVE  tokens'[t] = tokens[t] \/ tokens'[t].status = "revoked"
  <2>1. /\ s # t
        /\ tokens'[old].status = "revoked"
        /\ \A x \in Tokens : x # s /\ x # old => tokens'[x] = tokens[x]
    <3>1. tokens[s].status = "none"
      BY <1>3 DEF Inherited
    <3>2. /\ tokens'[old].status = "revoked"
          /\ \A x \in Tokens : x # s /\ x # old => tokens'[x] = tokens[x]
      BY <1>3, TokensAfter, Zenon
    <3> QED BY <3>1, <3>2
  <2> QED BY <2>1
<1>4. ASSUME NEW S, tokens' = Revoked(S)
      PROVE  tokens'[t] = tokens[t] \/ tokens'[t].status = "revoked"
  BY <1>1, <1>4, RevokedCut
<1>5. CASE CleanupTokens
  <2> DEFINE row == [NoToken EXCEPT !.status = "gone"]
  <2>1. row.status = "gone"
    BY DEF NoToken
  <2>2. tokens'[t] = tokens[t] \/ tokens'[t] = row
    BY <1>5 DEF CleanupTokens
  <2> HIDE DEF row
  <2> QED BY <2>1, <2>2
<1>6. ASSUME NEW u \in Users, RevokeAllOf(u) PROVE tokens' = Revoked(LiveOf(u))
  BY <1>6 DEF RevokeAllOf
<1>7. CASE UNCHANGED tokens
  BY <1>7
<1> QED BY <1>2, <1>3, <1>4, <1>5, <1>6, <1>7, TokenStep

\* Only the answer to a change of the password counts survivors.
LEMMA SurvivorStep ==
  ASSUME [Next]_vars
  PROVE  UNCHANGED survivors \/ \E c \in Clients : RevokeFound(c)
<1>1. CASE AccountNext
  BY <1>1 DEF AccountNext, SessionStep, ChangeStep, LockUser, CreateRefreshTokenRecord,
       RotateToken, FindValidToken, ValidateUser, CopyUser, ReloadUser, SaveUser, FindTokens,
       Die, BeginChange, AccountStep, LockAccount, UnlockAccount, DeleteOwnAccount,
       RevokeToken, CleanupTokens, Tick
<1>2. CASE ResetNext
  BY <1>2 DEF ResetNext, ResetStep, CheckQuota, InsertChallenge, Settle, ReadChallenge,
       WrongCode, RightCode, ConsumeChallenge, RequestReset, VerifyOtp, ResetPassword,
       CleanupChallenges, accountVars
<1>3. CASE UNCHANGED vars
  BY <1>3 DEF vars, accountVars
<1> QED BY <1>1, <1>2, <1>3 DEF Next

\* A change of the password ends the tokens issued before it was saved.
LEMMA ChangesKept ==
  ASSUME TypeOK, RowsFit, ChangesRevoke, survivors = {}, [Next]_vars
  PROVE  ChangesRevoke' /\ survivors' = {}
<1>1. \A t \in Tokens : tokens[t].status # "none" =>
        /\ tokens'[t].status # "none"
        /\ tokens'[t].status = "live" =>
             tokens[t].status = "live" /\ tokens'[t].owner = tokens[t].owner
  BY TokensAge
<1>2. \A c \in Clients : request[c].prior \in SUBSET Tokens
  BY DEF TypeOK, AccountTypeOK, Request
\* What is to be shown of a request that is r afterwards.
<1> DEFINE Right(r) ==
      r.op = "change" /\ r.at \in {"saved", "revoking"} =>
        \A t \in r.prior :
          /\ tokens'[t].status # "none"
          /\ r.at = "revoking" /\ tokens'[t].status = "live" /\ tokens'[t].owner = r.who
               => t \in r.seen
<1>3. \A c \in Clients : Right(request[c])
  BY <1>1, <1>2 DEF ChangesRevoke, Doing, LiveOf
<1>4. ChangesRevoke'
  <2>1. \A c \in Clients : \E r \in Request : request'[c] = r /\ Right(r)
    <3>1. CASE UNCHANGED request
      BY <1>3, <3>1 DEF TypeOK, AccountTypeOK
    <3>2. ASSUME NEW c \in Clients, NEW r \in Request, Turn(c, r)
          PROVE  \A d \in Clients : \E q \in Request : request'[d] = q /\ Right(q)
      <4>1. request'[c] = r /\ \A d \in Clients : d # c => request'[d] = request[d]
        BY <3>2 DEF Turn, TypeOK, AccountTypeOK
      <4>2. CASE r.op = "change" /\ r.at = "saved"
        <5>1. Right(r)
          BY <3>2, <4>2 DEF Turn, Reads, Unissued
        <5> HIDE DEF Right
        <5> QED BY <1>3, <4>1, <5>1 DEF TypeOK, AccountTypeOK
      <4>3. CASE r.op = "change" /\ r.at = "revoking"
        <5>1. /\ Doing(c, "change", "saved") /\ r.prior = request[c].prior
              /\ r.seen = LiveOf(r.who) /\ UNCHANGED tokens
          BY <3>2, <4>3 DEF Turn, Reads
        <5>2. Right(r)
          BY <1>2, <5>1 DEF ChangesRevoke, LiveOf
        <5> HIDE DEF Right
        <5> QED BY <1>3, <4>1, <5>2 DEF TypeOK, AccountTypeOK
      <4>4. CASE ~(r.op = "change" /\ r.at \in {"saved", "revoking"})
        <5>1. Right(r)
          BY <4>4
        <5> HIDE DEF Right
        <5> QED BY <1>3, <4>1, <5>1 DEF TypeOK, AccountTypeOK
      <4> QED BY <4>2, <4>3, <4>4
    <3> QED BY <3>1, <3>2, StepTurn
  <2> SUFFICES ASSUME NEW c \in Clients,
                      Doing(c, "change", "saved")' \/ Doing(c, "change", "revoking")'
               PROVE  /\ \A t \in request'[c].prior : tokens'[t].status # "none"
                      /\ request'[c].at = "revoking" =>
                           \A t \in request'[c].prior :
                             tokens'[t].status = "live" /\ tokens'[t].owner = request'[c].who
                               => t \in request'[c].seen
    BY DEF ChangesRevoke, LiveOf
  <2> QED BY <2>1 DEF Doing
<1>5. survivors' = {}
  <2>1. ASSUME NEW c \in Clients, RevokeFound(c) PROVE survivors' = {}
    <3>1. Doing(c, "change", "revoking") /\ tokens' = Revoked(request[c].seen)
      BY <2>1 DEF RevokeFound
    <3>2. \A t \in request[c].seen \cap Tokens : tokens'[t].status # "live"
      <4>1. tokens \in [Tokens -> Token]
        BY DEF TypeOK, AccountTypeOK
      <4> QED BY <3>1, <4>1, RevokedCut
    <3>3. \A t \in request[c].prior :
            ~(tokens'[t].status = "live" /\ tokens'[t].owner = request[c].who)
      BY <1>1, <1>2, <3>1, <3>2 DEF ChangesRevoke, Doing, LiveOf
    <3> QED BY <2>1, <3>3 DEF RevokeFound, Answer
  <2> QED BY <2>1, SurvivorStep
<1> QED BY <1>4, <1>5

-----------------------------------------------------------------------------
(* Challenges *)

\* Row y is row x at a later moment: its status may have moved on.
Later(x, y) ==
  /\ y.user = x.user /\ y.createdAt = x.createdAt /\ y.failedAttempts = x.failedAttempts
  /\ y = x \/ (x.status \in OpenStatuses /\ y.status \in OpenStatuses \cup ClosedStatuses)

\* The challenges are well typed, those that are open have a user, who has no
\* other open one, and every guess is on record.
ChallengesRight ==
  /\ challenges \in [Codes -> Challenge] /\ guesses \in [Codes -> Nat]
  /\ OneOpenCode /\ GuessesCounted
  /\ \A k \in Codes : /\ challenges[k].status \in OpenStatuses => challenges[k].user \in Users
                      /\ challenges[k].status = "none" => challenges[k] = NoChallenge

\* What the invariant says of the challenges.
LEMMA ChallengesAre ==
  ASSUME TypeOK, RowsFit, OneOpenCode, GuessesCounted
  PROVE  ChallengesRight
BY DEF TypeOK, ResetTypeOK, RowsFit, ChallengesRight

\* Closing the open challenges of a user ages them.
LEMMA InvalidatedType ==
  ASSUME challenges \in [Codes -> Challenge], NEW u
  PROVE  /\ Invalidated(u) \in [Codes -> Challenge]
         /\ \A k \in Codes : Later(challenges[k], Invalidated(u)[k])
         /\ \A k \in Codes : k \notin OpenOf(u) => Invalidated(u)[k] = challenges[k]
         /\ \A k \in OpenOf(u) : Invalidated(u)[k].status = "invalidated"
<1> SUFFICES ASSUME NEW k \in Codes
             PROVE  /\ Invalidated(u)[k] \in Challenge
                    /\ Later(challenges[k], Invalidated(u)[k])
                    /\ k \notin OpenOf(u) => Invalidated(u)[k] = challenges[k]
                    /\ k \in OpenOf(u) => Invalidated(u)[k].status = "invalidated"
  BY DEF Invalidated, OpenOf, KeptOf
<1> DEFINE row == [challenges[k] EXCEPT !.status = "invalidated"]
<1>1. /\ row \in Challenge /\ row.status = "invalidated"
      /\ row.user = challenges[k].user /\ row.createdAt = challenges[k].createdAt
      /\ row.failedAttempts = challenges[k].failedAttempts
  BY DEF Challenge, ClosedStatuses
<1>2. Invalidated(u)[k] = IF k \in OpenOf(u) THEN row ELSE challenges[k]
  BY DEF Invalidated
<1>3. k \in OpenOf(u) => challenges[k].status \in OpenStatuses
  BY DEF OpenOf
<1> HIDE DEF row
<1> QED BY <1>1, <1>2, <1>3 DEF Later, ClosedStatuses

\* Rows that age stay right.
LEMMA AgedKept ==
  ASSUME ChallengesRight, challenges' \in [Codes -> Challenge], UNCHANGED guesses,
         \A k \in Codes : Later(challenges[k], challenges'[k])
  PROVE  ChallengesRight'
<1>1. \A k \in Codes : challenges'[k].status \in OpenStatuses =>
        challenges[k].status \in OpenStatuses
  BY DEF Later
<1>2. OneOpenCode'
  BY <1>1 DEF ChallengesRight, OneOpenCode, OpenOf, KeptOf, Later
<1>3. GuessesCounted'
  BY DEF ChallengesRight, GuessesCounted, Later, OpenStatuses, ClosedStatuses
<1>4. \A k \in Codes :
        /\ challenges'[k].status \in OpenStatuses => challenges'[k].user \in Users
        /\ challenges'[k].status = "none" => challenges'[k] = NoChallenge
  BY <1>1 DEF ChallengesRight, Later, OpenStatuses, ClosedStatuses
<1> QED BY <1>2, <1>3, <1>4 DEF ChallengesRight

\* What one row may become.
LEMMA TypeChallenge ==
  ASSUME NEW x \in Challenge,
         NEW s \in OpenStatuses \cup ClosedStatuses \cup {"none", "gone"}
  PROVE  /\ [x EXCEPT !.status = s] \in Challenge
         /\ \A n \in Nat : [x EXCEPT !.status = s, !.tokenExpiresAt = n] \in Challenge
         /\ \A n \in 0 .. MaxAttempts :
              [x EXCEPT !.failedAttempts = n, !.status = s] \in Challenge
<1>1. [x EXCEPT !.status = s] \in Challenge
  BY DEF Challenge
<1>2. \A n \in Nat : [x EXCEPT !.status = s, !.tokenExpiresAt = n] \in Challenge
  BY DEF Challenge
<1>3. \A n \in 0 .. MaxAttempts : [x EXCEPT !.failedAttempts = n, !.status = s] \in Challenge
  BY DEF Challenge
<1> QED BY <1>1, <1>2, <1>3

\* Setting one row leaves the others.
LEMMA SetChallenge ==
  ASSUME challenges \in [Codes -> Challenge], NEW k \in Codes, NEW x \in Challenge,
         challenges' = [challenges EXCEPT ![k] = x]
  PROVE  /\ challenges' \in [Codes -> Challenge] /\ challenges'[k] = x
         /\ \A j \in Codes : j # k => challenges'[j] = challenges[j]
OBVIOUS

\* A new challenge closes the ones before it.
LEMMA InsertKeeps ==
  ASSUME ChallengesRight, TypeOK, RowsFit, NEW c \in Clients, InsertChallenge(c)
  PROVE  /\ ChallengesRight'
         /\ \E k \in Codes : /\ challenges[k].status = "none"
                             /\ challenges'[k].user = request[c].who
                             /\ challenges'[k].createdAt = request[c].time
                             /\ \A j \in Codes : j # k =>
                                  challenges'[j] = Invalidated(request[c].who)[j]
<1> DEFINE u == request[c].who
           at == request[c].time
           till == at + OtpTtl
           row == [NoChallenge EXCEPT !.status = "pending", !.user = u, !.createdAt = at,
                                      !.otpExpiresAt = till]
           shut == Invalidated(u)
<1>1. u \in Users /\ at \in Nat
  BY DEF InsertChallenge, Doing, RowsFit, Fits, TypeOK, AccountTypeOK, Request
<1>2. PICK k \in Codes : challenges[k].status = "none" /\ challenges' = [shut EXCEPT ![k] = row]
  BY DEF InsertChallenge, IsNext
<1>3. UNCHANGED guesses /\ till \in Nat
  BY <1>1, ResetLimits DEF InsertChallenge
<1> HIDE DEF u, at, till
<1>4. /\ row \in Challenge /\ row.user = u /\ row.createdAt = at /\ row.status = "pending"
      /\ row.failedAttempts = 0
  <2>1. 0 \in 0 .. MaxAttempts
    BY ResetLimits
  <2>2. NoChallenge \in Challenge /\ NoChallenge.failedAttempts = 0
    BY <2>1 DEF Challenge, NoChallenge
  <2>3. "pending" \in OpenStatuses
    BY DEF OpenStatuses
  <2> QED BY <1>1, <1>3, <2>2, <2>3 DEF Challenge
<1> HIDE DEF row
<1>5. /\ shut \in [Codes -> Challenge]
      /\ \A j \in Codes : Later(challenges[j], shut[j])
      /\ \A j \in Codes : j \notin OpenOf(u) => shut[j] = challenges[j]
      /\ \A j \in OpenOf(u) : shut[j].status = "invalidated"
  <2>1. challenges \in [Codes -> Challenge]
    BY DEF ChallengesRight
  <2> QED BY <2>1, InvalidatedType, Zenon
<1> HIDE DEF shut
<1>6. /\ challenges' \in [Codes -> Challenge] /\ challenges'[k] = row
      /\ \A j \in Codes : j # k => challenges'[j] = shut[j]
  BY <1>2, <1>4, <1>5
<1>7. \A j \in Codes : j # k => Later(challenges[j], challenges'[j])
  BY <1>5, <1>6
<1>8. \A j \in Codes : j # k /\ challenges'[j].status \in OpenStatuses =>
        challenges[j].status \in OpenStatuses /\ challenges'[j].user = challenges[j].user
          /\ challenges'[j].user # u
  <2> SUFFICES ASSUME NEW j \in Codes, j # k, challenges'[j].status \in OpenStatuses
               PROVE  /\ challenges[j].status \in OpenStatuses
                      /\ challenges'[j].user = challenges[j].user
                      /\ challenges'[j].user # u
    OBVIOUS
  <2>1. challenges[j].status \in OpenStatuses /\ challenges'[j].user = challenges[j].user
    BY <1>7 DEF Later
  <2>2. challenges[j].user = u => j \in OpenOf(u)
    BY <2>1 DEF OpenOf, KeptOf
  <2>3. j \notin OpenOf(u)
    BY <1>5, <1>6 DEF OpenStatuses
  <2> QED BY <2>1, <2>2, <2>3
<1>9. OneOpenCode'
  <2> SUFFICES ASSUME NEW w \in Users, NEW i \in OpenOf(w)', NEW j \in OpenOf(w)'
               PROVE  i = j
    BY DEF OneOpenCode
  <2>1. /\ i \in Codes /\ challenges'[i].user = w /\ challenges'[i].status \in OpenStatuses
        /\ j \in Codes /\ challenges'[j].user = w /\ challenges'[j].status \in OpenStatuses
    BY DEF OpenOf, KeptOf
  <2>2. CASE i # k /\ j # k
    BY <1>8, <2>1, <2>2 DEF ChallengesRight, OneOpenCode, OpenOf, KeptOf
  <2>3. CASE i = k \/ j = k
    BY <1>4, <1>6, <1>8, <2>1, <2>3
  <2> QED BY <2>2, <2>3
<1>10. GuessesCounted'
  <2> SUFFICES ASSUME NEW j \in Codes
               PROVE  IF challenges'[j].status = "gone" THEN guesses[j] <= MaxAttempts
                      ELSE guesses[j] = challenges'[j].failedAttempts
    BY <1>3 DEF GuessesCounted
  <2>1. CASE j = k
    <3>1. challenges[k].status # "gone" /\ challenges[k] = NoChallenge
      BY <1>2 DEF ChallengesRight
    <3>2. guesses[k] = 0
      BY <3>1 DEF ChallengesRight, GuessesCounted, NoChallenge
    <3> QED BY <1>4, <1>6, <2>1, <3>2
  <2>2. CASE j # k
    BY <1>7, <2>2 DEF ChallengesRight, GuessesCounted, Later, OpenStatuses, ClosedStatuses
  <2> QED BY <2>1, <2>2
<1>11. \A j \in Codes :
         /\ challenges'[j].status \in OpenStatuses => challenges'[j].user \in Users
         /\ challenges'[j].status = "none" => challenges'[j] = NoChallenge
  <2> TAKE j \in Codes
  <2>1. CASE j = k
    BY <1>1, <1>4, <1>6, <2>1
  <2>2. CASE j # k
    BY <1>7, <1>8, <2>2 DEF ChallengesRight, Later, OpenStatuses, ClosedStatuses
  <2> QED BY <2>1, <2>2
<1>12. ChallengesRight'
  BY <1>3, <1>6, <1>9, <1>10, <1>11 DEF ChallengesRight
<1> QED BY <1>2, <1>4, <1>6, <1>12 DEF u, at, shut

\* A wrong code is counted in the row and in the guesses.
LEMMA WrongKeeps ==
  ASSUME ChallengesRight, TypeOK, CodeHeld, NEW c \in Clients, WrongCode(c)
  PROVE  /\ ChallengesRight' /\ request[c].code \in Codes
         /\ challenges'[request[c].code].createdAt = challenges[request[c].code].createdAt
         /\ challenges'[request[c].code].user = challenges[request[c].code].user
         /\ \A j \in Codes : j # request[c].code => challenges'[j] = challenges[j]
<1> DEFINE k == request[c].code
           n == request[c].tries + 1
           s == IF n >= MaxAttempts THEN "invalidated" ELSE challenges[k].status
           row == [challenges[k] EXCEPT !.failedAttempts = n, !.status = s]
<1>1. /\ k \in Codes /\ challenges[k].status = "active"
      /\ challenges[k].failedAttempts = request[c].tries /\ request[c].tries < MaxAttempts
  BY DEF WrongCode, CodeHeld, ActiveOf, KeptOf
<1>2. challenges[k] \in Challenge /\ request[c].tries \in Nat /\ guesses[k] \in Nat
  BY <1>1 DEF ChallengesRight, TypeOK, AccountTypeOK, Request
<1>3. challenges' = [challenges EXCEPT ![k] = row]
  BY DEF WrongCode
<1>4. n \in 0 .. MaxAttempts /\ s \in {"active", "invalidated"}
  BY <1>1, <1>2, ResetLimits
<1>5. guesses' = [guesses EXCEPT ![k] = guesses[k] + 1]
  BY DEF WrongCode
<1>6. n = challenges[k].failedAttempts + 1
  BY <1>1
<1> HIDE DEF n, s
<1>7. row \in Challenge
  BY <1>2, <1>4, TypeChallenge DEF OpenStatuses, ClosedStatuses
<1>8. /\ row.failedAttempts = n /\ row.status = s
      /\ row.user = challenges[k].user /\ row.createdAt = challenges[k].createdAt
  BY <1>2 DEF Challenge
<1> HIDE DEF row, k
<1>9. /\ challenges' \in [Codes -> Challenge] /\ challenges'[k] = row
      /\ \A j \in Codes : j # k => challenges'[j] = challenges[j]
  BY <1>1, <1>3, <1>7, SetChallenge DEF ChallengesRight
<1>10. /\ guesses' \in [Codes -> Nat] /\ guesses'[k] = guesses[k] + 1
       /\ \A j \in Codes : j # k => guesses'[j] = guesses[j]
  BY <1>1, <1>2, <1>5 DEF ChallengesRight
<1>11. guesses[k] = challenges[k].failedAttempts
  BY <1>1 DEF ChallengesRight, GuessesCounted
<1>12. GuessesCounted'
  <2> SUFFICES ASSUME NEW j \in Codes
               PROVE  IF challenges'[j].status = "gone" THEN guesses'[j] <= MaxAttempts
                      ELSE guesses'[j] = challenges'[j].failedAttempts
    BY DEF GuessesCounted
  <2>1. CASE j = k
    BY <1>4, <1>6, <1>8, <1>9, <1>10, <1>11, <2>1
  <2>2. CASE j # k
    BY <1>9, <1>10, <2>2 DEF ChallengesRight, GuessesCounted
  <2> QED BY <2>1, <2>2
<1>13. \A j \in Codes :
         /\ challenges'[j].user = challenges[j].user
         /\ challenges'[j].status \in OpenStatuses => challenges[j].status \in OpenStatuses
  <2> TAKE j \in Codes
  <2>1. CASE j = k
    BY <1>1, <1>8, <1>9, <2>1 DEF OpenStatuses
  <2>2. CASE j # k
    BY <1>9, <2>2
  <2> QED BY <2>1, <2>2
<1>14. OneOpenCode'
  BY <1>13 DEF ChallengesRight, OneOpenCode, OpenOf, KeptOf
<1>15. \A j \in Codes :
         /\ challenges'[j].status \in OpenStatuses => challenges'[j].user \in Users
         /\ challenges'[j].status = "none" => challenges'[j] = NoChallenge
  <2> TAKE j \in Codes
  <2>1. CASE j = k
    BY <1>1, <1>4, <1>8, <1>9, <1>13, <2>1 DEF ChallengesRight
  <2>2. CASE j # k
    BY <1>9, <2>2 DEF ChallengesRight
  <2> QED BY <2>1, <2>2
<1>16. ChallengesRight'
  BY <1>9, <1>10, <1>12, <1>14, <1>15 DEF ChallengesRight
<1> QED BY <1>1, <1>8, <1>9, <1>16 DEF k

\* Rows change their status only, an active one only under the lock of its user.
Aged(c) ==
  /\ challenges' \in [Codes -> Challenge] /\ UNCHANGED <<guesses, mailed, now>>
  /\ \A k \in Codes : Later(challenges[k], challenges'[k])
  /\ \A k \in Codes : challenges'[k] # challenges[k] /\ challenges[k].status = "active" =>
       challenges[k].user = request[c].who /\ Holds(request[c])

\* The result of the mail ages the challenge it belongs to.
LEMMA SettleAges ==
  ASSUME ChallengesRight, RowsFit, NEW c \in Clients,
         NEW outcome \in {"active", "failed"}, Settle(c, outcome)
  PROVE  Aged(c)
<1> DEFINE k == request[c].code
           row == [challenges[k] EXCEPT !.status = outcome]
<1>1. k \in Codes /\ challenges[k] \in Challenge
  BY DEF Settle, Doing, RowsFit, Fits, ChallengesRight
<1>2. UNCHANGED <<guesses, mailed, now>>
  BY DEF Settle
<1>3. outcome \in OpenStatuses \cup ClosedStatuses
  BY DEF OpenStatuses, ClosedStatuses
<1>4. /\ row \in Challenge /\ row.status = outcome /\ row.user = challenges[k].user
      /\ row.createdAt = challenges[k].createdAt
      /\ row.failedAttempts = challenges[k].failedAttempts
  BY <1>1, <1>3 DEF Challenge
<1>5. \/ challenges' = challenges
      \/ challenges[k].status = "pending" /\ challenges' = [challenges EXCEPT ![k] = row]
  BY DEF Settle
<1> HIDE DEF row, k
<1>6. CASE challenges' = challenges
  BY <1>2, <1>6 DEF Aged, Later, ChallengesRight
<1>7. CASE challenges[k].status = "pending" /\ challenges' = [challenges EXCEPT ![k] = row]
  <2>1. /\ challenges' \in [Codes -> Challenge] /\ challenges'[k] = row
        /\ \A j \in Codes : j # k => challenges'[j] = challenges[j]
    BY <1>1, <1>4, <1>7, SetChallenge DEF ChallengesRight
  <2>2. Later(challenges[k], row)
    BY <1>3, <1>4, <1>7 DEF Later, OpenStatuses
  <2>3. \A j \in Codes : Later(challenges[j], challenges'[j])
    BY <2>1, <2>2 DEF Later
  <2> QED BY <1>2, <1>7, <2>1, <2>3 DEF Aged
<1> QED BY <1>5, <1>6, <1>7

\* The right code ages the challenge it was sent for.
LEMMA RightAges ==
  ASSUME ChallengesRight, TypeOK, CodeHeld, NEW c \in Clients, RightCode(c)
  PROVE  Aged(c)
<1> DEFINE k == request[c].code
           till == now + ResetTtl
           row == [challenges[k] EXCEPT !.status = "verified", !.tokenExpiresAt = till]
<1>1. /\ k \in Codes /\ challenges[k].status = "active"
      /\ challenges[k].user = request[c].who /\ Holds(request[c])
  BY DEF RightCode, CodeHeld, ActiveOf, KeptOf, Holds, Locking, Doing
<1>2. UNCHANGED <<guesses, mailed, now>> /\ challenges' = [challenges EXCEPT ![k] = row]
  BY DEF RightCode
<1>3. challenges[k] \in Challenge /\ till \in Nat
  BY <1>1, ResetLimits DEF ChallengesRight, TypeOK, AccountTypeOK
<1> HIDE DEF till
<1>4. row \in Challenge
  BY <1>3, TypeChallenge DEF OpenStatuses
<1>5. /\ row.status = "verified" /\ row.user = challenges[k].user
      /\ row.createdAt = challenges[k].createdAt
      /\ row.failedAttempts = challenges[k].failedAttempts
  BY <1>3 DEF Challenge
<1> HIDE DEF row, k
<1>6. /\ challenges' \in [Codes -> Challenge] /\ challenges'[k] = row
      /\ \A j \in Codes : j # k => challenges'[j] = challenges[j]
  BY <1>1, <1>2, <1>4, SetChallenge DEF ChallengesRight
<1>7. Later(challenges[k], row)
  BY <1>1, <1>5 DEF Later, OpenStatuses
<1>8. \A j \in Codes : Later(challenges[j], challenges'[j])
  BY <1>6, <1>7 DEF Later
<1> QED BY <1>1, <1>2, <1>6, <1>8 DEF Aged

\* Using a reset token ages the challenges of the user.
LEMMA ConsumeAges ==
  ASSUME ChallengesRight, RowsFit, NEW c \in Clients, ConsumeChallenge(c)
  PROVE  Aged(c)
<1> DEFINE k == request[c].code
           u == request[c].who
           shut == Invalidated(u)
           row == [shut[k] EXCEPT !.status = "consumed"]
<1>1. k \in Codes /\ Holds(request[c]) /\ UNCHANGED <<guesses, mailed, now>>
  BY DEF ConsumeChallenge, Doing, RowsFit, Fits, Holds, Locking
<1>2. \/ challenges' = challenges
      \/ challenges[k].status = "verified" /\ challenges' = [shut EXCEPT ![k] = row]
  BY DEF ConsumeChallenge
<1>3. /\ shut \in [Codes -> Challenge]
      /\ \A j \in Codes : Later(challenges[j], shut[j])
      /\ \A j \in Codes : j \notin OpenOf(u) => shut[j] = challenges[j]
  <2>1. challenges \in [Codes -> Challenge]
    BY DEF ChallengesRight
  <2> QED BY <2>1, InvalidatedType, Zenon
<1> HIDE DEF shut
<1>4. /\ row \in Challenge /\ row.status = "consumed" /\ row.user = shut[k].user
      /\ row.createdAt = shut[k].createdAt
      /\ row.failedAttempts = shut[k].failedAttempts
  BY <1>1, <1>3 DEF Challenge, ClosedStatuses
<1> HIDE DEF row, k
<1>5. CASE challenges' = challenges
  BY <1>1, <1>5 DEF Aged, Later, ChallengesRight
<1>6. CASE challenges[k].status = "verified" /\ challenges' = [shut EXCEPT ![k] = row]
  <2>1. /\ challenges' \in [Codes -> Challenge] /\ challenges'[k] = row
        /\ \A j \in Codes : j # k => challenges'[j] = shut[j]
    BY <1>1, <1>3, <1>4, <1>6
  <2>2. Later(challenges[k], row)
    <3>1. Later(challenges[k], shut[k])
      BY <1>1, <1>3
    <3> QED BY <1>4, <1>6, <3>1 DEF Later, OpenStatuses, ClosedStatuses
  <2>3. \A j \in Codes : Later(challenges[j], challenges'[j])
    BY <1>3, <2>1, <2>2
  <2>4. \A j \in Codes : challenges'[j] # challenges[j] /\ challenges[j].status = "active" =>
          challenges[j].user = u
    BY <1>3, <1>6, <2>1 DEF OpenOf, KeptOf
  <2> QED BY <1>1, <2>1, <2>3, <2>4 DEF Aged
<1> QED BY <1>2, <1>5, <1>6

\* What a step does to the challenges.
LEMMA ChallengeStep ==
  ASSUME ChallengesRight, TypeOK, RowsFit, CodeHeld, [Next]_vars
  PROVE  \/ UNCHANGED <<challenges, mailed, guesses>>
         \/ CleanupChallenges
         \/ \E c \in Clients : ResetStep(c) /\ (InsertChallenge(c) \/ WrongCode(c) \/ Aged(c))
<1>1. CASE AccountNext /\ UNCHANGED resetVars
  BY <1>1 DEF resetVars
<1>2. CASE UNCHANGED vars
  BY <1>2 DEF vars, resetVars
<1>3. ASSUME NEW c \in Clients, ResetStep(c)
      PROVE  \/ UNCHANGED <<challenges, mailed, guesses>>
             \/ InsertChallenge(c) \/ WrongCode(c) \/ Aged(c)
  <2>1. CASE \/ CheckQuota(c) \/ ReadChallenge(c)
             \/ \E u \in Users : RequestReset(c, u) \/ VerifyOtp(c, u)
             \/ \E k \in Codes : ResetPassword(c, k)
    BY <2>1 DEF CheckQuota, ReadChallenge, RequestReset, VerifyOtp, ResetPassword, resetVars
  <2>2. CASE \E outcome \in {"active", "failed"} : Settle(c, outcome)
    BY <2>2, SettleAges
  <2>3. CASE RightCode(c)
    BY <2>3, RightAges
  <2>4. CASE ConsumeChallenge(c)
    BY <2>4, ConsumeAges
  <2> QED BY <1>3, <2>1, <2>2, <2>3, <2>4 DEF ResetStep
<1> QED BY <1>1, <1>2, <1>3 DEF Next, ResetNext

\* The nightly job deletes whole rows that no request is checking.
LEMMA CleanupKeeps ==
  ASSUME ChallengesRight, CleanupChallenges
  PROVE  /\ ChallengesRight' /\ UNCHANGED <<accountVars, mailed>>
         /\ \A k \in Codes :
              \/ challenges'[k] = challenges[k]
              \/ /\ Outdated(k) /\ ~Checking(k) /\ challenges'[k].user = None
                 /\ challenges'[k].status = "gone"
<1> DEFINE row == [NoChallenge EXCEPT !.status = "gone"]
<1>1. row \in Challenge /\ row.status = "gone" /\ row.user = None
  <2>1. 0 \in 0 .. MaxAttempts
    BY ResetLimits
  <2> QED BY <2>1 DEF Challenge, NoChallenge
<1>2. PICK old \in SUBSET Codes :
        /\ \A k \in old : Outdated(k) /\ ~Checking(k)
        /\ challenges' = [k \in Codes |-> IF k \in old THEN row ELSE challenges[k]]
  <2> DEFINE gone == {k \in Codes : Outdated(k)}
  <2>1. /\ \A k \in gone : Outdated(k) /\ ~Checking(k)
        /\ challenges' = [k \in Codes |-> IF k \in gone THEN row ELSE challenges[k]]
    BY DEF CleanupChallenges
  <2>2. gone \in SUBSET Codes
    OBVIOUS
  <2> HIDE DEF gone
  <2> QED BY <2>1, <2>2
<1>3. UNCHANGED <<accountVars, mailed, guesses>>
  BY DEF CleanupChallenges
<1> HIDE DEF row
<1>4. challenges' \in [Codes -> Challenge]
  BY <1>1, <1>2 DEF ChallengesRight
<1>5. \A k \in Codes :
        \/ k \notin old /\ challenges'[k] = challenges[k]
        \/ k \in old /\ challenges'[k] = row
  BY <1>2
<1>6. \A k \in Codes : challenges'[k].status \in OpenStatuses => challenges'[k] = challenges[k]
  BY <1>1, <1>5 DEF OpenStatuses
<1>7. OneOpenCode'
  BY <1>6 DEF ChallengesRight, OneOpenCode, OpenOf, KeptOf
<1>8. GuessesCounted'
  <2> SUFFICES ASSUME NEW k \in Codes
               PROVE  IF challenges'[k].status = "gone" THEN guesses[k] <= MaxAttempts
                      ELSE guesses[k] = challenges'[k].failedAttempts
    BY <1>3 DEF GuessesCounted
  <2>1. guesses[k] <= MaxAttempts
    BY ResetLimits DEF ChallengesRight, GuessesCounted, Challenge
  <2> QED BY <1>1, <1>5, <2>1 DEF ChallengesRight, GuessesCounted
<1>9. \A k \in Codes :
        /\ challenges'[k].status \in OpenStatuses => challenges'[k].user \in Users
        /\ challenges'[k].status = "none" => challenges'[k] = NoChallenge
  BY <1>1, <1>5, <1>6 DEF ChallengesRight
<1>10. ChallengesRight'
  BY <1>3, <1>4, <1>7, <1>8, <1>9 DEF ChallengesRight
<1> QED BY <1>1, <1>2, <1>3, <1>5, <1>10

\* The challenges stay right.
LEMMA ChallengesKept ==
  ASSUME ChallengesRight, TypeOK, RowsFit, CodeHeld, [Next]_vars
  PROVE  ChallengesRight'
<1>1. CASE UNCHANGED <<challenges, mailed, guesses>>
  BY <1>1 DEF ChallengesRight, OneOpenCode, OpenOf, KeptOf, GuessesCounted
<1>2. CASE CleanupChallenges
  BY <1>2, CleanupKeeps
<1>3. ASSUME NEW c \in Clients, InsertChallenge(c) \/ WrongCode(c) \/ Aged(c)
      PROVE  ChallengesRight'
  BY <1>3, InsertKeeps, WrongKeeps, AgedKept DEF Aged
<1> QED BY <1>1, <1>2, <1>3, ChallengeStep

\* The code that request d checks is the one it has read.
Checked(d) ==
  LET k == request[d].code IN
  /\ k \in Codes /\ challenges[k].user = request[d].who /\ challenges[k].status = "active"
  /\ challenges[k].failedAttempts = request[d].tries /\ request[d].tries < MaxAttempts

\* A code that is being checked stays as it was read, for only the request that
\* holds the user's row changes an active challenge of this user.
LEMMA CodeKept ==
  ASSUME ChallengesRight, TypeOK, RowsFit, HoldersTrue, CodeHeld, [Next]_vars
  PROVE  CodeHeld'
<1> SUFFICES ASSUME NEW d \in Clients, Doing(d, "verify", "read")'
             PROVE  Checked(d)'
  BY DEF CodeHeld, Checked, ActiveOf, KeptOf
\* The rows of the challenges checked do not change.
<1>1. ASSUME UNCHANGED request,
             \A k \in ActiveOf(request[d].who) :
               k = request[d].code => challenges'[k] = challenges[k]
      PROVE  Checked(d)'
  BY <1>1 DEF CodeHeld, Doing, ActiveOf, KeptOf, Checked
<1>2. ASSUME NEW c \in Clients, NEW r \in Request, Turn(c, r),
             \A k \in Codes : challenges[k].status = "active" /\ challenges'[k] # challenges[k]
               => challenges[k].user = request[c].who /\ Holds(request[c])
      PROVE  Checked(d)'
  <2>1. /\ request'[c] = r
        /\ d # c => request'[d] = request[d]
    BY <1>2 DEF Turn, TypeOK, AccountTypeOK
  <2>2. CASE d = c
    BY <1>2, <2>1, <2>2 DEF Turn, Reads, Doing, ActiveOf, KeptOf, Checked
  <2>3. CASE d # c
    <3> DEFINE k == request[d].code
    <3>1. /\ k \in Codes /\ challenges[k].user = request[d].who
          /\ challenges[k].status = "active"
          /\ challenges[k].failedAttempts = request[d].tries /\ request[d].tries < MaxAttempts
      BY <2>1, <2>3 DEF CodeHeld, Doing, ActiveOf, KeptOf
    <3>2. Holding(d)
      BY <2>1, <2>3 DEF Holding, Doing, Locking
    <3>3. challenges'[k] = challenges[k]
      BY <1>2, <2>3, <3>1, <3>2 DEF HoldersTrue, Holds, Holding
    <3> QED BY <2>1, <2>3, <3>1, <3>3 DEF Checked
  <2> QED BY <2>2, <2>3
<1>3. CASE UNCHANGED <<challenges, mailed, guesses>>
  BY <1>1, <1>2, <1>3, StepTurn DEF ActiveOf, KeptOf
<1>4. CASE CleanupChallenges
  <2>1. UNCHANGED request
    BY <1>4 DEF CleanupChallenges, accountVars
  <2>2. Checking(request[d].code)
    BY <2>1 DEF Checking, Doing
  <2> QED BY <1>1, <1>4, <2>1, <2>2, CleanupKeeps DEF ActiveOf, KeptOf
<1>5. ASSUME NEW c \in Clients, ResetStep(c), InsertChallenge(c) \/ WrongCode(c) \/ Aged(c)
      PROVE  Checked(d)'
  <2>1. PICK r \in Request : Turn(c, r)
    BY <1>5, ResetTurn
  <2>2. CASE InsertChallenge(c)
    <3>1. PICK k \in Codes : /\ challenges[k].status = "none"
                             /\ \A j \in Codes : j # k =>
                                  challenges'[j] = Invalidated(request[c].who)[j]
      BY <2>2, InsertKeeps
    <3>2. Holds(request[c])
      BY <2>2 DEF InsertChallenge, Doing, Holds, Locking
    <3>3. \A j \in Codes : j \notin OpenOf(request[c].who) =>
            Invalidated(request[c].who)[j] = challenges[j]
      BY DEF Invalidated
    <3>4. \A j \in Codes : challenges[j].status = "active" /\ challenges'[j] # challenges[j] =>
            challenges[j].user = request[c].who
      BY <3>1, <3>3 DEF OpenOf, KeptOf
    <3> QED BY <1>2, <2>1, <3>2, <3>4
  <2>3. CASE WrongCode(c)
    <3>1. \A j \in Codes : j # request[c].code => challenges'[j] = challenges[j]
      BY <2>3, WrongKeeps
    <3>2. /\ Holds(request[c])
          /\ challenges[request[c].code].user = request[c].who
      BY <2>3 DEF WrongCode, Doing, Holds, Locking, CodeHeld, ActiveOf, KeptOf
    <3> QED BY <1>2, <2>1, <3>1, <3>2
  <2>4. CASE Aged(c)
    BY <1>2, <2>1, <2>4 DEF Aged
  <2> QED BY <1>5, <2>2, <2>3, <2>4
<1> QED BY <1>3, <1>4, <1>5, ChallengeStep

-----------------------------------------------------------------------------
(* The quota of mails *)

\* The codes user u was sent after an instant.
SentSince(u, from) == {at \in mailed[u] : at > from}

\* A user the quota lets through was sent fewer codes than it allows: each of
\* them has a row of its own that the quota counts.
LEMMA Room ==
  ASSUME MailsKept, NEW u \in Users, MayMail(u)
  PROVE  IsFiniteSet(SentSince(u, now - Window))
         /\ Cardinality(SentSince(u, now - Window)) < MailQuota
<1> DEFINE S == SentSince(u, now - Window)
           T == {k \in KeptOf(u) : challenges[k].createdAt > now - Window}
           f == [at \in S |-> CHOOSE k \in T : challenges[k].createdAt = at]
<1>1. \A at \in S : \E k \in T : challenges[k].createdAt = at
  BY DEF MailsKept, SentSince
<1>2. \A at \in S : f[at] \in T /\ challenges[f[at]].createdAt = at
  BY <1>1
<1>3. f \in [S -> T]
  BY <1>2
<1>4. f \in Injection(S, T)
  BY <1>2, <1>3 DEF Injection, IsInjective
<1>5. IsFiniteSet(T) /\ Cardinality(T) < MailQuota
  <2>1. IsFiniteSet(KeptOf(u)) /\ T \in SUBSET KeptOf(u)
    BY DEF MailsKept
  <2>2. IsFiniteSet(T)
    BY <2>1, FS_Subset
  <2> QED BY <2>2 DEF MayMail
<1> HIDE DEF f, T
<1>6. IsFiniteSet(S) /\ Cardinality(S) <= Cardinality(T)
  BY <1>4, <1>5, FS_Injection
<1>7. Cardinality(S) \in Nat /\ Cardinality(T) \in Nat
  BY <1>5, <1>6, FS_CardinalityType
<1> QED BY <1>5, <1>6, <1>7, ResetLimits

\* A request that passed the quota still has room when it inserts its row.
RoomLeft(c) ==
  Cardinality(SentSince(request[c].who, request[c].time - Window)) < MailQuota

\* What is kept when rows keep their users and their dates.
LEMMA RoomKept ==
  ASSUME TypeOK, RowsFit, HoldersTrue, MailsKept, NEW c \in Clients, NEW r \in Request,
         Turn(c, r),
         \A u \in Users : mailed'[u] = mailed[u] \/ (Holds(request[c]) /\ u = request[c].who)
  PROVE  \A d \in Clients :
           /\ d = c => (Doing(d, "issue", "read")' => RoomLeft(d)')
           /\ d # c => (Doing(d, "issue", "read")' => RoomLeft(d)')
<1>1. ASSUME Doing(c, "issue", "read")' PROVE RoomLeft(c)'
  <2>1. request'[c] = r
    BY DEF Turn, TypeOK, AccountTypeOK
  <2>2. /\ MayMail(r.who) /\ r.time = now /\ UNCHANGED <<mailed, now>> /\ r.who \in Users
    BY <1>1, <2>1 DEF Turn, Reads, Doing, Fits
  <2>3. Cardinality(SentSince(r.who, now - Window)) < MailQuota
    BY <2>2, Room
  <2> QED BY <2>1, <2>2, <2>3 DEF RoomLeft, SentSince
<1>2. ASSUME NEW d \in Clients, d # c, Doing(d, "issue", "read")' PROVE RoomLeft(d)'
  <2>1. request'[d] = request[d]
    BY <1>2 DEF Turn, TypeOK, AccountTypeOK
  <2>2. RoomLeft(d) /\ Holding(d) /\ request[d].who \in Users
    BY <1>2, <2>1 DEF Doing, MailsKept, RoomLeft, SentSince, Holding, Locking, RowsFit, Fits
  <2>3. mailed'[request[d].who] = mailed[request[d].who]
    BY <1>2, <2>2 DEF HoldersTrue, Holds, Holding
  <2> QED BY <2>1, <2>2, <2>3 DEF RoomLeft, SentSince
<1> QED BY <1>1, <1>2

\* The codes sent lately are kept while rows keep their users and their dates.
LEMMA RowsKept ==
  ASSUME MailsKept, TypeOK, now' \in Nat, now <= now', UNCHANGED mailed,
         \A k \in Codes :
           \/ /\ challenges'[k].user = challenges[k].user
              /\ challenges'[k].createdAt = challenges[k].createdAt
           \/ Outdated(k) /\ challenges'[k].user = None
  PROVE  /\ \A u \in Users : IsFiniteSet(mailed'[u]) /\ IsFiniteSet(KeptOf(u)')
         /\ \A u \in Users : \A at \in mailed'[u] :
              at > now' - Window => \E k \in KeptOf(u)' : challenges'[k].createdAt = at
<1>1. ASSUME NEW u \in Users PROVE IsFiniteSet(mailed'[u]) /\ IsFiniteSet(KeptOf(u)')
  <2>1. KeptOf(u)' \in SUBSET KeptOf(u)
    BY AccountNone DEF KeptOf
  <2> QED BY <2>1, FS_Subset DEF MailsKept
<1>2. ASSUME NEW u \in Users, NEW at \in mailed[u], at > now' - Window
      PROVE  \E k \in KeptOf(u)' : challenges'[k].createdAt = at
  <2>1. at \in Nat /\ now \in Nat /\ Window \in Nat /\ Retention \in Nat /\ Window <= Retention
    BY ResetLimits DEF TypeOK, AccountTypeOK, ResetTypeOK
  <2>2. at > now - Window
    <3>1. \A a, m, n, w \in Nat : m <= n /\ a > n - w => a > m - w
      OBVIOUS
    <3> QED BY <1>2, <2>1, <3>1
  <2>3. PICK k \in KeptOf(u) : challenges[k].createdAt = at
    BY <2>2 DEF MailsKept
  <2>4. ~Outdated(k)
    BY <2>1, <2>2, <2>3 DEF Outdated
  <2> QED BY <2>3, <2>4 DEF KeptOf
<1> QED BY <1>1, <1>2

\* Time passes in ticks, and the rows of the users keep their type.
LEMMA ClockKept ==
  ASSUME TypeOK, RowsFit, [Next]_vars
  PROVE  /\ plan' = plan /\ now' \in Nat /\ now <= now'
         /\ users' \in [Users -> User]
<1>1. now \in Nat /\ users \in [Users -> User]
  BY DEF TypeOK, AccountTypeOK
<1>2. CASE plan' = plan /\ now' = now /\ users' = users
  BY <1>1, <1>2
<1>3. CASE Tick
  BY <1>1, <1>3 DEF Tick
<1>4. ASSUME NEW c \in Clients, SaveUser(c)
      PROVE  /\ plan' = plan /\ now' = now
             /\ users' \in [Users -> User]
  <2>1. /\ request[c] \in Request /\ request[c].who \in Users
        /\ request[c].copy.locked \in BOOLEAN /\ request[c].copy.deleted \in BOOLEAN
    BY <1>4 DEF SaveUser, Doing, RowsFit, Fits, TypeOK, AccountTypeOK, Request, User
  <2> DEFINE u == request[c].who
             r == request[c]
             row == [locked |-> IF "locked" \in r.drift THEN r.copy.locked
                                ELSE users[u].locked,
                     deleted |-> IF "deleted" \in r.drift THEN r.copy.deleted
                                 ELSE users[u].deleted]
  <2>2. row \in User
    BY <1>1, <2>1 DEF User
  <2>3. users' = [users EXCEPT ![u] = row] /\ plan' = plan /\ now' = now
    BY <1>4 DEF SaveUser
  <2> HIDE DEF row
  <2> QED BY <1>1, <2>2, <2>3
<1>5. ASSUME NEW u \in Users, AccountStep(u)
      PROVE  /\ plan' = plan /\ now' = now
             /\ users' \in [Users -> User]
  <2>1. PICK b \in BOOLEAN, f \in {"locked", "deleted"} :
          /\ \/ f = "locked" /\ users' = [users EXCEPT ![u].locked = b]
             \/ f = "deleted" /\ users' = [users EXCEPT ![u].deleted = b]
          /\ plan' = plan /\ now' = now
    BY <1>5 DEF AccountStep, LockAccount, UnlockAccount, DeleteOwnAccount
  <2>2. [users[u] EXCEPT !.locked = b] \in User /\ [users[u] EXCEPT !.deleted = b] \in User
    BY <1>1 DEF User
  <2>3. users' = [users EXCEPT ![u] = users'[u]] /\ users'[u] \in User
    BY <1>1, <2>1, <2>2
  <2> QED BY <1>1, <2>1, <2>3
<1>6. ASSUME NEW c \in Clients,
             \/ SessionStep(c) \/ Die(c) \/ \E u \in Users : BeginChange(c, u)
             \/ CopyUser(c) \/ ReloadUser(c) \/ FindTokens(c) \/ RevokeFound(c)
      PROVE  plan' = plan /\ now' = now /\ users' = users
  BY <1>6 DEF SessionStep, LockUser, CreateRefreshTokenRecord, RotateToken, FindValidToken,
              ValidateUser, Die, BeginChange, CopyUser, ReloadUser, FindTokens, RevokeFound
<1>7. ASSUME NEW c \in Clients, ResetStep(c)
      PROVE  plan' = plan /\ now' = now /\ users' = users
  BY <1>7 DEF ResetStep, CheckQuota, InsertChallenge, Settle, ReadChallenge, WrongCode,
              RightCode, ConsumeChallenge, RequestReset, VerifyOtp, ResetPassword
<1>8. CASE \/ \E t \in Tokens : RevokeToken(t)
           \/ CleanupTokens \/ CleanupChallenges \/ UNCHANGED vars
  BY <1>2, <1>8 DEF RevokeToken, CleanupTokens, CleanupChallenges, vars, accountVars
<1>9. CASE AccountNext
  BY <1>1, <1>2, <1>3, <1>4, <1>5, <1>6, <1>8, <1>9 DEF AccountNext, ChangeStep
<1> QED BY <1>2, <1>7, <1>8, <1>9 DEF Next, ResetNext

\* The quota stays kept: only the request that holds the user's row mails, and it
\* had found room in the window that ends with the new mail.
LEMMA MailsAreKept ==
  ASSUME ChallengesRight, TypeOK, RowsFit, HoldersTrue, CodeHeld, MailsKept, MailsBounded,
         [Next]_vars
  PROVE  MailsKept' /\ MailsBounded' /\ mailed' \in [Users -> SUBSET Nat]
<1> DEFINE RoomAll == \A c \in Clients : Doing(c, "issue", "read") => RoomLeft(c)
<1>1. MailsKept <=>
        /\ \A u \in Users : IsFiniteSet(mailed[u]) /\ IsFiniteSet(KeptOf(u))
        /\ \A u \in Users : \A at \in mailed[u] :
             at > now - Window => \E k \in KeptOf(u) : challenges[k].createdAt = at
        /\ RoomAll
  BY DEF MailsKept, RoomLeft, SentSince
<1>2. MailsKept' <=>
        /\ \A u \in Users : IsFiniteSet(mailed'[u]) /\ IsFiniteSet(KeptOf(u)')
        /\ \A u \in Users : \A at \in mailed'[u] :
             at > now' - Window => \E k \in KeptOf(u)' : challenges'[k].createdAt = at
        /\ RoomAll'
  BY DEF MailsKept, RoomLeft, SentSince
<1>3. mailed \in [Users -> SUBSET Nat] /\ now' \in Nat /\ now <= now'
  BY ClockKept DEF TypeOK, ResetTypeOK
\* No mail goes out.
<1>4. ASSUME UNCHANGED mailed, RoomAll',
             \A k \in Codes :
               \/ /\ challenges'[k].user = challenges[k].user
                  /\ challenges'[k].createdAt = challenges[k].createdAt
               \/ Outdated(k) /\ challenges'[k].user = None
      PROVE  MailsKept' /\ MailsBounded'
  <2>1. MailsKept'
    BY <1>2, <1>3, <1>4, RowsKept, Zenon
  <2> QED BY <1>4, <2>1 DEF MailsBounded
<1>5. ASSUME UNCHANGED <<request, mailed>> PROVE RoomAll'
  BY <1>1, <1>5 DEF RoomLeft, SentSince, Doing
<1>6. ASSUME NEW c \in Clients, NEW r \in Request, Turn(c, r), UNCHANGED mailed PROVE RoomAll'
  BY <1>6, RoomKept
<1> HIDE DEF RoomAll
<1>7. CASE UNCHANGED <<challenges, mailed, guesses>>
  BY <1>3, <1>4, <1>5, <1>6, <1>7, StepTurn
<1>8. CASE CleanupChallenges
  <2>1. UNCHANGED <<request, mailed>>
    BY <1>8 DEF CleanupChallenges, accountVars
  <2> QED BY <1>3, <1>4, <1>5, <1>8, <2>1, CleanupKeeps
<1>9. ASSUME NEW c \in Clients, ResetStep(c), WrongCode(c) \/ Aged(c)
      PROVE  MailsKept' /\ MailsBounded' /\ UNCHANGED mailed
  <2>1. PICK r \in Request : Turn(c, r)
    BY <1>9, ResetTurn
  <2>2. UNCHANGED mailed
    BY <1>9 DEF WrongCode, Aged
  <2>3. \A k \in Codes : /\ challenges'[k].user = challenges[k].user
                         /\ challenges'[k].createdAt = challenges[k].createdAt
    BY <1>9, WrongKeeps DEF Aged, Later
  <2> QED BY <1>4, <1>6, <2>1, <2>2, <2>3
<1>10. ASSUME NEW c \in Clients, ResetStep(c), InsertChallenge(c)
       PROVE  MailsKept' /\ MailsBounded' /\ mailed' \in [Users -> SUBSET Nat]
  <2> DEFINE u == request[c].who
             m == request[c].time
             w == m - Window
             since == SentSince(u, w)
  <2>1. PICK r \in Request : Turn(c, r)
    BY <1>10, ResetTurn
  <2>2. /\ u \in Users /\ m \in Nat /\ Window \in Nat \ {0} /\ w \in Int
        /\ Holding(c) /\ RoomLeft(c) /\ Doing(c, "issue", "read")
    BY <1>1, <1>10, ResetLimits
       DEF InsertChallenge, Doing, RowsFit, Fits, TypeOK, AccountTypeOK, Request,
           Holding, Locking, RoomAll
  <2>3. mailed' = [mailed EXCEPT ![u] = @ \cup {m}]
    BY <1>10 DEF InsertChallenge
  <2>4. PICK k \in Codes : /\ challenges[k].status = "none"
                           /\ challenges'[k].user = u /\ challenges'[k].createdAt = m
                           /\ \A j \in Codes : j # k => challenges'[j] = Invalidated(u)[j]
    BY <1>10, InsertKeeps
  <2>5. now' = now /\ ~Doing(c, "issue", "read")'
    BY <1>10 DEF InsertChallenge, Doing, TypeOK, AccountTypeOK, Request
  <2>6. IsFiniteSet(since) /\ Cardinality(since) < MailQuota
    <3>1. IsFiniteSet(mailed[u]) /\ since \in SUBSET mailed[u]
      BY <2>2 DEF MailsKept, SentSince
    <3>2. IsFiniteSet(since)
      BY <3>1, FS_Subset
    <3> QED BY <2>2, <3>2 DEF RoomLeft
  <2>7. /\ \A v \in Users : v # u => mailed'[v] = mailed[v]
        /\ mailed'[u] = mailed[u] \cup {m}
        /\ mailed' \in [Users -> SUBSET Nat]
    BY <1>3, <2>2, <2>3
  <2> HIDE DEF u, m, w, since
  <2>8. \A j \in Codes : j # k =>
          challenges'[j].user = challenges[j].user
            /\ challenges'[j].createdAt = challenges[j].createdAt
    <3>1. challenges \in [Codes -> Challenge]
      BY DEF ChallengesRight
    <3>2. \A j \in Codes : Later(challenges[j], Invalidated(u)[j])
      BY <3>1, InvalidatedType, Zenon
    <3> QED BY <2>4, <3>2 DEF Later
  <2>9. challenges[k].user \notin Users
    BY <2>4, AccountNone DEF ChallengesRight, NoChallenge
  \* The rows of each user.
  <2>10. \A v \in Users :
           /\ KeptOf(v)' \in SUBSET (KeptOf(v) \cup {k})
           /\ \A j \in KeptOf(v) : j # k /\ j \in KeptOf(v)'
                                     /\ challenges'[j].createdAt = challenges[j].createdAt
    BY <2>8, <2>9 DEF KeptOf
  <2>11. ASSUME NEW v \in Users
         PROVE  IsFiniteSet(mailed'[v]) /\ IsFiniteSet(KeptOf(v)')
    <3>1. IsFiniteSet(mailed[v]) /\ IsFiniteSet(KeptOf(v))
      BY DEF MailsKept
    <3>2. IsFiniteSet(mailed[v] \cup {m}) /\ IsFiniteSet(KeptOf(v) \cup {k})
      BY <3>1, FS_AddElement
    <3>3. IsFiniteSet(KeptOf(v)')
      BY <2>10, <3>2, FS_Subset
    <3>4. mailed'[v] = mailed[v] \/ mailed'[v] = mailed[v] \cup {m}
      BY <2>7
    <3> QED BY <3>1, <3>2, <3>3, <3>4
  <2>12. ASSUME NEW v \in Users, NEW at \in mailed'[v], at > now' - Window
         PROVE  \E j \in KeptOf(v)' : challenges'[j].createdAt = at
    <3>1. CASE at \in mailed[v]
      <4>1. PICK j \in KeptOf(v) : challenges[j].createdAt = at
        BY <2>5, <2>12, <3>1 DEF MailsKept
      <4> QED BY <2>10, <4>1
    <3>2. CASE v = u /\ at = m
      BY <2>4, <3>2 DEF KeptOf
    <3> QED BY <2>7, <3>1, <3>2
  <2>13. RoomAll'
    <3>1. \A v \in Users : mailed'[v] = mailed[v] \/ (Holds(request[c]) /\ v = request[c].who)
      BY <2>2, <2>7 DEF Holds, Holding, u
    <3>2. \A d \in Clients : d # c => (Doing(d, "issue", "read")' => RoomLeft(d)')
      BY <2>1, <3>1, RoomKept, Zenon
    <3> QED BY <2>5, <3>2 DEF RoomAll
  <2>14. MailsKept'
    BY <1>2, <2>11, <2>12, <2>13
  \* A span that the new mail falls into reaches back no further than the window.
  <2>15. ASSUME NEW v \in Users, NEW from \in mailed'[v]
         PROVE  Cardinality({at \in mailed'[v] : from <= at /\ at < from + Window}) <= MailQuota
    <3> DEFINE span == {at \in mailed'[v] : from <= at /\ at < from + Window}
    <3>1. CASE m \notin span \/ v # u
      <4>1. mailed'[v] = mailed[v] \/ mailed'[v] = mailed[v] \cup {m}
        BY <2>7
      <4>2. CASE mailed'[v] = mailed[v]
        BY <4>2 DEF MailsBounded
      <4>3. CASE v = u /\ mailed'[v] = mailed[v] \cup {m} /\ from \in mailed[v]
        <5>1. span = {at \in mailed[v] : from <= at /\ at < from + Window}
          BY <3>1, <4>3
        <5> QED BY <4>3, <5>1 DEF MailsBounded
      <4>4. CASE v = u /\ from = m
        <5>1. m \in span
          BY <2>2, <4>4 DEF m
        <5> QED BY <3>1, <4>4, <5>1
      <4> QED BY <2>7, <4>1, <4>2, <4>3, <4>4
    <3>2. CASE m \in span /\ v = u
      <4>1. from <= m /\ m < from + Window /\ from \in Nat
        BY <2>7, <3>2
      <4>2. span \in SUBSET (since \cup {m})
        <5> SUFFICES ASSUME NEW at \in span, at # m PROVE at \in since
          OBVIOUS
        <5>1. at \in mailed[u] /\ at \in Nat /\ from <= at
          BY <1>3, <2>2, <2>7, <3>2 DEF u
        <5>2. at > m - Window
          BY <2>2, <4>1, <5>1 DEF m
        <5> QED BY <5>1, <5>2 DEF since, SentSince, w
      <4>3. /\ IsFiniteSet(since \cup {m})
            /\ Cardinality(since \cup {m}) <= Cardinality(since) + 1
        <5>1. Cardinality(since) \in Nat
          BY <2>6, FS_CardinalityType
        <5>2. /\ IsFiniteSet(since \cup {m})
              /\ Cardinality(since \cup {m}) =
                   IF m \in since THEN Cardinality(since) ELSE Cardinality(since) + 1
          BY <2>6, FS_AddElement
        <5> QED BY <5>1, <5>2
      <4>4. Cardinality(span) <= Cardinality(since \cup {m}) /\ IsFiniteSet(span)
        BY <4>2, <4>3, FS_Subset
      <4> HIDE DEF span
      <4>5. /\ Cardinality(span) \in Nat /\ Cardinality(since) \in Nat
            /\ Cardinality(since \cup {m}) \in Nat
        BY <2>6, <4>3, <4>4, FS_CardinalityType
      <4>6. Cardinality(span) <= MailQuota
        BY <2>6, <4>3, <4>4, <4>5, ResetLimits
      <4> QED BY <4>6 DEF span
    <3> QED BY <3>1, <3>2
  <2> QED BY <2>7, <2>14, <2>15 DEF MailsBounded
<1> QED BY <1>3, <1>7, <1>8, <1>9, <1>10, ChallengeStep

-----------------------------------------------------------------------------
(* The invariant *)

\* Every behaviour begins with it: there are no sessions, challenges or mails.
LEMMA AccountBegins ==
  ASSUME Init
  PROVE  AccountInv
<1> USE DEF Init, AccountInit, ResetInit
<1>1. TypeOK
  <2>1. AccountTypeOK
    BY IdleType DEF AccountTypeOK, Open, User, NoToken, Token
  <2>2. NoChallenge \in Challenge
    <3>1. 0 \in 0 .. MaxAttempts
      BY ResetLimits
    <3> QED BY <3>1 DEF NoChallenge, Challenge
  <2>3. ResetTypeOK
    BY <2>2 DEF ResetTypeOK
  <2> QED BY <2>1, <2>3 DEF TypeOK
<1>2. NoSessionOutlivesRevocation /\ OneHeir
  BY DEF NoSessionOutlivesRevocation, OneHeir, NoToken
<1>3. \A u \in Users : KeptOf(u) = {} /\ mailed[u] = {}
  BY AccountNone DEF KeptOf, NoChallenge
<1>4. OneOpenCode
  BY <1>3 DEF OneOpenCode, OpenOf
<1>5. HoldersTrue
  BY IdleType DEF HoldersTrue, Holding, Holds
<1>6. RowsFit
  <2>1. Fits(Idle)
    BY IdleType DEF Fits, Idle
  <2>2. \A t \in Tokens : tokens[t].status # "live" /\ tokens[t].family = None
    BY DEF NoToken
  <2>3. \A k \in Codes : challenges[k].status \notin OpenStatuses
    BY DEF NoChallenge, OpenStatuses
  <2> QED BY <2>1, <2>2, <2>3, AccountNone DEF RowsFit
<1>7. CodeHeld /\ ChangesRevoke
  BY DEF CodeHeld, ChangesRevoke, Doing, Idle
<1>8. GuessesCounted
  BY DEF GuessesCounted, NoChallenge
<1>9. MailsKept /\ MailsBounded
  BY <1>3, FS_EmptySet DEF MailsKept, MailsBounded, Doing, Idle
<1> QED BY <1>1, <1>2, <1>4, <1>5, <1>6, <1>7, <1>8, <1>9 DEF AccountInv

\* Every step keeps it.
LEMMA AccountGoesOn ==
  ASSUME AccountInv, [Next]_vars
  PROVE  AccountInv'
<1>1. /\ TypeOK /\ RowsFit /\ HoldersTrue /\ CodeHeld /\ ChallengesRight
      /\ SessionsCurrent /\ survivors = {} /\ OneHeir /\ ChangesRevoke
      /\ MailsKept /\ MailsBounded
  BY ChallengesAre DEF AccountInv, NoSessionOutlivesRevocation, SessionsCurrent
<1>2. TokensRight'
  BY <1>1, TokensKept
<1>3. ChallengesRight' /\ ChangesRevoke' /\ survivors' = {}
  BY <1>1, ChallengesKept, ChangesKept
<1>4. HoldersTrue'
  BY <1>1, HoldersKept
<1>5. CodeHeld'
  BY <1>1, CodeKept
<1>6. MailsKept' /\ MailsBounded' /\ mailed' \in [Users -> SUBSET Nat]
  BY <1>1, MailsAreKept
<1>7. TypeOK'
  <2>1. plan' = plan /\ now' \in Nat /\ users' \in [Users -> User]
    BY <1>1, ClockKept
  <2>2. request' \in [Clients -> Request] /\ holder' \in [Users -> Clients \cup {None}]
    BY <1>1, RequestType
  <2> QED BY <1>1, <1>2, <1>3, <1>6, <2>1, <2>2
      DEF TypeOK, AccountTypeOK, ResetTypeOK, TokensRight, ChallengesRight
<1>8. RowsFit'
  <2>1. \A c \in Clients : Fits(request'[c])
    <3>1. CASE UNCHANGED <<request, holder>>
      BY <1>1, <3>1 DEF RowsFit
    <3>2. ASSUME NEW c \in Clients, NEW r \in Request, Turn(c, r)
          PROVE  \A d \in Clients : Fits(request'[d])
      <4>1. \A d \in Clients : request'[d] = r \/ request'[d] = request[d]
        BY <1>1, <3>2 DEF Turn, TypeOK, AccountTypeOK
      <4>2. Fits(r)
        BY <3>2 DEF Turn
      <4> QED BY <1>1, <4>1, <4>2 DEF RowsFit
    <3> QED BY <1>1, <3>1, <3>2, StepTurn
  <2> QED BY <1>2, <1>3, <2>1 DEF RowsFit, TokensRight, ChallengesRight, Fits
<1> QED BY <1>2, <1>3, <1>4, <1>5, <1>6, <1>7, <1>8
    DEF AccountInv, NoSessionOutlivesRevocation, SessionsCurrent, TokensRight, ChallengesRight

\* The invariant of the accounts holds in every reachable state.
THEOREM AccountInvariant == Spec => []AccountInv
<1>1. Init => AccountInv
  BY AccountBegins
<1>2. AccountInv /\ [Next]_vars => AccountInv'
  BY AccountGoesOn
<1> QED BY <1>1, <1>2, PTL DEF Spec

\* A session that was ended by a lock, a deletion or a reset stays ended, whatever
\* refresh was under way and whatever the account becomes later; and an answered
\* change of the password leaves no token alive that was issued before its save.
THEOREM SessionsEndAtRevocation == Spec => []NoSessionOutlivesRevocation
<1>1. AccountInv => NoSessionOutlivesRevocation
  BY DEF AccountInv
<1> QED BY <1>1, AccountInvariant, PTL

\* However many requests present a refresh token, its session has one current token.
THEOREM OneHeirOnly == Spec => []OneHeir
<1>1. AccountInv => OneHeir
  BY DEF AccountInv
<1> QED BY <1>1, AccountInvariant, PTL

\* A user never has two reset challenges open.
THEOREM OneCodeAtATime == Spec => []OneOpenCode
<1>1. AccountInv => OneOpenCode
  BY DEF AccountInv
<1> QED BY <1>1, AccountInvariant, PTL

\* Concurrent guesses at a code never exceed the attempts it allows.
THEOREM GuessesStayBounded == Spec => []GuessesBounded
<1>1. AccountInv => GuessesBounded
  <2> SUFFICES ASSUME AccountInv, NEW k \in Codes PROVE guesses[k] <= MaxAttempts
    BY DEF GuessesBounded
  <2>1. challenges[k].failedAttempts \in 0 .. MaxAttempts
    BY DEF AccountInv, TypeOK, ResetTypeOK, Challenge
  <2> QED BY <2>1, ResetLimits DEF AccountInv, GuessesCounted
<1> QED BY <1>1, AccountInvariant, PTL

\* No span of the window holds more codes than the quota allows a user.
THEOREM MailsStayBounded == Spec => []MailsBounded
<1>1. AccountInv => MailsBounded
  BY DEF AccountInv
<1> QED BY <1>1, AccountInvariant, PTL
=============================================================================
