------------------------------- MODULE Accounts -------------------------------
(***************************************************************************)
(* User accounts and their sessions: AuthService, RefreshTokenService and   *)
(* AccountLifecycleService on the users and refresh_tokens tables.          *)
(*                                                                         *)
(* A session is a chain of refresh tokens: login inserts the first, each    *)
(* refresh revokes one and inserts its heir.  Transactions take the row of  *)
(* the user before the rows of the tokens.  Changing the password is no     *)
(* transaction: it reads the row, saves it and revokes the tokens in        *)
(* statements of their own.                                                 *)
(*                                                                         *)
(* Whether a password is the right one is a choice of the client here, and  *)
(* the hash itself is left out: no property tells two passwords apart.      *)
(***************************************************************************)
EXTENDS Integers, FiniteSets

CONSTANTS
  Users,        \* accounts; the administrators who lock them are not among them
  Clients,      \* concurrent requests
  Tokens,       \* identifiers of refresh tokens, in the order of their use
  Codes,        \* identifiers of password reset challenges, in that order too
  None,         \* NULL
  SessionTtl,   \* JWT_REFRESH_EXPIRED
  Plans,        \* what a behaviour is about: its kinds of request, its last instant
  MaxEpoch      \* bound on how often the sessions of one user are revoked

ASSUME AccountNone == None \notin Users \cup Clients \cup Tokens \cup Codes
ASSUME AccountIds == Tokens \subseteq Nat /\ Codes \subseteq Nat
ASSUME AccountLimits == SessionTtl \in Nat \ {0} /\ MaxEpoch \in Nat

Kinds == {"login", "refresh", "change", "issue", "verify", "reset"}

ASSUME PlanAssumption == Plans \subseteq [kinds : SUBSET Kinds, until : Nat]

VARIABLES
  plan,     \* the plan of this behaviour, chosen once
  now,      \* the clock of the database and of the instances
  users,    \* the users table
  tokens,   \* the refresh_tokens table
  request,  \* what each client's request is doing
  holder,   \* the request holding the lock on each user's row, or None
  epoch,    \* observed: how often all sessions of a user have been revoked
  survivors \* observed: a user's tokens that were issued before a password was
            \* saved, and still lived when its change was answered

accountVars == <<plan, now, users, tokens, request, holder, epoch, survivors>>

Flags == {"locked", "deleted"}

User == [locked : BOOLEAN, deleted : BOOLEAN]

\* family is the login a token descends from, epoch the user's at that login.
Token == [status : {"none", "live", "revoked", "gone"}, owner : Users \cup {None},
          expires : Nat, family : Tokens \cup {None}, epoch : Nat]

NoToken == [status |-> "none", owner |-> None, expires |-> 0, family |-> None,
            epoch |-> 0]

\* at counts the statements of op; copy is the user row as last read, drift the
\* columns a save will write, seen the tokens a revocation has found.  Only
\* observed is prior: the tokens issued before the new password was saved.
Request == [op : Kinds \cup {"idle"},
            at : {"start", "locked", "read", "reloaded", "saved", "revoking", "sending"},
            who : Users \cup {None}, token : Tokens \cup {None},
            code : Codes \cup {None}, time : Nat, tries : Nat,
            copy : User, drift : SUBSET Flags, seen : SUBSET Tokens, prior : SUBSET Tokens]

Open == [locked |-> FALSE, deleted |-> FALSE]

Idle == [op |-> "idle", at |-> "start", who |-> None, token |-> None,
         code |-> None, time |-> 0, tries |-> 0, copy |-> Open, drift |-> {},
         seen |-> {}, prior |-> {}]

AccountInit ==
  /\ plan \in Plans
  /\ now = 0
  /\ users = [u \in Users |-> Open]
  /\ tokens = [t \in Tokens |-> NoToken]
  /\ request = [c \in Clients |-> Idle]
  /\ holder = [u \in Users |-> None]
  /\ epoch = [u \in Users |-> 0]
  /\ survivors = {}

AccountTypeOK ==
  /\ plan \in Plans
  /\ now \in Nat
  /\ users \in [Users -> User]
  /\ tokens \in [Tokens -> Token]
  /\ request \in [Clients -> Request]
  /\ holder \in [Users -> Clients \cup {None}]
  /\ epoch \in [Users -> Nat]
  /\ survivors \in SUBSET Tokens

-----------------------------------------------------------------------------
(* Rows and requests *)

\* AuthPrincipalService.resolveActive, and every lookup that skips deleted rows.
Active(u) == ~users[u].locked /\ ~users[u].deleted

LiveOf(u) == {t \in Tokens : tokens[t].status = "live" /\ tokens[t].owner = u}

\* RefreshTokenService.findValidToken, and the guard of its rotation.
Valid(t) == tokens[t].status = "live" /\ tokens[t].expires > now

\* The tokens after revoking a set of them.
Revoked(set) ==
  [t \in Tokens |-> IF t \in set /\ tokens[t].status = "live"
                    THEN [tokens[t] EXCEPT !.status = "revoked"] ELSE tokens[t]]

\* t is the identifier (a UUIDv7, so the least) the next row of a table gets.
IsNext(t, unused) == t \in unused /\ \A x \in unused : t <= x

Unissued == {t \in Tokens : tokens[t].status = "none"}

Free(u) == holder[u] = None

\* The locks after request c has given back the one it has.
Unheld(c) == [u \in Users |-> IF holder[u] = c THEN None ELSE holder[u]]

Begin(c, r) ==
  /\ r.op \in plan.kinds
  /\ request[c] = Idle
  /\ request' = [request EXCEPT ![c] = r]

\* Commit or roll back, and answer the client.
End(c) ==
  /\ request' = [request EXCEPT ![c] = Idle]
  /\ holder' = Unheld(c)

Go(c, where) == request' = [request EXCEPT ![c].at = where]

Doing(c, what, where) == request[c].op = what /\ request[c].at = where

-----------------------------------------------------------------------------
(* Transactions that lock the user first *)

Locking == {"login", "refresh", "issue", "verify", "reset"}

\* Mutant: the transaction reads the user without FOR UPDATE.
LockUserUnserialised(c) ==
  LET u == request[c].who IN
  /\ request[c].op \in Locking /\ request[c].at = "start"
  /\ IF Active(u) THEN Go(c, "locked") /\ UNCHANGED holder ELSE End(c)
  /\ UNCHANGED <<plan, now, users, tokens, epoch, survivors>>

\* SELECT ... FOR UPDATE of the user; a barred or deleted one is refused.
LockUser(c) ==
  LET u == request[c].who IN
  /\ request[c].op \in Locking /\ request[c].at = "start"
  /\ Free(u)
  /\ IF Active(u)
     THEN Go(c, "locked") /\ holder' = [holder EXCEPT ![u] = c]
     ELSE End(c)
  /\ UNCHANGED <<plan, now, users, tokens, epoch, survivors>>

\* validateUser or validateGoogleUser, then login signs a token.
ValidateUser(c, u) ==
  /\ Active(u)
  /\ Begin(c, [Idle EXCEPT !.op = "login", !.who = u, !.time = now + SessionTtl])
  /\ UNCHANGED <<plan, now, users, tokens, holder, epoch, survivors>>

\* createRefreshTokenRecord inserts the first token of a session.
CreateRefreshTokenRecord(c) ==
  LET u == request[c].who IN
  /\ Doing(c, "login", "locked")
  /\ \E t \in Tokens :
       /\ IsNext(t, Unissued)
       /\ tokens' = [tokens EXCEPT ![t] =
            [status |-> "live", owner |-> u, expires |-> request[c].time,
             family |-> t, epoch |-> epoch[u]]]
  /\ End(c)
  /\ UNCHANGED <<plan, now, users, epoch, survivors>>

\* processToken finds the token a client presents, and its user.
FindValidToken(c, t) ==
  /\ Valid(t) /\ Active(tokens[t].owner)
  /\ Begin(c, [Idle EXCEPT !.op = "refresh", !.who = tokens[t].owner, !.token = t,
                           !.time = now + SessionTtl])
  /\ UNCHANGED <<plan, now, users, tokens, holder, epoch, survivors>>

\* Mutant: the update of the old token does not ask whether it is revoked.
RotateTokenTwice(c) ==
  LET old == request[c].token IN
  /\ Doing(c, "refresh", "locked")
  /\ \E t \in Tokens :
       /\ IsNext(t, Unissued)
       /\ tokens' = [Revoked({old}) EXCEPT ![t] =
            [tokens[old] EXCEPT !.status = "live", !.expires = request[c].time]]
  /\ End(c)
  /\ UNCHANGED <<plan, now, users, epoch, survivors>>

\* rotateToken revokes the old token, if nobody has, and inserts its heir.
RotateToken(c) ==
  LET old == request[c].token IN
  /\ Doing(c, "refresh", "locked")
  /\ \/ /\ ~Valid(old)
        /\ UNCHANGED tokens
     \/ /\ Valid(old)
        /\ \E t \in Tokens :
             /\ IsNext(t, Unissued)
             /\ tokens' = [Revoked({old}) EXCEPT ![t] =
                  [tokens[old] EXCEPT !.expires = request[c].time]]
  /\ End(c)
  /\ UNCHANGED <<plan, now, users, epoch, survivors>>

-----------------------------------------------------------------------------
(* Single statements, and transactions of one user row *)

\* logout revokes the token it is given.
RevokeToken(t) ==
  /\ tokens[t].status = "live"
  /\ tokens' = Revoked({t})
  /\ UNCHANGED <<plan, now, users, request, holder, epoch, survivors>>

\* The nightly job deletes tokens that are expired or revoked.
CleanupTokens ==
  LET dead == {t \in Tokens : \/ tokens[t].status = "revoked"
                              \/ tokens[t].status = "live" /\ tokens[t].expires < now} IN
  /\ dead # {}
  /\ tokens' = [t \in Tokens |-> IF t \in dead
                  THEN [NoToken EXCEPT !.status = "gone"] ELSE tokens[t]]
  /\ UNCHANGED <<plan, now, users, request, holder, epoch, survivors>>

\* Every session of u ends, in the transaction that holds its row.
RevokeAllOf(u) ==
  /\ epoch[u] < MaxEpoch
  /\ epoch' = [epoch EXCEPT ![u] = @ + 1]
  /\ tokens' = Revoked(LiveOf(u))

\* lockWithManager: an administrator, or a resolved report, locks the account.
LockAccount(u) ==
  /\ Free(u) /\ ~users[u].deleted
  /\ users' = [users EXCEPT ![u].locked = TRUE]
  /\ RevokeAllOf(u)
  /\ UNCHANGED <<plan, now, request, holder, survivors>>

UnlockAccount(u) ==
  /\ Free(u) /\ ~users[u].deleted
  /\ users' = [users EXCEPT ![u].locked = FALSE]
  /\ UNCHANGED <<plan, now, tokens, request, holder, epoch, survivors>>

\* The principal was active when the request began; the transaction asks only
\* whether the row is still there.
DeleteOwnAccount(u) ==
  /\ Free(u) /\ ~users[u].deleted
  /\ users' = [users EXCEPT ![u].deleted = TRUE]
  /\ RevokeAllOf(u)
  /\ UNCHANGED <<plan, now, request, holder, survivors>>

-----------------------------------------------------------------------------
(* Changing the password, statement by statement *)

\* The guard resolves the principal and the old password is compared.
BeginChange(c, u) ==
  /\ Active(u)
  /\ Begin(c, [Idle EXCEPT !.op = "change", !.who = u])
  /\ UNCHANGED <<plan, now, users, tokens, holder, epoch, survivors>>

\* updatePassword reads the row once more; a locked account is not refused.
CopyUser(c) ==
  LET u == request[c].who IN
  /\ Doing(c, "change", "start")
  /\ request' = [request EXCEPT ![c] =
       IF users[u].deleted THEN Idle
       ELSE [@ EXCEPT !.at = "read", !.copy = users[u]]]
  /\ UNCHANGED <<plan, now, users, tokens, holder, epoch, survivors>>

\* repository.save loads the row, a deleted one too, and compares the columns.
ReloadUser(c) ==
  LET u == request[c].who IN
  /\ Doing(c, "change", "read")
  /\ request' = [request EXCEPT ![c].at = "reloaded",
       ![c].drift = {f \in Flags : users[u][f] # request[c].copy[f]}]
  /\ UNCHANGED <<plan, now, users, tokens, holder, epoch, survivors>>

\* It writes the columns that differed, beside the new password.
SaveUser(c) ==
  LET u == request[c].who
      r == request[c] IN
  /\ Doing(c, "change", "reloaded")
  /\ Free(u)
  /\ users' = [users EXCEPT ![u] =
       [locked |-> IF "locked" \in r.drift THEN r.copy.locked ELSE @.locked,
        deleted |-> IF "deleted" \in r.drift THEN r.copy.deleted ELSE @.deleted]]
  /\ request' = [request EXCEPT ![c].at = "saved", ![c].prior = Tokens \ Unissued]
  /\ UNCHANGED <<plan, now, tokens, holder, epoch, survivors>>

\* The statement that revokes the tokens takes its snapshot ...
FindTokens(c) ==
  /\ Doing(c, "change", "saved")
  /\ request' = [request EXCEPT ![c].at = "revoking", ![c].seen = LiveOf(request[c].who)]
  /\ UNCHANGED <<plan, now, users, tokens, holder, epoch, survivors>>

\* The client is answered.
Answer(c) ==
  LET r == request[c] IN
  /\ survivors' = survivors \cup {t \in r.prior : /\ tokens'[t].status = "live"
                                                  /\ tokens'[t].owner = r.who}
  /\ End(c)

\* Mutant: it is answered without a look at the tokens.
RevokeFoundNothing(c) ==
  /\ Doing(c, "change", "revoking")
  /\ UNCHANGED tokens
  /\ Answer(c)
  /\ UNCHANGED <<plan, now, users, epoch>>

\* ... and revokes those of them that still live; an heir inserted since does.
RevokeFound(c) ==
  /\ Doing(c, "change", "revoking")
  /\ tokens' = Revoked(request[c].seen)
  /\ Answer(c)
  /\ UNCHANGED <<plan, now, users, epoch>>

ChangeStep(c) ==
  CopyUser(c) \/ ReloadUser(c) \/ SaveUser(c) \/ FindTokens(c) \/ RevokeFound(c)

-----------------------------------------------------------------------------
(* The surroundings *)

\* The instance serving the request dies; its transaction is rolled back.
Die(c) ==
  /\ request[c] # Idle
  /\ End(c)
  /\ UNCHANGED <<plan, now, users, tokens, epoch, survivors>>

Tick ==
  /\ now < plan.until
  /\ now' = now + 1
  /\ UNCHANGED <<plan, users, tokens, request, holder, epoch, survivors>>

SessionStep(c) ==
  \/ LockUser(c) \/ CreateRefreshTokenRecord(c) \/ RotateToken(c)
  \/ \E t \in Tokens : FindValidToken(c, t)
  \/ \E u \in Users : ValidateUser(c, u)

AccountStep(u) == LockAccount(u) \/ UnlockAccount(u) \/ DeleteOwnAccount(u)

AccountNext ==
  \/ \E c \in Clients : SessionStep(c) \/ ChangeStep(c) \/ Die(c)
  \/ \E c \in Clients, u \in Users : BeginChange(c, u)
  \/ \E u \in Users : AccountStep(u)
  \/ \E t \in Tokens : RevokeToken(t)
  \/ CleanupTokens
  \/ Tick
=============================================================================
