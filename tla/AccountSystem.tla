---------------------------- MODULE AccountSystem ----------------------------
(***************************************************************************)
(* Accounts, their sessions and the resetting of passwords together: logins, *)
(* refreshes, changes of the password, reset requests, guesses and resets    *)
(* race the locking, unlocking and deletion of the same accounts.           *)
(***************************************************************************)
EXTENDS PasswordReset

vars == <<accountVars, resetVars>>

Init == AccountInit /\ ResetInit

Next == (AccountNext /\ UNCHANGED resetVars) \/ ResetNext

Spec == Init /\ [][Next]_vars

-----------------------------------------------------------------------------
(* Safety *)

\* Every variable keeps its type.
TypeOK == AccountTypeOK /\ ResetTypeOK

\* Locking or deleting an account and resetting its password end every session
\* whose first token was inserted before, for ever: not even a refresh that had
\* found its token before, or one that runs after the account was unlocked
\* again, carries one on.  And no token issued before a new password was saved
\* works any more when the client is told that the password is changed, though
\* tokens were rotated, deleted and issued between the save and the revocation.
NoSessionOutlivesRevocation ==
  /\ \A t \in Tokens :
       tokens[t].status = "live" => tokens[t].epoch = epoch[tokens[t].owner]
  /\ survivors = {}

\* A session has one current token: however many tabs refresh at once, a token
\* has one heir.
OneHeir ==
  \A s, t \in Tokens :
    /\ tokens[s].status = "live" /\ tokens[t].status = "live"
    /\ tokens[s].family = tokens[t].family
    => s = t

\* A user never has two challenges open: a mail that is slow to go out does not
\* bring back the challenge a newer request has closed.
OneOpenCode == \A u \in Users : \A j, k \in OpenOf(u) : j = k

\* Concurrent guesses share one allowance of attempts.
GuessesBounded == \A k \in Codes : guesses[k] <= MaxAttempts

\* In no span of the quota's window is a user sent more codes than the quota,
\* although the quota counts rows that the nightly job deletes.
MailsBounded ==
  \A u \in Users : \A from \in mailed[u] :
    Cardinality({at \in mailed[u] : from <= at /\ at < from + Window}) <= MailQuota

\* A lock lasts until an administrator, who is somebody else, lifts it: nothing
\* the locked user has under way ends it.
OnlyUnlockUnlocks ==
  [][\A u \in Users : users[u].locked /\ ~users[u].locked' => UnlockAccount(u)]_vars

-----------------------------------------------------------------------------
(* What is preserved *)

\* The steps of a request between locking the user and its end.
Holding(c) ==
  /\ request[c].op \in Locking
  /\ request[c].at = "locked" \/ request[c].at = "read"

\* The row of a user is held by one request, from locking it to its end.
HoldersTrue ==
  /\ \A u \in Users : holder[u] # None =>
       Holding(holder[u]) /\ request[holder[u]].who = u
  /\ \A c \in Clients : Holding(c) => holder[request[c].who] = c

\* A request has the user, the token and the challenge it works on.
Fits(r) ==
  /\ r.op # "idle" => r.who \in Users
  /\ r.op = "refresh" => r.token \in Tokens
  /\ r.op = "reset" \/ (r.op = "issue" /\ r.at = "sending") => r.code \in Codes

\* Requests, tokens and challenges belong to users, a family is as old as its
\* members, and what was never issued is blank.
RowsFit ==
  /\ \A c \in Clients : Fits(request[c])
  /\ \A t \in Tokens : /\ tokens[t].status = "live" => tokens[t].owner \in Users
                       /\ \A s \in Tokens : tokens[t].family = s => tokens[s].status # "none"
  /\ \A k \in Codes : /\ challenges[k].status \in OpenStatuses => challenges[k].user \in Users
                      /\ challenges[k].status = "none" => challenges[k] = NoChallenge

\* The tokens issued before a password was saved are on record until the client
\* is answered, and the revocation has found those of the user that still live.
ChangesRevoke ==
  \A c \in Clients : Doing(c, "change", "saved") \/ Doing(c, "change", "revoking") =>
    /\ \A t \in request[c].prior : tokens[t].status # "none"
    /\ request[c].at = "revoking" =>
         request[c].prior \cap LiveOf(request[c].who) \subseteq request[c].seen

\* A code that is being checked stays as it was read.
CodeHeld ==
  \A c \in Clients : Doing(c, "verify", "read") =>
    LET k == request[c].code IN
    /\ k \in ActiveOf(request[c].who)
    /\ challenges[k].failedAttempts = request[c].tries /\ request[c].tries < MaxAttempts

\* Every guess is on record as long as the challenge is.
GuessesCounted ==
  \A k \in Codes :
    IF challenges[k].status = "gone" THEN guesses[k] <= MaxAttempts
    ELSE guesses[k] = challenges[k].failedAttempts

\* A code sent within the window is still in the table, where the quota counts
\* it; a request that passed the check has room left in its window.
MailsKept ==
  /\ \A u \in Users : IsFiniteSet(mailed[u]) /\ IsFiniteSet(KeptOf(u))
  /\ \A u \in Users : \A at \in mailed[u] :
       at > now - Window => \E k \in KeptOf(u) : challenges[k].createdAt = at
  /\ \A c \in Clients : Doing(c, "issue", "read") =>
       Cardinality({at \in mailed[request[c].who] : at > request[c].time - Window})
         < MailQuota

\* The inductive invariant.
AccountInv ==
  /\ TypeOK /\ NoSessionOutlivesRevocation /\ OneHeir /\ OneOpenCode
  /\ HoldersTrue /\ RowsFit /\ ChangesRevoke /\ CodeHeld /\ GuessesCounted
  /\ MailsKept /\ MailsBounded
=============================================================================
