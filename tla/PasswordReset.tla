---------------------------- MODULE PasswordReset ----------------------------
(***************************************************************************)
(* PasswordResetService: one-time codes sent by mail and the reset tokens   *)
(* they are exchanged for, on the password_reset_challenges table.          *)
(*                                                                         *)
(* Asking, verifying and resetting are transactions that lock the user's    *)
(* row.  The mail goes out between transactions, and the statement that     *)
(* records how that went locks nothing.                                     *)
(***************************************************************************)
EXTENDS Accounts

CONSTANTS
  Cooldown,     \* shortest time between two codes, 60 s
  Window,       \* span of the mail quota, one hour
  MailQuota,    \* codes in a Window, 5
  OtpTtl,       \* OTP_TTL_MS
  ResetTtl,     \* TOKEN_TTL_MS
  Retention,    \* age at which closed challenges are deleted, 24 hours
  MaxAttempts   \* wrong codes before a challenge closes, 5

ASSUME ResetLimits ==
  /\ {Cooldown, Window, OtpTtl, ResetTtl, Retention, MaxAttempts} \subseteq Nat \ {0}
  /\ MailQuota \in Nat
  /\ Window <= Retention

VARIABLES
  challenges,  \* the password_reset_challenges table
  mailed,      \* observed: the times each user was sent a code at
  guesses      \* observed: the wrong codes tried against each challenge

resetVars == <<challenges, mailed, guesses>>

OpenStatuses == {"pending", "active", "verified"}
ClosedStatuses == {"consumed", "invalidated", "failed"}

\* tokenExpiresAt = 0 is NULL.
Challenge == [status : OpenStatuses \cup ClosedStatuses \cup {"none", "gone"},
              user : Users \cup {None}, createdAt : Nat, otpExpiresAt : Nat,
              tokenExpiresAt : Nat, failedAttempts : 0..MaxAttempts]

NoChallenge == [status |-> "none", user |-> None, createdAt |-> 0,
                otpExpiresAt |-> 0, tokenExpiresAt |-> 0, failedAttempts |-> 0]

ResetInit ==
  /\ challenges = [k \in Codes |-> NoChallenge]
  /\ mailed = [u \in Users |-> {}]
  /\ guesses = [k \in Codes |-> 0]

ResetTypeOK ==
  /\ challenges \in [Codes -> Challenge]
  /\ mailed \in [Users -> SUBSET Nat]
  /\ guesses \in [Codes -> Nat]

-----------------------------------------------------------------------------
(* Rows *)

\* Challenges of u that the table still holds.
KeptOf(u) == {k \in Codes : challenges[k].user = u}

OpenOf(u) == {k \in KeptOf(u) : challenges[k].status \in OpenStatuses}

\* Challenges of u a code may be checked against.
ActiveOf(u) == {k \in KeptOf(u) : challenges[k].status = "active"}

\* invalidate() closes every open challenge of the user.
Invalidated(u) ==
  [k \in Codes |-> IF k \in OpenOf(u)
                   THEN [challenges[k] EXCEPT !.status = "invalidated"]
                   ELSE challenges[k]]

\* The row lock that checking a code takes on its challenge.
Checking(k) ==
  \E c \in Clients : Doing(c, "verify", "read") /\ request[c].code = k

-----------------------------------------------------------------------------
(* Asking for a code *)

RequestReset(c, u) ==
  /\ Active(u)
  /\ Begin(c, [Idle EXCEPT !.op = "issue", !.who = u])
  /\ UNCHANGED <<plan, now, users, tokens, holder, epoch, survivors, resetVars>>

\* The cooldown since the latest challenge, and the quota of the window.
MayMail(u) ==
  /\ \A k \in KeptOf(u) : now - challenges[k].createdAt >= Cooldown
  /\ Cardinality({k \in KeptOf(u) : challenges[k].createdAt > now - Window}) < MailQuota

CheckQuota(c) ==
  /\ Doing(c, "issue", "locked")
  /\ IF MayMail(request[c].who)
     THEN /\ request' = [request EXCEPT ![c].at = "read", ![c].time = now]
          /\ UNCHANGED holder
     ELSE End(c)
  /\ UNCHANGED <<plan, now, users, tokens, epoch, survivors, resetVars>>

\* Earlier challenges are closed, the new one waits for its mail.
InsertChallenge(c) ==
  LET u == request[c].who
      at == request[c].time IN
  /\ Doing(c, "issue", "read")
  /\ \E k \in Codes :
       /\ IsNext(k, {j \in Codes : challenges[j].status = "none"})
       /\ challenges' = [Invalidated(u) EXCEPT ![k] =
            [NoChallenge EXCEPT !.status = "pending", !.user = u, !.createdAt = at,
                                !.otpExpiresAt = at + OtpTtl]]
       /\ request' = [request EXCEPT ![c].at = "sending", ![c].code = k]
  /\ mailed' = [mailed EXCEPT ![u] = @ \cup {at}]
  /\ holder' = Unheld(c)
  /\ UNCHANGED <<plan, now, users, tokens, epoch, survivors, guesses>>

\* Mutant: the result of the mail is recorded whatever became of the challenge.
SettleUnguarded(c, outcome) ==
  LET k == request[c].code IN
  /\ Doing(c, "issue", "sending")
  /\ challenges' = [challenges EXCEPT ![k].status = outcome]
  /\ End(c)
  /\ UNCHANGED <<plan, now, users, tokens, epoch, survivors, mailed, guesses>>

\* The mail is out ("active"), or was refused ("failed"); a newer request, a
\* reset or the clean-up may have closed the challenge meanwhile.
Settle(c, outcome) ==
  LET k == request[c].code IN
  /\ Doing(c, "issue", "sending")
  /\ challenges' =
       IF /\ challenges[k].status = "pending"
          /\ outcome = "active" => challenges[k].otpExpiresAt > now
       THEN [challenges EXCEPT ![k].status = outcome] ELSE challenges
  /\ End(c)
  /\ UNCHANGED <<plan, now, users, tokens, epoch, survivors, mailed, guesses>>

-----------------------------------------------------------------------------
(* Trying a code *)

VerifyOtp(c, u) ==
  /\ Active(u)
  /\ Begin(c, [Idle EXCEPT !.op = "verify", !.who = u])
  /\ UNCHANGED <<plan, now, users, tokens, holder, epoch, survivors, resetVars>>

\* A challenge that still takes a code.
Tryable(k) ==
  /\ challenges[k].failedAttempts < MaxAttempts
  /\ challenges[k].otpExpiresAt > now

\* The newest active challenge is locked and read.
ReadChallenge(c) ==
  LET u == request[c].who
      newest(k) == \A j \in ActiveOf(u) : challenges[j].createdAt <= challenges[k].createdAt IN
  /\ Doing(c, "verify", "locked")
  /\ \/ /\ ActiveOf(u) = {}
        /\ End(c)
     \/ \E k \in ActiveOf(u) :
          /\ newest(k)
          /\ IF Tryable(k)
             THEN /\ request' = [request EXCEPT ![c].at = "read", ![c].code = k,
                                   ![c].tries = challenges[k].failedAttempts]
                  /\ UNCHANGED holder
             ELSE End(c)
  /\ UNCHANGED <<plan, now, users, tokens, epoch, survivors, resetVars>>

\* Mutant: the failed attempt is thrown inside the transaction and rolled back.
WrongCodeForgotten(c) ==
  LET k == request[c].code IN
  /\ Doing(c, "verify", "read")
  /\ guesses' = [guesses EXCEPT ![k] = @ + 1]
  /\ End(c)
  /\ UNCHANGED <<plan, now, users, tokens, epoch, survivors, challenges, mailed>>

\* The failed attempt is counted and committed; the last one closes the code.
WrongCode(c) ==
  LET k == request[c].code
      tries == request[c].tries + 1 IN
  /\ Doing(c, "verify", "read")
  /\ challenges' = [challenges EXCEPT ![k].failedAttempts = tries,
       ![k].status = IF tries >= MaxAttempts THEN "invalidated" ELSE @]
  /\ guesses' = [guesses EXCEPT ![k] = @ + 1]
  /\ End(c)
  /\ UNCHANGED <<plan, now, users, tokens, epoch, survivors, mailed>>

RightCode(c) ==
  LET k == request[c].code IN
  /\ Doing(c, "verify", "read")
  /\ challenges' = [challenges EXCEPT ![k].status = "verified",
                                      ![k].tokenExpiresAt = now + ResetTtl]
  /\ End(c)
  /\ UNCHANGED <<plan, now, users, tokens, epoch, survivors, mailed, guesses>>

-----------------------------------------------------------------------------
(* Using the reset token *)

ResetPassword(c, k) ==
  /\ challenges[k].status = "verified"
  /\ Begin(c, [Idle EXCEPT !.op = "reset", !.who = challenges[k].user, !.code = k])
  /\ UNCHANGED <<plan, now, users, tokens, holder, epoch, survivors, resetVars>>

\* The password is written, the challenge consumed, every other one closed and
\* every session ended; a token used before or too late changes nothing.
ConsumeChallenge(c) ==
  LET u == request[c].who
      k == request[c].code IN
  /\ Doing(c, "reset", "locked")
  /\ \/ /\ challenges[k].status = "verified" /\ challenges[k].tokenExpiresAt > now
        /\ challenges' = [Invalidated(u) EXCEPT ![k].status = "consumed"]
        /\ RevokeAllOf(u)
     \/ /\ challenges[k].status # "verified" \/ challenges[k].tokenExpiresAt <= now
        /\ UNCHANGED <<tokens, epoch, challenges>>
  /\ End(c)
  /\ UNCHANGED <<plan, now, users, survivors, mailed, guesses>>

\* Mutant: challenges are deleted as soon as the cooldown is over.
OutdatedEagerly(k) ==
  /\ challenges[k].status \in OpenStatuses \cup ClosedStatuses
  /\ challenges[k].createdAt < now - Cooldown
  /\ \/ challenges[k].status \in ClosedStatuses
     \/ challenges[k].otpExpiresAt <= now /\ challenges[k].tokenExpiresAt <= now

\* A challenge the nightly job deletes: old, and closed or run out.
Outdated(k) ==
  /\ challenges[k].status \in OpenStatuses \cup ClosedStatuses
  /\ challenges[k].createdAt < now - Retention
  /\ \/ challenges[k].status \in ClosedStatuses
     \/ challenges[k].otpExpiresAt <= now /\ challenges[k].tokenExpiresAt <= now

CleanupChallenges ==
  LET old == {k \in Codes : Outdated(k)} IN
  /\ old # {} /\ \A k \in old : ~Checking(k)
  /\ challenges' = [k \in Codes |-> IF k \in old
                      THEN [NoChallenge EXCEPT !.status = "gone"] ELSE challenges[k]]
  /\ UNCHANGED <<accountVars, mailed, guesses>>

ResetStep(c) ==
  \/ CheckQuota(c) \/ InsertChallenge(c)
  \/ \E outcome \in {"active", "failed"} : Settle(c, outcome)
  \/ ReadChallenge(c) \/ WrongCode(c) \/ RightCode(c) \/ ConsumeChallenge(c)
  \/ \E u \in Users : RequestReset(c, u) \/ VerifyOtp(c, u)
  \/ \E k \in Codes : ResetPassword(c, k)

ResetNext == (\E c \in Clients : ResetStep(c)) \/ CleanupChallenges
=============================================================================
