------------------------------- MODULE Sockets -------------------------------
(***************************************************************************)
(* RealtimeGateway, SessionRegistryService, RealtimeService and ChatGateway: *)
(* the sockets of the application's instances.                              *)
(*                                                                         *)
(* An instance runs one callback at a time; what it awaits (a token, a      *)
(* query, joining a room) is a step of its own, between which timers fire,  *)
(* transports close and accounts are locked.  A lock commits in the common  *)
(* database and is told to the registry of the one instance that made it;   *)
(* the sockets of the others last until their token runs out or they ask    *)
(* for something.                                                           *)
(***************************************************************************)
EXTENDS Integers, FiniteSets, FiniteSetsExt

CONSTANTS
  Socks,         \* identifiers of sockets, each used once
  Instances,     \* instances of the application
  Users,
  HandshakeTtl,  \* PENDING_HANDSHAKE_TIMEOUT_MS
  MaxDelay,      \* longest delay setTimeout takes, 2147483647 ms
  LastExpiry,    \* bound on the expiry of the tokens presented
  MaxClock       \* bound on the clock

ASSUME SocketAssumption == Instances # {} /\ Users # {}
ASSUME SocketLimits ==
  /\ {HandshakeTtl, MaxDelay} \subseteq Nat \ {0}
  /\ LastExpiry \in Nat /\ MaxClock \in Nat
  /\ LastExpiry + HandshakeTtl <= MaxClock

VARIABLES
  now,     \* Date.now() of the instances
  locked,  \* users whose row is locked
  socks,   \* each socket, its record in the registry and its handlers
  online,  \* RealtimeService.online of each instance
  telling, \* locks committed whose instance has still to invalidate
  told     \* observed: users an instance was told of and that are still locked

vars == <<now, locked, socks, online, telling, told>>

\* stage is the handshake, then the connection; record the registry's status;
\* chat the authorisation under way; present is presenceRegistered.
Sock == [stage : {"none", "verifying", "lookup", "barred", "found", "refused",
                  "admitted", "joining", "open", "ended"},
         home : Instances, user : Users, expires : Nat,
         record : {"absent", "pending", "active", "invalidated"}, alarm : Nat,
         connected : BOOLEAN, present : BOOLEAN, room : BOOLEAN,
         chat : {"idle", "asked", "barred", "known", "allowed", "joined"}]

Unsettled == {"verifying", "lookup", "barred", "found"}

NoSock == [stage |-> "none", home |-> CHOOSE i \in Instances : TRUE,
           user |-> CHOOSE u \in Users : TRUE, expires |-> 0, record |-> "absent",
           alarm |-> 0, connected |-> FALSE, present |-> FALSE, room |-> FALSE,
           chat |-> "idle"]

Init ==
  /\ now = 0
  /\ locked = {}
  /\ socks = [s \in Socks |-> NoSock]
  /\ online = [i \in Instances |-> [u \in Users |-> 0]]
  /\ telling = {}
  /\ told = {}

\* Every variable keeps its type.
TypeOK ==
  /\ now \in 0..MaxClock
  /\ locked \subseteq Users
  /\ socks \in [Socks -> Sock]
  /\ online \in [Instances -> [Users -> Nat]]
  /\ telling \subseteq Instances \X Users
  /\ told \subseteq Instances \X Users

-----------------------------------------------------------------------------
(* The registry *)

\* isCurrent and isEligible.
Current(r) == r.record \in {"pending", "active"} /\ r.expires > now
Eligible(r) == r.record = "active" /\ r.connected /\ r.expires > now

\* When the expiry timer armed now will fire.
Alarm(r) == now + Min({r.expires - now, MaxDelay})

\* finish(error): unless the handshake is settled, it is refused.
Refused(r) ==
  IF r.stage \in Unsettled
  THEN [r EXCEPT !.stage = "refused", !.record = "absent", !.alarm = 0] ELSE r

\* remove().
Removed(r) == [r EXCEPT !.record = "absent", !.alarm = 0]

\* disconnect(true) of a connected socket runs handleDisconnect.
Disconnected(r) ==
  IF r.connected
  THEN [Removed(r) EXCEPT !.connected = FALSE, !.present = FALSE, !.room = FALSE,
                          !.stage = IF @ = "open" THEN "ended" ELSE @]
  ELSE r

\* Mutant: only sockets that are connected are invalidated.
InvalidatedActive(r) == IF r.record = "active" THEN Disconnected(r) ELSE r

\* invalidateUser and markInvalid: a handshake is refused, a socket dropped; one
\* in between keeps an invalidated record.
Invalidated(r) ==
  IF r.record = "absent" THEN r
  ELSE IF r.stage \in Unsettled THEN Refused(r)
  ELSE Disconnected([r EXCEPT !.record = "invalidated", !.alarm = 0])

\* The new state of sockets, and markOffline for those that were present.
Become(new) ==
  LET left(i, u) == {s \in DOMAIN new : /\ socks[s].present /\ ~new[s].present
                                        /\ socks[s].home = i /\ socks[s].user = u} IN
  /\ socks' = [s \in Socks |-> IF s \in DOMAIN new THEN new[s] ELSE socks[s]]
  /\ online' = [i \in Instances |-> [u \in Users |->
       Max({0, online[i][u] - Cardinality(left(i, u))})]]

Set(s, r) == Become([x \in {s} |-> r])

-----------------------------------------------------------------------------
(* Handshake *)

\* A client connects with a token of u that runs out at expires.
Connect(s, i, u, expires) ==
  /\ socks[s].stage = "none"
  /\ Set(s, [NoSock EXCEPT !.stage = "verifying", !.home = i, !.user = u,
                           !.expires = expires])
  /\ UNCHANGED <<now, locked, telling, told>>

\* The token is verified and the socket registered, before the user is read.
Verify(s) ==
  LET r == socks[s] IN
  /\ r.stage = "verifying"
  /\ Set(s, IF r.expires > now
            THEN [r EXCEPT !.stage = "lookup", !.record = "pending",
                           !.alarm = now + HandshakeTtl]
            ELSE Refused(r))
  /\ UNCHANGED <<now, locked, telling, told>>

\* The query of resolveActive sees the row as it is now ...
ReadPrincipal(s) ==
  LET r == socks[s] IN
  /\ r.stage = "lookup"
  /\ Set(s, [r EXCEPT !.stage = IF r.user \in locked THEN "barred" ELSE "found"])
  /\ UNCHANGED <<now, locked, telling, told>>

LookupFails(s) ==
  /\ socks[s].stage = "lookup"
  /\ Set(s, Refused(socks[s]))
  /\ UNCHANGED <<now, locked, telling, told>>

\* ... and its answer is acted on later.
Admit(s) ==
  LET r == socks[s] IN
  /\ r.stage \in {"barred", "found"}
  /\ Set(s, IF r.stage = "found" /\ Current(r)
            THEN [r EXCEPT !.stage = "admitted"] ELSE Refused(r))
  /\ UNCHANGED <<now, locked, telling, told>>

\* handleConnection activates the record, arms its timer and joins a room.
HandleConnection(s) ==
  LET r == socks[s] IN
  /\ r.stage = "admitted"
  /\ Set(s, IF r.record = "pending" /\ r.expires > now
            THEN [r EXCEPT !.stage = "joining", !.connected = TRUE,
                           !.record = "active", !.alarm = Alarm(r)]
            ELSE [Removed(r) EXCEPT !.stage = "ended"])
  /\ UNCHANGED <<now, locked, telling, told>>

\* Mutant: the socket counts as present whatever happened while it joined.
JoinedBlindly(s) ==
  LET r == socks[s] IN
  /\ r.stage = "joining"
  /\ socks' = [socks EXCEPT ![s].stage = "open", ![s].present = TRUE]
  /\ online' = [online EXCEPT ![r.home][r.user] = @ + 1]
  /\ UNCHANGED <<now, locked, telling, told>>

\* Joined: the socket counts as present, if it is still eligible.
Joined(s) ==
  LET r == socks[s] IN
  /\ r.stage = "joining"
  /\ \/ /\ Eligible(r)
        /\ socks' = [socks EXCEPT ![s].stage = "open", ![s].present = TRUE]
        /\ online' = [online EXCEPT ![r.home][r.user] = @ + 1]
     \/ /\ ~Eligible(r)
        /\ Set(s, [Disconnected(r) EXCEPT !.stage = "ended"])
  /\ UNCHANGED <<now, locked, telling, told>>

JoinFails(s) ==
  /\ socks[s].stage = "joining"
  /\ Set(s, [Invalidated(socks[s]) EXCEPT !.stage = "ended"])
  /\ UNCHANGED <<now, locked, telling, told>>

-----------------------------------------------------------------------------
(* Timers and transports *)

\* Mutant: the record is removed and nobody is answered.
PendingTimeoutSilent(s) ==
  LET r == socks[s] IN
  /\ r.record = "pending" /\ r.alarm <= now
  /\ Set(s, Removed(r))
  /\ UNCHANGED <<now, locked, telling, told>>

\* A handshake that takes too long is refused; one admitted but not yet
\* connected loses its record.
PendingTimeout(s) ==
  LET r == socks[s] IN
  /\ r.record = "pending" /\ r.alarm <= now
  /\ Set(s, Removed(Refused(r)))
  /\ UNCHANGED <<now, locked, telling, told>>

\* Mutant: the timer is not armed again when the expiry was too far off.
ExpiryTimerOnce(s) ==
  LET r == socks[s] IN
  /\ r.record = "active" /\ r.alarm <= now
  /\ r.expires <= now
  /\ r.alarm = r.expires
  /\ Set(s, Invalidated(r))
  /\ UNCHANGED <<now, locked, telling, told>>

\* armExpiry, from its own timer: too early is armed again.
ExpiryTimer(s) ==
  LET r == socks[s] IN
  /\ r.record = "active" /\ r.alarm <= now
  /\ Set(s, IF r.expires <= now THEN Invalidated(r) ELSE [r EXCEPT !.alarm = Alarm(r)])
  /\ UNCHANGED <<now, locked, telling, told>>

\* The transport closes, at either end.
Close(s) ==
  LET r == socks[s] IN
  /\ r.stage \in Unsettled \cup {"admitted"} \/ r.connected
  /\ Set(s, IF r.stage = "admitted" THEN [Removed(r) EXCEPT !.stage = "ended"]
            ELSE IF r.connected THEN Disconnected(r) ELSE Refused(r))
  /\ UNCHANGED <<now, locked, telling, told>>

Tick ==
  /\ now < MaxClock
  /\ now' = now + 1
  /\ UNCHANGED <<locked, socks, online, telling, told>>

-----------------------------------------------------------------------------
(* Rooms of conversations *)

Chat(s, from, to) == socks[s].chat = from /\ Set(s, [socks[s] EXCEPT !.chat = to])

\* chat:join or chat:typing.
Ask(s) ==
  /\ Eligible(socks[s])
  /\ Chat(s, "idle", "asked")
  /\ UNCHANGED <<now, locked, telling, told>>

ReadAgain(s) ==
  /\ Chat(s, "asked", IF socks[s].user \in locked THEN "barred" ELSE "known")
  /\ UNCHANGED <<now, locked, telling, told>>

\* failure(): an account that is barred loses the socket.
Rebuff(s) ==
  /\ socks[s].chat = "barred"
  /\ Set(s, [Invalidated(socks[s]) EXCEPT !.chat = "idle"])
  /\ UNCHANGED <<now, locked, telling, told>>

\* The socket must still be eligible, and a party of the conversation; a notice
\* of typing goes to the eligible sockets of the room and ends here.
Authorize(s) ==
  /\ \/ Eligible(socks[s]) /\ Chat(s, "known", "allowed")
     \/ Chat(s, "known", "idle")
  /\ UNCHANGED <<now, locked, telling, told>>

JoinRoom(s) ==
  /\ socks[s].chat = "allowed"
  /\ Set(s, [socks[s] EXCEPT !.chat = "joined", !.room = TRUE])
  /\ UNCHANGED <<now, locked, telling, told>>

\* A socket that ended while joining leaves again.
Stay(s) ==
  /\ socks[s].chat = "joined"
  /\ Set(s, [socks[s] EXCEPT !.chat = "idle", !.room = Eligible(socks[s])])
  /\ UNCHANGED <<now, locked, telling, told>>

Leave(s) ==
  /\ Eligible(socks[s]) /\ socks[s].room
  /\ Set(s, [socks[s] EXCEPT !.room = FALSE])
  /\ UNCHANGED <<now, locked, telling, told>>

-----------------------------------------------------------------------------
(* Accounts *)

\* lockAccount or deleteOwnAccount commits, at instance i.
Lock(i, u) ==
  /\ locked' = locked \cup {u}
  /\ telling' = telling \cup {<<i, u>>}
  /\ UNCHANGED <<now, socks, online, told>>

\* invalidateCommittedAccount.
Invalidate(i, u) ==
  LET mine == {s \in Socks : /\ socks[s].stage # "none"
                             /\ socks[s].home = i /\ socks[s].user = u} IN
  /\ <<i, u>> \in telling
  /\ telling' = telling \ {<<i, u>>}
  /\ Become([s \in mine |-> Invalidated(socks[s])])
  /\ told' = IF u \in locked THEN told \cup {<<i, u>>} ELSE told
  /\ UNCHANGED <<now, locked>>

Unlock(u) ==
  /\ u \in locked
  /\ locked' = locked \ {u}
  /\ told' = {t \in told : t[2] # u}
  /\ UNCHANGED <<now, socks, online, telling>>

-----------------------------------------------------------------------------
(* Specification *)

Handshake(s) ==
  \/ Verify(s) \/ ReadPrincipal(s) \/ LookupFails(s) \/ Admit(s)
  \/ HandleConnection(s) \/ Joined(s) \/ JoinFails(s)

ChatStep(s) ==
  Ask(s) \/ ReadAgain(s) \/ Rebuff(s) \/ Authorize(s) \/ JoinRoom(s) \/ Stay(s) \/ Leave(s)

Timers(s) == PendingTimeout(s) \/ ExpiryTimer(s)

Next ==
  \/ \E s \in Socks, i \in Instances, u \in Users, expires \in 1..LastExpiry :
       Connect(s, i, u, expires)
  \/ \E s \in Socks : Handshake(s) \/ Timers(s) \/ Close(s) \/ ChatStep(s)
  \/ \E i \in Instances, u \in Users : Lock(i, u) \/ Invalidate(i, u)
  \/ \E u \in Users : Unlock(u)
  \/ Tick

Spec == Init /\ [][Next]_vars

\* The event loop runs callbacks that are ready and timers that are due.  No
\* fairness is asked of the database, the clients or the network.
Fairness ==
  /\ WF_vars(Tick)
  /\ \A s \in Socks :
       /\ WF_vars(Verify(s)) /\ WF_vars(Admit(s))
       /\ WF_vars(PendingTimeout(s)) /\ WF_vars(ExpiryTimer(s))

FairSpec == Spec /\ Fairness

-----------------------------------------------------------------------------
(* Safety *)

\* Once the instance that locked an account has been told, none of its sockets
\* gets events for that user, were they connecting or connected, until the
\* account is unlocked.
NoneEligibleOnceTold ==
  \A s \in Socks :
    <<socks[s].home, socks[s].user>> \in told => ~Eligible(socks[s])

\* The count of a user's sockets never drifts: each counts from its joining to
\* its end, also when it ends while it joins.
PresenceAgrees ==
  \A i \in Instances, u \in Users :
    online[i][u] = Cardinality({s \in Socks :
      /\ socks[s].stage = "open" /\ socks[s].connected
      /\ socks[s].home = i /\ socks[s].user = u})

\* A socket that has ended is in no room, also when it ended while it joined.
NoGhostInRoom ==
  \A s \in Socks : socks[s].room /\ socks[s].chat = "idle" => socks[s].connected

-----------------------------------------------------------------------------
(* Why the safety properties hold: the inductive invariant *)

\* The record, the presence and the room of a socket follow its stage, however
\* it got there: a connected socket has an active record until it is dropped,
\* and one that is dropped while it joins is never present.
StageOK(r) ==
  /\ r.stage = "none" => r.chat = "idle"
  /\ r.stage \in {"none", "verifying", "refused", "ended"} => r.record = "absent"
  /\ r.stage \in {"lookup", "barred", "found"} => r.record = "pending"
  /\ r.stage = "admitted" => r.record # "active"
  /\ r.stage \in {"joining", "open"} =>
       r.record = IF r.connected THEN "active" ELSE "absent"
  /\ r.connected => r.stage \in {"joining", "open"}
  /\ r.present <=> r.stage = "open"
  /\ r.stage = "open" => r.connected
  /\ r.room /\ r.chat # "joined" => r.connected

\* A socket of a user its instance was told of cannot come to be eligible: the
\* account has not been found open since, and no admission is left to act on.
Sealed(r) ==
  <<r.home, r.user>> \in told =>
    /\ r.stage # "found" /\ r.record # "active"
    /\ ~(r.stage = "admitted" /\ r.record = "pending")

\* Sockets in use.
Used == {s \in Socks : socks[s].stage # "none"}

\* The inductive invariant: presence and rooms follow the sockets, and whoever
\* was told of a lock sees it still stand.
SocketInv ==
  /\ TypeOK
  /\ PresenceAgrees
  /\ NoGhostInRoom
  /\ \A s \in Socks : StageOK(socks[s]) /\ Sealed(socks[s])
  /\ \A t \in told : t[2] \in locked
  /\ IsFiniteSet(Used)

-----------------------------------------------------------------------------
(* Liveness *)

\* Every client that connects is answered, even if the database never does.
HandshakeSettles ==
  \A s \in Socks : socks[s].stage \in Unsettled ~> socks[s].stage \notin Unsettled

\* A socket does not outlive its token, however far off its expiry was; so one
\* of a locked account ends on every instance at last.
SocketsEnd == \A s \in Socks : socks[s].connected ~> ~socks[s].connected
=============================================================================
