----------------------------- MODULE SocketProofs -----------------------------
(***************************************************************************)
(* Proofs about the sockets of the application, for any number of sockets,  *)
(* instances and users.                                                     *)
(***************************************************************************)
EXTENDS Sockets, TLAPS, FiniteSetTheorems

-----------------------------------------------------------------------------
(* Numbers *)

\* The larger of nothing and a number that is not negative.
LEMMA MaxWithZero ==
  ASSUME NEW n \in Nat
  PROVE  Max({0, n}) = n
<1>1. \E x \in {0, n} : \A y \in {0, n} : x >= y
  OBVIOUS
<1> QED BY <1>1 DEF Max

\* The sooner of two positive delays is positive.
LEMMA MinOfTwo ==
  ASSUME NEW m \in Nat, NEW n \in Nat
  PROVE  Min({m, n}) \in Nat
<1>1. \E x \in {m, n} : \A y \in {m, n} : x <= y
  OBVIOUS
<1> QED BY <1>1 DEF Min

-----------------------------------------------------------------------------
(* What the registry makes of a socket's state *)

\* What a step may make of the state r of a socket in use.
Sound(r, x) ==
  /\ x \in Sock /\ StageOK(x) /\ Sealed(x)
  /\ x.stage # "none" /\ x.home = r.home /\ x.user = r.user
  /\ x.present => r.present

\* What is known of a socket in use.
Known(r) == r \in Sock /\ StageOK(r) /\ Sealed(r) /\ r.stage # "none"

\* A socket whose state does not change.
LEMMA SameSound ==
  ASSUME NEW r, Known(r)
  PROVE  Sound(r, r)
BY DEF Known, Sound

\* The fields of what a refusal makes of a socket.
LEMMA RefusedFields ==
  ASSUME NEW r \in Sock, r.stage \in Unsettled
  PROVE  /\ Refused(r) \in Sock /\ Refused(r).stage = "refused"
         /\ Refused(r).record = "absent" /\ Refused(r).alarm = 0
         /\ Refused(r).home = r.home /\ Refused(r).user = r.user
         /\ Refused(r).connected = r.connected /\ Refused(r).present = r.present
         /\ Refused(r).room = r.room /\ Refused(r).chat = r.chat
BY DEF Refused, Sock

\* A refusal.
LEMMA RefusedSound ==
  ASSUME NEW r, Known(r)
  PROVE  /\ Sound(r, Refused(r))
         /\ Refused(r).chat = r.chat /\ Refused(r).connected = r.connected
         /\ r.stage \notin Unsettled => Refused(r) = r
<1>1. CASE r.stage \notin Unsettled
  <2>1. Refused(r) = r
    BY <1>1 DEF Refused
  <2> QED BY <1>1, <2>1, SameSound
<1>2. CASE r.stage \in Unsettled
  <2>1. ~r.connected /\ ~r.present /\ (r.room => r.chat = "joined")
    BY <1>2 DEF Known, StageOK, Unsettled
  <2> QED BY <1>2, <2>1, RefusedFields DEF Known, Sound, StageOK, Sealed
<1> QED BY <1>1, <1>2

\* The fields of what a removal makes of a socket.
LEMMA RemovedFields ==
  ASSUME NEW r \in Sock
  PROVE  /\ Removed(r) \in Sock /\ Removed(r).stage = r.stage
         /\ Removed(r).record = "absent" /\ Removed(r).alarm = 0
         /\ Removed(r).home = r.home /\ Removed(r).user = r.user
         /\ Removed(r).connected = r.connected /\ Removed(r).present = r.present
         /\ Removed(r).room = r.room /\ Removed(r).chat = r.chat
BY DEF Removed, Sock

\* The fields of what a disconnection makes of a connected socket.
LEMMA DisconnectedFields ==
  ASSUME NEW r \in Sock, r.connected
  PROVE  /\ Disconnected(r) \in Sock
         /\ Disconnected(r).stage = IF r.stage = "open" THEN "ended" ELSE r.stage
         /\ Disconnected(r).record = "absent"
         /\ Disconnected(r).home = r.home /\ Disconnected(r).user = r.user
         /\ ~Disconnected(r).connected /\ ~Disconnected(r).present
         /\ ~Disconnected(r).room /\ Disconnected(r).chat = r.chat
<1> DEFINE x == Removed(r)
<1>1. x \in Sock /\ x.stage = r.stage /\ x.record = "absent" /\ x.home = r.home
      /\ x.user = r.user /\ x.chat = r.chat
  BY RemovedFields
<1>2. Disconnected(r) = [x EXCEPT !.connected = FALSE, !.present = FALSE, !.room = FALSE,
                                  !.stage = IF @ = "open" THEN "ended" ELSE @]
  BY DEF Disconnected
<1> DEFINE end == IF x.stage = "open" THEN "ended" ELSE x.stage
<1> HIDE DEF x
<1>3. Disconnected(r) = [x EXCEPT !.connected = FALSE, !.present = FALSE, !.room = FALSE,
                                  !.stage = end]
  BY <1>1, <1>2 DEF Sock
<1>4. /\ end \in {"none", "verifying", "lookup", "barred", "found", "refused",
                  "admitted", "joining", "open", "ended"}
      /\ end = IF r.stage = "open" THEN "ended" ELSE r.stage
  BY <1>1 DEF Sock
<1> HIDE DEF end
<1> DEFINE y == [x EXCEPT !.connected = FALSE, !.present = FALSE, !.room = FALSE,
                          !.stage = end]
<1>5. y \in Sock
  BY <1>1, <1>4 DEF Sock
<1>6. /\ y.stage = end /\ y.record = x.record /\ y.home = x.home /\ y.user = x.user
      /\ y.chat = x.chat
  BY <1>1 DEF Sock
<1>7. ~y.connected /\ ~y.present /\ ~y.room
  BY <1>1 DEF Sock
<1>8. Disconnected(r) = y
  BY <1>3
<1> HIDE DEF y
<1> QED BY <1>1, <1>4, <1>5, <1>6, <1>7, <1>8

\* A disconnection.
LEMMA DisconnectedSound ==
  ASSUME NEW r, Known(r)
  PROVE  /\ Sound(r, Disconnected(r)) /\ ~Disconnected(r).connected
         /\ Disconnected(r).chat = r.chat
         /\ Disconnected(r).record # "active"
         /\ r.connected => ~Disconnected(r).room
<1>1. CASE ~r.connected
  <2>1. Disconnected(r) = r
    BY <1>1 DEF Disconnected
  <2>2. r.record # "active"
    BY <1>1 DEF Known, StageOK, Sock
  <2> QED BY <1>1, <2>1, <2>2, SameSound
<1>2. CASE r.connected
  <2>1. r.stage \in {"joining", "open"} /\ r \in Sock
    BY <1>2 DEF Known, StageOK
  <2> QED BY <1>2, <2>1, DisconnectedFields DEF Known, Sound, StageOK, Sealed
<1> QED BY <1>1, <1>2

\* An invalidation.
LEMMA InvalidatedSound ==
  ASSUME NEW r, Known(r)
  PROVE  /\ Sound(r, Invalidated(r)) /\ Invalidated(r).chat = r.chat
         /\ ~Invalidated(r).connected
         /\ Invalidated(r).record \notin {"pending", "active"}
         /\ Invalidated(r).stage # "found"
         /\ r.connected => ~Invalidated(r).room
<1>0. r \in Sock
  BY DEF Known
<1>1. CASE r.record = "absent"
  <2>1. Invalidated(r) = r
    BY <1>1 DEF Invalidated
  <2>2. r.stage # "found" /\ ~r.connected
    BY <1>0, <1>1 DEF Known, StageOK, Sock
  <2> QED BY <1>1, <2>1, <2>2, SameSound
<1>2. CASE r.record # "absent" /\ r.stage \in Unsettled
  <2>1. Invalidated(r) = Refused(r)
    BY <1>2 DEF Invalidated
  <2>2. ~r.connected
    BY <1>2 DEF Known, StageOK, Unsettled
  <2> QED BY <1>0, <1>2, <2>1, <2>2, RefusedSound, RefusedFields
<1>3. CASE r.record # "absent" /\ r.stage \notin Unsettled
  <2> DEFINE x == [r EXCEPT !.record = "invalidated", !.alarm = 0]
  <2>1. Invalidated(r) = Disconnected(x)
    BY <1>3 DEF Invalidated
  <2>2. /\ x \in Sock /\ x.record = "invalidated" /\ x.stage = r.stage
        /\ x.home = r.home /\ x.user = r.user /\ x.connected = r.connected
        /\ x.present = r.present /\ x.room = r.room /\ x.chat = r.chat
    BY <1>0 DEF Sock
  <2> HIDE DEF x
  <2>3. CASE r.connected
    <3>1. r.stage \in {"joining", "open"}
      BY <2>3 DEF Known, StageOK
    <3> QED BY <2>1, <2>2, <2>3, <3>1, DisconnectedFields DEF Sound, StageOK, Sealed
  <2>4. CASE ~r.connected
    <3>1. Disconnected(x) = x
      BY <2>2, <2>4 DEF Disconnected
    <3>2. r.stage = "admitted"
      BY <1>0, <1>3, <2>4 DEF Known, StageOK, Sock, Unsettled
    <3> QED BY <2>1, <2>2, <2>4, <3>1, <3>2 DEF Known, Sound, StageOK, Sealed
  <2> QED BY <2>3, <2>4
<1> QED BY <1>1, <1>2, <1>3

-----------------------------------------------------------------------------
(* What a step that ends or changes sockets does to presence *)

\* Sockets of a user that are open at an instance.
OpenAt(i, u) == {s \in Socks : /\ socks[s].stage = "open" /\ socks[s].connected
                               /\ socks[s].home = i /\ socks[s].user = u}

\* No number is lost in a difference of finite sets.
LEMMA LessThose ==
  ASSUME NEW S, IsFiniteSet(S), NEW T \in SUBSET S
  PROVE  /\ Cardinality(S) - Cardinality(T) = Cardinality(S \ T)
         /\ Cardinality(S \ T) \in Nat
<1>1. /\ Cardinality(S \ T) = Cardinality(S) - Cardinality(S \cap T)
      /\ IsFiniteSet(S \ T)
  BY FS_Difference
<1>2. S \cap T = T
  OBVIOUS
<1> QED BY <1>1, <1>2, FS_CardinalityType

\* Sockets that change, and are not present unless they were: the count of each
\* user goes down by those that end.
LEMMA BecomeCounts ==
  ASSUME SocketInv, NEW D \in SUBSET Used, NEW new, DOMAIN new = D,
         \A s \in D : Sound(socks[s], new[s]),
         Become(new)
  PROVE  /\ socks' = [s \in Socks |-> IF s \in D THEN new[s] ELSE socks[s]]
         /\ socks' \in [Socks -> Sock]
         /\ \A s \in Socks : StageOK(socks'[s])
         /\ Used' = Used
         /\ online' \in [Instances -> [Users -> Nat]]
         /\ PresenceAgrees'
<1> DEFINE left(i, u) == {s \in D : /\ socks[s].present /\ ~new[s].present
                                    /\ socks[s].home = i /\ socks[s].user = u}
<1>0. /\ socks \in [Socks -> Sock] /\ IsFiniteSet(Used)
      /\ \A s \in Socks : StageOK(socks[s])
  BY DEF SocketInv, TypeOK
<1>1. socks' = [s \in Socks |-> IF s \in D THEN new[s] ELSE socks[s]]
  BY DEF Become
<1>2. D \subseteq Socks /\ \A s \in D : socks[s].stage # "none"
  BY DEF Used
<1>3. socks' \in [Socks -> Sock] /\ \A s \in Socks : StageOK(socks'[s])
  BY <1>0, <1>1, <1>2 DEF Sound
<1>4. Used' = Used
  BY <1>1, <1>2 DEF Used, Sound
<1>5. ASSUME NEW i \in Instances, NEW u \in Users
      PROVE  online'[i][u] = Cardinality(OpenAt(i, u)') /\ online'[i][u] \in Nat
  <2>1. /\ OpenAt(i, u) \subseteq Used /\ IsFiniteSet(OpenAt(i, u))
    <3>1. OpenAt(i, u) \subseteq Used
      BY DEF OpenAt, Used
    <3> QED BY <1>0, <3>1, FS_Subset
  <2>2. left(i, u) \subseteq OpenAt(i, u)
    BY <1>0, <1>2 DEF OpenAt, StageOK
  <2>3. OpenAt(i, u)' = OpenAt(i, u) \ left(i, u)
    <3>1. \A s \in Socks \ D : socks'[s] = socks[s]
      BY <1>1
    <3>2. ASSUME NEW s \in D
          PROVE  s \in OpenAt(i, u)' <=> s \in OpenAt(i, u) \ left(i, u)
      <4>1. /\ socks'[s] = new[s] /\ Sound(socks[s], new[s])
            /\ StageOK(socks[s]) /\ StageOK(new[s])
        BY <1>0, <1>1, <1>2, <3>2 DEF Sound
      <4>2. /\ s \in OpenAt(i, u) <=> socks[s].present /\ socks[s].home = i
                                      /\ socks[s].user = u
            /\ s \in OpenAt(i, u)' <=> new[s].present /\ new[s].home = i
                                       /\ new[s].user = u
        BY <1>2, <4>1 DEF OpenAt, StageOK
      <4>3. /\ new[s].home = socks[s].home /\ new[s].user = socks[s].user
            /\ new[s].present => socks[s].present
        BY <4>1 DEF Sound
      <4> QED BY <4>2, <4>3
    <3>3. \A s \in Socks \ D : s \in OpenAt(i, u)' <=> s \in OpenAt(i, u) \ left(i, u)
      BY <3>1 DEF OpenAt
    <3> QED BY <3>2, <3>3 DEF OpenAt
  <2>4. online[i][u] = Cardinality(OpenAt(i, u))
    BY DEF SocketInv, PresenceAgrees, OpenAt
  <2>5. online'[i][u] = Max({0, online[i][u] - Cardinality(left(i, u))})
    BY DEF Become
  <2> HIDE DEF left
  <2>6. /\ online[i][u] - Cardinality(left(i, u)) = Cardinality(OpenAt(i, u)')
        /\ Cardinality(OpenAt(i, u)') \in Nat
    BY <2>1, <2>2, <2>3, <2>4, LessThose
  <2> QED BY <2>5, <2>6, MaxWithZero
<1>6. PresenceAgrees'
  BY <1>5 DEF PresenceAgrees, OpenAt
<1>7. online' \in [Instances -> [Users -> Nat]]
  <2>1. online' = [i \in Instances |-> [u \in Users |-> online'[i][u]]]
    BY DEF Become
  <2> QED BY <1>5, <2>1
<1> QED BY <1>1, <1>3, <1>4, <1>6, <1>7

\* One socket in use changes.
LEMMA SetSound ==
  ASSUME SocketInv, NEW s \in Socks, socks[s].stage # "none", NEW x,
         Sound(socks[s], x), Set(s, x), UNCHANGED <<now, locked, telling, told>>
  PROVE  SocketInv'
<1> DEFINE new == [y \in {s} |-> x]
<1>1. DOMAIN new = {s} /\ new[s] = x /\ Become(new) /\ {s} \subseteq Used
  BY DEF Set, Used
<1>2. \A y \in {s} : Sound(socks[y], new[y])
  BY <1>1
<1> HIDE DEF new
<1>3. /\ socks' = [y \in Socks |-> IF y \in {s} THEN new[y] ELSE socks[y]]
      /\ socks' \in [Socks -> Sock]
      /\ \A y \in Socks : StageOK(socks'[y])
      /\ Used' = Used
      /\ online' \in [Instances -> [Users -> Nat]]
      /\ PresenceAgrees'
  BY <1>1, <1>2, BecomeCounts
<1>4. TypeOK'
  BY <1>3 DEF SocketInv, TypeOK
<1>5. NoGhostInRoom'
  BY <1>3 DEF NoGhostInRoom, StageOK
<1>6. ASSUME NEW y \in Socks, <<socks'[y].home, socks'[y].user>> \in told'
      PROVE  /\ socks'[y].stage # "found" /\ socks'[y].record # "active"
             /\ ~(socks'[y].stage = "admitted" /\ socks'[y].record = "pending")
  <2>1. Sealed(socks[y]) /\ told' = told
    BY DEF SocketInv
  <2>2. CASE y = s
    BY <1>1, <1>3, <1>6, <2>1, <2>2 DEF Sound, Sealed
  <2>3. CASE y # s
    BY <1>3, <1>6, <2>1, <2>3 DEF Sealed
  <2> QED BY <2>2, <2>3
<1>7. (\A y \in Socks : StageOK(socks[y]))'
  BY <1>3 DEF StageOK
<1>8. (\A y \in Socks : Sealed(socks[y]))'
  BY <1>6 DEF Sealed
<1>9. (\A t \in told : t[2] \in locked)'
  BY DEF SocketInv
<1> QED BY <1>3, <1>4, <1>5, <1>7, <1>8, <1>9 DEF SocketInv

-----------------------------------------------------------------------------
(* Steps of one socket *)

\* A socket whose stage is not that of a handshake, or whose handshake goes on.
LEMMA HandshakeKeeps ==
  ASSUME SocketInv, NEW s \in Socks, Handshake(s), ~Joined(s)
  PROVE  SocketInv'
<1> DEFINE r == socks[s]
<1>0. r \in Sock /\ StageOK(r) /\ Sealed(r) /\ now \in Nat
  BY DEF SocketInv, TypeOK
<1>k. r.stage # "none" => Known(r)
  BY <1>0 DEF Known
<1>t. <<r.home, r.user>> \in told => r.user \in locked
  BY <1>0 DEF SocketInv
<1> HIDE DEF r
<1>1. CASE Verify(s)
  <2>1. r.stage = "verifying" /\ Known(r)
    BY <1>1, <1>k DEF Verify, r
  <2> DEFINE x == [r EXCEPT !.stage = "lookup", !.record = "pending",
                            !.alarm = now + HandshakeTtl]
  <2>2. Sound(r, x)
    <3>1. now + HandshakeTtl \in Nat
      BY <1>0, SocketLimits
    <3>2. /\ x \in Sock /\ x.stage = "lookup" /\ x.record = "pending"
          /\ x.home = r.home /\ x.user = r.user /\ x.connected = r.connected
          /\ x.present = r.present /\ x.room = r.room /\ x.chat = r.chat
      BY <1>0, <3>1 DEF Sock
    <3> HIDE DEF x
    <3> QED BY <2>1, <3>2 DEF Known, Sound, StageOK, Sealed
  <2>3. Set(s, IF r.expires > now THEN x ELSE Refused(r))
    BY <1>1 DEF Verify, r
  <2>4. UNCHANGED <<now, locked, telling, told>>
    BY <1>1 DEF Verify
  <2> HIDE DEF x
  <2> QED BY <2>1, <2>2, <2>3, <2>4, RefusedSound, SetSound DEF r
<1>2. CASE ReadPrincipal(s)
  <2>1. r.stage = "lookup" /\ Known(r)
    BY <1>2, <1>k DEF ReadPrincipal, r
  <2> DEFINE x == [r EXCEPT !.stage = IF r.user \in locked THEN "barred" ELSE "found"]
  <2>2. Sound(r, x)
    <3>1. /\ x \in Sock /\ x.stage = IF r.user \in locked THEN "barred" ELSE "found"
          /\ x.record = r.record /\ x.home = r.home /\ x.user = r.user
          /\ x.connected = r.connected
          /\ x.present = r.present /\ x.room = r.room /\ x.chat = r.chat
      BY <1>0 DEF Sock
    <3> HIDE DEF x
    <3> QED BY <1>t, <2>1, <3>1 DEF Known, Sound, StageOK, Sealed
  <2>3. Set(s, x) /\ UNCHANGED <<now, locked, telling, told>>
    BY <1>2 DEF ReadPrincipal, r
  <2> HIDE DEF x
  <2> QED BY <2>1, <2>2, <2>3, SetSound DEF r
<1>3. CASE LookupFails(s)
  <2>1. Known(r) /\ r.stage # "none" /\ Set(s, Refused(r))
        /\ UNCHANGED <<now, locked, telling, told>>
    BY <1>3, <1>k DEF LookupFails, r
  <2> QED BY <2>1, RefusedSound, SetSound DEF r
<1>4. CASE Admit(s)
  <2>1. r.stage \in {"barred", "found"} /\ Known(r)
    BY <1>4, <1>k DEF Admit, r
  <2> DEFINE x == [r EXCEPT !.stage = "admitted"]
  <2>2. ASSUME r.stage = "found" PROVE Sound(r, x)
    <3>1. /\ x \in Sock /\ x.stage = "admitted"
          /\ x.record = r.record /\ x.home = r.home /\ x.user = r.user
          /\ x.connected = r.connected
          /\ x.present = r.present /\ x.room = r.room /\ x.chat = r.chat
      BY <1>0 DEF Sock
    <3> HIDE DEF x
    <3> QED BY <2>1, <2>2, <3>1 DEF Known, Sound, StageOK, Sealed
  <2>3. /\ (Set(s, x) /\ r.stage = "found") \/ Set(s, Refused(r))
        /\ UNCHANGED <<now, locked, telling, told>>
    BY <1>4 DEF Admit, r
  <2> HIDE DEF x
  <2> QED BY <2>1, <2>2, <2>3, RefusedSound, SetSound DEF r
<1>5. CASE HandleConnection(s)
  <2>1. r.stage = "admitted" /\ Known(r)
    BY <1>5, <1>k DEF HandleConnection, r
  <2> DEFINE x == [r EXCEPT !.stage = "joining", !.connected = TRUE,
                            !.record = "active", !.alarm = Alarm(r)]
             y == [Removed(r) EXCEPT !.stage = "ended"]
  <2>2. ASSUME r.record = "pending", r.expires > now PROVE Sound(r, x)
    <3>1. Alarm(r) \in Nat
      <4>1. r.expires - now \in Nat /\ MaxDelay \in Nat
        BY <1>0, <2>2, SocketLimits DEF Sock
      <4> QED BY <1>0, <4>1, MinOfTwo DEF Alarm
    <3>2. /\ x \in Sock /\ x.stage = "joining" /\ x.record = "active"
          /\ x.home = r.home /\ x.user = r.user /\ x.connected
          /\ x.present = r.present /\ x.room = r.room /\ x.chat = r.chat
      BY <1>0, <3>1 DEF Sock
    <3> HIDE DEF x
    <3> QED BY <2>1, <2>2, <3>2 DEF Known, Sound, StageOK, Sealed
  <2>3. Sound(r, y)
    <3>1. /\ y \in Sock /\ y.stage = "ended" /\ y.record = "absent"
          /\ y.home = r.home /\ y.user = r.user /\ y.connected = r.connected
          /\ y.present = r.present /\ y.room = r.room /\ y.chat = r.chat
      <4> DEFINE z == Removed(r)
      <4>1. /\ z \in Sock /\ z.record = "absent" /\ z.home = r.home
            /\ z.user = r.user /\ z.connected = r.connected
            /\ z.present = r.present /\ z.room = r.room /\ z.chat = r.chat
        BY <1>0, RemovedFields
      <4> HIDE DEF z
      <4>2. y = [z EXCEPT !.stage = "ended"]
        BY DEF z
      <4> QED BY <4>1, <4>2 DEF Sock
    <3> HIDE DEF y
    <3> QED BY <2>1, <3>1 DEF Known, Sound, StageOK, Sealed
  <2>4. /\ \/ Set(s, x) /\ r.record = "pending" /\ r.expires > now
           \/ Set(s, y)
        /\ UNCHANGED <<now, locked, telling, told>>
    BY <1>5 DEF HandleConnection, r
  <2> HIDE DEF x, y
  <2> QED BY <2>1, <2>2, <2>3, <2>4, SetSound DEF r
<1>6. CASE JoinFails(s)
  <2>1. r.stage = "joining" /\ Known(r)
    BY <1>6, <1>k DEF JoinFails, r
  <2> DEFINE z == Invalidated(r)
             x == [z EXCEPT !.stage = "ended"]
  <2>2. Sound(r, x)
    <3>1. Sound(r, z) /\ ~z.connected /\ z.record \notin {"pending", "active"}
          /\ z.chat = r.chat
      BY <2>1, InvalidatedSound
    <3>a. z.record = "absent" /\ ~z.present
      <4>1. z.stage # "open"
        BY <3>1 DEF Sound, StageOK
      <4>2. z.stage = "joining"
        BY <2>1 DEF z, Invalidated, Disconnected, Removed, Known, Unsettled, Sock
      <4> QED BY <3>1, <4>1, <4>2 DEF Sound, StageOK
    <3> HIDE DEF z
    <3>2. /\ x \in Sock /\ x.stage = "ended" /\ x.record = z.record
          /\ x.home = z.home /\ x.user = z.user /\ x.connected = z.connected
          /\ x.present = z.present /\ x.room = z.room /\ x.chat = z.chat
      BY <3>1 DEF Sound, Sock
    <3> HIDE DEF x
    <3> QED BY <3>1, <3>a, <3>2 DEF Sound, StageOK, Sealed
  <2>3. Set(s, x) /\ UNCHANGED <<now, locked, telling, told>>
    BY <1>6 DEF JoinFails, r
  <2> HIDE DEF x
  <2> QED BY <2>1, <2>2, <2>3, SetSound DEF r
<1> QED BY <1>1, <1>2, <1>3, <1>4, <1>5, <1>6 DEF Handshake

\* A socket that has joined counts as present, unless it ended meanwhile.
LEMMA JoinedKeeps ==
  ASSUME SocketInv, NEW s \in Socks, Joined(s)
  PROVE  SocketInv'
<1> DEFINE r == socks[s]
<1>0. /\ r \in Sock /\ StageOK(r) /\ Sealed(r)
      /\ socks \in [Socks -> Sock] /\ online \in [Instances -> [Users -> Nat]]
      /\ \A y \in Socks : StageOK(socks[y]) /\ Sealed(socks[y])
  BY DEF SocketInv, TypeOK
<1>1. r.stage = "joining" /\ Known(r) /\ UNCHANGED <<now, locked, telling, told>>
  BY <1>0 DEF Joined, Known
<1>2. CASE ~Eligible(r)
  <2> DEFINE z == Disconnected(r)
             x == [z EXCEPT !.stage = "ended"]
  <2>1. Sound(r, x)
    <3>1. Sound(r, z) /\ ~z.connected /\ z.record # "active" /\ z.chat = r.chat
      BY <1>1, DisconnectedSound
    <3>2. z.stage = "joining"
      BY <1>0, <1>1, DisconnectedFields DEF Disconnected
    <3>3. z.record = "absent" /\ ~z.present
      BY <3>1, <3>2 DEF Sound, StageOK
    <3> HIDE DEF z
    <3>4. /\ x \in Sock /\ x.stage = "ended" /\ x.record = z.record
          /\ x.home = z.home /\ x.user = z.user /\ x.connected = z.connected
          /\ x.present = z.present /\ x.room = z.room /\ x.chat = z.chat
      BY <3>1 DEF Sound, Sock
    <3> HIDE DEF x
    <3> QED BY <3>1, <3>3, <3>4 DEF Sound, StageOK, Sealed
  <2>2. Set(s, x)
    BY <1>2 DEF Joined
  <2> HIDE DEF x, r
  <2> QED BY <1>1, <2>1, <2>2, SetSound DEF r
<1>3. CASE Eligible(r)
  <2> DEFINE x == [r EXCEPT !.stage = "open", !.present = TRUE]
             i0 == r.home
             u0 == r.user
  <2>1. socks' = [socks EXCEPT ![s] = x]
        /\ online' = [online EXCEPT ![i0] = [online[i0] EXCEPT ![u0] = @ + 1]]
    BY <1>0, <1>3 DEF Joined
  <2>2. /\ x \in Sock /\ x.stage = "open" /\ x.present /\ x.connected
        /\ x.record = "active" /\ x.home = i0 /\ x.user = u0 /\ x.chat = r.chat
        /\ x.room = r.room
    BY <1>0, <1>3 DEF Eligible, Sock
  <2>3. i0 \in Instances /\ u0 \in Users /\ <<i0, u0>> \notin told
    BY <1>0, <1>3 DEF Eligible, Sealed, Sock
  <2> HIDE DEF x, r, i0, u0
  <2>4. socks' \in [Socks -> Sock] /\ socks'[s] = x
        /\ \A y \in Socks \ {s} : socks'[y] = socks[y]
    BY <1>0, <2>1, <2>2
  <2>5. /\ online' \in [Instances -> [Users -> Nat]]
        /\ online'[i0][u0] = online[i0][u0] + 1
        /\ \A i \in Instances, u \in Users :
             i # i0 \/ u # u0 => online'[i][u] = online[i][u]
    BY <1>0, <2>1, <2>3
  <2>6. TypeOK'
    BY <1>1, <2>4, <2>5 DEF SocketInv, TypeOK
  <2>7. \A y \in Socks : StageOK(socks'[y])
    BY <1>0, <2>2, <2>4 DEF StageOK
  <2>8. Used' = Used /\ IsFiniteSet(Used)
    BY <1>1, <2>2, <2>4 DEF SocketInv, Used, r
  <2>9. PresenceAgrees'
    <3>1. ASSUME NEW i \in Instances, NEW u \in Users
          PROVE  online'[i][u] = Cardinality(OpenAt(i, u)')
      <4>1. IsFiniteSet(OpenAt(i, u)) /\ online[i][u] = Cardinality(OpenAt(i, u))
        <5>1. OpenAt(i, u) \subseteq Used
          BY DEF OpenAt, Used
        <5> QED BY <2>8, <5>1, FS_Subset DEF SocketInv, PresenceAgrees, OpenAt
      <4>2. CASE i = i0 /\ u = u0
        <5>1. OpenAt(i, u)' = OpenAt(i, u) \cup {s}
          BY <2>2, <2>4, <4>2 DEF OpenAt
        <5>2. s \notin OpenAt(i, u)
          BY <1>1 DEF OpenAt, r
        <5>3. Cardinality(OpenAt(i, u)') = Cardinality(OpenAt(i, u)) + 1
          BY <4>1, <5>1, <5>2, FS_AddElement
        <5> QED BY <2>5, <4>1, <4>2, <5>3
      <4>3. CASE i # i0 \/ u # u0
        <5>1. s \notin OpenAt(i, u)
          BY <1>1 DEF OpenAt, r
        <5>2. OpenAt(i, u)' = OpenAt(i, u)
          BY <2>2, <2>4, <4>3, <5>1 DEF OpenAt
        <5> QED BY <2>5, <4>1, <4>3, <5>2
      <4> QED BY <4>2, <4>3
    <3> QED BY <3>1 DEF PresenceAgrees, OpenAt
  <2>10. NoGhostInRoom'
    BY <2>7 DEF NoGhostInRoom, StageOK
  <2>11. (\A y \in Socks : StageOK(socks[y]))'
    BY <2>7 DEF StageOK
  <2>12. (\A y \in Socks : Sealed(socks[y]))'
    <3>1. ASSUME NEW y \in Socks, <<socks'[y].home, socks'[y].user>> \in told'
          PROVE  /\ socks'[y].stage # "found" /\ socks'[y].record # "active"
                 /\ ~(socks'[y].stage = "admitted" /\ socks'[y].record = "pending")
      BY <1>0, <1>1, <2>2, <2>3, <2>4, <3>1 DEF Sealed
    <3> QED BY <3>1 DEF Sealed
  <2>13. (\A t \in told : t[2] \in locked)'
    BY <1>1 DEF SocketInv
  <2> QED BY <2>6, <2>8, <2>9, <2>10, <2>11, <2>12, <2>13 DEF SocketInv
<1> QED BY <1>2, <1>3

\* Timers and closed transports.
LEMMA TimersKeep ==
  ASSUME SocketInv, NEW s \in Socks, Timers(s) \/ Close(s)
  PROVE  SocketInv'
<1> DEFINE r == socks[s]
<1>0. r \in Sock /\ StageOK(r) /\ Sealed(r) /\ now \in Nat
  BY DEF SocketInv, TypeOK
<1>k. r.stage # "none" => Known(r)
  BY <1>0 DEF Known
<1>u. UNCHANGED <<now, locked, telling, told>>
  BY DEF Timers, Close, PendingTimeout, ExpiryTimer
<1>n. r.stage # "none"
  BY <1>0 DEF Timers, Close, PendingTimeout, ExpiryTimer, StageOK, Unsettled
<1> HIDE DEF r
<1>1. CASE PendingTimeout(s)
  <2> DEFINE z == Refused(r)
             x == Removed(z)
  <2>1. Sound(r, x)
    <3>0. r.record = "pending" /\ r.stage \in {"lookup", "barred", "found", "admitted"}
      BY <1>0, <1>1, <1>n DEF PendingTimeout, StageOK, Sock, r
    <3>1. Sound(r, z) /\ z.chat = r.chat /\ z.connected = r.connected
      BY <1>k, <1>n, RefusedSound
    <3>2. z.stage \in {"refused", "admitted"}
      BY <1>0, <1>k, <1>n, <3>0, RefusedSound, RefusedFields DEF Unsettled
    <3> HIDE DEF z
    <3>3. /\ x \in Sock /\ x.stage = z.stage
          /\ x.record = "absent" /\ x.home = z.home /\ x.user = z.user
          /\ x.connected = z.connected /\ x.present = z.present
          /\ x.room = z.room /\ x.chat = z.chat
      BY <3>1, RemovedFields DEF Sound
    <3> HIDE DEF x
    <3> QED BY <3>1, <3>2, <3>3 DEF Sound, StageOK, Sealed
  <2>2. Set(s, x)
    BY <1>1 DEF PendingTimeout, r
  <2> HIDE DEF x
  <2> QED BY <1>n, <1>u, <2>1, <2>2, SetSound DEF r
<1>2. CASE ExpiryTimer(s)
  <2> DEFINE x == [r EXCEPT !.alarm = Alarm(r)]
  <2>1. ASSUME ~(r.expires <= now) PROVE Sound(r, x)
    <3>1. Alarm(r) \in Nat
      <4>1. r.expires - now \in Nat /\ MaxDelay \in Nat
        BY <1>0, <2>1, SocketLimits DEF Sock
      <4> QED BY <1>0, <4>1, MinOfTwo DEF Alarm
    <3>2. /\ x \in Sock /\ x.stage = r.stage /\ x.record = r.record
          /\ x.home = r.home /\ x.user = r.user /\ x.connected = r.connected
          /\ x.present = r.present /\ x.room = r.room /\ x.chat = r.chat
      BY <1>0, <3>1 DEF Sock
    <3> HIDE DEF x
    <3> QED BY <1>0, <1>n, <3>2 DEF Sound, StageOK, Sealed
  <2>2. Set(s, IF r.expires <= now THEN Invalidated(r) ELSE x)
    BY <1>2 DEF ExpiryTimer, r
  <2> HIDE DEF x
  <2> QED BY <1>k, <1>n, <1>u, <2>1, <2>2, InvalidatedSound, SetSound DEF r
<1>3. CASE Close(s)
  <2> DEFINE z == Removed(r)
             x == [z EXCEPT !.stage = "ended"]
  <2>1. ASSUME r.stage = "admitted" PROVE Sound(r, x)
    <3>1. /\ z \in Sock /\ z.record = "absent" /\ z.home = r.home
          /\ z.user = r.user /\ z.connected = r.connected
          /\ z.present = r.present /\ z.room = r.room /\ z.chat = r.chat
      BY <1>0, RemovedFields
    <3> HIDE DEF z
    <3>2. /\ x \in Sock /\ x.stage = "ended" /\ x.record = z.record
          /\ x.home = z.home /\ x.user = z.user /\ x.connected = z.connected
          /\ x.present = z.present /\ x.room = z.room /\ x.chat = z.chat
      BY <3>1 DEF Sock
    <3> HIDE DEF x
    <3> QED BY <1>0, <2>1, <3>1, <3>2 DEF Sound, StageOK, Sealed
  <2>2. Set(s, IF r.stage = "admitted" THEN x
               ELSE IF r.connected THEN Disconnected(r) ELSE Refused(r))
    BY <1>3 DEF Close, r
  <2> HIDE DEF x
  <2> QED BY <1>k, <1>n, <1>u, <2>1, <2>2, RefusedSound, DisconnectedSound, SetSound DEF r
<1> QED BY <1>1, <1>2, <1>3 DEF Timers

\* A socket that asks for something, or whose room changes, is dropped if its
\* account is barred and goes on as it was otherwise.
LEMMA ChatKeeps ==
  ASSUME SocketInv, NEW s \in Socks, ChatStep(s)
  PROVE  SocketInv'
<1> DEFINE r == socks[s]
<1>0. r \in Sock /\ StageOK(r) /\ Sealed(r) /\ now \in Nat
  BY DEF SocketInv, TypeOK
<1>u. UNCHANGED <<now, locked, telling, told>>
  BY DEF ChatStep, Ask, ReadAgain, Rebuff, Authorize, JoinRoom, Stay, Leave
<1> HIDE DEF r
<1>w. ASSUME NEW chat \in {"idle", "asked", "barred", "known", "allowed", "joined"},
             NEW room \in BOOLEAN, room /\ chat # "joined" => r.connected,
             r.stage # "none"
      PROVE  Sound(r, [r EXCEPT !.chat = chat, !.room = room])
  <2> DEFINE x == [r EXCEPT !.chat = chat, !.room = room]
  <2>1. /\ x \in Sock /\ x.stage = r.stage /\ x.record = r.record
        /\ x.home = r.home /\ x.user = r.user /\ x.connected = r.connected
        /\ x.present = r.present /\ x.room = room /\ x.chat = chat
    BY <1>0 DEF Sock
  <2> HIDE DEF x
  <2>2. Sound(r, x)
    BY <1>0, <1>w, <2>1 DEF Sound, StageOK, Sealed
  <2> QED BY <2>2 DEF x
<1>c. ASSUME NEW chat \in {"idle", "asked", "barred", "known", "allowed"},
             r.stage # "none", r.chat # "joined", Set(s, [r EXCEPT !.chat = chat])
      PROVE  SocketInv'
  <2>1. [r EXCEPT !.chat = chat] = [r EXCEPT !.chat = chat, !.room = r.room]
        /\ r.room \in BOOLEAN
    BY <1>0 DEF Sock
  <2>2. r.room => r.connected
    BY <1>0, <1>c DEF StageOK
  <2>3. Sound(r, [r EXCEPT !.chat = chat])
    BY <1>c, <1>w, <2>1, <2>2
  <2> QED BY <1>c, <1>u, <2>3, SetSound DEF r
<1>n. r.stage # "none"
  <2>1. Eligible(r) \/ r.chat # "idle"
    BY DEF ChatStep, Ask, ReadAgain, Rebuff, Authorize, JoinRoom, Stay, Leave, Chat, r
  <2> QED BY <1>0, <2>1 DEF Eligible, StageOK
<1>1. CASE Ask(s) \/ ReadAgain(s) \/ Authorize(s)
  <2>1. PICK chat \in {"idle", "asked", "barred", "known", "allowed"} :
          r.chat # "joined" /\ Set(s, [r EXCEPT !.chat = chat])
    BY <1>1 DEF Ask, ReadAgain, Authorize, Chat, r
  <2> QED BY <1>c, <1>n, <2>1
<1>2. CASE Rebuff(s)
  <2> DEFINE z == Invalidated(r)
             x == [z EXCEPT !.chat = "idle"]
  <2>1. r.chat = "barred" /\ Set(s, x)
    BY <1>2 DEF Rebuff, r
  <2>2. Sound(r, z) /\ z.chat = r.chat /\ ~z.connected
    BY <1>0, <1>n, InvalidatedSound DEF Known
  <2> HIDE DEF z
  <2>3. ~z.room
    BY <2>1, <2>2 DEF Sound, StageOK
  <2>4. /\ x \in Sock /\ x.stage = z.stage /\ x.record = z.record
        /\ x.home = z.home /\ x.user = z.user /\ x.connected = z.connected
        /\ x.present = z.present /\ x.room = z.room /\ x.chat = "idle"
    BY <2>2 DEF Sound, Sock
  <2> HIDE DEF x
  <2>5. Sound(r, x)
    BY <2>2, <2>3, <2>4 DEF Sound, StageOK, Sealed
  <2> QED BY <1>n, <1>u, <2>1, <2>5, SetSound DEF r
<1>3. CASE JoinRoom(s)
  <2>1. Set(s, [r EXCEPT !.chat = "joined", !.room = TRUE])
    BY <1>3 DEF JoinRoom, r
  <2>2. Sound(r, [r EXCEPT !.chat = "joined", !.room = TRUE])
    BY <1>n, <1>w
  <2> QED BY <1>n, <1>u, <2>1, <2>2, SetSound DEF r
<1>4. CASE Stay(s)
  <2> DEFINE room == Eligible(r)
  <2>1. Set(s, [r EXCEPT !.chat = "idle", !.room = room])
    BY <1>4 DEF Stay, r
  <2>2. room \in BOOLEAN /\ (room => r.connected)
    BY <1>0 DEF Eligible, Sock
  <2> HIDE DEF room
  <2>3. Sound(r, [r EXCEPT !.chat = "idle", !.room = room])
    BY <1>n, <1>w, <2>2
  <2> QED BY <1>n, <1>u, <2>1, <2>3, SetSound DEF r
<1>5. CASE Leave(s)
  <2>1. Set(s, [r EXCEPT !.room = FALSE])
    BY <1>5 DEF Leave, r
  <2>2. [r EXCEPT !.room = FALSE] = [r EXCEPT !.chat = r.chat, !.room = FALSE]
        /\ r.chat \in {"idle", "asked", "barred", "known", "allowed", "joined"}
    BY <1>0 DEF Sock
  <2>3. Sound(r, [r EXCEPT !.room = FALSE])
    BY <1>n, <1>w, <2>2
  <2> QED BY <1>n, <1>u, <2>1, <2>3, SetSound DEF r
<1> QED BY <1>1, <1>2, <1>3, <1>4, <1>5 DEF ChatStep

\* A client connects with a socket not used before.
LEMMA ConnectKeeps ==
  ASSUME SocketInv, NEW s \in Socks, NEW i \in Instances, NEW u \in Users,
         NEW expires \in 1 .. LastExpiry, Connect(s, i, u, expires)
  PROVE  SocketInv'
<1> DEFINE x == [NoSock EXCEPT !.stage = "verifying", !.home = i, !.user = u,
                               !.expires = expires]
           new == [y \in {s} |-> x]
<1>0. /\ socks \in [Socks -> Sock] /\ online \in [Instances -> [Users -> Nat]]
      /\ \A y \in Socks : StageOK(socks[y]) /\ Sealed(socks[y])
  BY DEF SocketInv, TypeOK
<1>1. socks[s].stage = "none" /\ Become(new) /\ UNCHANGED <<now, locked, telling, told>>
  BY DEF Connect, Set
<1>2. /\ x \in Sock /\ x.stage = "verifying" /\ x.record = "absent" /\ ~x.connected
      /\ ~x.present /\ ~x.room /\ x.chat = "idle" /\ x.home = i /\ x.user = u
  <2>1. /\ (CHOOSE j \in Instances : TRUE) \in Instances
        /\ (CHOOSE v \in Users : TRUE) \in Users
    BY SocketAssumption
  <2>2. expires \in Nat
    BY SocketLimits
  <2> QED BY <2>1, <2>2 DEF NoSock, Sock
<1>3. DOMAIN new = {s} /\ new[s] = x
  OBVIOUS
<1> HIDE DEF x, new
<1>4. /\ socks' = [y \in Socks |-> IF y = s THEN x ELSE socks[y]]
      /\ socks' \in [Socks -> Sock]
  <2>1. socks' = [y \in Socks |-> IF y \in {s} THEN new[y] ELSE socks[y]]
    BY <1>1, <1>3 DEF Become
  <2> QED BY <1>0, <1>2, <1>3, <2>1
<1>5. \A y \in Socks : StageOK(socks'[y])
  <2>1. StageOK(x)
    BY <1>2 DEF StageOK
  <2> QED BY <1>0, <1>4, <2>1
<1>6. ASSUME NEW j \in Instances, NEW v \in Users
      PROVE  online'[j][v] = online[j][v] /\ OpenAt(j, v)' = OpenAt(j, v)
  <2> DEFINE left == {y \in {s} : /\ socks[y].present /\ ~new[y].present
                                  /\ socks[y].home = j /\ socks[y].user = v}
  <2>1. online'[j][v] = Max({0, online[j][v] - Cardinality(left)})
    BY <1>1, <1>3 DEF Become
  <2>2. left = {}
    <3>1. ~socks[s].present
      BY <1>0, <1>1 DEF StageOK
    <3> QED BY <3>1
  <2>3. online[j][v] - Cardinality(left) = online[j][v] /\ online[j][v] \in Nat
    <3>1. Cardinality(left) = 0 /\ online[j][v] \in Nat
      BY <1>0, <2>2, FS_EmptySet
    <3> QED BY <3>1
  <2>4. OpenAt(j, v)' = OpenAt(j, v)
    <3>1. /\ socks'[s].stage # "open" /\ socks[s].stage # "open"
          /\ \A y \in Socks \ {s} : socks'[y] = socks[y]
      BY <1>1, <1>2, <1>4
    <3> QED BY <3>1 DEF OpenAt
  <2> HIDE DEF left
  <2> QED BY <2>1, <2>3, <2>4, MaxWithZero
<1>7. online' = online
  <2>1. online' = [j \in Instances |-> [v \in Users |-> online'[j][v]]]
    BY <1>1 DEF Become
  <2> QED BY <1>0, <1>6, <2>1
<1>8. TypeOK'
  BY <1>1, <1>4, <1>7 DEF SocketInv, TypeOK
<1>9. PresenceAgrees'
  BY <1>6 DEF SocketInv, PresenceAgrees, OpenAt
<1>10. NoGhostInRoom' /\ (\A y \in Socks : StageOK(socks[y]))'
  BY <1>5 DEF NoGhostInRoom, StageOK
<1>11. (\A y \in Socks : Sealed(socks[y]))'
  <2>1. ASSUME NEW y \in Socks, <<socks'[y].home, socks'[y].user>> \in told'
        PROVE  /\ socks'[y].stage # "found" /\ socks'[y].record # "active"
               /\ ~(socks'[y].stage = "admitted" /\ socks'[y].record = "pending")
    BY <1>0, <1>1, <1>2, <1>4, <2>1 DEF Sealed
  <2> QED BY <2>1 DEF Sealed
<1>12. IsFiniteSet(Used')
  <2>1. Used' = Used \cup {s}
    BY <1>1, <1>2, <1>4 DEF Used
  <2> QED BY <2>1, FS_AddElement DEF SocketInv
<1>13. (\A t \in told : t[2] \in locked)'
  BY <1>1 DEF SocketInv
<1> QED BY <1>8, <1>9, <1>10, <1>11, <1>12, <1>13 DEF SocketInv

-----------------------------------------------------------------------------
(* Accounts *)

\* An instance that is told of a lock leaves no socket of the account that
\* could get its events, whatever the sockets were doing.
LEMMA InvalidateKeeps ==
  ASSUME SocketInv, NEW i \in Instances, NEW u \in Users, Invalidate(i, u)
  PROVE  SocketInv'
<1> DEFINE mine == {s \in Socks : /\ socks[s].stage # "none"
                                  /\ socks[s].home = i /\ socks[s].user = u}
           new == [s \in mine |-> Invalidated(socks[s])]
<1>0. /\ socks \in [Socks -> Sock]
      /\ \A y \in Socks : StageOK(socks[y]) /\ Sealed(socks[y])
  BY DEF SocketInv, TypeOK
<1>1. /\ mine \in SUBSET Used /\ DOMAIN new = mine /\ Become(new)
      /\ told' = IF u \in locked THEN told \cup {<<i, u>>} ELSE told
      /\ telling' = telling \ {<<i, u>>} /\ UNCHANGED <<now, locked>>
  BY DEF Invalidate, Used
<1>2. \A s \in mine : Known(socks[s]) /\ new[s] = Invalidated(socks[s])
  BY <1>0 DEF Known
<1>3. \A s \in mine : Sound(socks[s], new[s])
  BY <1>2, InvalidatedSound
<1>4. \A s \in Socks \ mine :
        <<socks[s].home, socks[s].user>> = <<i, u>> => socks[s].stage = "none"
  OBVIOUS
<1> HIDE DEF mine, new
<1>5. /\ socks' = [s \in Socks |-> IF s \in mine THEN new[s] ELSE socks[s]]
      /\ socks' \in [Socks -> Sock]
      /\ \A s \in Socks : StageOK(socks'[s])
      /\ Used' = Used
      /\ online' \in [Instances -> [Users -> Nat]]
      /\ PresenceAgrees'
  BY <1>1, <1>3, BecomeCounts
<1>6. TypeOK'
  BY <1>1, <1>5 DEF SocketInv, TypeOK
<1>7. NoGhostInRoom' /\ (\A y \in Socks : StageOK(socks[y]))'
  BY <1>5 DEF NoGhostInRoom, StageOK
<1>8. (\A y \in Socks : Sealed(socks[y]))'
  <2>1. ASSUME NEW y \in Socks, <<socks'[y].home, socks'[y].user>> \in told'
        PROVE  /\ socks'[y].stage # "found" /\ socks'[y].record # "active"
               /\ ~(socks'[y].stage = "admitted" /\ socks'[y].record = "pending")
    <3>1. CASE y \in mine
      <4>1. socks'[y] = Invalidated(socks[y])
        BY <1>2, <1>5, <3>1
      <4> QED BY <1>2, <3>1, <4>1, InvalidatedSound
    <3>2. CASE y \notin mine
      <4>1. socks'[y] = socks[y] /\ StageOK(socks[y]) /\ Sealed(socks[y])
        BY <1>0, <1>5, <3>2
      <4>2. CASE <<socks[y].home, socks[y].user>> \in told
        BY <4>1, <4>2 DEF Sealed
      <4>3. CASE <<socks[y].home, socks[y].user>> = <<i, u>>
        BY <1>4, <3>2, <4>1, <4>3 DEF StageOK
      <4> QED BY <1>1, <2>1, <4>1, <4>2, <4>3
    <3> QED BY <3>1, <3>2
  <2> QED BY <2>1 DEF Sealed
<1>9. (\A t \in told : t[2] \in locked)'
  <2>1. <<i, u>>[2] = u
    OBVIOUS
  <2> QED BY <1>1, <2>1 DEF SocketInv
<1>10. IsFiniteSet(Used')
  BY <1>5 DEF SocketInv
<1> QED BY <1>5, <1>6, <1>7, <1>8, <1>9, <1>10 DEF SocketInv

\* Locks, unlocks and the passing of time change no socket.
LEMMA OthersKeep ==
  ASSUME SocketInv,
         \/ \E i \in Instances, u \in Users : Lock(i, u)
         \/ \E u \in Users : Unlock(u)
         \/ Tick
         \/ UNCHANGED vars
  PROVE  SocketInv'
<1>1. UNCHANGED <<socks, online>>
  BY DEF Lock, Unlock, Tick, vars
<1>2. told' \subseteq told
  BY DEF Lock, Unlock, Tick, vars
<1>3. TypeOK'
  <2>0. TypeOK
    BY DEF SocketInv
  <2>1. now' \in 0 .. MaxClock
    BY <2>0, SocketLimits DEF TypeOK, Lock, Unlock, Tick, vars
  <2>2. locked' \subseteq Users /\ telling' \subseteq Instances \X Users
    BY <2>0 DEF TypeOK, Lock, Unlock, Tick, vars
  <2> QED BY <1>1, <1>2, <2>0, <2>1, <2>2 DEF TypeOK
<1>4. (\A t \in told : t[2] \in locked)'
  BY DEF SocketInv, Lock, Unlock, Tick, vars
<1>5. (\A y \in Socks : StageOK(socks[y]) /\ Sealed(socks[y]))'
  BY <1>1, <1>2 DEF SocketInv, StageOK, Sealed
<1>6. PresenceAgrees' /\ NoGhostInRoom' /\ Used' = Used
  BY <1>1 DEF SocketInv, PresenceAgrees, NoGhostInRoom, Used
<1> QED BY <1>3, <1>4, <1>5, <1>6 DEF SocketInv

-----------------------------------------------------------------------------
(* The theorems *)

\* Nobody is connected at first.
THEOREM SocketInvInit == Init => SocketInv
<1> SUFFICES ASSUME Init PROVE SocketInv
  OBVIOUS
<1>1. NoSock \in Sock
  <2>1. /\ (CHOOSE j \in Instances : TRUE) \in Instances
        /\ (CHOOSE v \in Users : TRUE) \in Users
    BY SocketAssumption
  <2> QED BY <2>1 DEF NoSock, Sock
<1>2. TypeOK
  <2>1. now \in 0 .. MaxClock
    BY SocketLimits DEF Init
  <2>2. socks \in [Socks -> Sock]
    BY <1>1 DEF Init
  <2>3. online \in [Instances -> [Users -> Nat]]
    BY DEF Init
  <2> QED BY <2>1, <2>2, <2>3 DEF Init, TypeOK
<1>3. /\ NoSock.stage = "none" /\ NoSock.record = "absent" /\ ~NoSock.connected
      /\ ~NoSock.present /\ ~NoSock.room /\ NoSock.chat = "idle"
  BY DEF NoSock
<1>4. \A s \in Socks : StageOK(socks[s]) /\ Sealed(socks[s])
  BY <1>3 DEF Init, StageOK, Sealed
<1>5. NoGhostInRoom
  BY <1>3 DEF Init, NoGhostInRoom
<1>6. PresenceAgrees
  <2>1. \A i \in Instances, u \in Users : OpenAt(i, u) = {} /\ online[i][u] = 0
    BY <1>3 DEF Init, OpenAt
  <2> QED BY <2>1, FS_EmptySet DEF PresenceAgrees, OpenAt
<1>7. Used = {}
  BY <1>3 DEF Init, Used
<1> QED BY <1>2, <1>4, <1>5, <1>6, <1>7, FS_EmptySet DEF SocketInv, Init

\* Every step of every callback keeps the invariant.
THEOREM SocketInvNext == SocketInv /\ [Next]_vars => SocketInv'
BY HandshakeKeeps, JoinedKeeps, TimersKeep, ChatKeeps, ConnectKeeps, InvalidateKeeps,
   OthersKeep
   DEF Next

\* Presence counts never drift and no ended socket stays in a room, however
\* many sockets join, end, time out and are invalidated at once.
THEOREM SocketInvariant == Spec => []SocketInv
BY SocketInvInit, SocketInvNext, PTL DEF Spec

\* Once an instance has been told of a lock, no socket of its own, even one that
\* was connecting, gets events for the user until the account is unlocked.
THEOREM LockedUsersGetNoEvents == Spec => []NoneEligibleOnceTold
<1>1. SocketInv => NoneEligibleOnceTold
  BY DEF SocketInv, NoneEligibleOnceTold, Sealed, Eligible
<1> QED BY <1>1, SocketInvariant, PTL

=============================================================================
