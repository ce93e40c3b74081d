--------------------------------- MODULE Chat ---------------------------------
(***************************************************************************)
(* MessagesService, ConversationsService and the message notifications of   *)
(* NotificationsService: conversations between the buyer and the seller of  *)
(* a post.                                                                  *)
(*                                                                         *)
(* A conversation row counts its messages and the versions of its state.    *)
(* Whoever changes a conversation, its messages or its unread notification  *)
(* holds the lock of that row; a send holds two more, one on its client id  *)
(* and a shared one on the post.  After the commit each party concerned is  *)
(* sent a snapshot that carries the version.                                *)
(*                                                                         *)
(* A transaction that takes one row lock, reads and writes under it and     *)
(* commits is one action.  Sending, and reading all notifications, which    *)
(* takes several locks, go lock by lock.  What a message says is left out.  *)
(***************************************************************************)
EXTENDS Naturals, FiniteSets

CONSTANTS
  Conversations,  \* identifiers, by which the locks of several are ordered
  Users,
  Buyer, Seller,  \* the parties of each conversation, which never change
  Senders,        \* concurrent requests to send
  Readers,        \* users who read all their notifications at once
  Keys,           \* clientId values
  NoKey,          \* no clientId: the deprecated alias allows it
  NoNotice,       \* no unread notification
  MaxMessages,    \* bound: messages in a conversation
  MaxVersion      \* bound: versions of a conversation

ASSUME PartyAssumption ==
  /\ Conversations # {} /\ Readers \subseteq Users /\ Senders \cap Users = {}
  /\ Conversations \subseteq Nat
  /\ Buyer \in [Conversations -> Users] /\ Seller \in [Conversations -> Users]
  /\ \A c \in Conversations : Buyer[c] # Seller[c]
ASSUME KeyAssumption == NoKey \notin Keys /\ NoNotice \notin [sequence : Nat, version : Nat]
ASSUME BoundAssumption == MaxMessages \in Nat /\ MaxVersion \in Nat

VARIABLES
  post,          \* the post each conversation is about: a post of its own
  conversation,  \* the conversations table
  messages,      \* the messages table
  unread,        \* the unread new_message notification of each user
  send,          \* what each request to send is doing
  bulk,          \* what the read-all request of each user is doing
  wire           \* observed: the snapshots pushed to the clients

rows == <<conversation, messages, unread, wire>>
vars == <<post, rows, send, bulk>>

Parties(c) == {Buyer[c], Seller[c]}

Other(c, u) == IF u = Buyer[c] THEN Seller[c] ELSE Buyer[c]

Watermarks == [Users -> Nat]

Conversation == [made : BOOLEAN, last : Nat, version : Nat,
                 read : Watermarks, hidden : SUBSET Users]

Message == [conversation : Conversations, sequence : Nat \ {0}, sender : Users,
            key : Keys \cup {NoKey}, isRead : BOOLEAN]

Notice == [sequence : Nat, version : Nat]

Request == [pc : {"idle", "begun", "cleared", "shared", "locked"}, user : Users,
            conversation : Conversations, viaPost : BOOLEAN,
            key : Keys \cup {NoKey}, refused : BOOLEAN, last : Nat, version : Nat]

Idle == [pc |-> "idle", user |-> CHOOSE u \in Users : TRUE,
         conversation |-> CHOOSE c \in Conversations : TRUE, viaPost |-> FALSE,
         key |-> NoKey, refused |-> FALSE, last |-> 0, version |-> 0]

\* todo are the conversations still to be locked, locked those that are.
Bulk == [todo : SUBSET Conversations, locked : SUBSET Conversations]

NoBulk == [todo |-> {}, locked |-> {}]

Init ==
  /\ post = [c \in Conversations |-> "active"]
  /\ conversation = [c \in Conversations |->
       [made |-> FALSE, last |-> 0, version |-> 0,
        read |-> [u \in Users |-> 0], hidden |-> {}]]
  /\ messages = {}
  /\ unread = [u \in Users |-> [c \in Conversations |-> NoNotice]]
  /\ send = [s \in Senders |-> Idle]
  /\ bulk = [u \in Users |-> NoBulk]
  /\ wire = {}

-----------------------------------------------------------------------------
(* Locks.                                                                   *)

HoldsKey(s) == send[s].pc \in {"cleared", "shared", "locked"} /\ send[s].key # NoKey

KeyFree(u, k) ==
  \A s \in Senders : ~(HoldsKey(s) /\ send[s].user = u /\ send[s].key = k)

\* Mutant: the post is checked but not held until the commit.
HoldsPostBriefly(s) == send[s].pc = "shared" /\ send[s].viaPost

HoldsPost(s) == send[s].pc \in {"shared", "locked"} /\ send[s].viaPost

PostFree(c) == \A s \in Senders : ~(HoldsPost(s) /\ send[s].conversation = c)

HoldsRow(s, c) == send[s].pc = "locked" /\ send[s].conversation = c

RowFree(c) ==
  /\ \A s \in Senders : ~HoldsRow(s, c)
  /\ \A u \in Users : c \notin bulk[u].locked

-----------------------------------------------------------------------------
(* Reading the tables.                                                      *)

Sent(u, k) == \E m \in messages : m.sender = u /\ m.key = k

Incoming(c, u) ==
  {m \in messages : m.conversation = c /\ m.sender # u /\ ~m.isRead}

Newest(ms) == CHOOSE m \in ms : \A n \in ms : n.sequence <= m.sequence

\* What the snapshots of the conversation and of its notification tell u.
Snapshot(u, c) ==
  [user |-> u, conversation |-> c, version |-> conversation[c].version,
   last |-> conversation[c].last, read |-> conversation[c].read,
   deleted |-> u \in conversation[c].hidden,
   count |-> IF u \in conversation[c].hidden THEN 0 ELSE Cardinality(Incoming(c, u)),
   notice |-> unread[u][c]]

\* The snapshots are of the committed state, of the conversation meant before.
Push(us, c) == \E d \in {c} : wire' = wire \cup {Snapshot(u, d)' : u \in us}

Save(c, row) == conversation' = [conversation EXCEPT ![c] = row]

Bounded(c) == conversation[c].version < MaxVersion

-----------------------------------------------------------------------------
(* Sending.  The replay that is answered before the preflight reads the same *)
(* row the check under the lock would find, and changes nothing: the request *)
(* goes on without a preflight and ends there.                               *)

Fresh(u, k) == k = NoKey \/ ~Sent(u, k)

\* The preflight of an input that needs no target of its own always passes.
Preflight(c, viaPost) == viaPost => post[c] = "active"

BeginSend(s, u, c, viaPost, k) ==
  /\ send[s].pc = "idle" /\ u \in Parties(c)
  /\ IF viaPost THEN u = Buyer[c] ELSE conversation[c].made
  /\ viaPost => k # NoKey
  /\ send' = [send EXCEPT ![s] =
       [Idle EXCEPT !.pc = IF k = NoKey THEN "cleared" ELSE "begun", !.user = u,
                    !.conversation = c, !.viaPost = viaPost, !.key = k,
                    !.refused = Fresh(u, k) /\ ~Preflight(c, viaPost)]]
  /\ UNCHANGED <<post, rows, bulk>>

EndSend(s) == send' = [send EXCEPT ![s] = Idle]

Replayed(s) == ~Fresh(send[s].user, send[s].key)

\* Mutant: only the look for a replay, without the lock.
LockKeyAtOnce(s) ==
  /\ send[s].pc = "begun"
  /\ IF Replayed(s) \/ send[s].refused
       THEN EndSend(s)
       ELSE send' = [send EXCEPT ![s] = [@ EXCEPT !.pc = "cleared"]]
  /\ UNCHANGED <<post, rows, bulk>>

\* Lock the client id; answer a replay, or throw what the preflight found.
LockKey(s) ==
  /\ send[s].pc = "begun" /\ KeyFree(send[s].user, send[s].key)
  /\ IF Replayed(s) \/ send[s].refused
       THEN EndSend(s)
       ELSE send' = [send EXCEPT ![s] = [@ EXCEPT !.pc = "cleared"]]
  /\ UNCHANGED <<post, rows, bulk>>

\* Share the post, and look at it again.
SharePost(s) ==
  /\ send[s].pc = "cleared" /\ send[s].viaPost
  /\ IF post[send[s].conversation] = "active"
       THEN send' = [send EXCEPT ![s] = [@ EXCEPT !.pc = "shared"]]
       ELSE EndSend(s)
  /\ UNCHANGED <<post, rows, bulk>>

\* Mutant: the row is read without waiting for its lock.
LockRowUnserialised(s) ==
  LET c == send[s].conversation IN
  /\ send[s].pc = IF send[s].viaPost THEN "shared" ELSE "cleared"
  /\ send' = [send EXCEPT ![s] =
       [@ EXCEPT !.pc = "locked", !.last = conversation[c].last,
                 !.version = conversation[c].version]]
  /\ UNCHANGED <<post, rows, bulk>>

\* Find or create the conversation and lock its row.  A row inserted and not
\* yet committed keeps a second insertion waiting, as the lock does.
LockRow(s) ==
  LET c == send[s].conversation IN
  /\ send[s].pc = IF send[s].viaPost THEN "shared" ELSE "cleared"
  /\ RowFree(c)
  /\ send' = [send EXCEPT ![s] =
       [@ EXCEPT !.pc = "locked", !.last = conversation[c].last,
                 !.version = conversation[c].version]]
  /\ UNCHANGED <<post, rows, bulk>>

Collides(m) ==
  \/ \E n \in messages :
       n.conversation = m.conversation /\ n.sequence = m.sequence
  \/ ~Fresh(m.sender, m.key)

Written(s) ==
  [conversation |-> send[s].conversation, sequence |-> send[s].last + 1,
   sender |-> send[s].user, key |-> send[s].key, isRead |-> FALSE]

\* upsertNewMessage: the one unread notification of the recipient moves on.
Notify(u, c, n) == unread' = [unread EXCEPT ![u] = [@ EXCEPT ![c] = n]]

\* Mutant: the conversation stays hidden from its sender.
CommitSendOneSided(s) ==
  LET c == send[s].conversation
      m == Written(s)
      v == send[s].version + 1
  IN
  /\ send[s].pc = "locked"
  /\ m.sequence <= MaxMessages /\ Bounded(c)
  /\ EndSend(s)
  /\ IF Collides(m)
       THEN UNCHANGED rows
       ELSE /\ messages' = messages \cup {m}
            /\ Save(c, [conversation[c] EXCEPT !.made = TRUE, !.last = m.sequence,
                    !.version = v, !.hidden = @ \ {Other(c, m.sender)}])
            /\ Notify(Other(c, m.sender), c, [sequence |-> m.sequence, version |-> v])
            /\ Push(Parties(c), c)
  /\ UNCHANGED <<post, bulk>>

CommitSend(s) ==
  LET c == send[s].conversation
      m == Written(s)
      v == send[s].version + 1
  IN
  /\ send[s].pc = "locked"
  /\ m.sequence <= MaxMessages /\ Bounded(c)
  /\ EndSend(s)
  /\ IF Collides(m)
       THEN UNCHANGED rows
       ELSE /\ messages' = messages \cup {m}
            /\ Save(c, [conversation[c] EXCEPT !.made = TRUE, !.last = m.sequence,
                                               !.version = v, !.hidden = {}])
            /\ Notify(Other(c, m.sender), c, [sequence |-> m.sequence, version |-> v])
            /\ Push(Parties(c), c)
  /\ UNCHANGED <<post, bulk>>

\* The request fails, or the instance dies, in the middle: it is rolled back.
FailSend(s) ==
  /\ send[s].pc # "idle"
  /\ EndSend(s)
  /\ UNCHANGED <<post, rows, bulk>>

-----------------------------------------------------------------------------
(* Opening, reading and deleting a conversation.                             *)

\* Mutant: reopening does not count as a change of state.
OpenConversationQuietly(c) ==
  /\ post[c] = "active" /\ RowFree(c)
  /\ IF Buyer[c] \in conversation[c].hidden
       THEN /\ Bounded(c)
            /\ Save(c, [conversation[c] EXCEPT !.hidden = @ \ {Buyer[c]}])
       ELSE Save(c, [conversation[c] EXCEPT !.made = TRUE])
  /\ UNCHANGED <<post, messages, unread, wire, send, bulk>>

OpenConversation(c) ==
  /\ post[c] = "active" /\ RowFree(c)
  /\ IF Buyer[c] \in conversation[c].hidden
       THEN /\ Bounded(c)
            /\ Save(c, [conversation[c] EXCEPT !.hidden = @ \ {Buyer[c]},
                                               !.version = @ + 1])
       ELSE Save(c, [conversation[c] EXCEPT !.made = TRUE])
  /\ UNCHANGED <<post, messages, unread, wire, send, bulk>>

\* What is left of the notification of u when only rest is still unread.
Reconciled(u, c, rest, v) ==
  CASE unread[u][c] = NoNotice -> NoNotice
    [] unread[u][c] # NoNotice /\ rest = {} -> NoNotice
    [] OTHER -> IF unread[u][c].sequence = Newest(rest).sequence
                  THEN unread[u][c]
                  ELSE [sequence |-> Newest(rest).sequence, version |-> v]

\* Mutant: an older message sets the watermark back.
MarkAsReadBackwards(u, c, target) ==
  LET old == conversation[c].read[u]
      through == target
      marked == {m \in Incoming(c, u) : m.sequence <= through}
      notice == Reconciled(u, c, Incoming(c, u) \ marked, conversation[c].version + 1)
  IN
  /\ u \in Parties(c) /\ target \in 1 .. conversation[c].last
  /\ RowFree(c) /\ Bounded(c)
  /\ marked # {} \/ through # old \/ notice # unread[u][c]
  /\ messages' = (messages \ marked) \cup {[m EXCEPT !.isRead = TRUE] : m \in marked}
  /\ Notify(u, c, notice)
  /\ Save(c, [conversation[c] EXCEPT !.read = [@ EXCEPT ![u] = through],
                                     !.version = @ + 1])
  /\ Push(Parties(c), c)
  /\ UNCHANGED <<post, send, bulk>>

MarkAsRead(u, c, target) ==
  LET old == conversation[c].read[u]
      through == IF target > old THEN target ELSE old
      marked == {m \in Incoming(c, u) : m.sequence <= through}
      notice == Reconciled(u, c, Incoming(c, u) \ marked, conversation[c].version + 1)
  IN
  /\ u \in Parties(c) /\ target \in 1 .. conversation[c].last
  /\ RowFree(c) /\ Bounded(c)
  /\ marked # {} \/ through > old \/ notice # unread[u][c]
  /\ messages' = (messages \ marked) \cup {[m EXCEPT !.isRead = TRUE] : m \in marked}
  /\ Notify(u, c, notice)
  /\ Save(c, [conversation[c] EXCEPT !.read = [@ EXCEPT ![u] = through],
                                     !.version = @ + 1])
  /\ Push(Parties(c), c)
  /\ UNCHANGED <<post, send, bulk>>

\* Mutant: the notification stays unread.
DeleteConversationSilently(u, c) ==
  LET changed == u \notin conversation[c].hidden \/ unread[u][c] # NoNotice IN
  /\ u \in Parties(c) /\ conversation[c].made
  /\ RowFree(c) /\ (changed => Bounded(c))
  /\ Save(c, [conversation[c] EXCEPT !.hidden = @ \cup {u},
                                     !.version = IF changed THEN @ + 1 ELSE @])
  /\ UNCHANGED <<post, messages, unread, send, bulk>>
  /\ Push({u}, c)

\* Nothing to do: nothing is written, but the snapshot is pushed all the same.
DeleteConversation(u, c) ==
  LET changed == u \notin conversation[c].hidden \/ unread[u][c] # NoNotice IN
  /\ u \in Parties(c) /\ conversation[c].made
  /\ RowFree(c) /\ (changed => Bounded(c))
  /\ Save(c, [conversation[c] EXCEPT !.hidden = @ \cup {u},
                                     !.version = IF changed THEN @ + 1 ELSE @])
  /\ Notify(u, c, NoNotice)
  /\ UNCHANGED <<post, messages, send, bulk>>
  /\ Push({u}, c)

-----------------------------------------------------------------------------
(* Reading notifications by hand.                                            *)

\* The row is read again under the lock; one read meanwhile is left alone.
MarkOneAsRead(u, c) ==
  /\ unread[u][c] # NoNotice
  /\ RowFree(c) /\ Bounded(c)
  /\ Notify(u, c, NoNotice)
  /\ Save(c, [conversation[c] EXCEPT !.version = @ + 1])
  /\ UNCHANGED <<post, messages, send, bulk>>
  /\ Push({u}, c)

\* The conversations are picked before the transaction, without a lock.
BeginReadAll(u) ==
  /\ bulk[u] = NoBulk
  /\ \E c \in Conversations : unread[u][c] # NoNotice
  /\ bulk' = [bulk EXCEPT ![u] =
       [todo |-> {c \in Conversations : unread[u][c] # NoNotice}, locked |-> {}]]
  /\ UNCHANGED <<post, rows, send>>

\* Mutant: the locks are taken in whatever order the rows came.
NextToLockUnordered(u) == bulk[u].todo

\* Locks are taken in the order of the identifiers.
NextToLock(u) == {c \in bulk[u].todo : \A d \in bulk[u].todo : c <= d}

LockNext(u) ==
  \E c \in NextToLock(u) :
    /\ RowFree(c)
    /\ bulk' = [bulk EXCEPT ![u] =
         [todo |-> @.todo \ {c}, locked |-> @.locked \cup {c}]]
    /\ UNCHANGED <<post, rows, send>>

\* Those that still have an unread notification, now that they are locked.
StillUnread(u) == {c \in bulk[u].locked : unread[u][c] # NoNotice}

CommitReadAll(u) ==
  LET cs == StillUnread(u) IN
  /\ bulk[u].todo = {} /\ bulk[u].locked # {}
  /\ \A c \in cs : Bounded(c)
  /\ unread' = [unread EXCEPT ![u] =
       [c \in Conversations |-> IF c \in cs THEN NoNotice ELSE @[c]]]
  /\ conversation' = [c \in Conversations |->
       IF c \in cs THEN [conversation[c] EXCEPT !.version = @ + 1] ELSE conversation[c]]
  /\ bulk' = [bulk EXCEPT ![u] = NoBulk]
  /\ UNCHANGED <<post, messages, send>>
  /\ wire' = wire \cup {Snapshot(u, c)' : c \in cs}

FailReadAll(u) ==
  /\ bulk[u] # NoBulk
  /\ bulk' = [bulk EXCEPT ![u] = NoBulk]
  /\ UNCHANGED <<post, rows, send>>

-----------------------------------------------------------------------------
(* The post.  Its deadline passes whoever holds it; a sale, a removal, hiding *)
(* it, and putting it on display again take the lock of its row.              *)

Lapse(c) ==
  /\ post[c] = "active"
  /\ post' = [post EXCEPT ![c] = "lapsed"]
  /\ UNCHANGED <<rows, send, bulk>>

Withdraw(c) ==
  /\ post[c] # "gone" /\ PostFree(c)
  /\ post' = [post EXCEPT ![c] = "gone"]
  /\ UNCHANGED <<rows, send, bulk>>

Renew(c) ==
  /\ post[c] # "active" /\ PostFree(c)
  /\ post' = [post EXCEPT ![c] = "active"]
  /\ UNCHANGED <<rows, send, bulk>>

SendStep(s) ==
  \/ LockKey(s) \/ SharePost(s) \/ LockRow(s) \/ CommitSend(s) \/ FailSend(s)
  \/ \E c \in Conversations, u \in Users, viaPost \in BOOLEAN, k \in Keys \cup {NoKey} :
       BeginSend(s, u, c, viaPost, k)

ReadAllStep(u) ==
  BeginReadAll(u) \/ LockNext(u) \/ CommitReadAll(u) \/ FailReadAll(u)

ConversationStep(c) ==
  \/ OpenConversation(c) \/ Lapse(c) \/ Withdraw(c) \/ Renew(c)
  \/ \E u \in Users :
       \/ DeleteConversation(u, c)
       \/ MarkOneAsRead(u, c)
       \/ \E target \in 1 .. MaxMessages : MarkAsRead(u, c, target)

Next ==
  \/ \E s \in Senders : SendStep(s)
  \/ \E u \in Readers : ReadAllStep(u)
  \/ \E c \in Conversations : ConversationStep(c)

Spec == Init /\ [][Next]_vars

-----------------------------------------------------------------------------
(* What the conversations promise.                                          *)

\* Every variable holds a value of its type.
TypeOK ==
  /\ post \in [Conversations -> {"active", "lapsed", "gone"}]
  /\ conversation \in [Conversations -> Conversation]
  /\ messages \subseteq Message
  /\ unread \in [Users -> [Conversations -> Notice \cup {NoNotice}]]
  /\ send \in [Senders -> Request]
  /\ bulk \in [Users -> Bulk]
  /\ \A x \in wire : x.user \in Users /\ x.conversation \in Conversations

\* The look for an earlier message under the lock of the client id, and the
\* counter read under the lock of the conversation, are decisive: the unique
\* indexes behind the 409 answers of executeSend are never hit by a race.
NeverCollides ==
  \A s \in Senders : send[s].pc = "locked" => ~Collides(Written(s))

\* Exactly the incoming messages up to a party's watermark are marked as read,
\* and no watermark runs ahead of the messages.
ReadIsPrefix ==
  \A c \in Conversations :
    /\ \A u \in Parties(c) : conversation[c].read[u] <= conversation[c].last
    /\ \A m \in messages : m.conversation = c =>
         (m.isRead <=> m.sequence <= conversation[c].read[Other(c, m.sender)])

\* An unread notification speaks of the newest message its user has not read,
\* in a conversation the user has not put away.
NoticeIsNewest ==
  \A u \in Users, c \in Conversations : unread[u][c] # NoNotice =>
    /\ Incoming(c, u) # {}
    /\ unread[u][c].sequence = Newest(Incoming(c, u)).sequence
    /\ unread[u][c].version <= conversation[c].version
    /\ u \notin conversation[c].hidden

\* A version names one state: whatever a client was sent under the current
\* version is the current state, and nothing else was ever sent under it.  A
\* client may drop what carries a version it has already seen.
OneStatePerVersion ==
  \A x \in wire :
    /\ x.version \in 0 .. conversation[x.conversation].version
    /\ x.version = conversation[x.conversation].version
         => x = Snapshot(x.user, x.conversation)

\* A message sent from a post is written only while the post, which may have
\* run out, has not been sold, removed or hidden.
WrittenOnOffer ==
  [][\A s \in Senders :
       (/\ send[s].pc = "locked" /\ send[s].viaPost
        /\ Written(s) \in messages' \ messages)
         => post[send[s].conversation] # "gone"]_vars

\* The messages of c in the order of their sequence numbers.
LogOf(c) ==
  [i \in 1 .. conversation[c].last |->
    LET m == CHOOSE n \in messages : n.conversation = c /\ n.sequence = i
    IN  [sender |-> m.sender, key |-> m.key]]

Log == INSTANCE MessageLog WITH
  log <- [c \in Conversations |-> LogOf(c)],
  seen <- [c \in Conversations |-> conversation[c].read],
  hidden <- [c \in Conversations |-> conversation[c].hidden]

\* Sends, reads and deletions, retried, concurrent and failing half-way, are
\* those of an append-only log in which a client id stands for one message.
LogContract == Log!Spec

\* Messages come from the parties, and the counter is never behind them.
Numbered ==
  \A m \in messages :
    /\ m.sender \in Parties(m.conversation)
    /\ m.sequence <= conversation[m.conversation].last

\* A request under way is a party's.  One that holds the row holds it alone,
\* and what it has read of the row is still so.
RowLocks ==
  \A s \in Senders :
    /\ send[s].pc # "idle" => send[s].user \in Parties(send[s].conversation)
    /\ send[s].pc = "locked" =>
         /\ send[s].last = conversation[send[s].conversation].last
         /\ send[s].version = conversation[send[s].conversation].version
         /\ \A t \in Senders \ {s} : ~HoldsRow(t, send[s].conversation)
         /\ \A u \in Users : send[s].conversation \notin bulk[u].locked

\* A client id that is held has not been used and is held once.
KeyLocks ==
  \A s \in Senders : HoldsKey(s) =>
    /\ ~Sent(send[s].user, send[s].key)
    /\ \A t \in Senders \ {s} :
         ~(HoldsKey(t) /\ send[t].user = send[s].user /\ send[t].key = send[s].key)

\* A post that is held stays on offer.
PostLocks ==
  \A s \in Senders : HoldsPost(s) => post[send[s].conversation] # "gone"

\* Every lock protects what it is taken for, and the read marks agree with the
\* watermarks.
ChatInv ==
  TypeOK /\ Numbered /\ RowLocks /\ KeyLocks /\ PostLocks /\ ReadIsPrefix

\* The messages of a conversation are numbered without a gap or a repetition.
Gapless ==
  /\ \A c \in Conversations : \A i \in 1 .. conversation[c].last :
       \E m \in messages : m.conversation = c /\ m.sequence = i
  /\ \A m, n \in messages :
       m.conversation = n.conversation /\ m.sequence = n.sequence => m = n

\* Only the parties of a conversation are told of its messages.
NoticesOfParties ==
  \A u \in Users, c \in Conversations : unread[u][c] # NoNotice => u \in Parties(c)

\* Whoever reads all has locked the rows in ascending order, and is one of
\* finitely many at work.
LockOrder ==
  /\ \A u \in Users : \A c \in bulk[u].locked, d \in bulk[u].todo : c < d
  /\ IsFiniteSet({u \in Users : bulk[u] # NoBulk})

\* The inductive invariant: what the locks protect, and with it that messages,
\* notifications and pushed snapshots speak of the same conversation.
ConversationInv ==
  /\ ChatInv /\ Gapless /\ LockOrder
  /\ NoticesOfParties /\ NoticeIsNewest /\ OneStatePerVersion

-----------------------------------------------------------------------------
(* Requests waiting for each other.                                         *)

Waits(x, y) ==
  \/ /\ x \in Senders /\ y \in Senders
     /\ send[x].pc = "begun" /\ HoldsKey(y)
     /\ send[y].user = send[x].user /\ send[y].key = send[x].key
  \/ /\ x \in Senders /\ y \in Users
     /\ send[x].pc = (IF send[x].viaPost THEN "shared" ELSE "cleared")
     /\ send[x].conversation \in bulk[y].locked
  \/ /\ x \in Senders /\ y \in Senders
     /\ send[x].pc = (IF send[x].viaPost THEN "shared" ELSE "cleared")
     /\ HoldsRow(y, send[x].conversation)
  \/ /\ x \in Users /\ y \in Users /\ x # y
     /\ \E c \in NextToLock(x) : c \in bulk[y].locked
  \/ /\ x \in Users /\ y \in Senders
     /\ \E c \in NextToLock(x) : HoldsRow(y, c)

Requests == Senders \cup Users

Waiting == {x \in Requests : \E y \in Requests : Waits(x, y)}

\* No requests wait for each other in a circle, whoever reads all the
\* notifications of several conversations at once.
NoWaitCycle ==
  \A ps \in SUBSET Waiting :
    ps # {} => \E x \in ps : \A y \in ps : ~Waits(x, y)

===============================================================================
