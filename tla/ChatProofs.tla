------------------------------ MODULE ChatProofs ------------------------------
(***************************************************************************)
(* Proofs about conversations, for any number of conversations, users,      *)
(* requests and client ids and any value of the bounds.                     *)
(***************************************************************************)
EXTENDS Chat, TLAPS, FiniteSetTheorems, SequenceTheorems, WellFoundedInduction

-----------------------------------------------------------------------------
(* Type correctness *)

\* There is a user and a conversation for an idle request to stand in with.
LEMMA IdleType == Idle \in Request /\ Users # {}
<1>1. Users # {}
  BY PartyAssumption
<1>2. /\ (CHOOSE u \in Users : TRUE) \in Users
      /\ (CHOOSE c \in Conversations : TRUE) \in Conversations
  BY <1>1, PartyAssumption
<1> QED BY <1>1, <1>2 DEF Idle, Request

\* A conversation has two parties, each the other of the other.
LEMMA PartyType ==
  ASSUME NEW c \in Conversations
  PROVE  /\ Parties(c) \subseteq Users
         /\ \A u \in Parties(c) : Other(c, u) \in Parties(c) /\ Other(c, u) # u
         /\ \A u, w \in Parties(c) : w # u => w = Other(c, u)
BY PartyAssumption DEF Parties, Other

\* The empty tables are well typed.
LEMMA TypeInit == Init => TypeOK
<1> SUFFICES ASSUME Init PROVE TypeOK
  OBVIOUS
<1>1. send \in [Senders -> Request]
  BY IdleType DEF Init
<1>2. conversation \in [Conversations -> Conversation]
  BY DEF Init, Conversation, Watermarks
<1> QED BY <1>1, <1>2 DEF Init, TypeOK, Bulk, NoBulk

\* The row updates of the services give rows.
LEMMA TypeRow ==
  ASSUME NEW row \in Conversation, NEW v \in Nat
  PROVE  /\ [row EXCEPT !.made = TRUE] \in Conversation
         /\ [row EXCEPT !.version = v] \in Conversation
         /\ \A h \in SUBSET Users :
              [row EXCEPT !.hidden = h, !.version = v] \in Conversation
         /\ \A reads \in Watermarks :
              [row EXCEPT !.read = reads, !.version = v] \in Conversation
         /\ \A n \in Nat :
              [row EXCEPT !.made = TRUE, !.last = n, !.version = v, !.hidden = {}]
                \in Conversation
<1>1. [row EXCEPT !.made = TRUE] \in Conversation
  BY DEF Conversation
<1>2. [row EXCEPT !.version = v] \in Conversation
  BY DEF Conversation
<1>3. ASSUME NEW h \in SUBSET Users
      PROVE  [row EXCEPT !.hidden = h, !.version = v] \in Conversation
  BY DEF Conversation
<1>4. ASSUME NEW reads \in Watermarks
      PROVE  [row EXCEPT !.read = reads, !.version = v] \in Conversation
  BY DEF Conversation
<1>5. ASSUME NEW n \in Nat
      PROVE  [row EXCEPT !.made = TRUE, !.last = n, !.version = v, !.hidden = {}]
               \in Conversation
  BY DEF Conversation
<1> QED BY <1>1, <1>2, <1>3, <1>4, <1>5

\* Setting one notification keeps the type of all.
LEMMA TypeNotify ==
  ASSUME TypeOK, NEW u \in Users, NEW c, NEW n \in Notice \cup {NoNotice}, Notify(u, c, n)
  PROVE  unread' \in [Users -> [Conversations -> Notice \cup {NoNotice}]]
<1> DEFINE Inbox == [Conversations -> Notice \cup {NoNotice}]
           row == [unread[u] EXCEPT ![c] = n]
<1>1. unread \in [Users -> Inbox]
  BY DEF TypeOK
<1>2. unread[u] \in Inbox
  BY <1>1
<1>3. row \in Inbox
  BY <1>2
<1>4. unread' = [unread EXCEPT ![u] = row]
  BY DEF Notify
<1> HIDE DEF Inbox, row
<1>5. unread' \in [Users -> Inbox]
  BY <1>1, <1>3, <1>4
<1> QED BY <1>5 DEF Inbox

\* What is pushed speaks of users and conversations.
LEMMA TypePush ==
  ASSUME TypeOK, NEW us \in SUBSET Users, NEW c \in Conversations, Push(us, c)
  PROVE  \A x \in wire' : x.user \in Users /\ x.conversation \in Conversations
BY DEF TypeOK, Push, Snapshot

\* A request that takes its next lock is still a request.
LEMMA TypeRequest ==
  ASSUME NEW r \in Request, NEW n \in Nat, NEW v \in Nat
  PROVE  /\ [r EXCEPT !.pc = "cleared"] \in Request
         /\ [r EXCEPT !.pc = "shared"] \in Request
         /\ [r EXCEPT !.pc = "locked", !.last = n, !.version = v] \in Request
BY DEF Request

\* What a sender begins with is a request.
LEMMA TypeArrival ==
  ASSUME NEW c \in Conversations, NEW u \in Users, NEW viaPost \in BOOLEAN,
         NEW k \in Keys \cup {NoKey}, NEW refused \in BOOLEAN,
         NEW pc \in {"begun", "cleared"}
  PROVE  [Idle EXCEPT !.pc = pc, !.user = u, !.conversation = c,
                      !.viaPost = viaPost, !.key = k, !.refused = refused]
           \in Request
BY IdleType DEF Request

\* Steps that only move the request of one sender.
LEMMA TypeMove ==
  ASSUME TypeOK, NEW s \in Senders, NEW r \in Request,
         send' = [send EXCEPT ![s] = r], UNCHANGED <<post, rows, bulk>>
  PROVE  TypeOK'
BY DEF TypeOK, rows, Notice, Bulk

\* Steps of a send keep the types.
LEMMA TypeSend ==
  ASSUME TypeOK, NEW s \in Senders, SendStep(s) PROVE TypeOK'
<1>1. send[s] \in Request
  BY DEF TypeOK
<1>2. send[s].conversation \in Conversations /\ send[s].user \in Users
  BY <1>1 DEF Request
<1>3. conversation[send[s].conversation] \in Conversation
  BY <1>2 DEF TypeOK
<1>4. CASE LockKey(s) \/ SharePost(s) \/ FailSend(s)
  BY <1>1, <1>4, IdleType, TypeRequest, TypeMove
     DEF LockKey, SharePost, FailSend, EndSend
<1>5. CASE LockRow(s)
  <2>1. /\ conversation[send[s].conversation].last \in Nat
        /\ conversation[send[s].conversation].version \in Nat
    BY <1>3 DEF Conversation
  <2> QED BY <1>1, <1>5, <2>1, TypeRequest, TypeMove DEF LockRow
<1>6. CASE \E c \in Conversations, u \in Users, viaPost \in BOOLEAN, k \in Keys \cup {NoKey} :
             BeginSend(s, u, c, viaPost, k)
  <2>1. PICK c \in Conversations, u \in Users, viaPost \in BOOLEAN, k \in Keys \cup {NoKey} :
          BeginSend(s, u, c, viaPost, k)
    BY <1>6
  <2> DEFINE pc == IF k = NoKey THEN "cleared" ELSE "begun"
             refused == Fresh(u, k) /\ ~Preflight(c, viaPost)
             r == [Idle EXCEPT !.pc = pc, !.user = u, !.conversation = c,
                               !.viaPost = viaPost, !.key = k, !.refused = refused]
  <2>2. pc \in {"begun", "cleared"}
    OBVIOUS
  <2>3. refused \in BOOLEAN
    BY DEF Fresh, Sent, Preflight
  <2>4. send' = [send EXCEPT ![s] = r] /\ UNCHANGED <<post, rows, bulk>>
    BY <2>1 DEF BeginSend
  <2> HIDE DEF pc, refused
  <2>5. r \in Request
    BY <2>2, <2>3, TypeArrival
  <2> QED BY <2>4, <2>5, TypeMove
<1>7. CASE CommitSend(s)
  <2> DEFINE c == send[s].conversation
             m == Written(s)
             v == send[s].version + 1
             u == Other(c, m.sender)
             n == [sequence |-> m.sequence, version |-> v]
             row == [conversation[c] EXCEPT !.made = TRUE, !.last = m.sequence,
                                            !.version = v, !.hidden = {}]
  <2>1. m \in Message /\ v \in Nat /\ m.sequence \in Nat
    BY <1>1 DEF Written, Request, Message
  <2>2. u \in Users
    BY <1>2, PartyAssumption DEF Other
  <2>3. /\ send' = [send EXCEPT ![s] = Idle] /\ UNCHANGED <<post, bulk>>
        /\ UNCHANGED rows
           \/ /\ messages' = messages \cup {m} /\ Save(c, row)
              /\ Notify(u, c, n) /\ Push(Parties(c), c)
    BY <1>7 DEF CommitSend, EndSend
  <2>4. CASE UNCHANGED rows
    BY <2>3, <2>4, IdleType, TypeMove
  <2>5. CASE /\ messages' = messages \cup {m} /\ Save(c, row)
             /\ Notify(u, c, n) /\ Push(Parties(c), c)
    <3>1. row \in Conversation
      BY <1>3, <2>1, TypeRow
    <3>2. conversation' \in [Conversations -> Conversation]
      BY <2>5, <3>1, <1>2 DEF Save, TypeOK
    <3>3. n \in Notice
      BY <2>1 DEF Notice
    <3>4. unread' \in [Users -> [Conversations -> Notice \cup {NoNotice}]]
      BY <1>2, <2>2, <2>5, <3>3, TypeNotify
    <3>5. \A x \in wire' : x.user \in Users /\ x.conversation \in Conversations
      BY <1>2, <2>5, PartyType, TypePush
    <3> QED BY <2>1, <2>3, <2>5, <3>2, <3>4, <3>5, IdleType DEF TypeOK
  <2> QED BY <2>3, <2>4, <2>5
<1> QED BY <1>4, <1>5, <1>6, <1>7 DEF SendStep

\* Steps of reading all notifications keep the types.
LEMMA TypeReadAll ==
  ASSUME TypeOK, NEW u \in Users, ReadAllStep(u) PROVE TypeOK'
<1>1. ASSUME NEW b \in Bulk, bulk' = [bulk EXCEPT ![u] = b], UNCHANGED <<post, rows, send>>
      PROVE  TypeOK'
  BY <1>1 DEF TypeOK, rows, Notice
<1>2. bulk[u] \in Bulk /\ NoBulk \in Bulk
  BY DEF TypeOK, Bulk, NoBulk
<1>3. CASE BeginReadAll(u)
  <2>1. [todo |-> {c \in Conversations : unread[u][c] # NoNotice}, locked |-> {}] \in Bulk
    BY DEF Bulk
  <2> QED BY <1>1, <1>3, <2>1 DEF BeginReadAll
<1>4. CASE LockNext(u)
  <2>1. PICK c \in NextToLock(u) :
          bulk' = [bulk EXCEPT ![u] = [todo |-> @.todo \ {c}, locked |-> @.locked \cup {c}]]
    BY <1>4 DEF LockNext
  <2>2. [todo |-> bulk[u].todo \ {c}, locked |-> bulk[u].locked \cup {c}] \in Bulk
    BY <1>2, <2>1 DEF NextToLock, Bulk
  <2>3. UNCHANGED <<post, rows, send>>
    BY <1>4 DEF LockNext
  <2> QED BY <1>1, <2>1, <2>2, <2>3
<1>5. CASE FailReadAll(u)
  BY <1>1, <1>2, <1>5 DEF FailReadAll
<1>6. CASE CommitReadAll(u)
  <2> DEFINE cs == StillUnread(u)
             row == [c \in Conversations |-> IF c \in cs THEN NoNotice ELSE unread[u][c]]
  <2>1. /\ unread' = [unread EXCEPT ![u] = row]
        /\ conversation' = [c \in Conversations |->
             IF c \in cs THEN [conversation[c] EXCEPT !.version = @ + 1] ELSE conversation[c]]
        /\ wire' = wire \cup {Snapshot(u, c)' : c \in cs}
        /\ bulk' = [bulk EXCEPT ![u] = NoBulk]
        /\ UNCHANGED <<post, messages, send>>
    BY <1>6 DEF CommitReadAll
  <2>2. cs \subseteq Conversations
    BY <1>2 DEF StillUnread, Bulk
  <2>3. ASSUME NEW c \in Conversations
        PROVE  [conversation[c] EXCEPT !.version = @ + 1] \in Conversation
    <3>1. conversation[c] \in Conversation /\ conversation[c].version + 1 \in Nat
      BY DEF TypeOK, Conversation
    <3> QED BY <3>1, TypeRow
  <2>4. conversation' \in [Conversations -> Conversation]
    BY <2>1, <2>3 DEF TypeOK
  <2>5. row \in [Conversations -> Notice \cup {NoNotice}]
    BY DEF TypeOK
  <2>6. unread' \in [Users -> [Conversations -> Notice \cup {NoNotice}]]
    BY <2>1, <2>5 DEF TypeOK
  <2>7. \A x \in wire' : x.user \in Users /\ x.conversation \in Conversations
    <3>1. ASSUME NEW c \in cs
          PROVE  /\ Snapshot(u, c)'.user \in Users
                 /\ Snapshot(u, c)'.conversation \in Conversations
      BY <2>2 DEF Snapshot
    <3> HIDE DEF cs
    <3> QED BY <2>1, <3>1 DEF TypeOK
  <2>8. bulk' \in [Users -> Bulk]
    BY <1>2, <2>1 DEF TypeOK
  <2> QED BY <2>1, <2>4, <2>6, <2>7, <2>8 DEF TypeOK
<1> QED BY <1>3, <1>4, <1>5, <1>6 DEF ReadAllStep

Less == {ss \in Nat \X Nat : ss[1] < ss[2]}

\* A nonempty set of natural numbers has a least element.
LEMMA LeastNatural ==
  ASSUME NEW S, S \subseteq Nat, S # {}
  PROVE  \E d \in S : \A e \in S : d <= e
<1>1. PICK d \in S : \A e \in S : ~(<<e, d>> \in Less)
  <2>1. IsWellFoundedOn(Less, Nat)
    BY NatLessThanWellFounded DEF OpToRel, Less
  <2> QED BY <2>1, WFMin, Zenon
<1>2. \A e \in S : ~(e < d)
  BY <1>1 DEF Less
<1> QED BY <1>2

\* A nonempty set of messages numbered up to b has a newest one.
LEMMA NewestExists ==
  ASSUME NEW ms \in SUBSET Message, ms # {}, NEW b \in Nat,
         \A m \in ms : m.sequence <= b
  PROVE  Newest(ms) \in ms /\ \A m \in ms : m.sequence <= Newest(ms).sequence
<1> DEFINE S == {b - m.sequence : m \in ms}
<1>1. \A m \in ms : m.sequence \in Nat
  BY DEF Message
<1>2. S \subseteq Nat /\ S # {}
  BY <1>1
<1>3. PICK d \in S : \A e \in S : d <= e
  BY <1>2, LeastNatural
<1>4. PICK m \in ms : d = b - m.sequence
  OBVIOUS
<1>5. ASSUME NEW n \in ms PROVE n.sequence <= m.sequence
  <2>1. d <= b - n.sequence
    BY <1>3
  <2>2. n.sequence \in Nat /\ m.sequence \in Nat
    BY <1>1
  <2> QED BY <1>4, <2>1, <2>2
<1> QED BY <1>5 DEF Newest

\* Incoming messages are messages, numbered up to the counter of the row.
LEMMA IncomingType ==
  ASSUME TypeOK, Numbered, NEW u \in Users, NEW c \in Conversations
  PROVE  /\ Incoming(c, u) \in SUBSET Message
         /\ conversation[c].last \in Nat
         /\ \A m \in Incoming(c, u) : m.sequence <= conversation[c].last
BY DEF TypeOK, Numbered, Incoming, Conversation

\* The notification a reader is left with, when what has been read is marked.
LEMMA TypeReconciled ==
  ASSUME TypeOK, Numbered, NEW u \in Users, NEW c \in Conversations,
         NEW rest \in SUBSET Incoming(c, u), NEW v \in Nat
  PROVE  Reconciled(u, c, rest, v) \in Notice \cup {NoNotice}
<1>1. unread[u][c] \in Notice \cup {NoNotice}
  BY DEF TypeOK
<1>2. CASE rest = {}
  BY <1>1, <1>2 DEF Reconciled
<1>3. CASE rest # {}
  <2>1. Newest(rest) \in rest
    BY <1>3, IncomingType, NewestExists
  <2>2. Newest(rest).sequence \in Nat
    BY <2>1, IncomingType DEF Message
  <2>3. [sequence |-> Newest(rest).sequence, version |-> v] \in Notice
    BY <2>2 DEF Notice
  <2> QED BY <1>1, <2>3 DEF Reconciled
<1> QED BY <1>2, <1>3

\* Steps of a conversation or its post keep the types.
LEMMA TypeConversation ==
  ASSUME TypeOK, Numbered, NEW c \in Conversations, ConversationStep(c) PROVE TypeOK'
<1>1. conversation[c] \in Conversation
  BY DEF TypeOK
<1>2. /\ conversation[c].version \in Nat /\ conversation[c].version + 1 \in Nat
      /\ conversation[c].last \in Nat /\ conversation[c].hidden \in SUBSET Users
      /\ conversation[c].read \in Watermarks
  BY <1>1 DEF Conversation
\* Steps that change the row, perhaps a notification, and tell somebody.
<1>3. ASSUME NEW row \in Conversation, Save(c, row),
             NEW u \in Users, NEW n \in Notice \cup {NoNotice}, Notify(u, c, n),
             NEW us \in SUBSET Users, Push(us, c), messages' \subseteq Message,
             UNCHANGED <<post, send, bulk>>
      PROVE  TypeOK'
  <2>1. conversation' \in [Conversations -> Conversation]
    BY <1>3 DEF Save, TypeOK
  <2> QED BY <1>3, <2>1, TypeNotify, TypePush DEF TypeOK
<1>4. CASE OpenConversation(c)
  <2>1. PICK row \in Conversation : Save(c, row)
    BY <1>1, <1>2, <1>4, TypeRow DEF OpenConversation
  <2>2. conversation' \in [Conversations -> Conversation]
    BY <2>1 DEF Save, TypeOK
  <2> QED BY <1>4, <2>2 DEF OpenConversation, TypeOK, Notice, Bulk
<1>5. CASE Lapse(c) \/ Withdraw(c) \/ Renew(c)
  BY <1>5 DEF Lapse, Withdraw, Renew, TypeOK, rows, Notice, Bulk
<1>6. ASSUME NEW u \in Users, DeleteConversation(u, c) PROVE TypeOK'
  <2> DEFINE changed == u \notin conversation[c].hidden \/ unread[u][c] # NoNotice
             v == IF changed THEN conversation[c].version + 1 ELSE conversation[c].version
             h == conversation[c].hidden \cup {u}
             row == [conversation[c] EXCEPT !.hidden = h, !.version = v]
  <2>1. v \in Nat /\ h \in SUBSET Users
    BY <1>2
  <2>2. row \in Conversation
    BY <1>1, <2>1, TypeRow
  <2>3. /\ Save(c, row) /\ Notify(u, c, NoNotice) /\ Push({u}, c)
        /\ UNCHANGED <<post, messages, send, bulk>>
    BY <1>6 DEF DeleteConversation
  <2>4. messages' \subseteq Message
    BY <2>3 DEF TypeOK
  <2> HIDE DEF row
  <2> QED BY <1>3, <2>2, <2>3, <2>4
<1>7. ASSUME NEW u \in Users, MarkOneAsRead(u, c) PROVE TypeOK'
  <2> DEFINE row == [conversation[c] EXCEPT !.version = conversation[c].version + 1]
  <2>1. row \in Conversation
    BY <1>1, <1>2, TypeRow
  <2>2. /\ Save(c, row) /\ Notify(u, c, NoNotice) /\ Push({u}, c)
        /\ UNCHANGED <<post, messages, send, bulk>>
    BY <1>7 DEF MarkOneAsRead
  <2>3. messages' \subseteq Message
    BY <2>2 DEF TypeOK
  <2> HIDE DEF row
  <2> QED BY <1>3, <2>1, <2>2, <2>3
<1>8. ASSUME NEW u \in Users, NEW target \in 1 .. MaxMessages, MarkAsRead(u, c, target)
      PROVE  TypeOK'
  <2> DEFINE old == conversation[c].read[u]
             through == IF target > old THEN target ELSE old
             marked == {m \in Incoming(c, u) : m.sequence <= through}
             reads == [conversation[c].read EXCEPT ![u] = through]
             n == Reconciled(u, c, Incoming(c, u) \ marked, conversation[c].version + 1)
             row == [conversation[c] EXCEPT !.read = reads,
                                            !.version = conversation[c].version + 1]
  <2>1. through \in Nat
    BY <1>2, BoundAssumption DEF Watermarks
  <2>2. reads \in Watermarks
    BY <1>2, <2>1 DEF Watermarks
  <2>3. row \in Conversation
    BY <1>1, <1>2, <2>2, TypeRow
  <2>4. n \in Notice \cup {NoNotice}
    BY <1>2, TypeReconciled
  <2>5. /\ Save(c, row) /\ Notify(u, c, n) /\ Push(Parties(c), c)
        /\ messages' = (messages \ marked) \cup {[m EXCEPT !.isRead = TRUE] : m \in marked}
        /\ UNCHANGED <<post, send, bulk>>
    BY <1>8 DEF MarkAsRead
  <2>6. \A m \in Message : [m EXCEPT !.isRead = TRUE] \in Message
    BY DEF Message
  <2>7. messages' \subseteq Message
    BY <2>5, <2>6, IncomingType DEF TypeOK
  <2>8. Parties(c) \in SUBSET Users
    BY PartyType
  <2> HIDE DEF row, n
  <2> QED BY <1>3, <2>3, <2>4, <2>5, <2>7, <2>8
<1> QED BY <1>4, <1>5, <1>6, <1>7, <1>8 DEF ConversationStep

\* Every step keeps the types.
LEMMA TypeNext == TypeOK /\ Numbered /\ [Next]_vars => TypeOK'
<1> SUFFICES ASSUME TypeOK, Numbered, [Next]_vars PROVE TypeOK'
  OBVIOUS
<1>1. CASE Next
  BY <1>1, TypeSend, TypeReadAll, TypeConversation, PartyAssumption DEF Next
<1>2. CASE UNCHANGED vars
  BY <1>2 DEF vars, rows, TypeOK, Notice, Bulk
<1> QED BY <1>1, <1>2

-----------------------------------------------------------------------------
(* The locks *)

\* What the steps of readers, and of the posts, may do to what senders rely on.
Frame ==
  /\ UNCHANGED send
  /\ \A d \in Conversations :
       /\ conversation'[d].last = conversation[d].last
       /\ conversation'[d] = conversation[d] \/ \A s \in Senders : ~HoldsRow(s, d)
       /\ post'[d] = "gone" => post[d] = "gone" \/ PostFree(d)
       /\ \A u \in Users : d \in bulk'[u].locked =>
            d \in bulk[u].locked \/ \A s \in Senders : ~HoldsRow(s, d)
  /\ \A m \in messages' : \E n \in messages :
       /\ m.conversation = n.conversation /\ m.sequence = n.sequence
       /\ m.sender = n.sender /\ m.key = n.key

\* What stays within the frame leaves every lock good for what it protects.
LEMMA FrameKeeps ==
  ASSUME ChatInv, TypeOK', Frame
  PROVE  Numbered' /\ RowLocks' /\ KeyLocks' /\ PostLocks'
<1>1. /\ TypeOK /\ Numbered /\ RowLocks /\ KeyLocks /\ PostLocks
      /\ \A s \in Senders : send[s].conversation \in Conversations
      /\ \A m \in messages : m.conversation \in Conversations
  BY DEF ChatInv, TypeOK, Request, Message
<1>2. Numbered'
  BY <1>1 DEF Frame, Numbered, Parties
<1>3. RowLocks'
  BY <1>1 DEF Frame, RowLocks, HoldsRow, Parties
<1>4. KeyLocks'
  BY <1>1 DEF Frame, KeyLocks, HoldsKey, Sent
<1>5. PostLocks'
  BY <1>1 DEF Frame, PostLocks, PostFree, HoldsPost
<1> QED BY <1>2, <1>3, <1>4, <1>5

\* Opening, reading, deleting, and the changes of a post stay within the frame.
LEMMA ConversationFrame ==
  ASSUME TypeOK, NEW c \in Conversations, ConversationStep(c)
  PROVE  Frame
<1>1. conversation \in [Conversations -> Conversation]
  BY DEF TypeOK
\* A row is written only when nobody holds it, and its counter is left alone.
<1>2. ASSUME NEW row, Save(c, row), row.last = conversation[c].last, RowFree(c),
             UNCHANGED <<post, send, bulk>>,
             \A m \in messages' : \E n \in messages :
               /\ m.conversation = n.conversation /\ m.sequence = n.sequence
               /\ m.sender = n.sender /\ m.key = n.key
      PROVE  Frame
  BY <1>1, <1>2 DEF Save, RowFree, Frame
<1>3. CASE OpenConversation(c)
  <2> DEFINE row == IF Buyer[c] \in conversation[c].hidden
                      THEN [conversation[c] EXCEPT !.hidden = @ \ {Buyer[c]},
                                                   !.version = @ + 1]
                      ELSE [conversation[c] EXCEPT !.made = TRUE]
  <2>1. row.last = conversation[c].last
    BY <1>1 DEF Conversation
  <2>2. /\ Save(c, row) /\ RowFree(c) /\ UNCHANGED <<post, messages, send, bulk>>
    BY <1>3 DEF OpenConversation
  <2> HIDE DEF row
  <2> QED BY <1>2, <2>1, <2>2
<1>4. CASE Lapse(c) \/ Withdraw(c) \/ Renew(c)
  BY <1>4 DEF Lapse, Withdraw, Renew, rows, Frame, TypeOK
<1>5. ASSUME NEW u \in Users, DeleteConversation(u, c) PROVE Frame
  <2> DEFINE changed == u \notin conversation[c].hidden \/ unread[u][c] # NoNotice
             row == [conversation[c] EXCEPT !.hidden = @ \cup {u},
                                            !.version = IF changed THEN @ + 1 ELSE @]
  <2>1. row.last = conversation[c].last
    BY <1>1 DEF Conversation
  <2>2. /\ Save(c, row) /\ RowFree(c) /\ UNCHANGED <<post, messages, send, bulk>>
    BY <1>5 DEF DeleteConversation
  <2> HIDE DEF row
  <2> QED BY <1>2, <2>1, <2>2
<1>6. ASSUME NEW u \in Users, MarkOneAsRead(u, c) PROVE Frame
  <2> DEFINE row == [conversation[c] EXCEPT !.version = @ + 1]
  <2>1. row.last = conversation[c].last
    BY <1>1 DEF Conversation
  <2>2. /\ Save(c, row) /\ RowFree(c) /\ UNCHANGED <<post, messages, send, bulk>>
    BY <1>6 DEF MarkOneAsRead
  <2> HIDE DEF row
  <2> QED BY <1>2, <2>1, <2>2
<1>7. ASSUME NEW u \in Users, NEW target, MarkAsRead(u, c, target) PROVE Frame
  <2>1. PICK through : LET marked == {m \in Incoming(c, u) : m.sequence <= through} IN
          /\ Save(c, [conversation[c] EXCEPT !.read = [@ EXCEPT ![u] = through],
                                             !.version = @ + 1])
          /\ messages' = (messages \ marked) \cup {[m EXCEPT !.isRead = TRUE] : m \in marked}
          /\ RowFree(c) /\ UNCHANGED <<post, send, bulk>>
    BY <1>7 DEF MarkAsRead
  <2> DEFINE row == [conversation[c] EXCEPT !.read = [@ EXCEPT ![u] = through],
                                            !.version = @ + 1]
  <2>2. row.last = conversation[c].last
    BY <1>1 DEF Conversation
  <2>3. \A m \in messages' : \E n \in messages :
               /\ m.conversation = n.conversation /\ m.sequence = n.sequence
               /\ m.sender = n.sender /\ m.key = n.key
    BY <2>1 DEF Incoming, TypeOK, Message
  <2>4. Save(c, row)
    BY <2>1
  <2> HIDE DEF row
  <2> QED BY <1>2, <2>1, <2>2, <2>3, <2>4
<1> QED BY <1>3, <1>4, <1>5, <1>6, <1>7 DEF ConversationStep

\* Reading all notifications stays within the frame.
LEMMA ReadAllFrame ==
  ASSUME TypeOK, RowLocks, NEW u \in Users, ReadAllStep(u)
  PROVE  Frame
<1>1. /\ conversation \in [Conversations -> Conversation]
      /\ bulk \in [Users -> Bulk]
  BY DEF TypeOK
<1>2. CASE BeginReadAll(u) \/ FailReadAll(u)
  BY <1>1, <1>2 DEF BeginReadAll, FailReadAll, NoBulk, rows, Frame
<1>3. CASE LockNext(u)
  <2>1. PICK c \in NextToLock(u) :
          /\ RowFree(c)
          /\ bulk' = [bulk EXCEPT ![u] = [todo |-> @.todo \ {c}, locked |-> @.locked \cup {c}]]
          /\ UNCHANGED <<post, rows, send>>
    BY <1>3 DEF LockNext
  <2> QED BY <1>1, <2>1 DEF rows, Frame, RowFree
<1>4. CASE CommitReadAll(u)
  <2> DEFINE cs == StillUnread(u)
  <2>1. /\ conversation' = [c \in Conversations |->
             IF c \in cs THEN [conversation[c] EXCEPT !.version = @ + 1] ELSE conversation[c]]
        /\ bulk' = [bulk EXCEPT ![u] = NoBulk]
        /\ UNCHANGED <<post, messages, send>>
    BY <1>4 DEF CommitReadAll
  <2>2. ASSUME NEW c \in Conversations
        PROVE  conversation'[c].last = conversation[c].last
    BY <1>1, <2>1 DEF Conversation
  <2>3. ASSUME NEW c \in cs, NEW s \in Senders PROVE ~HoldsRow(s, c)
    BY DEF StillUnread, RowLocks, HoldsRow
  <2>4. ASSUME NEW c \in Conversations
        PROVE  conversation'[c] = conversation[c] \/ \A s \in Senders : ~HoldsRow(s, c)
    BY <2>1, <2>3
  <2>5. ASSUME NEW w \in Users PROVE bulk'[w].locked \subseteq bulk[w].locked
    BY <1>1, <2>1 DEF NoBulk
  <2> HIDE DEF cs
  <2> QED BY <2>1, <2>2, <2>4, <2>5 DEF Frame
<1> QED BY <1>2, <1>3, <1>4 DEF ReadAllStep

\* Steps that only move the request of one sender.  What the request comes to
\* hold must be free, and what it has read of the row must be so.
LEMMA MoveKeeps ==
  ASSUME ChatInv, NEW s \in Senders, NEW r \in Request,
         send' = [send EXCEPT ![s] = r], UNCHANGED <<post, rows, bulk>>,
         r.pc # "idle" => r.user \in Parties(r.conversation),
         r.pc = "locked" =>
           /\ r.last = conversation[r.conversation].last
           /\ r.version = conversation[r.conversation].version
           /\ RowFree(r.conversation),
         r.pc \in {"cleared", "shared", "locked"} /\ r.key # NoKey =>
           /\ ~Sent(r.user, r.key)
           /\ \A t \in Senders \ {s} :
                ~(HoldsKey(t) /\ send[t].user = r.user /\ send[t].key = r.key),
         r.pc \in {"shared", "locked"} /\ r.viaPost => post[r.conversation] # "gone"
  PROVE  ChatInv'
<1>1. /\ TypeOK /\ Numbered /\ RowLocks /\ KeyLocks /\ PostLocks /\ ReadIsPrefix
      /\ send \in [Senders -> Request]
  BY DEF ChatInv, TypeOK
<1>2. send'[s] = r /\ \A t \in Senders \ {s} : send'[t] = send[t]
  BY <1>1
<1>3. TypeOK'
  BY <1>1, TypeMove
<1>4. Numbered'
  BY <1>1 DEF Numbered, rows, Parties
<1>5. RowLocks'
  BY <1>1, <1>2 DEF RowLocks, RowFree, HoldsRow, rows, Parties
<1>6. KeyLocks'
  BY <1>1, <1>2 DEF KeyLocks, HoldsKey, Sent, rows
<1>7. PostLocks'
  BY <1>1, <1>2 DEF PostLocks, HoldsPost
<1>8. ReadIsPrefix'
  BY <1>1 DEF ReadIsPrefix, rows, Parties, Other
<1> QED BY <1>3, <1>4, <1>5, <1>6, <1>7, <1>8 DEF ChatInv

\* Every step of a request but the commit of a message.
LEMMA SendMoves ==
  ASSUME ChatInv, NEW s \in Senders, SendStep(s),
         CommitSend(s) => UNCHANGED rows
  PROVE  ChatInv'
<1>1. /\ TypeOK /\ RowLocks /\ KeyLocks /\ PostLocks
      /\ send[s] \in Request
  BY DEF ChatInv, TypeOK
<1>2. send[s].conversation \in Conversations
  BY <1>1 DEF Request
<1>3. CASE send' = [send EXCEPT ![s] = Idle] /\ UNCHANGED <<post, rows, bulk>>
  <2>1. Idle \in Request /\ Idle.pc = "idle"
    BY IdleType DEF Idle
  <2> QED BY <1>3, <2>1, MoveKeeps
<1>4. CASE LockKey(s)
  <2> DEFINE r == [send[s] EXCEPT !.pc = "cleared"]
  <2>1. CASE send' = [send EXCEPT ![s] = r] /\ ~Replayed(s)
    <3>1. /\ r \in Request /\ r.pc = "cleared" /\ r.user = send[s].user
          /\ r.conversation = send[s].conversation /\ r.key = send[s].key
      BY <1>1, TypeRequest DEF Request
    <3>2. send[s].pc = "begun" /\ KeyFree(send[s].user, send[s].key)
          /\ UNCHANGED <<post, rows, bulk>>
      BY <1>4 DEF LockKey
    <3>3. r.user \in Parties(r.conversation)
      BY <1>1, <3>1, <3>2 DEF RowLocks
    <3>4. r.key # NoKey => ~Sent(r.user, r.key)
      BY <2>1, <3>1 DEF Replayed, Fresh
    <3>5. \A t \in Senders \ {s} :
            ~(HoldsKey(t) /\ send[t].user = r.user /\ send[t].key = r.key)
      BY <3>1, <3>2 DEF KeyFree
    <3> HIDE DEF r
    <3> QED BY <2>1, <3>1, <3>2, <3>3, <3>4, <3>5, MoveKeeps
  <2> QED BY <1>3, <1>4, <2>1 DEF LockKey, EndSend
<1>5. CASE SharePost(s)
  <2> DEFINE r == [send[s] EXCEPT !.pc = "shared"]
  <2>1. CASE send' = [send EXCEPT ![s] = r] /\ post[send[s].conversation] = "active"
    <3>1. /\ r \in Request /\ r.pc = "shared" /\ r.user = send[s].user
          /\ r.conversation = send[s].conversation /\ r.key = send[s].key
      BY <1>1, TypeRequest DEF Request
    <3>2. send[s].pc = "cleared" /\ UNCHANGED <<post, rows, bulk>>
      BY <1>5 DEF SharePost
    <3>3. r.user \in Parties(r.conversation)
      BY <1>1, <3>1, <3>2 DEF RowLocks
    <3>4. r.key # NoKey =>
            /\ ~Sent(r.user, r.key)
            /\ \A t \in Senders \ {s} :
                 ~(HoldsKey(t) /\ send[t].user = r.user /\ send[t].key = r.key)
      BY <1>1, <3>1, <3>2 DEF KeyLocks, HoldsKey
    <3> HIDE DEF r
    <3> QED BY <2>1, <3>1, <3>2, <3>3, <3>4, MoveKeeps
  <2> QED BY <1>3, <1>5, <2>1 DEF SharePost, EndSend
<1>6. CASE LockRow(s)
  <2> DEFINE c == send[s].conversation
             r == [send[s] EXCEPT !.pc = "locked", !.last = conversation[c].last,
                                  !.version = conversation[c].version]
  <2>1. conversation[c].last \in Nat /\ conversation[c].version \in Nat
    BY <1>1, <1>2 DEF TypeOK, Conversation
  <2>2. /\ r \in Request /\ r.pc = "locked" /\ r.user = send[s].user
        /\ r.conversation = c /\ r.key = send[s].key /\ r.viaPost = send[s].viaPost
        /\ r.last = conversation[c].last /\ r.version = conversation[c].version
    BY <1>1, <2>1, TypeRequest DEF Request
  <2>3. /\ send' = [send EXCEPT ![s] = r] /\ UNCHANGED <<post, rows, bulk>>
        /\ send[s].pc = (IF send[s].viaPost THEN "shared" ELSE "cleared") /\ RowFree(c)
    BY <1>6 DEF LockRow
  <2>4. r.user \in Parties(r.conversation)
    BY <1>1, <2>2, <2>3 DEF RowLocks
  <2>5. r.key # NoKey =>
          /\ ~Sent(r.user, r.key)
          /\ \A t \in Senders \ {s} :
               ~(HoldsKey(t) /\ send[t].user = r.user /\ send[t].key = r.key)
    BY <1>1, <2>2, <2>3 DEF KeyLocks, HoldsKey
  <2>6. r.viaPost => post[r.conversation] # "gone"
    BY <1>1, <2>2, <2>3 DEF PostLocks, HoldsPost
  <2> HIDE DEF r
  <2> QED BY <2>2, <2>3, <2>4, <2>5, <2>6, MoveKeeps
<1>7. CASE \E c \in Conversations, u \in Users, viaPost \in BOOLEAN, k \in Keys \cup {NoKey} :
             BeginSend(s, u, c, viaPost, k)
  <2>1. PICK c \in Conversations, u \in Users, viaPost \in BOOLEAN, k \in Keys \cup {NoKey} :
          BeginSend(s, u, c, viaPost, k)
    BY <1>7
  <2> DEFINE pc == IF k = NoKey THEN "cleared" ELSE "begun"
             refused == Fresh(u, k) /\ ~Preflight(c, viaPost)
             r == [Idle EXCEPT !.pc = pc, !.user = u, !.conversation = c,
                               !.viaPost = viaPost, !.key = k, !.refused = refused]
  <2>2. pc = "begun" \/ (pc = "cleared" /\ k = NoKey)
    OBVIOUS
  <2>3. refused \in BOOLEAN
    BY DEF Fresh, Sent, Preflight
  <2>4. /\ send' = [send EXCEPT ![s] = r] /\ UNCHANGED <<post, rows, bulk>>
        /\ u \in Parties(c)
    BY <2>1 DEF BeginSend
  <2> HIDE DEF pc, refused
  <2>5. r \in Request
    BY <2>2, <2>3, TypeArrival
  <2>6. r.pc = pc /\ r.user = u /\ r.conversation = c /\ r.key = k
    BY IdleType DEF Request
  <2> HIDE DEF r
  <2>7. /\ r.pc = "begun" \/ (r.pc = "cleared" /\ r.key = NoKey)
        /\ r.user \in Parties(r.conversation)
    BY <2>2, <2>4, <2>6
  <2> QED BY <2>4, <2>5, <2>7, MoveKeeps
<1>8. CASE CommitSend(s) \/ FailSend(s)
  BY <1>3, <1>8 DEF CommitSend, FailSend, EndSend, rows
<1> QED BY <1>4, <1>5, <1>6, <1>7, <1>8 DEF SendStep

\* The commit of a message: its number is the next one, and no other request
\* holds the row it counts in or the client id it uses up.
LEMMA CommitKeeps ==
  ASSUME ChatInv, NEW s \in Senders, CommitSend(s), ~UNCHANGED rows
  PROVE  ChatInv'
<1> DEFINE c == send[s].conversation
           m == Written(s)
           row == [conversation[c] EXCEPT !.made = TRUE, !.last = m.sequence,
                     !.version = send[s].version + 1, !.hidden = {}]
<1>1. /\ TypeOK /\ Numbered /\ RowLocks /\ KeyLocks /\ PostLocks /\ ReadIsPrefix
      /\ send \in [Senders -> Request] /\ messages \subseteq Message
      /\ conversation \in [Conversations -> Conversation]
  BY DEF ChatInv, TypeOK
<1>2. /\ c \in Conversations /\ send[s].key \in Keys \cup {NoKey} /\ send[s].pc = "locked"
      /\ conversation[c] \in Conversation
  BY <1>1 DEF Request, CommitSend
<1>3. /\ conversation[c].last \in Nat
      /\ \A u \in Users : conversation[c].read[u] \in Nat
  BY <1>2 DEF Conversation, Watermarks
<1>4. /\ send' = [send EXCEPT ![s] = Idle] /\ UNCHANGED <<post, bulk>>
      /\ messages' = messages \cup {m} /\ conversation' = [conversation EXCEPT ![c] = row]
  BY DEF CommitSend, EndSend, Save
<1>5. /\ m.conversation = c /\ m.sequence = conversation[c].last + 1
      /\ m.sender = send[s].user /\ m.key = send[s].key /\ m.isRead = FALSE
      /\ m.sender \in Parties(c)
  BY <1>1, <1>2 DEF Written, RowLocks
<1>6. /\ row.last = conversation[c].last + 1 /\ row.read = conversation[c].read
  BY <1>2, <1>5 DEF Conversation
<1>7. /\ conversation'[c] = row
      /\ \A d \in Conversations \ {c} : conversation'[d] = conversation[d]
      /\ send'[s].pc = "idle" /\ \A t \in Senders \ {s} : send'[t] = send[t]
      /\ \A t \in Senders : send[t].conversation \in Conversations
      /\ \A n \in messages : n.conversation \in Conversations
  BY <1>1, <1>2, <1>4 DEF Request, Message, Idle
<1> HIDE DEF m, row, c
<1>8. TypeOK'
  BY <1>1, TypeSend DEF SendStep
<1>9. Numbered'
  <2> SUFFICES ASSUME NEW n \in messages'
               PROVE  /\ n.sender \in Parties(n.conversation)
                      /\ n.sequence <= conversation'[n.conversation].last
    BY DEF Numbered, Parties
  <2>1. CASE n = m
    BY <1>3, <1>5, <1>6, <1>7, <2>1
  <2>2. CASE n \in messages
    <3>1. /\ n.sender \in Parties(n.conversation) /\ n.sequence \in Nat
          /\ n.sequence <= conversation[n.conversation].last
      BY <1>1, <2>2 DEF Numbered, Message
    <3> QED BY <1>3, <1>6, <1>7, <2>2, <3>1
  <2> QED BY <1>4, <2>1, <2>2
<1>10. RowLocks'
  <2>1. ASSUME NEW t \in Senders \ {s}, send[t].pc = "locked"
        PROVE  send[t].conversation # c
    BY <1>1, <1>2, <2>1 DEF RowLocks, HoldsRow, c
  <2> QED BY <1>1, <1>4, <1>7, <2>1 DEF RowLocks, HoldsRow, Parties
<1>11. KeyLocks'
  <2>1. ASSUME NEW t \in Senders \ {s}, HoldsKey(t)
        PROVE  ~(m.sender = send[t].user /\ m.key = send[t].key)
    BY <1>1, <1>2, <1>5, <2>1 DEF KeyLocks, HoldsKey
  <2> QED BY <1>1, <1>4, <1>7, <2>1 DEF KeyLocks, HoldsKey, Sent
<1>12. PostLocks'
  BY <1>1, <1>4, <1>7 DEF PostLocks, HoldsPost
<1>13. ReadIsPrefix'
  <2>1. ASSUME NEW d \in Conversations
        PROVE  /\ conversation'[d].read = conversation[d].read
               /\ conversation'[d].last >= conversation[d].last
    <3>1. conversation[d].last \in Nat
      BY <1>1 DEF Conversation
    <3> QED BY <1>6, <1>7, <3>1
  <2>2. ASSUME NEW d \in Conversations, NEW u \in Parties(d)
        PROVE  conversation'[d].read[u] <= conversation'[d].last
    <3>1. u \in Users
      BY PartyType
    <3>2. conversation[d].read[u] \in Nat /\ conversation[d].last \in Nat
      BY <1>1, <3>1 DEF Conversation, Watermarks
    <3>3. conversation'[d].last \in Nat
      BY <1>8 DEF TypeOK, Conversation
    <3>4. conversation[d].read[u] <= conversation[d].last
      BY <1>1 DEF ReadIsPrefix
    <3> QED BY <2>1, <3>2, <3>3, <3>4
  <2>3. ASSUME NEW d \in Conversations, NEW n \in messages', n.conversation = d
        PROVE  n.isRead <=> n.sequence <= conversation'[d].read[Other(d, n.sender)]
    <3>1. CASE n \in messages
      BY <1>1, <2>1, <2>3, <3>1 DEF ReadIsPrefix
    <3>2. CASE n = m
      <4>1. Other(c, m.sender) \in Parties(c) /\ Other(c, m.sender) \in Users
        BY <1>2, <1>5, PartyType
      <4>2. conversation[c].read[Other(c, m.sender)] <= conversation[c].last
        BY <1>1, <1>2, <4>1 DEF ReadIsPrefix
      <4>3. conversation[c].read[Other(c, m.sender)] \in Nat
        BY <1>3, <4>1
      <4>4. d = c
        BY <1>5, <2>3, <3>2
      <4> QED BY <1>3, <1>5, <2>1, <3>2, <4>2, <4>3, <4>4
    <3> QED BY <1>4, <3>1, <3>2
  <2> QED BY <2>2, <2>3 DEF ReadIsPrefix, Parties, Other
<1> QED BY <1>8, <1>9, <1>10, <1>11, <1>12, <1>13 DEF ChatInv

-----------------------------------------------------------------------------
(* The read marks *)

\* Steps that leave messages, watermarks and counters alone keep the marks right.
LEMMA MarksStay ==
  ASSUME TypeOK, ReadIsPrefix, UNCHANGED messages,
         \A d \in Conversations :
           /\ conversation'[d].read = conversation[d].read
           /\ conversation'[d].last = conversation[d].last
  PROVE  ReadIsPrefix'
<1>1. \A d \in Conversations : \A u \in Parties(d) :
        conversation'[d].read[u] <= conversation'[d].last
  BY DEF ReadIsPrefix
<1>2. \A d \in Conversations : \A m \in messages' : m.conversation = d =>
        (m.isRead <=> m.sequence <= conversation'[d].read[Other(d, m.sender)])
  BY DEF ReadIsPrefix
<1> QED BY <1>1, <1>2 DEF ReadIsPrefix, Parties, Other

\* Reading up to a message marks the incoming ones up to it, and no others.
LEMMA MarkedIsPrefix ==
  ASSUME TypeOK, Numbered, ReadIsPrefix, NEW c \in Conversations, NEW u \in Users,
         NEW target, MarkAsRead(u, c, target)
  PROVE  ReadIsPrefix'
<1> DEFINE old == conversation[c].read[u]
           through == IF target > old THEN target ELSE old
           marked == {m \in Incoming(c, u) : m.sequence <= through}
           reads == [conversation[c].read EXCEPT ![u] = through]
           row == [conversation[c] EXCEPT !.read = reads,
                                          !.version = conversation[c].version + 1]
<1>1. /\ conversation[c] \in Conversation /\ messages \subseteq Message
      /\ conversation \in [Conversations -> Conversation]
  BY DEF TypeOK
<1>2. /\ conversation[c].last \in Nat /\ conversation[c].read \in Watermarks /\ old \in Nat
      /\ \A w \in Users : conversation[c].read[w] \in Nat
  BY <1>1 DEF Conversation, Watermarks
<1>3. /\ u \in Parties(c) /\ target \in 1 .. conversation[c].last
      /\ messages' = (messages \ marked) \cup {[m EXCEPT !.isRead = TRUE] : m \in marked}
      /\ conversation' = [conversation EXCEPT ![c] = row]
  BY DEF MarkAsRead, Save
<1>4. old <= conversation[c].last
  BY <1>3 DEF ReadIsPrefix
<1>5. through \in Nat /\ old <= through /\ through <= conversation[c].last
  BY <1>2, <1>3, <1>4
<1>6. /\ row.read = reads /\ row.last = conversation[c].last
      /\ reads[u] = through /\ \A w \in Users \ {u} : reads[w] = conversation[c].read[w]
  BY <1>1, <1>2 DEF Conversation, Watermarks
<1>7. /\ conversation'[c] = row
      /\ \A d \in Conversations \ {c} : conversation'[d] = conversation[d]
  BY <1>1, <1>3
<1> HIDE DEF row, reads, through, old
<1>8. ASSUME NEW d \in Conversations, NEW w \in Parties(d)
      PROVE  conversation'[d].read[w] <= conversation'[d].last
  <2>1. w \in Users /\ conversation[d].read[w] <= conversation[d].last
    BY PartyType DEF ReadIsPrefix
  <2> QED BY <1>5, <1>6, <1>7, <2>1
<1>9. ASSUME NEW n \in messages, NEW d \in Conversations, n.conversation = d
      PROVE  /\ n.sender \in Parties(d) /\ n.sequence \in Nat
             /\ Other(d, n.sender) \in Users
             /\ n.isRead <=> n.sequence <= conversation[d].read[Other(d, n.sender)]
             /\ n.isRead \in BOOLEAN
  BY <1>1, <1>9, PartyType DEF Numbered, ReadIsPrefix, Message
<1>10. ASSUME NEW n \in messages, n \notin marked, NEW d \in Conversations, n.conversation = d
       PROVE  n.isRead <=> n.sequence <= conversation'[d].read[Other(d, n.sender)]
  <2>1. CASE d # c \/ Other(d, n.sender) # u
    BY <1>6, <1>7, <1>9, <1>10, <2>1
  <2>2. CASE d = c /\ Other(d, n.sender) = u
    <3>1. n.sender # u
      BY <1>9, <1>10, <2>2, PartyType
    <3>2. n.isRead \/ ~(n.sequence <= through)
      BY <1>10, <2>2, <3>1 DEF Incoming
    <3>3. n.isRead => n.sequence <= old
      BY <1>9, <1>10, <2>2 DEF old
    <3>4. n.sequence \in Nat
      BY <1>9, <1>10
    <3>5. n.isRead => n.sequence <= through
      BY <1>2, <1>5, <3>3, <3>4
    <3>6. conversation'[d].read[Other(d, n.sender)] = through
      BY <1>6, <1>7, <2>2
    <3> QED BY <3>2, <3>5, <3>6
  <2> QED BY <2>1, <2>2
<1>11. ASSUME NEW n \in marked
       PROVE  LET m == [n EXCEPT !.isRead = TRUE]
              IN  /\ m.isRead = TRUE /\ m.conversation = c
                  /\ m.sequence <= conversation'[c].read[Other(c, m.sender)]
  <2>1. n \in messages /\ n.conversation = c /\ n.sender # u /\ n.sequence <= through
    BY DEF Incoming
  <2>2. Other(c, n.sender) = u
    BY <1>3, <1>9, <2>1, PartyType
  <2>3. conversation'[c].read[u] = through
    BY <1>6, <1>7
  <2>4. n \in Message
    BY <1>1, <2>1
  <2> DEFINE m == [n EXCEPT !.isRead = TRUE]
  <2>5. m.isRead = TRUE /\ m.conversation = c /\ m.sender = n.sender /\ m.sequence = n.sequence
    BY <2>1, <2>4 DEF Message
  <2> HIDE DEF m
  <2>6. m.sequence <= conversation'[c].read[Other(c, m.sender)]
    BY <2>1, <2>2, <2>3, <2>5
  <2> QED BY <2>5, <2>6 DEF m
<1> HIDE DEF marked
<1>12. ASSUME NEW d \in Conversations, NEW n \in messages', n.conversation = d
       PROVE  n.isRead <=> n.sequence <= conversation'[d].read[Other(d, n.sender)]
  <2>1. CASE n \in messages /\ n \notin marked
    BY <1>10, <1>12, <2>1
  <2>2. CASE \E m \in marked : n = [m EXCEPT !.isRead = TRUE]
    <3>1. PICK m \in marked : n = [m EXCEPT !.isRead = TRUE]
      BY <2>2
    <3>2. /\ n.isRead = TRUE /\ n.conversation = c
          /\ n.sequence <= conversation'[c].read[Other(c, n.sender)]
      BY <1>11, <3>1
    <3> QED BY <1>12, <3>2
  <2> QED BY <1>3, <2>1, <2>2
<1> QED BY <1>8, <1>12 DEF ReadIsPrefix, Parties, Other

\* Steps of a conversation keep the marks right.
LEMMA PrefixConversation ==
  ASSUME TypeOK, Numbered, ReadIsPrefix, NEW c \in Conversations, ConversationStep(c)
  PROVE  ReadIsPrefix'
<1>1. /\ conversation \in [Conversations -> Conversation]
      /\ conversation[c] \in Conversation
  BY DEF TypeOK
<1>2. ASSUME NEW row, Save(c, row), UNCHANGED messages,
             row.last = conversation[c].last, row.read = conversation[c].read
      PROVE  ReadIsPrefix'
  BY <1>1, <1>2, MarksStay DEF Save
<1>3. CASE OpenConversation(c)
  <2> DEFINE row == IF Buyer[c] \in conversation[c].hidden
                      THEN [conversation[c] EXCEPT !.hidden = @ \ {Buyer[c]},
                                                   !.version = @ + 1]
                      ELSE [conversation[c] EXCEPT !.made = TRUE]
  <2>1. row.last = conversation[c].last /\ row.read = conversation[c].read
    BY <1>1 DEF Conversation
  <2>2. Save(c, row) /\ UNCHANGED messages
    BY <1>3 DEF OpenConversation
  <2> HIDE DEF row
  <2> QED BY <1>2, <2>1, <2>2
<1>4. CASE Lapse(c) \/ Withdraw(c) \/ Renew(c)
  BY <1>4, MarksStay DEF Lapse, Withdraw, Renew, rows
<1>5. ASSUME NEW u \in Users, DeleteConversation(u, c) PROVE ReadIsPrefix'
  <2> DEFINE changed == u \notin conversation[c].hidden \/ unread[u][c] # NoNotice
             row == [conversation[c] EXCEPT !.hidden = @ \cup {u},
                                            !.version = IF changed THEN @ + 1 ELSE @]
  <2>1. row.last = conversation[c].last /\ row.read = conversation[c].read
    BY <1>1 DEF Conversation
  <2>2. Save(c, row) /\ UNCHANGED messages
    BY <1>5 DEF DeleteConversation
  <2> HIDE DEF row
  <2> QED BY <1>2, <2>1, <2>2
<1>6. ASSUME NEW u \in Users, MarkOneAsRead(u, c) PROVE ReadIsPrefix'
  <2> DEFINE row == [conversation[c] EXCEPT !.version = @ + 1]
  <2>1. row.last = conversation[c].last /\ row.read = conversation[c].read
    BY <1>1 DEF Conversation
  <2>2. Save(c, row) /\ UNCHANGED messages
    BY <1>6 DEF MarkOneAsRead
  <2> HIDE DEF row
  <2> QED BY <1>2, <2>1, <2>2
<1>7. ASSUME NEW u \in Users, NEW target, MarkAsRead(u, c, target) PROVE ReadIsPrefix'
  BY <1>7, MarkedIsPrefix
<1> QED BY <1>3, <1>4, <1>5, <1>6, <1>7 DEF ConversationStep

\* Reading all notifications leaves the marks of the messages alone.
LEMMA PrefixReadAll ==
  ASSUME TypeOK, ReadIsPrefix, NEW u \in Users, ReadAllStep(u)
  PROVE  ReadIsPrefix'
<1>1. CASE BeginReadAll(u) \/ LockNext(u) \/ FailReadAll(u)
  BY <1>1, MarksStay DEF BeginReadAll, LockNext, FailReadAll, rows
<1>2. CASE CommitReadAll(u)
  <2> DEFINE cs == StillUnread(u)
  <2>1. /\ conversation' = [c \in Conversations |->
             IF c \in cs THEN [conversation[c] EXCEPT !.version = @ + 1] ELSE conversation[c]]
        /\ UNCHANGED messages
    BY <1>2 DEF CommitReadAll
  <2> HIDE DEF cs
  <2>2. ASSUME NEW c \in Conversations
        PROVE  /\ conversation'[c].read = conversation[c].read
               /\ conversation'[c].last = conversation[c].last
    BY <2>1 DEF TypeOK, Conversation
  <2> QED BY <2>1, <2>2, MarksStay
<1> QED BY <1>1, <1>2 DEF ReadAllStep

-----------------------------------------------------------------------------
(* The theorems *)

\* The empty tables satisfy the inductive invariant.
LEMMA ChatInvInit == Init => ChatInv
<1> SUFFICES ASSUME Init PROVE ChatInv
  OBVIOUS
<1>1. TypeOK
  BY TypeInit
<1>2. \A s \in Senders : send[s].pc = "idle"
  BY DEF Init, Idle
<1>3. \A c \in Conversations : \A u \in Parties(c) :
        conversation[c].read[u] <= conversation[c].last
  BY PartyType DEF Init
<1>4. messages = {}
  BY DEF Init
<1>5. Numbered /\ ReadIsPrefix
  BY <1>3, <1>4 DEF Numbered, ReadIsPrefix
<1>6. RowLocks /\ KeyLocks /\ PostLocks
  BY <1>2 DEF RowLocks, KeyLocks, PostLocks, HoldsKey, HoldsPost
<1> QED BY <1>1, <1>5, <1>6 DEF ChatInv

\* Every step keeps the inductive invariant.
LEMMA ChatInvNext == ChatInv /\ [Next]_vars => ChatInv'
<1> SUFFICES ASSUME ChatInv, [Next]_vars PROVE ChatInv'
  OBVIOUS
<1>1. TypeOK /\ Numbered /\ RowLocks /\ ReadIsPrefix
  BY DEF ChatInv
<1>2. TypeOK'
  BY <1>1, TypeNext
<1>3. ASSUME NEW s \in Senders, SendStep(s) PROVE ChatInv'
  <2>1. CASE CommitSend(s) /\ ~UNCHANGED rows
    BY <2>1, CommitKeeps
  <2>2. CASE ~(CommitSend(s) /\ ~UNCHANGED rows)
    BY <1>3, <2>2, SendMoves
  <2> QED BY <2>1, <2>2
<1>4. ASSUME NEW u \in Users, ReadAllStep(u) PROVE ChatInv'
  BY <1>1, <1>2, <1>4, ReadAllFrame, FrameKeeps, PrefixReadAll DEF ChatInv
<1>5. ASSUME NEW c \in Conversations, ConversationStep(c) PROVE ChatInv'
  BY <1>1, <1>2, <1>5, ConversationFrame, FrameKeeps, PrefixConversation DEF ChatInv
<1>6. CASE UNCHANGED vars
  <2>1. Frame
    BY <1>6 DEF vars, rows, Frame
  <2>2. ReadIsPrefix'
    BY <1>1, <1>6, MarksStay DEF vars, rows
  <2> QED BY <1>2, <2>1, <2>2, FrameKeeps DEF ChatInv
<1> QED BY <1>3, <1>4, <1>5, <1>6, PartyAssumption DEF Next

\* Every lock of a request protects what it was taken for, in every reachable
\* state of any number of conversations and requests.
THEOREM ChatInvariant == Spec => []ChatInv
BY ChatInvInit, ChatInvNext, PTL DEF Spec

\* Type correctness of the conversations.
THEOREM ConversationsTypeCorrect == Spec => []TypeOK
<1>1. ChatInv => TypeOK
  BY DEF ChatInv
<1> QED BY <1>1, ChatInvariant, PTL

\* A request that has locked the client id and the row of its conversation can
\* write its message: the unique indexes on the sequence number and on the
\* sender's client id never stop it.
THEOREM SendsNeverCollide == Spec => []NeverCollides
<1>1. ChatInv => NeverCollides
  <2> SUFFICES ASSUME ChatInv, NEW s \in Senders, send[s].pc = "locked"
               PROVE  ~Collides(Written(s))
    BY DEF NeverCollides
  <2> DEFINE c == send[s].conversation
  <2>1. /\ send[s].last = conversation[c].last /\ conversation[c].last \in Nat
        /\ \A n \in messages : n.sequence \in Nat
    BY DEF ChatInv, TypeOK, RowLocks, Request, Conversation, Message
  <2>2. ASSUME NEW n \in messages, n.conversation = c
        PROVE  n.sequence # send[s].last + 1
    <3>1. n.sequence <= conversation[c].last
      BY <2>2 DEF ChatInv, Numbered
    <3> QED BY <2>1, <3>1
  <2>3. Fresh(send[s].user, send[s].key)
    BY DEF ChatInv, KeyLocks, HoldsKey, Fresh
  <2> QED BY <2>2, <2>3 DEF Collides, Written
<1> QED BY <1>1, ChatInvariant, PTL

\* The read marks of the messages agree with the watermarks of the parties.
THEOREM ReadMarksAgree == Spec => []ReadIsPrefix
<1>1. ChatInv => ReadIsPrefix
  BY DEF ChatInv
<1> QED BY <1>1, ChatInvariant, PTL

\* No message is written from a post that was sold, removed or hidden while the
\* request was on its way.
THEOREM MessagesWrittenOnOffer == Spec => WrittenOnOffer
<1>1. ChatInv => [\A s \in Senders :
        (/\ send[s].pc = "locked" /\ send[s].viaPost
         /\ Written(s) \in messages' \ messages)
          => post[send[s].conversation] # "gone"]_vars
  BY DEF ChatInv, PostLocks, HoldsPost
<1> QED BY <1>1, ChatInvariant, PTL DEF WrittenOnOffer

-----------------------------------------------------------------------------
(* Requests waiting for each other *)

\* A reader that takes its next lock, begins or ends keeps its locks in order.
LEMMA OrderKept ==
  ASSUME TypeOK, LockOrder, NEW u \in Users, NEW b \in Bulk,
         bulk' = [bulk EXCEPT ![u] = b], \A c \in b.locked, d \in b.todo : c < d
  PROVE  LockOrder'
<1> DEFINE S == {w \in Users : bulk[w] # NoBulk}
           T == {w \in Users : bulk'[w] # NoBulk}
<1>1. /\ bulk \in [Users -> Bulk] /\ bulk'[u] = b
      /\ \A w \in Users \ {u} : bulk'[w] = bulk[w]
  BY DEF TypeOK
<1>2. T \in SUBSET (S \cup {u})
  BY <1>1
<1>3. IsFiniteSet(S)
  BY DEF LockOrder
<1> HIDE DEF S, T
<1>4. IsFiniteSet(S \cup {u})
  BY <1>3, FS_AddElement
<1>5. IsFiniteSet(T)
  BY <1>2, <1>4, FS_Subset
<1>6. \A w \in Users : \A c \in bulk'[w].locked, d \in bulk'[w].todo : c < d
  BY <1>1 DEF LockOrder
<1> QED BY <1>5, <1>6 DEF LockOrder, T

\* The locks are taken in the order of the identifiers.
LEMMA OrderNext ==
  ASSUME TypeOK, LockOrder, [Next]_vars PROVE LockOrder'
<1>1. CASE UNCHANGED bulk
  BY <1>1 DEF LockOrder
<1>2. ASSUME NEW u \in Users, ReadAllStep(u) PROVE LockOrder'
  <2>1. bulk[u] \in Bulk /\ NoBulk \in Bulk
    BY DEF TypeOK, Bulk, NoBulk
  <2>2. CASE bulk' = [bulk EXCEPT ![u] = NoBulk]
    BY <2>1, <2>2, OrderKept DEF NoBulk
  <2>3. CASE BeginReadAll(u)
    <3> DEFINE b == [todo |-> {c \in Conversations : unread[u][c] # NoNotice}, locked |-> {}]
    <3>1. b \in Bulk /\ \A c \in b.locked, d \in b.todo : c < d
      BY DEF Bulk
    <3>2. bulk' = [bulk EXCEPT ![u] = b]
      BY <2>3 DEF BeginReadAll
    <3> HIDE DEF b
    <3> QED BY <3>1, <3>2, OrderKept
  <2>4. CASE LockNext(u)
    <3>1. PICK c \in NextToLock(u) :
            bulk' = [bulk EXCEPT ![u] = [todo |-> @.todo \ {c}, locked |-> @.locked \cup {c}]]
      BY <2>4 DEF LockNext
    <3> DEFINE b == [todo |-> bulk[u].todo \ {c}, locked |-> bulk[u].locked \cup {c}]
    <3>2. /\ c \in bulk[u].todo /\ \A d \in bulk[u].todo : c <= d
          /\ bulk[u].todo \subseteq Nat
      BY <2>1, <3>1, PartyAssumption DEF NextToLock, Bulk
    <3>3. b \in Bulk
      BY <2>1, <3>2 DEF Bulk
    <3>4. b.todo = bulk[u].todo \ {c} /\ b.locked = bulk[u].locked \cup {c}
      OBVIOUS
    <3>5. bulk' = [bulk EXCEPT ![u] = b]
      BY <2>1, <3>1
    <3> HIDE DEF b
    <3>6. ASSUME NEW e \in b.locked, NEW d \in b.todo PROVE e < d
      <4>1. d \in bulk[u].todo /\ d # c
        BY <3>4
      <4>2. CASE e = c
        BY <3>2, <4>1, <4>2
      <4>3. CASE e \in bulk[u].locked
        BY <4>1, <4>3 DEF LockOrder
      <4> QED BY <3>4, <4>2, <4>3
    <3> QED BY <3>3, <3>5, <3>6, OrderKept
  <2> QED BY <1>2, <2>2, <2>3, <2>4 DEF ReadAllStep, CommitReadAll, FailReadAll
<1>3. ASSUME NEW s \in Senders, SendStep(s) PROVE UNCHANGED bulk
  <2>1. LockKey(s) \/ SharePost(s) \/ LockRow(s) \/ CommitSend(s) \/ FailSend(s)
          => UNCHANGED bulk
    BY Zenon DEF LockKey, SharePost, LockRow, CommitSend, FailSend
  <2>2. \A c, u, viaPost, k : BeginSend(s, u, c, viaPost, k) => UNCHANGED bulk
    BY Zenon DEF BeginSend
  <2> QED BY <1>3, <2>1, <2>2 DEF SendStep
<1>4. ASSUME NEW c \in Conversations, ConversationStep(c) PROVE UNCHANGED bulk
  <2>1. OpenConversation(c) \/ Lapse(c) \/ Withdraw(c) \/ Renew(c) => UNCHANGED bulk
    BY Zenon DEF OpenConversation, Lapse, Withdraw, Renew
  <2>2. \A u : DeleteConversation(u, c) \/ MarkOneAsRead(u, c) => UNCHANGED bulk
    BY Zenon DEF DeleteConversation, MarkOneAsRead
  <2>3. \A u, target : MarkAsRead(u, c, target) => UNCHANGED bulk
    BY Zenon DEF MarkAsRead
  <2> QED BY <1>4, <2>1, <2>2, <2>3 DEF ConversationStep
<1> QED BY <1>1, <1>2, <1>3, <1>4, PartyAssumption DEF Next, vars

\* A finite, nonempty set whose elements carry natural numbers has an element
\* with the largest.
LEMMA LargestExists ==
  ASSUME NEW S, IsFiniteSet(S), S # {}, NEW f \in [S -> Nat]
  PROVE  \E x \in S : \A y \in S : f[y] <= f[x]
<1> DEFINE above(x) == {y \in S : f[x] < f[y]}
           N == {Cardinality(above(x)) : x \in S}
<1>1. ASSUME NEW x \in S
      PROVE  IsFiniteSet(above(x)) /\ Cardinality(above(x)) \in Nat
  BY FS_Subset, FS_CardinalityType
<1>2. N \subseteq Nat /\ N # {}
  BY <1>1
<1>3. PICK n \in N : \A k \in N : n <= k
  BY <1>2, LeastNatural
<1>4. PICK x \in S : n = Cardinality(above(x))
  OBVIOUS
<1>5. ASSUME NEW y \in S, f[x] < f[y] PROVE FALSE
  <2>1. f[x] \in Nat /\ f[y] \in Nat
    OBVIOUS
  <2>2. above(y) \in SUBSET above(x) /\ y \in above(x) /\ y \notin above(y)
    BY <1>5, <2>1
  <2>3. Cardinality(above(x)) <= Cardinality(above(y))
    BY <1>3, <1>4
  <2> HIDE DEF above
  <2>4. Cardinality(above(x)) = Cardinality(above(y))
    BY <1>1, <2>2, <2>3, FS_Subset
  <2>5. above(x) = above(y)
    BY <1>1, <2>2, <2>4, FS_Subset
  <2> QED BY <2>2, <2>5
<1> QED BY <1>5

\* A reader waits for its lowest conversation, which lies above all it holds:
\* so whoever waits for the highest waits for no reader that waits.
LEMMA NobodyInACircle ==
  ASSUME TypeOK, LockOrder, NEW ps \in SUBSET Waiting, ps # {}
  PROVE  \E x \in ps : \A y \in ps : ~Waits(x, y)
<1>1. /\ \A s \in Senders : s \notin Users
      /\ ps \subseteq Requests
  BY PartyAssumption DEF Waiting, Requests
<1>2. ASSUME NEW s \in Senders, s \in ps
      PROVE  send[s].pc # "locked"
  BY <1>1, <1>2 DEF Waiting, Waits
<1>3. ASSUME NEW x \in Users, x \in ps PROVE NextToLock(x) # {}
  BY <1>1, <1>3 DEF Waiting, Waits
<1>4. CASE ps \cap Users # {}
  <2> DEFINE R == ps \cap Users
             at == [x \in R |-> CHOOSE c \in NextToLock(x) : TRUE]
  <2>1. ASSUME NEW x \in R
        PROVE  /\ at[x] \in NextToLock(x) /\ \A c \in NextToLock(x) : c = at[x]
               /\ at[x] \in bulk[x].todo /\ at[x] \in Nat /\ bulk[x] # NoBulk
    <3>1. at[x] \in NextToLock(x)
      BY <1>3
    <3>2. bulk[x] \in Bulk
      BY DEF TypeOK
    <3>3. bulk[x].todo \subseteq Nat
      BY <3>2, PartyAssumption DEF Bulk
    <3> HIDE DEF at
    <3>4. \A c \in NextToLock(x) : c = at[x]
      BY <3>1, <3>3 DEF NextToLock
    <3>5. at[x] \in bulk[x].todo
      BY <3>1 DEF NextToLock
    <3> QED BY <3>1, <3>3, <3>4, <3>5 DEF NoBulk
  <2>2. IsFiniteSet(R)
    <3>1. R \in SUBSET {u \in Users : bulk[u] # NoBulk}
      BY <2>1
    <3>2. IsFiniteSet({u \in Users : bulk[u] # NoBulk})
      BY DEF LockOrder
    <3> QED BY <3>1, <3>2, FS_Subset
  <2>3. at \in [R -> Nat]
    BY <2>1
  <2> HIDE DEF at
  <2>4. PICK x \in R : \A y \in R : at[y] <= at[x]
    BY <1>4, <2>2, <2>3, LargestExists
  <2>5. ASSUME NEW y \in ps, Waits(x, y) PROVE FALSE
    <3>1. x \in Users /\ x \notin Senders
      BY <1>1
    <3>2. CASE y \in Senders /\ \E c \in NextToLock(x) : HoldsRow(y, c)
      BY <1>2, <3>2 DEF HoldsRow
    <3>3. CASE y \in Users /\ \E c \in NextToLock(x) : c \in bulk[y].locked
      <4>1. y \in R /\ at[x] \in bulk[y].locked
        BY <2>1, <3>3
      <4>2. at[x] < at[y]
        BY <2>1, <4>1 DEF LockOrder
      <4>3. at[y] <= at[x] /\ at[x] \in Nat /\ at[y] \in Nat
        BY <2>1, <2>4, <4>1
      <4> QED BY <4>2, <4>3
    <3> QED BY <2>5, <3>1, <3>2, <3>3 DEF Waits
  <2> QED BY <2>5
<1>5. CASE ps \cap Users = {} /\ \E s \in ps : send[s].pc # "begun"
  <2>1. PICK s \in ps : send[s].pc # "begun"
    BY <1>5
  <2>2. ASSUME NEW y \in ps, Waits(s, y) PROVE FALSE
    BY <1>1, <1>2, <1>5, <2>1, <2>2 DEF Waits, Requests, HoldsRow
  <2> QED BY <2>2
<1>6. CASE ps \cap Users = {} /\ \A s \in ps : send[s].pc = "begun"
  <2>1. PICK s \in ps : TRUE
    OBVIOUS
  <2>2. ASSUME NEW y \in ps, Waits(s, y) PROVE FALSE
    <3>1. y \in Senders /\ s \in Senders /\ send[s].pc = "begun" /\ send[y].pc = "begun"
      BY <1>1, <1>6 DEF Requests
    <3> QED BY <1>1, <2>2, <3>1 DEF Waits, HoldsKey, HoldsRow
  <2> QED BY <2>1, <2>2
<1> QED BY <1>4, <1>5, <1>6

-----------------------------------------------------------------------------
(* What the steps write *)

\* Setting one notification leaves the others alone.
LEMMA NotifyOne ==
  ASSUME TypeOK, NEW u \in Users, NEW c \in Conversations, NEW n, Notify(u, c, n)
  PROVE  /\ unread'[u][c] = n
         /\ \A w \in Users, d \in Conversations :
              w # u \/ d # c => unread'[w][d] = unread[w][d]
<1> DEFINE row == [unread[u] EXCEPT ![c] = n]
<1>1. unread \in [Users -> [Conversations -> Notice \cup {NoNotice}]]
  BY DEF TypeOK
<1>2. row[c] = n /\ \A d \in Conversations : d # c => row[d] = unread[u][d]
  BY <1>1
<1>3. unread' = [unread EXCEPT ![u] = row]
  BY DEF Notify
<1> HIDE DEF row
<1> QED BY <1>1, <1>2, <1>3

\* The commit of a message writes the next number, one version, and one
\* notification.
LEMMA CommitWrites ==
  ASSUME ChatInv, NEW s \in Senders, CommitSend(s), ~UNCHANGED rows
  PROVE  \E c \in Conversations, m \in Message :
         /\ messages' = messages \cup {m}
         /\ m.conversation = c /\ m.sequence = conversation[c].last + 1
         /\ ~m.isRead /\ m.sender \in Parties(c)
         /\ m.key # NoKey => ~Sent(m.sender, m.key)
         /\ \A d \in Conversations \ {c} : conversation'[d] = conversation[d]
         /\ conversation'[c].last = m.sequence
         /\ conversation'[c].version = conversation[c].version + 1
         /\ conversation'[c].read = conversation[c].read
         /\ conversation'[c].hidden = {}
         /\ Notify(Other(c, m.sender), c, [sequence |-> m.sequence,
                                           version |-> conversation[c].version + 1])
         /\ Push(Parties(c), c)
<1> PICK c, m : c = send[s].conversation /\ m = Written(s)
  OBVIOUS
<1> DEFINE v == send[s].version + 1
           row == [conversation[c] EXCEPT !.made = TRUE, !.last = m.sequence,
                                          !.version = v, !.hidden = {}]
<1>1. /\ TypeOK /\ RowLocks /\ KeyLocks
      /\ send \in [Senders -> Request]
      /\ conversation \in [Conversations -> Conversation]
  BY DEF ChatInv, TypeOK
<1>2. send[s] \in Request /\ send[s].pc = "locked"
  BY <1>1 DEF CommitSend
<1>3. c \in Conversations /\ conversation[c] \in Conversation
  BY <1>1, <1>2 DEF Request
<1>4. /\ send[s].last = conversation[c].last /\ v = conversation[c].version + 1
      /\ send[s].user \in Parties(c)
  BY <1>1, <1>2 DEF RowLocks
<1>5. m \in Message /\ m.conversation = c /\ m.sequence = conversation[c].last + 1
      /\ ~m.isRead /\ m.sender = send[s].user /\ m.key = send[s].key
  BY <1>2, <1>4 DEF Written, Request, Message
<1>6. m.key # NoKey => ~Sent(m.sender, m.key)
  BY <1>1, <1>2, <1>5 DEF KeyLocks, HoldsKey
<1>7. /\ messages' = messages \cup {m} /\ conversation' = [conversation EXCEPT ![c] = row]
      /\ Notify(Other(c, m.sender), c, [sequence |-> m.sequence, version |-> v])
      /\ Push(Parties(c), c)
  BY DEF CommitSend, Save
<1>8. /\ row.last = m.sequence /\ row.version = v /\ row.hidden = {}
      /\ row.read = conversation[c].read
  BY <1>3 DEF Conversation
<1> HIDE DEF row, v
<1>9. /\ conversation'[c] = row
      /\ \A d \in Conversations \ {c} : conversation'[d] = conversation[d]
  BY <1>1, <1>3, <1>7
<1> QED BY <1>3, <1>4, <1>5, <1>6, <1>7, <1>8, <1>9

\* Reading marks what has come in up to the watermark, and writes one version.
LEMMA ReadWrites ==
  ASSUME ChatInv, NEW c \in Conversations, NEW u \in Users, NEW target,
         MarkAsRead(u, c, target)
  PROVE  /\ u \in Parties(c)
         /\ \A d \in Conversations \ {c} : conversation'[d] = conversation[d]
         /\ conversation'[c].last = conversation[c].last
         /\ conversation'[c].version = conversation[c].version + 1
         /\ conversation'[c].hidden = conversation[c].hidden
         /\ Push(Parties(c), c)
         /\ \E through \in conversation[c].read[u] .. conversation[c].last :
              LET marked == {m \in Incoming(c, u) : m.sequence <= through} IN
              /\ conversation'[c].read = [conversation[c].read EXCEPT ![u] = through]
              /\ messages' = (messages \ marked)
                               \cup {[m EXCEPT !.isRead = TRUE] : m \in marked}
              /\ Notify(u, c, Reconciled(u, c, Incoming(c, u) \ marked,
                                         conversation[c].version + 1))
<1> DEFINE old == conversation[c].read[u]
           through == IF target > old THEN target ELSE old
           marked == {m \in Incoming(c, u) : m.sequence <= through}
           reads == [conversation[c].read EXCEPT ![u] = through]
           row == [conversation[c] EXCEPT !.read = reads,
                                          !.version = conversation[c].version + 1]
<1>1. /\ TypeOK /\ ReadIsPrefix /\ conversation \in [Conversations -> Conversation]
      /\ conversation[c] \in Conversation
  BY DEF ChatInv, TypeOK
<1>2. conversation[c].last \in Nat /\ old \in Nat
  BY <1>1 DEF Conversation, Watermarks
<1>3. /\ u \in Parties(c) /\ target \in 1 .. conversation[c].last
      /\ messages' = (messages \ marked) \cup {[m EXCEPT !.isRead = TRUE] : m \in marked}
      /\ conversation' = [conversation EXCEPT ![c] = row]
      /\ Notify(u, c, Reconciled(u, c, Incoming(c, u) \ marked, conversation[c].version + 1))
      /\ Push(Parties(c), c)
  BY DEF MarkAsRead, Save
<1>4. old <= conversation[c].last
  BY <1>1, <1>3 DEF ReadIsPrefix
<1>5. through \in old .. conversation[c].last
  BY <1>2, <1>3, <1>4
<1>6. /\ row.read = reads /\ row.last = conversation[c].last
      /\ row.hidden = conversation[c].hidden /\ row.version = conversation[c].version + 1
  BY <1>1 DEF Conversation
<1> HIDE DEF row
<1>7. /\ conversation'[c] = row
      /\ \A d \in Conversations \ {c} : conversation'[d] = conversation[d]
  BY <1>1, <1>3
<1> HIDE DEF through, old
<1> QED BY <1>3, <1>5, <1>6, <1>7 DEF old

\* What all the other steps may do: no message and no watermark changes; a
\* notification can only go, and whoever puts a conversation away has none;
\* where anything else changes, the version does.
Quiet ==
  /\ UNCHANGED messages
  /\ \A d \in Conversations :
       /\ conversation'[d].last = conversation[d].last
       /\ conversation'[d].read = conversation[d].read
       /\ \/ conversation'[d].version = conversation[d].version + 1
          \/ /\ conversation'[d].version = conversation[d].version
             /\ conversation'[d].hidden = conversation[d].hidden
             /\ \A u \in Users : unread'[u][d] = unread[u][d]
       /\ \A u \in Users :
            /\ unread'[u][d] = unread[u][d] \/ unread'[u][d] = NoNotice
            /\ u \in conversation'[d].hidden =>
                 u \in conversation[d].hidden \/ unread'[u][d] = NoNotice
  /\ \A x \in wire' : x \in wire \/ \E u \in Users, d \in Conversations : x = Snapshot(u, d)'

\* Where the tables stay as they are, nothing needs a new version.
LEMMA QuietRows == UNCHANGED rows => Quiet
BY DEF rows, Quiet

\* Opening, deleting, reading one notification, and the changes of a post.
LEMMA QuietConversation ==
  ASSUME TypeOK, NEW c \in Conversations, ConversationStep(c),
         \A u \in Users, target \in 1 .. MaxMessages : ~MarkAsRead(u, c, target)
  PROVE  Quiet
<1>1. /\ conversation \in [Conversations -> Conversation]
      /\ conversation[c] \in Conversation
      /\ conversation[c].version \in Nat
  BY DEF TypeOK, Conversation
<1>2. ASSUME NEW row, Save(c, row), UNCHANGED <<messages, unread, wire>>,
             row.last = conversation[c].last, row.read = conversation[c].read,
             row.hidden \subseteq conversation[c].hidden,
             \/ row.version = conversation[c].version + 1
             \/ row.version = conversation[c].version /\ row.hidden = conversation[c].hidden
      PROVE  Quiet
  BY <1>1, <1>2 DEF Save, Quiet
<1>3. CASE OpenConversation(c)
  <2>1. CASE Buyer[c] \in conversation[c].hidden
    <3> DEFINE row == [conversation[c] EXCEPT !.hidden = @ \ {Buyer[c]}, !.version = @ + 1]
    <3>1. /\ row.last = conversation[c].last /\ row.read = conversation[c].read
          /\ row.hidden \subseteq conversation[c].hidden
          /\ row.version = conversation[c].version + 1
      BY <1>1 DEF Conversation
    <3>2. Save(c, row) /\ UNCHANGED <<messages, unread, wire>>
      BY <1>3, <2>1 DEF OpenConversation
    <3> HIDE DEF row
    <3> QED BY <1>2, <3>1, <3>2
  <2>2. CASE Buyer[c] \notin conversation[c].hidden
    <3> DEFINE row == [conversation[c] EXCEPT !.made = TRUE]
    <3>1. /\ row.last = conversation[c].last /\ row.read = conversation[c].read
          /\ row.hidden = conversation[c].hidden
          /\ row.version = conversation[c].version
      BY <1>1 DEF Conversation
    <3>2. Save(c, row) /\ UNCHANGED <<messages, unread, wire>>
      BY <1>3, <2>2 DEF OpenConversation
    <3> HIDE DEF row
    <3> QED BY <1>2, <3>1, <3>2
  <2> QED BY <2>1, <2>2
<1>4. CASE Lapse(c) \/ Withdraw(c) \/ Renew(c)
  BY <1>4, QuietRows DEF Lapse, Withdraw, Renew
\* One user's notification goes, and perhaps the conversation with it.
<1>5. ASSUME NEW u \in Users, NEW row, Save(c, row), Notify(u, c, NoNotice), Push({u}, c),
             UNCHANGED messages,
             row.last = conversation[c].last, row.read = conversation[c].read,
             \/ row.hidden = conversation[c].hidden
             \/ row.hidden = conversation[c].hidden \cup {u},
             \/ row.version = conversation[c].version + 1
             \/ /\ row.version = conversation[c].version
                /\ row.hidden = conversation[c].hidden /\ unread[u][c] = NoNotice
      PROVE  Quiet
  <2>1. /\ conversation'[c] = row
        /\ \A d \in Conversations \ {c} : conversation'[d] = conversation[d]
    BY <1>1, <1>5 DEF Save
  <2>2. /\ unread'[u][c] = NoNotice
        /\ \A w \in Users, d \in Conversations :
             w # u \/ d # c => unread'[w][d] = unread[w][d]
    BY <1>5, NotifyOne
  <2>3. \A x \in wire' : x \in wire \/ x = Snapshot(u, c)'
    BY <1>5 DEF Push
  <2>4. \A d \in Conversations :
          /\ conversation'[d].last = conversation[d].last
          /\ conversation'[d].read = conversation[d].read
    BY <1>5, <2>1
  <2>5. \A d \in Conversations :
          \/ conversation'[d].version = conversation[d].version + 1
          \/ /\ conversation'[d].version = conversation[d].version
             /\ conversation'[d].hidden = conversation[d].hidden
             /\ \A w \in Users : unread'[w][d] = unread[w][d]
    BY <1>5, <2>1, <2>2
  <2>6. \A d \in Conversations : \A w \in Users :
          /\ unread'[w][d] = unread[w][d] \/ unread'[w][d] = NoNotice
          /\ w \in conversation'[d].hidden =>
               w \in conversation[d].hidden \/ unread'[w][d] = NoNotice
    BY <1>5, <2>1, <2>2
  <2> QED BY <1>5, <2>3, <2>4, <2>5, <2>6 DEF Quiet
<1>6. ASSUME NEW u \in Users, DeleteConversation(u, c) PROVE Quiet
  <2> DEFINE changed == u \notin conversation[c].hidden \/ unread[u][c] # NoNotice
             v == IF changed THEN conversation[c].version + 1 ELSE conversation[c].version
             h == conversation[c].hidden \cup {u}
             row == [conversation[c] EXCEPT !.hidden = h, !.version = v]
  <2>1. /\ row.last = conversation[c].last /\ row.read = conversation[c].read
        /\ row.hidden = h /\ row.version = v
    BY <1>1 DEF Conversation
  <2>2. Save(c, row) /\ Notify(u, c, NoNotice) /\ Push({u}, c) /\ UNCHANGED messages
    BY <1>6 DEF DeleteConversation
  <2>3. \/ v = conversation[c].version + 1
        \/ /\ v = conversation[c].version
           /\ h = conversation[c].hidden /\ unread[u][c] = NoNotice
    OBVIOUS
  <2> HIDE DEF row, v, h
  <2>4. row.hidden = conversation[c].hidden \cup {u}
    BY <2>1 DEF h
  <2> QED BY <1>5, <2>1, <2>2, <2>3, <2>4
<1>7. ASSUME NEW u \in Users, MarkOneAsRead(u, c) PROVE Quiet
  <2> DEFINE row == [conversation[c] EXCEPT !.version = @ + 1]
  <2>1. /\ row.last = conversation[c].last /\ row.read = conversation[c].read
        /\ row.hidden = conversation[c].hidden /\ row.version = conversation[c].version + 1
    BY <1>1 DEF Conversation
  <2>2. Save(c, row) /\ Notify(u, c, NoNotice) /\ Push({u}, c) /\ UNCHANGED messages
    BY <1>7 DEF MarkOneAsRead
  <2> HIDE DEF row
  <2> QED BY <1>5, <2>1, <2>2
<1> QED BY <1>3, <1>4, <1>6, <1>7 DEF ConversationStep

\* Reading all notifications.
LEMMA QuietReadAll ==
  ASSUME TypeOK, NEW u \in Users, ReadAllStep(u) PROVE Quiet
<1>1. CASE BeginReadAll(u) \/ LockNext(u) \/ FailReadAll(u)
  BY <1>1, QuietRows DEF BeginReadAll, LockNext, FailReadAll
<1>2. CASE CommitReadAll(u)
  <2> DEFINE cs == StillUnread(u)
             row == [c \in Conversations |-> IF c \in cs THEN NoNotice ELSE unread[u][c]]
  <2>1. /\ unread' = [unread EXCEPT ![u] = row]
        /\ conversation' = [c \in Conversations |->
             IF c \in cs THEN [conversation[c] EXCEPT !.version = @ + 1] ELSE conversation[c]]
        /\ wire' = wire \cup {Snapshot(u, c)' : c \in cs}
        /\ UNCHANGED messages
    BY <1>2 DEF CommitReadAll
  <2>2. cs \subseteq Conversations
    BY DEF StillUnread, TypeOK, Bulk
  <2> HIDE DEF cs
  <2>3. ASSUME NEW c \in Conversations
        PROVE  /\ conversation'[c].last = conversation[c].last
               /\ conversation'[c].read = conversation[c].read
               /\ conversation'[c].hidden = conversation[c].hidden
               /\ conversation'[c].version =
                    IF c \in cs THEN conversation[c].version + 1 ELSE conversation[c].version
    BY <2>1 DEF TypeOK, Conversation
  <2>4. /\ \A d \in Conversations :
             unread'[u][d] = (IF d \in cs THEN NoNotice ELSE unread[u][d])
        /\ \A w \in Users \ {u} : unread'[w] = unread[w]
    BY <2>1 DEF TypeOK
  <2>5. \A x \in wire' : x \in wire \/ \E d \in Conversations : x = Snapshot(u, d)'
    BY <2>1, <2>2
  <2> HIDE DEF row
  <2>6. ASSUME NEW d \in Conversations
        PROVE  /\ \/ conversation'[d].version = conversation[d].version + 1
                  \/ /\ conversation'[d].version = conversation[d].version
                     /\ conversation'[d].hidden = conversation[d].hidden
                     /\ \A w \in Users : unread'[w][d] = unread[w][d]
               /\ \A w \in Users :
                    unread'[w][d] = unread[w][d] \/ unread'[w][d] = NoNotice
    BY <2>3, <2>4
  <2> QED BY <2>1, <2>3, <2>5, <2>6 DEF Quiet
<1> QED BY <1>1, <1>2 DEF ReadAllStep

\* Every step commits a message, or reads some, or is quiet.
LEMMA StepsWrite ==
  ASSUME TypeOK, [Next]_vars
  PROVE  \/ \E s \in Senders : CommitSend(s) /\ ~UNCHANGED rows
         \/ \E c \in Conversations, u \in Users, target \in 1 .. MaxMessages :
              MarkAsRead(u, c, target)
         \/ Quiet
<1>1. ASSUME NEW s \in Senders, SendStep(s), ~(CommitSend(s) /\ ~UNCHANGED rows)
      PROVE  UNCHANGED rows
  <2>1. LockKey(s) \/ SharePost(s) \/ LockRow(s) \/ FailSend(s) => UNCHANGED rows
    BY Zenon DEF LockKey, SharePost, LockRow, FailSend
  <2>2. \A c, u, viaPost, k : BeginSend(s, u, c, viaPost, k) => UNCHANGED rows
    BY Zenon DEF BeginSend
  <2> QED BY <1>1, <2>1, <2>2 DEF SendStep
<1>2. ASSUME NEW u \in Users, ReadAllStep(u) PROVE Quiet
  BY <1>2, QuietReadAll
<1>3. ASSUME NEW c \in Conversations, ConversationStep(c),
             \A u \in Users, target \in 1 .. MaxMessages : ~MarkAsRead(u, c, target)
      PROVE  Quiet
  BY <1>3, QuietConversation
<1>4. UNCHANGED vars => UNCHANGED rows
  BY DEF vars
<1> QED BY <1>1, <1>2, <1>3, <1>4, QuietRows, PartyAssumption DEF Next

-----------------------------------------------------------------------------
(* Numbers, notifications and versions *)

\* The newest of some messages is the one no other is above.
LEMMA NewestIs ==
  ASSUME NEW ms \in SUBSET Message, NEW m \in ms, \A n \in ms : n.sequence <= m.sequence
  PROVE  Newest(ms).sequence = m.sequence
<1>1. m.sequence \in Nat
  BY DEF Message
<1>2. Newest(ms) \in ms /\ \A n \in ms : n.sequence <= Newest(ms).sequence
  BY <1>1, NewestExists
<1>3. Newest(ms).sequence \in Nat
  BY <1>2 DEF Message
<1> QED BY <1>1, <1>2, <1>3

\* What a snapshot shows changes only with what it is taken of.
LEMMA SnapshotStays ==
  ASSUME NEW u, NEW c,
         conversation'[c].version = conversation[c].version,
         conversation'[c].last = conversation[c].last,
         conversation'[c].read = conversation[c].read,
         conversation'[c].hidden = conversation[c].hidden,
         unread'[u][c] = unread[u][c], Incoming(c, u)' = Incoming(c, u)
  PROVE  Snapshot(u, c)' = Snapshot(u, c)
BY DEF Snapshot

\* A version names one state when every change of a snapshot writes a version,
\* and what is pushed is taken of the state that is committed.
LEMMA VersionsKept ==
  ASSUME TypeOK, TypeOK', OneStatePerVersion,
         \A d \in Conversations :
           \/ conversation'[d].version = conversation[d].version + 1
           \/ /\ conversation'[d].version = conversation[d].version
              /\ \A u \in Users : Snapshot(u, d)' = Snapshot(u, d),
         \A x \in wire' :
           x \in wire \/ \E u \in Users, d \in Conversations : x = Snapshot(u, d)'
  PROVE  OneStatePerVersion'
<1> SUFFICES ASSUME NEW x \in wire'
             PROVE  /\ x.version \in 0 .. conversation'[x.conversation].version
                    /\ x.version = conversation'[x.conversation].version
                         => x = Snapshot(x.user, x.conversation)'
  BY DEF OneStatePerVersion, Snapshot, Incoming
<1>1. \A d \in Conversations :
        conversation[d].version \in Nat /\ conversation'[d].version \in Nat
  BY DEF TypeOK, Conversation
<1>2. CASE x \in wire
  <2>1. /\ x.user \in Users /\ x.conversation \in Conversations
        /\ x.version \in 0 .. conversation[x.conversation].version
        /\ x.version = conversation[x.conversation].version
             => x = Snapshot(x.user, x.conversation)
    BY <1>2 DEF TypeOK, OneStatePerVersion
  <2>2. CASE conversation'[x.conversation].version = conversation[x.conversation].version + 1
    BY <1>1, <2>1, <2>2
  <2>3. CASE /\ conversation'[x.conversation].version = conversation[x.conversation].version
             /\ \A u \in Users : Snapshot(u, x.conversation)' = Snapshot(u, x.conversation)
    BY <2>1, <2>3
  <2> QED BY <2>1, <2>2, <2>3
<1>3. CASE \E u \in Users, d \in Conversations : x = Snapshot(u, d)'
  <2>1. PICK u \in Users, d \in Conversations : x = Snapshot(u, d)'
    BY <1>3
  <2>2. x.user = u /\ x.conversation = d /\ x.version = conversation'[d].version
    BY <2>1 DEF Snapshot
  <2> QED BY <1>1, <2>1, <2>2
<1> QED BY <1>2, <1>3

\* What is asked of one notification.
NoticeRight(u, c) ==
  unread[u][c] # NoNotice =>
    /\ u \in Parties(c)
    /\ Incoming(c, u) # {}
    /\ unread[u][c].sequence = Newest(Incoming(c, u)).sequence
    /\ unread[u][c].version <= conversation[c].version
    /\ u \notin conversation[c].hidden

\* That is what the two invariants ask of all.
LEMMA NoticesRight ==
  /\ NoticesOfParties /\ NoticeIsNewest
       <=> \A u \in Users, c \in Conversations : NoticeRight(u, c)
  /\ (NoticesOfParties /\ NoticeIsNewest)'
       <=> \A u \in Users, c \in Conversations : NoticeRight(u, c)'
<1>1. NoticesOfParties /\ NoticeIsNewest
        <=> \A u \in Users, c \in Conversations : NoticeRight(u, c)
  BY Zenon DEF NoticesOfParties, NoticeIsNewest, NoticeRight
<1>2. (NoticesOfParties /\ NoticeIsNewest)'
        <=> \A u \in Users, c \in Conversations : NoticeRight(u, c)'
  BY Zenon DEF NoticesOfParties, NoticeIsNewest, NoticeRight
<1> QED BY <1>1, <1>2

\* A notification stays right while the messages it counts are the same.
LEMMA NoticeStays ==
  ASSUME TypeOK, NEW u \in Users, NEW c \in Conversations, NoticeRight(u, c),
         unread'[u][c] = unread[u][c], Incoming(c, u)' = Incoming(c, u),
         \/ conversation'[c].version = conversation[c].version
         \/ conversation'[c].version = conversation[c].version + 1,
         u \in conversation'[c].hidden =>
           u \in conversation[c].hidden \/ unread'[u][c] = NoNotice
  PROVE  NoticeRight(u, c)'
<1> SUFFICES ASSUME unread'[u][c] # NoNotice PROVE NoticeRight(u, c)'
  BY DEF NoticeRight
<1>1. /\ u \in Parties(c) /\ Incoming(c, u) # {}
      /\ unread[u][c].sequence = Newest(Incoming(c, u)).sequence
      /\ unread[u][c].version <= conversation[c].version
      /\ u \notin conversation[c].hidden
  BY DEF NoticeRight
<1>2. unread[u][c].version \in Nat /\ conversation[c].version \in Nat
  BY DEF TypeOK, Conversation, Notice
<1>3. unread'[u][c].version <= conversation'[c].version
  BY <1>1, <1>2
<1> QED BY <1>1, <1>3 DEF NoticeRight, Parties

\* A quiet step keeps the numbers, the notifications and the versions right.
LEMMA QuietKeeps ==
  ASSUME ConversationInv, TypeOK', Quiet
  PROVE  Gapless' /\ NoticesOfParties' /\ NoticeIsNewest' /\ OneStatePerVersion'
<1>1. /\ TypeOK /\ Gapless /\ OneStatePerVersion
      /\ \A u \in Users, c \in Conversations : NoticeRight(u, c)
  BY NoticesRight DEF ConversationInv, ChatInv
<1>2. \A u, c : Incoming(c, u)' = Incoming(c, u)
  BY DEF Quiet, Incoming
<1>3. Gapless'
  BY <1>1 DEF Quiet, Gapless
<1>4. ASSUME NEW u \in Users, NEW c \in Conversations PROVE NoticeRight(u, c)'
  <2>1. CASE unread'[u][c] = NoNotice
    BY <2>1 DEF NoticeRight
  <2>2. CASE unread'[u][c] = unread[u][c]
    BY <1>1, <1>2, <2>2, NoticeStays DEF Quiet
  <2> QED BY <2>1, <2>2 DEF Quiet
<1>5. ASSUME NEW d \in Conversations
      PROVE  \/ conversation'[d].version = conversation[d].version + 1
             \/ /\ conversation'[d].version = conversation[d].version
                /\ \A u \in Users : Snapshot(u, d)' = Snapshot(u, d)
  <2>1. CASE /\ conversation'[d].version = conversation[d].version
             /\ conversation'[d].hidden = conversation[d].hidden
             /\ \A u \in Users : unread'[u][d] = unread[u][d]
    BY <1>2, <2>1, SnapshotStays DEF Quiet
  <2> QED BY <2>1 DEF Quiet
<1>6. OneStatePerVersion'
  BY <1>1, <1>5, VersionsKept DEF Quiet
<1> QED BY <1>3, <1>4, <1>6, NoticesRight

\* So does the commit of a message: its number is new, and the notification of
\* its recipient speaks of it.
LEMMA CommitKeepsAll ==
  ASSUME ConversationInv, TypeOK', NEW s \in Senders, CommitSend(s), ~UNCHANGED rows
  PROVE  Gapless' /\ NoticesOfParties' /\ NoticeIsNewest' /\ OneStatePerVersion'
<1>1. /\ ChatInv /\ TypeOK /\ Numbered /\ Gapless /\ OneStatePerVersion
      /\ \A u \in Users, d \in Conversations : NoticeRight(u, d)
  BY NoticesRight DEF ConversationInv, ChatInv
<1>2. PICK c \in Conversations, m \in Message :
        /\ messages' = messages \cup {m}
        /\ m.conversation = c /\ m.sequence = conversation[c].last + 1
        /\ ~m.isRead /\ m.sender \in Parties(c)
        /\ \A d \in Conversations \ {c} : conversation'[d] = conversation[d]
        /\ conversation'[c].last = m.sequence
        /\ conversation'[c].version = conversation[c].version + 1
        /\ conversation'[c].hidden = {}
        /\ Notify(Other(c, m.sender), c, [sequence |-> m.sequence,
                                          version |-> conversation[c].version + 1])
        /\ Push(Parties(c), c)
  BY <1>1, CommitWrites
<1> PICK w, n : /\ w = Other(c, m.sender)
                /\ n = [sequence |-> m.sequence, version |-> conversation[c].version + 1]
  OBVIOUS
<1>3. /\ w \in Parties(c) /\ w # m.sender /\ w \in Users
      /\ \A u \in Parties(c) : u = w \/ u = m.sender
      /\ Parties(c) \subseteq Users
  BY <1>2, PartyType
<1>4. n.sequence = m.sequence /\ n.version = conversation[c].version + 1 /\ n # NoNotice
  <2>1. m.sequence \in Nat /\ conversation[c].version + 1 \in Nat
    BY <1>1, <1>2 DEF TypeOK, Conversation, Message
  <2> QED BY <2>1, KeyAssumption
<1>5. /\ unread'[w][c] = n
      /\ \A u \in Users, d \in Conversations :
           u # w \/ d # c => unread'[u][d] = unread[u][d]
  BY <1>1, <1>2, <1>3, NotifyOne
<1>6. /\ \A u, d : d # c \/ u = m.sender => Incoming(d, u)' = Incoming(d, u)
      /\ Incoming(c, w)' = Incoming(c, w) \cup {m}
  <2>1. ASSUME NEW u, NEW d, d # c \/ u = m.sender
        PROVE  Incoming(d, u)' = Incoming(d, u)
    <3>1. Incoming(d, u)' \subseteq Incoming(d, u)
      BY <1>2, <2>1 DEF Incoming
    <3>2. Incoming(d, u) \subseteq Incoming(d, u)'
      BY <1>2 DEF Incoming
    <3> QED BY <3>1, <3>2
  <2>2. Incoming(c, w)' \subseteq Incoming(c, w) \cup {m}
    BY <1>2 DEF Incoming
  <2>3. Incoming(c, w) \cup {m} \subseteq Incoming(c, w)'
    BY <1>2, <1>3 DEF Incoming
  <2> QED BY <2>1, <2>2, <2>3
<1>7. /\ \A k \in messages : /\ k.sequence \in Nat /\ k.conversation \in Conversations
                             /\ k.sequence <= conversation[k.conversation].last
      /\ \A d \in Conversations : conversation[d].last \in Nat
  BY <1>1 DEF TypeOK, Numbered, Message, Conversation
<1>8. Gapless'
  <2>1. ASSUME NEW d \in Conversations, NEW i \in 1 .. conversation'[d].last
        PROVE  \E k \in messages' : k.conversation = d /\ k.sequence = i
    <3>1. CASE i \in 1 .. conversation[d].last
      BY <1>1, <1>2, <3>1 DEF Gapless
    <3>2. CASE i \notin 1 .. conversation[d].last
      <4>1. d = c /\ i = m.sequence
        BY <1>2, <1>7, <3>2
      <4> QED BY <1>2, <4>1
    <3> QED BY <3>1, <3>2
  <2>2. ASSUME NEW k \in messages, k.conversation = c, k.sequence = m.sequence
        PROVE  FALSE
    <3>1. k.sequence <= conversation[c].last
      BY <1>7, <2>2
    <3> QED BY <1>2, <1>7, <2>2, <3>1
  <2>3. ASSUME NEW k \in messages', NEW l \in messages',
               k.conversation = l.conversation, k.sequence = l.sequence
        PROVE  k = l
    BY <1>1, <1>2, <2>2, <2>3 DEF Gapless
  <2> QED BY <2>1, <2>3 DEF Gapless
<1>9. NoticeRight(w, c)'
  <2>1. Incoming(c, w)' \in SUBSET Message /\ m \in Incoming(c, w)'
    BY <1>1, <1>2, <1>3, <1>6, IncomingType
  <2>2. \A k \in Incoming(c, w)' : k.sequence <= m.sequence
    <3>1. \A k \in Incoming(c, w) : k \in messages /\ k.conversation = c
      BY DEF Incoming
    <3> QED BY <1>2, <1>6, <1>7, <3>1
  <2>3. Newest(Incoming(c, w)').sequence = m.sequence
    BY <2>1, <2>2, NewestIs
  <2>4. conversation'[c].version \in Nat
    BY <1>2 DEF TypeOK, Conversation
  <2>5. unread'[w][c].version <= conversation'[c].version
    BY <1>2, <1>4, <1>5, <2>4
  <2> QED BY <1>2, <1>3, <1>4, <1>5, <2>1, <2>3, <2>5 DEF NoticeRight, Parties
<1>10. ASSUME NEW u \in Users, NEW d \in Conversations, u # w \/ d # c
       PROVE  NoticeRight(u, d)'
  <2>1. unread'[u][d] = unread[u][d] /\ NoticeRight(u, d)
    BY <1>1, <1>5, <1>10
  <2>2. CASE unread[u][d] = NoNotice
    BY <2>1, <2>2 DEF NoticeRight
  <2>3. CASE unread[u][d] # NoNotice
    <3>1. d = c => u = m.sender
      BY <1>3, <1>10, <2>1, <2>3 DEF NoticeRight
    <3>2. Incoming(d, u)' = Incoming(d, u)
      BY <1>6, <3>1
    <3> QED BY <1>1, <1>2, <2>1, <3>2, NoticeStays
  <2> QED BY <2>2, <2>3
<1>11. ASSUME NEW d \in Conversations
       PROVE  \/ conversation'[d].version = conversation[d].version + 1
              \/ /\ conversation'[d].version = conversation[d].version
                 /\ \A u \in Users : Snapshot(u, d)' = Snapshot(u, d)
  <2>1. CASE d = c
    BY <1>2, <2>1
  <2>2. CASE d # c
    BY <1>2, <1>5, <1>6, <2>2, SnapshotStays
  <2> QED BY <2>1, <2>2
<1>12. \A x \in wire' :
         x \in wire \/ \E u \in Users, d \in Conversations : x = Snapshot(u, d)'
  BY <1>2, <1>3 DEF Push
<1>13. OneStatePerVersion'
  BY <1>1, <1>11, <1>12, VersionsKept
<1>14. \A u \in Users, d \in Conversations : NoticeRight(u, d)'
  BY <1>9, <1>10
<1> QED BY <1>8, <1>13, <1>14, NoticesRight

\* So does reading: what is still unread, and newest, is what the reader is
\* told of, and the other party's messages are as they were.
LEMMA ReadKeepsAll ==
  ASSUME ConversationInv, TypeOK', NEW c \in Conversations, NEW u \in Users, NEW target,
         MarkAsRead(u, c, target)
  PROVE  Gapless' /\ NoticesOfParties' /\ NoticeIsNewest' /\ OneStatePerVersion'
<1>1. /\ ChatInv /\ TypeOK /\ Numbered /\ Gapless /\ OneStatePerVersion
      /\ messages \subseteq Message
      /\ \A w \in Users, d \in Conversations : NoticeRight(w, d)
  BY NoticesRight DEF ConversationInv, ChatInv, TypeOK
<1>2. /\ u \in Parties(c)
      /\ \A d \in Conversations \ {c} : conversation'[d] = conversation[d]
      /\ conversation'[c].last = conversation[c].last
      /\ conversation'[c].version = conversation[c].version + 1
      /\ conversation'[c].hidden = conversation[c].hidden
      /\ Push(Parties(c), c)
      /\ \E marked \in SUBSET Incoming(c, u) :
           /\ messages' = (messages \ marked) \cup {[m EXCEPT !.isRead = TRUE] : m \in marked}
           /\ Notify(u, c, Reconciled(u, c, Incoming(c, u) \ marked,
                                      conversation[c].version + 1))
  <2>1. PICK through \in conversation[c].read[u] .. conversation[c].last :
          LET marked == {m \in Incoming(c, u) : m.sequence <= through} IN
          /\ messages' = (messages \ marked) \cup {[m EXCEPT !.isRead = TRUE] : m \in marked}
          /\ Notify(u, c, Reconciled(u, c, Incoming(c, u) \ marked,
                                     conversation[c].version + 1))
    BY <1>1, ReadWrites
  <2> DEFINE marked == {m \in Incoming(c, u) : m.sequence <= through}
  <2>2. marked \in SUBSET Incoming(c, u)
    OBVIOUS
  <2>3. /\ messages' = (messages \ marked) \cup {[m EXCEPT !.isRead = TRUE] : m \in marked}
        /\ Notify(u, c, Reconciled(u, c, Incoming(c, u) \ marked,
                                   conversation[c].version + 1))
    BY <2>1
  <2> HIDE DEF marked
  <2> QED BY <1>1, <2>2, <2>3, ReadWrites
<1>3. PICK marked \in SUBSET Incoming(c, u) :
        /\ messages' = (messages \ marked) \cup {[m EXCEPT !.isRead = TRUE] : m \in marked}
        /\ Notify(u, c, Reconciled(u, c, Incoming(c, u) \ marked,
                                   conversation[c].version + 1))
  BY <1>2
<1> DEFINE rest == Incoming(c, u) \ marked
           v == conversation[c].version + 1
           n == Reconciled(u, c, rest, v)
           copies == {[m EXCEPT !.isRead = TRUE] : m \in marked}
<1>4. /\ unread'[u][c] = n
      /\ \A w \in Users, d \in Conversations :
           w # u \/ d # c => unread'[w][d] = unread[w][d]
  BY <1>1, <1>3, NotifyOne
<1>5. \A m \in marked : /\ m \in messages /\ m.conversation = c /\ m.sender # u
                        /\ m.sender \in Parties(c) /\ m \in Message
  BY <1>1 DEF Incoming, Numbered
<1>6. ASSUME NEW k \in copies
      PROVE  /\ k.isRead = TRUE
             /\ \E m \in marked : /\ k.conversation = m.conversation /\ k.sender = m.sender
                                  /\ k.sequence = m.sequence
                                  /\ k = [m EXCEPT !.isRead = TRUE]
  BY <1>5 DEF Message
<1>7. ASSUME NEW m \in marked
      PROVE  \E k \in copies : k.conversation = m.conversation /\ k.sequence = m.sequence
  <2>1. m \in Message
    BY <1>5
  <2>2. [m EXCEPT !.isRead = TRUE] \in copies
    OBVIOUS
  <2>3. /\ [m EXCEPT !.isRead = TRUE].conversation = m.conversation
        /\ [m EXCEPT !.isRead = TRUE].sequence = m.sequence
    BY <2>1 DEF Message
  <2> QED BY <2>2, <2>3
<1>8. messages' = (messages \ marked) \cup copies
  BY <1>3
<1> HIDE DEF copies
<1>9. Gapless'
  <2>1. ASSUME NEW d \in Conversations, NEW i \in 1 .. conversation'[d].last
        PROVE  \E k \in messages' : k.conversation = d /\ k.sequence = i
    <3>1. conversation'[d].last = conversation[d].last
      BY <1>2
    <3>2. PICK m \in messages : m.conversation = d /\ m.sequence = i
      BY <1>1, <3>1 DEF Gapless
    <3> QED BY <1>7, <1>8, <3>2
  <2>2. ASSUME NEW k \in messages', NEW l \in messages',
               k.conversation = l.conversation, k.sequence = l.sequence
        PROVE  k = l
    <3>1. ASSUME NEW i \in messages, NEW j \in messages,
                 i.conversation = j.conversation, i.sequence = j.sequence
          PROVE  i = j
      BY <1>1, <3>1 DEF Gapless
    <3> DEFINE after(i) == IF i \in marked THEN [i EXCEPT !.isRead = TRUE] ELSE i
    <3>2. ASSUME NEW j \in messages'
          PROVE  \E i \in messages : /\ j.conversation = i.conversation
                                     /\ j.sequence = i.sequence /\ j = after(i)
      <4>1. CASE j \in copies
        BY <1>5, <1>6, <4>1
      <4>2. CASE j \in messages /\ j \notin marked
        BY <4>2
      <4> QED BY <1>8, <4>1, <4>2
    <3> HIDE DEF after
    <3>3. PICK i \in messages : /\ k.conversation = i.conversation
                               /\ k.sequence = i.sequence /\ k = after(i)
      BY <3>2
    <3>4. PICK j \in messages : /\ l.conversation = j.conversation
                               /\ l.sequence = j.sequence /\ l = after(j)
      BY <3>2
    <3>5. i = j
      BY <2>2, <3>1, <3>3, <3>4
    <3> QED BY <3>3, <3>4, <3>5
  <2> QED BY <2>1, <2>2 DEF Gapless
<1>10. Incoming(c, u)' = rest
  <2>1. \A k \in Incoming(c, u)' : k \in messages /\ k \notin marked
    BY <1>6, <1>8 DEF Incoming
  <2>2. Incoming(c, u)' \subseteq rest
    BY <2>1 DEF Incoming
  <2>3. rest \subseteq Incoming(c, u)'
    BY <1>8 DEF Incoming
  <2> QED BY <2>2, <2>3
<1>11. ASSUME NEW w, NEW d, d # c \/ (w \in Parties(c) /\ w # u)
       PROVE  Incoming(d, w)' = Incoming(d, w)
  <2>1. ASSUME NEW m \in marked PROVE m.conversation # d \/ m.sender = w
    <3>1. CASE d # c
      BY <1>5, <3>1
    <3>2. CASE w \in Parties(c) /\ w # u
      <4>1. w = Other(c, u) /\ m.sender = Other(c, u)
        BY <1>2, <1>5, <3>2, PartyType
      <4> QED BY <4>1
    <3> QED BY <1>11, <3>1, <3>2
  <2>2. \A k \in copies : k \notin Incoming(d, w)'
    BY <1>6 DEF Incoming
  <2>3. \A m \in marked : m \notin Incoming(d, w)
    BY <2>1 DEF Incoming
  <2>4. Incoming(d, w)' \subseteq Incoming(d, w)
    BY <1>8, <2>2 DEF Incoming
  <2>5. Incoming(d, w) \subseteq Incoming(d, w)'
    BY <1>8, <2>3 DEF Incoming
  <2> QED BY <2>4, <2>5
<1>12. NoticeRight(u, c)'
  <2> SUFFICES ASSUME unread'[u][c] # NoNotice PROVE NoticeRight(u, c)'
    BY DEF NoticeRight
  <2>1. /\ unread[u][c] # NoNotice /\ rest # {}
        /\ \/ n = unread[u][c] /\ unread[u][c].sequence = Newest(rest).sequence
           \/ n = [sequence |-> Newest(rest).sequence, version |-> v]
    BY <1>4 DEF Reconciled
  <2>2. unread[u][c].version <= conversation[c].version /\ u \notin conversation[c].hidden
    BY <1>1, <2>1 DEF NoticeRight
  <2>3. unread[u][c].version \in Nat /\ conversation[c].version \in Nat
    BY <1>1, <2>1 DEF TypeOK, Conversation, Notice
  <2> HIDE DEF rest, n
  <2>4. n.sequence = Newest(rest).sequence /\ n.version <= v
    BY <2>1, <2>2, <2>3
  <2> QED BY <1>2, <1>4, <1>10, <2>1, <2>2, <2>4 DEF NoticeRight, Parties
<1>13. ASSUME NEW w \in Users, NEW d \in Conversations, w # u \/ d # c
       PROVE  NoticeRight(w, d)'
  <2>1. unread'[w][d] = unread[w][d] /\ NoticeRight(w, d)
    BY <1>1, <1>4, <1>13
  <2>2. CASE unread[w][d] = NoNotice
    BY <2>1, <2>2 DEF NoticeRight
  <2>3. CASE unread[w][d] # NoNotice
    <3>1. w \in Parties(d)
      BY <2>1, <2>3 DEF NoticeRight
    <3>2. Incoming(d, w)' = Incoming(d, w)
      BY <1>11, <1>13, <3>1
    <3> QED BY <1>1, <1>2, <2>1, <3>2, NoticeStays
  <2> QED BY <2>2, <2>3
<1>14. ASSUME NEW d \in Conversations
       PROVE  \/ conversation'[d].version = conversation[d].version + 1
              \/ /\ conversation'[d].version = conversation[d].version
                 /\ \A w \in Users : Snapshot(w, d)' = Snapshot(w, d)
  <2>1. CASE d = c
    BY <1>2, <2>1
  <2>2. CASE d # c
    BY <1>2, <1>4, <1>11, <2>2, SnapshotStays
  <2> QED BY <2>1, <2>2
<1>15. \A x \in wire' :
         x \in wire \/ \E w \in Users, d \in Conversations : x = Snapshot(w, d)'
  BY <1>2, PartyType DEF Push
<1>16. OneStatePerVersion'
  BY <1>1, <1>14, <1>15, VersionsKept
<1>17. \A w \in Users, d \in Conversations : NoticeRight(w, d)'
  BY <1>12, <1>13
<1> QED BY <1>9, <1>16, <1>17, NoticesRight

\* Every step keeps the numbers, the notifications and the versions right, and
\* the locks of the readers in order.
LEMMA ConversationInvNext == ConversationInv /\ [Next]_vars => ConversationInv'
<1> SUFFICES ASSUME ConversationInv, [Next]_vars PROVE ConversationInv'
  OBVIOUS
<1>1. ChatInv /\ TypeOK /\ LockOrder
  BY DEF ConversationInv, ChatInv
<1>2. ChatInv' /\ TypeOK'
  BY <1>1, ChatInvNext DEF ChatInv
<1>3. LockOrder'
  BY <1>1, OrderNext
<1>4. Gapless' /\ NoticesOfParties' /\ NoticeIsNewest' /\ OneStatePerVersion'
  BY <1>1, <1>2, StepsWrite, CommitKeepsAll, ReadKeepsAll, QuietKeeps
<1> QED BY <1>2, <1>3, <1>4 DEF ConversationInv

\* The empty tables satisfy it.
LEMMA ConversationInvInit == Init => ConversationInv
<1> SUFFICES ASSUME Init PROVE ConversationInv
  OBVIOUS
<1>1. ChatInv
  BY ChatInvInit
<1>2. /\ messages = {} /\ wire = {}
      /\ \A c \in Conversations : conversation[c].last = 0
      /\ \A u \in Users, c \in Conversations : unread[u][c] = NoNotice
      /\ \A u \in Users : bulk[u] = NoBulk
  BY DEF Init
<1>3. LockOrder
  <2>1. {u \in Users : bulk[u] # NoBulk} = {}
    BY <1>2
  <2>2. IsFiniteSet({u \in Users : bulk[u] # NoBulk})
    BY <2>1, FS_EmptySet
  <2> QED BY <1>2, <2>2 DEF LockOrder, NoBulk
<1>4. Gapless
  BY <1>2 DEF Gapless
<1>5. NoticesOfParties /\ NoticeIsNewest /\ OneStatePerVersion
  BY <1>2 DEF NoticesOfParties, NoticeIsNewest, OneStatePerVersion
<1> QED BY <1>1, <1>3, <1>4, <1>5 DEF ConversationInv

-----------------------------------------------------------------------------
(* The log of a conversation *)

Entry == [sender : Users, key : Keys \cup {NoKey}]

EntryOf(m) == [sender |-> m.sender, key |-> m.key]

\* The first n of the messages ms of c, in the order of their numbers.
Entries(ms, c, n) ==
  [i \in 1 .. n |->
    LET m == CHOOSE k \in ms : k.conversation = c /\ k.sequence = i
    IN  [sender |-> m.sender, key |-> m.key]]

\* That is what the log of a conversation is made of, before and after a step.
LEMMA LogIsEntries ==
  ASSUME NEW c
  PROVE  /\ LogOf(c) = Entries(messages, c, conversation[c].last)
         /\ LogOf(c)' = Entries(messages', c, conversation'[c].last)
BY DEF LogOf, Entries

\* The entry at a number is that of the one message that has it.
LEMMA EntryAt ==
  ASSUME NEW ms, NEW c, NEW n, NEW i \in 1 .. n, NEW m \in ms,
         m.conversation = c, m.sequence = i,
         \A k, l \in ms :
           k.conversation = l.conversation /\ k.sequence = l.sequence => k = l
  PROVE  Entries(ms, c, n)[i] = EntryOf(m)
<1>1. (CHOOSE k \in ms : k.conversation = c /\ k.sequence = i) = m
  OBVIOUS
<1> QED BY <1>1 DEF Entries, EntryOf

\* The log of a conversation is a sequence as long as its counter says.
LEMMA LogType ==
  ASSUME TypeOK, Gapless, NEW c \in Conversations
  PROVE  /\ conversation[c].last \in Nat
         /\ LogOf(c) \in Seq(Entry) /\ Len(LogOf(c)) = conversation[c].last
         /\ DOMAIN LogOf(c) = 1 .. conversation[c].last
         /\ \A i \in 1 .. conversation[c].last : \E m \in messages :
              m.conversation = c /\ m.sequence = i /\ LogOf(c)[i] = EntryOf(m)
<1> DEFINE n == conversation[c].last
<1>1. n \in Nat
  BY DEF TypeOK, Conversation
<1>2. LogOf(c) = Entries(messages, c, n)
  BY LogIsEntries
<1> HIDE DEF n
<1>3. ASSUME NEW i \in 1 .. n
      PROVE  \E m \in messages : /\ m.conversation = c /\ m.sequence = i
                                 /\ Entries(messages, c, n)[i] = EntryOf(m)
  <2>1. PICK m \in messages : m.conversation = c /\ m.sequence = i
    BY DEF Gapless, n
  <2>2. Entries(messages, c, n)[i] = EntryOf(m)
    BY <2>1, EntryAt DEF Gapless
  <2> QED BY <2>1, <2>2
<1>4. \A m \in messages : EntryOf(m) \in Entry
  BY DEF TypeOK, Message, EntryOf, Entry
<1>5. Entries(messages, c, n) \in [1 .. n -> Entry]
  <2>1. \A i \in 1 .. n : Entries(messages, c, n)[i] \in Entry
    BY <1>3, <1>4
  <2> QED BY <2>1 DEF Entries
<1>6. Entries(messages, c, n) \in Seq(Entry) /\ Len(Entries(messages, c, n)) = n
  BY <1>1, <1>5
<1> QED BY <1>1, <1>2, <1>3, <1>5, <1>6 DEF n

\* The log stays when every message is still there, read or not.
LEMMA LogStays ==
  ASSUME TypeOK, Gapless, Gapless', NEW c \in Conversations,
         conversation'[c].last = conversation[c].last,
         \A m \in messages : m.conversation = c =>
           \E k \in messages' : /\ k.conversation = c /\ k.sequence = m.sequence
                                /\ k.sender = m.sender /\ k.key = m.key
  PROVE  LogOf(c)' = LogOf(c)
<1> DEFINE n == conversation[c].last
<1>1. /\ LogOf(c) = Entries(messages, c, n) /\ LogOf(c)' = Entries(messages', c, n)
  BY LogIsEntries
<1> HIDE DEF n
<1>2. ASSUME NEW i \in 1 .. n
      PROVE  Entries(messages', c, n)[i] = Entries(messages, c, n)[i]
  <2>1. PICK m \in messages : m.conversation = c /\ m.sequence = i
    BY DEF Gapless, n
  <2>2. PICK k \in messages' : /\ k.conversation = c /\ k.sequence = m.sequence
                               /\ k.sender = m.sender /\ k.key = m.key
    BY <2>1
  <2>3. Entries(messages, c, n)[i] = EntryOf(m)
    BY <2>1, EntryAt DEF Gapless
  <2>4. Entries(messages', c, n)[i] = EntryOf(k)
    BY <2>1, <2>2, EntryAt DEF Gapless
  <2> QED BY <2>2, <2>3, <2>4 DEF EntryOf
<1>3. Entries(messages', c, n) = Entries(messages, c, n)
  <2>1. /\ Entries(messages', c, n) = [i \in 1 .. n |-> Entries(messages', c, n)[i]]
        /\ Entries(messages, c, n) = [i \in 1 .. n |-> Entries(messages, c, n)[i]]
    BY DEF Entries
  <2> QED BY <1>2, <2>1
<1> QED BY <1>1, <1>3

\* A message that is committed is appended to the log.
LEMMA LogGrows ==
  ASSUME TypeOK, Gapless, Gapless', TypeOK', NEW c \in Conversations, NEW m \in Message,
         messages' = messages \cup {m}, m.conversation = c,
         m.sequence = conversation[c].last + 1, conversation'[c].last = m.sequence
  PROVE  LogOf(c)' = Append(LogOf(c), EntryOf(m))
<1> DEFINE n == conversation[c].last
<1>1. /\ LogOf(c) = Entries(messages, c, n) /\ LogOf(c)' = Entries(messages', c, n + 1)
  BY LogIsEntries
<1>2. /\ n \in Nat /\ LogOf(c) \in Seq(Entry) /\ Len(LogOf(c)) = n
      /\ \A i \in 1 .. n : \E k \in messages :
           k.conversation = c /\ k.sequence = i /\ LogOf(c)[i] = EntryOf(k)
  BY LogType
<1> HIDE DEF n
<1>3. EntryOf(m) \in Entry
  BY DEF Message, EntryOf, Entry
<1>4. ASSUME NEW i \in 1 .. n + 1
      PROVE  Entries(messages', c, n + 1)[i] = Append(LogOf(c), EntryOf(m))[i]
  <2>1. CASE i = n + 1
    <3>1. Entries(messages', c, n + 1)[i] = EntryOf(m)
      BY <2>1, EntryAt DEF Gapless, n
    <3> QED BY <1>2, <1>3, <2>1, <3>1, AppendProperties
  <2>2. CASE i \in 1 .. n
    <3>1. PICK k \in messages : /\ k.conversation = c /\ k.sequence = i
                                /\ LogOf(c)[i] = EntryOf(k)
      BY <1>2, <2>2
    <3>2. Entries(messages', c, n + 1)[i] = EntryOf(k)
      BY <3>1, EntryAt DEF Gapless
    <3> QED BY <1>2, <1>3, <2>2, <3>1, <3>2, AppendProperties
  <2> QED BY <1>2, <2>1, <2>2
<1>5. Append(LogOf(c), EntryOf(m)) = [i \in 1 .. n + 1 |-> Append(LogOf(c), EntryOf(m))[i]]
  <2> DEFINE longer == Append(LogOf(c), EntryOf(m))
  <2>1. longer \in Seq(Entry) /\ Len(longer) = n + 1
    BY <1>2, <1>3, AppendProperties
  <2> HIDE DEF longer
  <2>2. longer \in [1 .. Len(longer) -> Entry]
    BY <2>1
  <2>3. longer = [i \in 1 .. n + 1 |-> longer[i]]
    BY <2>1, <2>2
  <2> QED BY <2>3 DEF longer
<1>6. Entries(messages', c, n + 1) = [i \in 1 .. n + 1 |-> Entries(messages', c, n + 1)[i]]
  BY DEF Entries
<1> QED BY <1>1, <1>4, <1>5, <1>6

\* Who puts a conversation away, or opens it again, when no message is written.
LEMMA HiddenSteps ==
  ASSUME ChatInv, [Next]_vars, \A s \in Senders : CommitSend(s) => UNCHANGED rows
  PROVE  \/ \A d \in Conversations : conversation'[d].hidden = conversation[d].hidden
         \/ \E c \in Conversations :
              /\ \/ conversation'[c].hidden = conversation[c].hidden \ {Buyer[c]}
                 \/ \E u \in Parties(c) :
                      conversation'[c].hidden = conversation[c].hidden \cup {u}
              /\ \A d \in Conversations \ {c} : conversation'[d] = conversation[d]
<1> DEFINE Same == \A d \in Conversations : conversation'[d].hidden = conversation[d].hidden
<1>1. conversation \in [Conversations -> Conversation]
  BY DEF ChatInv, TypeOK
<1>2. CASE UNCHANGED rows
  BY <1>2 DEF rows
<1>3. ASSUME NEW s \in Senders, SendStep(s) PROVE UNCHANGED rows
  <2>1. LockKey(s) \/ SharePost(s) \/ LockRow(s) \/ FailSend(s) => UNCHANGED rows
    BY Zenon DEF LockKey, SharePost, LockRow, FailSend
  <2>2. \A c, u, viaPost, k : BeginSend(s, u, c, viaPost, k) => UNCHANGED rows
    BY Zenon DEF BeginSend
  <2> QED BY <1>3, <2>1, <2>2 DEF SendStep
<1>4. ASSUME NEW u \in Users, ReadAllStep(u) PROVE Same
  <2>1. CASE BeginReadAll(u) \/ LockNext(u) \/ FailReadAll(u)
    BY <2>1 DEF BeginReadAll, LockNext, FailReadAll, rows
  <2>2. CASE CommitReadAll(u)
    <3> DEFINE cs == StillUnread(u)
    <3>1. conversation' = [c \in Conversations |->
            IF c \in cs THEN [conversation[c] EXCEPT !.version = @ + 1] ELSE conversation[c]]
      BY <2>2 DEF CommitReadAll
    <3> HIDE DEF cs
    <3> QED BY <1>1, <3>1 DEF Conversation
  <2> QED BY <1>4, <2>1, <2>2 DEF ReadAllStep
<1>5. ASSUME NEW c \in Conversations, ConversationStep(c)
      PROVE  /\ \/ conversation'[c].hidden = conversation[c].hidden
                \/ conversation'[c].hidden = conversation[c].hidden \ {Buyer[c]}
                \/ \E u \in Parties(c) :
                     conversation'[c].hidden = conversation[c].hidden \cup {u}
             /\ \A d \in Conversations \ {c} : conversation'[d] = conversation[d]
  <2>1. conversation[c] \in Conversation
    BY <1>1
  <2>2. CASE Lapse(c) \/ Withdraw(c) \/ Renew(c)
    BY <2>2 DEF Lapse, Withdraw, Renew, rows
  <2>3. ASSUME NEW row, conversation' = [conversation EXCEPT ![c] = row]
        PROVE  /\ conversation'[c] = row
               /\ \A d \in Conversations \ {c} : conversation'[d] = conversation[d]
    BY <1>1, <2>3
  <2>4. CASE OpenConversation(c)
    <3> DEFINE row == IF Buyer[c] \in conversation[c].hidden
                        THEN [conversation[c] EXCEPT !.hidden = @ \ {Buyer[c]},
                                                     !.version = @ + 1]
                        ELSE [conversation[c] EXCEPT !.made = TRUE]
    <3>1. \/ row.hidden = conversation[c].hidden
          \/ row.hidden = conversation[c].hidden \ {Buyer[c]}
      BY <2>1 DEF Conversation
    <3>2. conversation' = [conversation EXCEPT ![c] = row]
      BY <2>4 DEF OpenConversation, Save
    <3> HIDE DEF row
    <3> QED BY <2>3, <3>1, <3>2
  <2>5. ASSUME NEW u \in Users, DeleteConversation(u, c)
        PROVE  /\ u \in Parties(c)
               /\ conversation'[c].hidden = conversation[c].hidden \cup {u}
               /\ \A d \in Conversations \ {c} : conversation'[d] = conversation[d]
    <3> DEFINE changed == u \notin conversation[c].hidden \/ unread[u][c] # NoNotice
               row == [conversation[c] EXCEPT !.hidden = @ \cup {u},
                                              !.version = IF changed THEN @ + 1 ELSE @]
    <3>1. row.hidden = conversation[c].hidden \cup {u}
      BY <2>1 DEF Conversation
    <3>2. u \in Parties(c) /\ conversation' = [conversation EXCEPT ![c] = row]
      BY <2>5 DEF DeleteConversation, Save
    <3> HIDE DEF row
    <3> QED BY <2>3, <3>1, <3>2
  <2>6. ASSUME NEW u \in Users, MarkOneAsRead(u, c)
        PROVE  /\ conversation'[c].hidden = conversation[c].hidden
               /\ \A d \in Conversations \ {c} : conversation'[d] = conversation[d]
    <3> DEFINE row == [conversation[c] EXCEPT !.version = @ + 1]
    <3>1. row.hidden = conversation[c].hidden
      BY <2>1 DEF Conversation
    <3>2. conversation' = [conversation EXCEPT ![c] = row]
      BY <2>6 DEF MarkOneAsRead, Save
    <3> HIDE DEF row
    <3> QED BY <2>3, <3>1, <3>2
  <2>7. ASSUME NEW u \in Users, NEW target, MarkAsRead(u, c, target)
        PROVE  /\ conversation'[c].hidden = conversation[c].hidden
               /\ \A d \in Conversations \ {c} : conversation'[d] = conversation[d]
    BY <2>7, ReadWrites
  <2> QED BY <1>5, <2>2, <2>4, <2>5, <2>6, <2>7 DEF ConversationStep
<1>6. CASE \E s \in Senders : SendStep(s)
  BY <1>2, <1>3, <1>6
<1>7. CASE \E u \in Readers : ReadAllStep(u)
  BY <1>4, <1>7, PartyAssumption
<1>8. CASE \E c \in Conversations : ConversationStep(c)
  BY <1>5, <1>8
<1>9. CASE UNCHANGED vars
  BY <1>2, <1>9 DEF vars
<1> QED BY <1>6, <1>7, <1>8, <1>9 DEF Next

\* A step is a step of the logs, or they do not notice it.
LEMMA LogStep ==
  ASSUME ConversationInv, ConversationInv', [Next]_vars
  PROVE  [Log!Next]_Log!vars
<1>1. /\ ChatInv /\ TypeOK /\ TypeOK' /\ Gapless /\ Gapless'
      /\ conversation \in [Conversations -> Conversation]
      /\ conversation' \in [Conversations -> Conversation]
  BY DEF ConversationInv, ChatInv, TypeOK
<1>2. CASE \E s \in Senders : CommitSend(s) /\ ~UNCHANGED rows
  <2>1. PICK s \in Senders : CommitSend(s) /\ ~UNCHANGED rows
    BY <1>2
  <2>2. PICK c \in Conversations, m \in Message :
          /\ messages' = messages \cup {m}
          /\ m.conversation = c /\ m.sequence = conversation[c].last + 1
          /\ m.sender \in Parties(c)
          /\ m.key # NoKey => ~Sent(m.sender, m.key)
          /\ \A d \in Conversations \ {c} : conversation'[d] = conversation[d]
          /\ conversation'[c].last = m.sequence
          /\ conversation'[c].read = conversation[c].read
          /\ conversation'[c].hidden = {}
    BY <1>1, <2>1, CommitWrites
  <2>3. LogOf(c)' = Append(LogOf(c), EntryOf(m))
    BY <1>1, <2>2, LogGrows
  <2>4. \A d \in Conversations \ {c} : LogOf(d)' = LogOf(d)
    BY <1>1, <2>2, LogStays
  <2>5. ASSUME m.key # NoKey, Log!Used(m.sender, m.key) PROVE FALSE
    <3>1. PICK d \in Conversations : \E i \in DOMAIN LogOf(d) :
            LogOf(d)[i] = [sender |-> m.sender, key |-> m.key]
      BY <2>5 DEF Log!Used
    <3>2. PICK i \in DOMAIN LogOf(d) : LogOf(d)[i] = [sender |-> m.sender, key |-> m.key]
      BY <3>1
    <3>3. PICK k \in messages : LogOf(d)[i] = EntryOf(k)
      BY <1>1, <3>2, LogType
    <3>4. k.sender = m.sender /\ k.key = m.key
      BY <3>2, <3>3 DEF EntryOf
    <3> QED BY <2>2, <2>5, <3>4 DEF Sent
  <2>6. [d \in Conversations |-> LogOf(d)]'
          = [[d \in Conversations |-> LogOf(d)] EXCEPT
               ![c] = Append(@, [sender |-> m.sender, key |-> m.key])]
    BY <2>2, <2>3, <2>4 DEF EntryOf
  <2>7. [d \in Conversations |-> conversation[d].hidden]'
          = [[d \in Conversations |-> conversation[d].hidden] EXCEPT ![c] = {}]
    BY <2>2
  <2>8. [d \in Conversations |-> conversation[d].read]'
          = [d \in Conversations |-> conversation[d].read]
    BY <2>2
  <2>9. Log!Write(c, m.sender, m.key)
    BY <2>5, <2>6, <2>7, <2>8 DEF Log!Write
  <2>10. m.key \in Keys \cup {NoKey} /\ m.sender \in Log!Parties(c)
    BY <2>2 DEF Message, Parties, Log!Parties
  <2> QED BY <2>2, <2>9, <2>10 DEF Log!Next
<1>3. CASE \E c \in Conversations, u \in Users, target \in 1 .. MaxMessages :
             MarkAsRead(u, c, target)
  <2>1. PICK c \in Conversations, u \in Users, target \in 1 .. MaxMessages :
          MarkAsRead(u, c, target)
    BY <1>3
  <2>2. /\ u \in Parties(c)
        /\ \A d \in Conversations \ {c} : conversation'[d] = conversation[d]
        /\ conversation'[c].last = conversation[c].last
        /\ conversation'[c].hidden = conversation[c].hidden
    BY <1>1, <2>1, ReadWrites
  <2>3. PICK through \in conversation[c].read[u] .. conversation[c].last :
          LET marked == {m \in Incoming(c, u) : m.sequence <= through} IN
          /\ conversation'[c].read = [conversation[c].read EXCEPT ![u] = through]
          /\ messages' = (messages \ marked) \cup {[m EXCEPT !.isRead = TRUE] : m \in marked}
    BY <1>1, <2>1, ReadWrites
  <2>4. ASSUME NEW m \in messages
        PROVE  \E k \in messages' : /\ k.conversation = m.conversation
                                    /\ k.sequence = m.sequence
                                    /\ k.sender = m.sender /\ k.key = m.key
    <3> DEFINE marked == {k \in Incoming(c, u) : k.sequence <= through}
               copy == [m EXCEPT !.isRead = TRUE]
    <3>1. /\ copy.conversation = m.conversation /\ copy.sequence = m.sequence
          /\ copy.sender = m.sender /\ copy.key = m.key
      BY <1>1 DEF TypeOK, Message
    <3>2. IF m \in marked THEN copy \in messages' ELSE m \in messages'
      BY <2>3
    <3> HIDE DEF copy, marked
    <3> QED BY <3>1, <3>2
  <2>5. \A d \in Conversations : LogOf(d)' = LogOf(d)
    <3>1. \A d \in Conversations : conversation'[d].last = conversation[d].last
      BY <2>2
    <3> QED BY <1>1, <2>4, <3>1, LogStays
  <2>6. /\ [d \in Conversations |-> LogOf(d)]' = [d \in Conversations |-> LogOf(d)]
        /\ [d \in Conversations |-> conversation[d].hidden]'
             = [d \in Conversations |-> conversation[d].hidden]
    BY <2>2, <2>5
  <2>7. [d \in Conversations |-> conversation[d].read]'
          = [[d \in Conversations |-> conversation[d].read] EXCEPT ![c][u] = through]
    BY <2>2, <2>3
  <2>8. /\ conversation[c].read[u] \in Nat /\ conversation[c].last \in Nat
        /\ conversation[c].read \in [Users -> Nat]
    BY <1>1 DEF Conversation, Watermarks
  <2>9. CASE through = conversation[c].read[u]
    <3>1. conversation'[c].read = conversation[c].read
      BY <2>3, <2>8, <2>9
    <3>2. [d \in Conversations |-> conversation[d].read]'
            = [d \in Conversations |-> conversation[d].read]
      BY <2>2, <3>1
    <3> QED BY <2>6, <3>2 DEF Log!vars
  <2>10. CASE through # conversation[c].read[u]
    <3>1. through \in conversation[c].read[u] + 1 .. Len(LogOf(c))
      BY <1>1, <2>8, <2>10, LogType
    <3>2. Log!Read(c, u)
      BY <2>6, <2>7, <3>1 DEF Log!Read
    <3> QED BY <2>2, <3>2 DEF Log!Next, Log!Parties, Parties
  <2> QED BY <2>9, <2>10
<1>4. CASE Quiet /\ \A s \in Senders : CommitSend(s) => UNCHANGED rows
  <2>1. \A d \in Conversations : LogOf(d)' = LogOf(d)
    BY <1>1, <1>4, LogStays DEF Quiet
  <2>2. /\ [d \in Conversations |-> LogOf(d)]' = [d \in Conversations |-> LogOf(d)]
        /\ [d \in Conversations |-> conversation[d].read]'
             = [d \in Conversations |-> conversation[d].read]
    BY <1>4, <2>1 DEF Quiet
  <2>3. CASE \A d \in Conversations : conversation'[d].hidden = conversation[d].hidden
    BY <2>2, <2>3 DEF Log!vars
  <2>4. ASSUME NEW c \in Conversations,
               \A d \in Conversations \ {c} : conversation'[d] = conversation[d],
               conversation'[c].hidden = conversation[c].hidden \ {Buyer[c]}
        PROVE  Log!Reopen(c)
    BY <2>2, <2>4 DEF Log!Reopen
  <2>5. ASSUME NEW c \in Conversations, NEW u \in Parties(c),
               \A d \in Conversations \ {c} : conversation'[d] = conversation[d],
               conversation'[c].hidden = conversation[c].hidden \cup {u}
        PROVE  Log!PutAway(c, u)
    BY <2>2, <2>5 DEF Log!PutAway
  <2> QED BY <1>1, <1>4, <2>3, <2>4, <2>5, HiddenSteps
             DEF Log!Next, Log!Parties, Parties
<1> QED BY <1>1, <1>2, <1>3, <1>4, StepsWrite

\* The tables start as empty logs.
LEMMA LogInit == Init => Log!Init
<1> SUFFICES ASSUME Init PROVE Log!Init
  OBVIOUS
<1>1. \A c \in Conversations :
        /\ conversation[c].last = 0 /\ conversation[c].hidden = {}
        /\ conversation[c].read = [u \in Users |-> 0]
  BY DEF Init
<1>2. \A c \in Conversations : LogOf(c) = <<>>
  BY <1>1 DEF LogOf
<1> QED BY <1>1, <1>2 DEF Log!Init

-----------------------------------------------------------------------------
(* What follows *)

\* The inductive invariant of the conversations: messages numbered without a
\* gap, notifications of the newest unread message, one state per version and
\* locks taken in order, in every reachable state.
THEOREM ConversationInvariant == Spec => []ConversationInv
BY ConversationInvInit, ConversationInvNext, PTL DEF Spec

\* The unread notification of a conversation speaks of the newest message its
\* user has not read, and goes when the conversation is read or put away.
THEOREM NoticesAreNewest == Spec => []NoticeIsNewest
<1>1. ConversationInv => NoticeIsNewest
  BY DEF ConversationInv
<1> QED BY <1>1, ConversationInvariant, PTL

\* A version of a conversation is never pushed with two different states.
THEOREM VersionsNameStates == Spec => []OneStatePerVersion
<1>1. ConversationInv => OneStatePerVersion
  BY DEF ConversationInv
<1> QED BY <1>1, ConversationInvariant, PTL

\* Requests to send and requests to read all never wait for each other in a
\* circle, however many there are.
THEOREM NoRequestsDeadlock == Spec => []NoWaitCycle
<1>1. ConversationInv => NoWaitCycle
  <2> SUFFICES ASSUME ConversationInv, NEW ps \in SUBSET Waiting, ps # {}
               PROVE  \E x \in ps : \A y \in ps : ~Waits(x, y)
    BY DEF NoWaitCycle
  <2> QED BY NobodyInACircle DEF ConversationInv, ChatInv
<1> QED BY <1>1, ConversationInvariant, PTL

\* The conversations implement the append-only log: concurrent, retried and
\* failing requests write every message once, in one order, and a watermark
\* only advances.
THEOREM ConversationsImplementLog == Spec => LogContract
<1>1. ConversationInv /\ ConversationInv' /\ [Next]_vars => [Log!Next]_Log!vars
  BY LogStep
<1> QED BY <1>1, LogInit, ConversationInvariant, PTL DEF Spec, LogContract, Log!Spec

===============================================================================
