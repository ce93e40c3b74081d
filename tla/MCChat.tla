--------------------------------- MODULE MCChat ---------------------------------
(* Small instances of Chat for TLC, in two stories. *)
EXTENDS Chat, TLC

CONSTANTS b1, s1, r1, r2

MCBuyer == [c \in Conversations |-> b1]

MCSeller == [c \in Conversations |-> s1]

Symmetry == Permutations(Senders)

\* What a behaviour is about, chosen once: two requests to send into one
\* conversation, which its buyer reads and deletes, or two conversations whose
\* parties read all while one sends.
VARIABLE story

Busy == {s \in Senders : send[s].pc # "idle"}

\* How far each story goes.
Within ==
  CASE story = "send" ->
         /\ ~conversation[2].made /\ post[2] = "active"
         /\ \A s \in Busy : send[s].conversation = 1
         /\ Cardinality({s \in Busy : send[s].key = NoKey}) <= 1
         /\ Cardinality({m \in messages : m.key = NoKey}) <= 1
         /\ \A u \in Users : bulk[u] = NoBulk
         /\ s1 \notin conversation[1].hidden /\ conversation[1].read[s1] = 0
    [] story = "inbox" ->
         /\ Cardinality(Busy) <= 1
         /\ \A s \in Senders : send[s].key = NoKey
         /\ \A c \in Conversations : post[c] = "active" /\ conversation[c].version <= 2

StoryInit == Init /\ story \in {"send", "inbox"}

StoryNext == Next /\ UNCHANGED story /\ Within'

StorySpec == StoryInit /\ [][StoryNext]_<<vars, story>>

===============================================================================
