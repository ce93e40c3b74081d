SPECIFICATION StorySpec
CONSTANTS
  b1 = b1
  s1 = s1
  r1 = r1
  r2 = r2
  Conversations = {1, 2}
  Users = {b1, s1}
  Buyer <- MCBuyer
  Seller <- MCSeller
  Senders = {r1, r2}
  Readers = {b1, s1}
  Keys = {k1}
  NoKey = NoKey
  NoNotice = NoNotice
  MaxMessages = 2
  MaxVersion = 4
SYMMETRY Symmetry
INVARIANTS ConversationInv NeverCollides ReadIsPrefix NoticeIsNewest OneStatePerVersion NoWaitCycle
PROPERTIES WrittenOnOffer LogContract
