CONSTANTS
  u1 = u1
  u2 = u2
  u3 = u3
  Users <- McUsers
  Me = Me
  Limits = {0, 2}
  Tokens <- McTokens
  NoToken = NoToken
  Window = 4
  BatchSize = 2
  Lists <- McLists
  Created <- McCreated
  Counted <- McCounted
SPECIFICATION Spec
INVARIANTS TypeOK ReindexCovers
PROPERTIES WalksAreTrue NoHoleWhileReindexing WalksEnd
