SPECIFICATION WorkSpec
CONSTANTS
  w1 = w1
  w2 = w2
  w3 = w3
  r1 = r1
  r2 = r2
  wa = wa
  wb = wb
  Editors = {w1, w2, w3}
  Original = original
  PerProposal = 2
  Tasks = {"t1", "t2", "t3"}
  Users = {author, admin}
  Author = author
  Superusers = {admin}
  NoUser = NoUser
  AuthorMustDiffer = FALSE
  MaxClock = 2
  Threshold = 1
  Posts = {"p1", "p2", "p3"}
  NoPost = NoPost
  Bodies2 = {"long", "short"}
  Length <- LengthDef
  Turns = {w1, w2, w3}
  Savers = {s1}
  MaxOpen = 2
  Nobody = Nobody
  Window = 1
  Budget = 2
  ReplyTokens = {2}
  Readers = {r1, r2}
  Papers = {paper, other}
  Disclosed = {paper}
  Facts = {fact}
  MaxProposals = 2
  NoPaper = NoPaper
  NoReader = NoReader
  Redactions = {r1, r2}
  Text <- TextDef
  PrefixOf <- PrefixOfDef
  MaxSpans = 3
  MaxLength = 2
  MaxRedactions = 3
  NoBody = NoBody
  Requests = {w1, w2, w3}
  Namespaces = {"facts"}
  SchemaNames = {"1.0", "2.0"}
  Payloads = {"p"}
  Accepted = {{}, {"p"}}
  NoItem = NoItem
  NoSchema = NoSchema
  PageLimit = 1
  MaxTime = 2
  EventIds = {1, 2, 3, 4, 5, 6, 7, 8, 9}
  Works <- WorksDef
  TableOf <- TableOfDef
  PartOf <- PartOfDef
  NoWork = NoWork
  EventOf <- EventOfDef
  MaxWorks = 3
INVARIANTS
  ResolvedIsClosed
  
  TrailExplainsReview
  AnchorInText
  NoSelfWait
  NoBleed
  WholeTurns
  TaintWithheld
  NoDuplicateEvents
  
  ContextExplained
  PackExplained
PROPERTIES
  WindowNeverShrinks
  
SYMMETRY RequestSymmetry
CHECK_DEADLOCK FALSE
