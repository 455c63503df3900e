SPECIFICATION ChronologySpec
CONSTANTS
  Readers = {reader1, reader2}
  Papers = {paper}
  Disclosed = {paper}
  Facts = {fact}
  MaxProposals = 1
  NoPaper = NoPaper
  NoReader = NoReader
INVARIANT DisclosedWithheld
CHECK_DEADLOCK FALSE
