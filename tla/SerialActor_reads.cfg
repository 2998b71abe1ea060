SPECIFICATION FairSpec
CONSTANTS
  read = read
  again = again
  write = write
  prompt = prompt
  tool = tool
  listing = listing
  Session = {s1}
  Request <- MCReads
  Kind <- MCReadKind
  Command <- MCReadCommand
  Capacity = 3
INVARIANTS
  SlotsAreUnanswered
  CoalescingIsSound
CHECK_DEADLOCK FALSE
PROPERTIES
  EveryRequestAnswered
  TerminalFreesPort
