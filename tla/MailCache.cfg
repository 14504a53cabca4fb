SPECIFICATION Spec
CONSTANTS
  NoMsg = NoMsg
  Inbox = inbox
  Destination = archive
  Folders = {inbox, archive, projects}
  Msgs = {m1, m2}
  Uids = {1, 2}
  Matching = {m1}
  Slots = {s1, s2}
  MaxCalls = 3
  MaxEvents = 1
INVARIANTS OwnMessage 
CHECK_DEADLOCK FALSE
