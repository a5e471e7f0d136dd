SPECIFICATION Spec
CONSTANTS
 attach = attach
 retry = retry
 item = item
 tool = tool
 first = first
 second = second
 other = other
 fileA = fileA
 itemA = itemA
 toolA = toolA
 firstA = firstA
 secondA = secondA
 otherA = otherA
 callA = callA
 callB = callB
 None = None
 Attachments <- Files
 Invocations <- AllInvocations
 ActionOf <- Actions
 SourceOf <- Sources
 CallOf <- Calls
 BatchItems <- Items
 MaxHeld = 2
ACTION_CONSTRAINT OneKindOfTurn
INVARIANTS TypeOK NoDoubleEffect TruthfulOutcome HeldWithinBound
PROPERTIES WritePromise
