SPECIFICATION BrainFairSpec
CONSTANTS
 n1 = n1
 r1 = r1
 r2 = r2
 f1 = f1
 Notes = {n1}
 RunNotes = {r1, r2}
 ScanFacts = {f1}
 Refused = {n1}
 Nothing = Nothing
 BodyLength <- MCLength
 LineFrame = 4
 Budgets = {25, 40}
 MaxNotes = 2
 MaxSlips = 0
CHECK_DEADLOCK FALSE
PROPERTY EveryNoteIsHandled
