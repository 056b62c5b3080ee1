SPECIFICATION Spec
CONSTANTS
  MaxCommits = 2
  MaxFrames = 2
  MaxToggles = 2
INVARIANTS TypeOK RefsBalanced  NoFrameForgotten
PROPERTIES CrcInOrder
\* The commits, vblanks and toggles run out.
CHECK_DEADLOCK FALSE
