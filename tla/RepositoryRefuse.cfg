SPECIFICATION RepoSpec
CONSTANTS
  Jobs = {j1}
  Executors = {e1}
  MaxAttempts = 2
PROPERTY RefusedOnlyIfEnded
