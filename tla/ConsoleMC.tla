--------------------------------- MODULE ConsoleMC ---------------------------------
EXTENDS Console

CONSTANTS x, y, a, b

\* One row is typed, of the two there are; the ready-made batches save both.
Typing == {<<x, b>>}
Two == <<x, y>>

\* One page of each kind is left and returned to.
Returned ==
  {"armory", "experiments", "jobs", "agents", "approvals", "approval-queue", "dashboard", "prompt",
   "versions", "telegram", "browser", "catalog", "tracks", "daily", "simple-jobs", "simple-runs"}
====================================================================================
