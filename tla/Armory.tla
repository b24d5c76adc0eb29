---------------------------------- MODULE Armory ----------------------------------
(***************************************************************************)
(* One account of the armory, app/core/armory.py, and the messaging tool,  *)
(* app/core/tools/messaging.py, that several workers use it with.          *)
(*                                                                         *)
(* A tool chooses an account by its id, or one that is ready and belongs   *)
(* to its branch; takes the lock, a key that expires by itself; and marks  *)
(* the account, as it does again when it is done.  The row is read and     *)
(* written back whole each time, and so it is when the account is given to *)
(* another branch.                                                         *)
(***************************************************************************)
EXTENDS Naturals, FiniteSets

CONSTANTS Workers, Branches,
          MaxDeploys,   \* bound on deployments
          MaxBreaks,    \* bound on tools that break off: a command fails, or the worker dies
          MaxExpiries   \* bound on locks that expire

ASSUME ArmoryAssumption == MaxDeploys \in Nat /\ MaxBreaks \in Nat /\ MaxExpiries \in Nat

VARIABLES
  account,    \* the row: status and branch
  lock,       \* is the lock there?
  tool,       \* per worker: how far its call is, and the row it read last
  deploy,     \* the deployment under way
  deploys, breaks, expiries,
  holders,    \* history: workers whose lock has neither been freed by them nor left behind
  overdue,    \* history: did a lock expire while its holder was at work?
  broke,      \* history: did a tool break off since the last one that finished?
  crossed,    \* history: has a write put back what it had read before another write?
  assigned    \* history: the branch it was last given to

armoryVars == <<account, lock, tool, deploy, deploys, breaks, expiries, holders, overdue, broke, crossed, assigned>>

Rows == [status : {"pending", "verifying", "ready"}, branch : Branches \cup {"none"}]
New == [status |-> "pending", branch |-> "none"]
Away == [at |-> "away", read |-> New]
Working == {w \in Workers : tool[w].at \notin {"away", "chosen"}}

ArmoryInit ==
  /\ account = New /\ lock = FALSE
  /\ tool = [w \in Workers |-> Away] /\ deploy = [at |-> "away", read |-> New, to |-> "none"]
  /\ deploys = 0 /\ breaks = 0 /\ expiries = 0
  /\ holders = {} /\ overdue = FALSE /\ broke = FALSE /\ crossed = FALSE /\ assigned = "none"

To(w, at) == tool' = [tool EXCEPT ![w].at = at]
RestOf(w) == UNCHANGED <<deploy, deploys, breaks, expiries, overdue, assigned>>

\* list_all_accounts: by id, or ready and of the branch of the run.
Choose(w, branch) ==
  /\ tool[w].at = "away"
  /\ branch = "any" \/ (account.status = "ready" /\ account.branch = branch)
  /\ To(w, "chosen")
  /\ UNCHANGED <<account, lock, holders, broke, crossed>> /\ RestOf(w)

\* SET NX EX: the tool goes on, or gives up.
LockFree_Always == TRUE
LockFree == ~lock
LockAccount(w) ==
  /\ tool[w].at = "chosen"
  /\ IF LockFree THEN lock' = TRUE /\ To(w, "lock") /\ holders' = holders \cup {w}
     ELSE UNCHANGED <<lock, holders>> /\ To(w, "away")
  /\ UNCHANGED <<account, broke, crossed>> /\ RestOf(w)

(***************************************************************************)
(* update_account_status: a GET and a SET, after lock and before and after *)
(* use                                                                     *)
(***************************************************************************)
ReadAccount(w) ==
  /\ tool[w].at \in {"lock", "freed"}
  /\ tool' = [tool EXCEPT ![w] = [at |-> IF @.at = "lock" THEN "mark" ELSE "unmark", read |-> account]]
  /\ UNCHANGED <<account, lock, holders, broke, crossed>> /\ RestOf(w)

Marked_Verifying(at) == "verifying"
Marked(at) == IF at = "mark" THEN "verifying" ELSE "ready"
WriteStatus(w) ==
  /\ tool[w].at \in {"mark", "unmark"}
  /\ account' = [tool[w].read EXCEPT !.status = Marked(tool[w].at)]
  /\ crossed' = (crossed \/ tool[w].read # account)
  /\ To(w, IF tool[w].at = "mark" THEN "use" ELSE "away")
  /\ broke' = (broke /\ tool[w].at = "mark")
  /\ UNCHANGED <<lock, holders>> /\ RestOf(w)

\* The message is sent; unlock_account deletes the lock.
UnlockAccount(w) ==
  /\ tool[w].at = "use"
  /\ lock' = FALSE /\ holders' = holders \ {w}
  /\ To(w, "freed")
  /\ UNCHANGED <<account, broke, crossed>> /\ RestOf(w)

\* A command fails outside the try, or the worker dies: what was done stays.
BreakOff(w) ==
  /\ tool[w].at # "away" /\ breaks < MaxBreaks /\ breaks' = breaks + 1
  /\ To(w, "away") /\ holders' = holders \ {w} /\ broke' = (broke \/ w \in Working)
  /\ UNCHANGED <<account, lock, deploy, deploys, expiries, overdue, crossed, assigned>>

\* 300 seconds after it was taken
LockExpires ==
  /\ lock /\ expiries < MaxExpiries
  /\ lock' = FALSE /\ expiries' = expiries + 1
  /\ overdue' = (overdue \/ holders # {}) /\ holders' = {}
  /\ UNCHANGED <<account, tool, deploy, deploys, breaks, broke, crossed, assigned>>

(***************************************************************************)
(* deploy_account_to_branch: a GET and a SET                               *)
(***************************************************************************)
BeginDeploy(branch) ==
  /\ deploy.at = "away" /\ deploys < MaxDeploys /\ deploys' = deploys + 1
  /\ deploy' = [at |-> "write", read |-> account, to |-> branch]
  /\ UNCHANGED <<account, lock, tool, breaks, expiries, holders, overdue, broke, crossed, assigned>>

Deployed(read, branch) == [read EXCEPT !.branch = branch]
EndDeploy ==
  /\ deploy.at = "write"
  /\ account' = Deployed(deploy.read, deploy.to) /\ assigned' = deploy.to
  /\ crossed' = (crossed \/ deploy.read # account)
  /\ deploy' = [deploy EXCEPT !.at = "away"]
  /\ UNCHANGED <<lock, tool, deploys, breaks, expiries, holders, overdue, broke>>

ArmoryNext ==
  \/ \E w \in Workers :
       \/ \E branch \in Branches \cup {"any"} : Choose(w, branch)
       \/ LockAccount(w) \/ ReadAccount(w) \/ WriteStatus(w) \/ UnlockAccount(w) \/ BreakOff(w)
  \/ LockExpires
  \/ \E branch \in Branches : BeginDeploy(branch)
  \/ EndDeploy

ArmoryTypeOK ==
  /\ account \in Rows /\ lock \in BOOLEAN /\ overdue \in BOOLEAN /\ broke \in BOOLEAN /\ crossed \in BOOLEAN
  /\ tool \in [Workers -> [at : {"away", "chosen", "lock", "mark", "use", "freed", "unmark"}, read : Rows]]
  /\ deploy \in [at : {"away", "write"}, read : Rows, to : Branches \cup {"none"}]
  /\ deploys \in 0..MaxDeploys /\ breaks \in 0..MaxBreaks /\ expiries \in 0..MaxExpiries
  /\ holders \subseteq Workers /\ assigned \in Branches \cup {"none"}

(***************************************************************************)
(* Properties                                                              *)
(***************************************************************************)
\* Two workers use an account at once only if a lock expired while its holder worked:
\* its unlock then deletes the lock of the next.
Using == {w \in Workers : tool[w].at \in {"lock", "mark", "use"}}
OneUser == overdue \/ \A v, w \in Using : v = w

\* An account nobody works with is not left in use, and is in the branch it was last
\* given to, but for a tool that broke off and writes that crossed: then it is ready
\* for nobody until it is asked for by its id.
AccountTells ==
  Working = {} /\ deploy.at = "away" /\ ~crossed =>
    /\ account.status = "verifying" => broke
    /\ account.branch = assigned

\* The account is used by one, and its row says so.
AccountShared == OneUser /\ AccountTells
====================================================================================
