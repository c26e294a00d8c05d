------------------------- MODULE ApprovedExecution -------------------------
(***************************************************************************)
(* What the authorize pipeline promises, without Redis, gates or workers:  *)
(* requests ask for actions; an action runs only after it is on record,    *)
(* and a risky one only for a request that spent an approval of that very  *)
(* action.  An approval is minted by the request that staged the action;   *)
(* it is spent by at most one request, or becomes void.                    *)
(***************************************************************************)
CONSTANTS
  Request, Action,
  Risky,        \* the actions that need an approval
  None

VARIABLES
  asked,        \* what each request asks for, None before it comes
  approval,     \* the approval each staging request minted
  spent,        \* the approval each request spent, None if it did not
  logged,       \* requests on record as allowed
  ran           \* requests whose action was executed

execVars == <<asked, approval, spent, logged, ran>>

Init ==
  /\ asked = [r \in Request |-> None]
  /\ approval = [r \in Request |-> "none"]
  /\ spent = [r \in Request |-> None]
  /\ logged = {} /\ ran = {}

Ask(r, a) ==
  /\ asked[r] = None
  /\ asked' = [asked EXCEPT ![r] = a]
  /\ UNCHANGED <<approval, spent, logged, ran>>

Mint(r) ==
  /\ asked[r] \in Risky /\ approval[r] = "none"
  /\ approval' = [approval EXCEPT ![r] = "live"]
  /\ UNCHANGED <<asked, spent, logged, ran>>

Void(c) ==
  /\ approval[c] = "live"
  /\ approval' = [approval EXCEPT ![c] = "gone"]
  /\ UNCHANGED <<asked, spent, logged, ran>>

Spend(r, c) ==
  /\ approval[c] = "live" /\ spent[r] = None
  /\ asked[r] = asked[c]
  /\ approval' = [approval EXCEPT ![c] = "gone"]
  /\ spent' = [spent EXCEPT ![r] = c]
  /\ UNCHANGED <<asked, logged, ran>>

Log(r) ==
  /\ asked[r] \in Risky => spent[r] # None
  /\ logged' = logged \cup {r}
  /\ UNCHANGED <<asked, approval, spent, ran>>

Run(r) ==
  /\ r \in logged /\ r \notin ran
  /\ asked[r] \in Risky => spent[r] # None
  /\ ran' = ran \cup {r}
  /\ UNCHANGED <<asked, approval, spent, logged>>

Next ==
  \E r \in Request :
    \/ \E a \in Action : Ask(r, a)
    \/ Mint(r) \/ Void(r) \/ Log(r) \/ Run(r)
    \/ \E c \in Request : Spend(r, c)

Spec == Init /\ [][Next]_execVars
=============================================================================
