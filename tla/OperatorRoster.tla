--------------------------- MODULE OperatorRoster ---------------------------
(***************************************************************************)
(* The operator roster: services/operator_users.py and the three admin     *)
(* endpoints of app/main.py that write it.                                 *)
(*                                                                         *)
(* One Redis hash, a field an email.  An endpoint first appends its record *)
(* to the audit log, then calls the store, which reads and writes in       *)
(* separate round trips: each await is an action, so the administrators'   *)
(* requests interleave between a read and the write that relies on it.     *)
(***************************************************************************)
EXTENDS Integers, FiniteSets

CONSTANTS
  Clerks,        \* admin requests in flight
  Emails,        \* normalised addresses
  Roles,
  RosterCap,     \* MAX_OPERATOR_USERS
  MaxAsks,       \* bound: invitations and updates; an invitation's number is its token
  MaxBlips       \* bound: failed round trips

ASSUME RosterAssumption ==
  /\ IsFiniteSet(Clerks) /\ IsFiniteSet(Emails) /\ Clerks # {}
  /\ RosterCap \in Nat \ {0} /\ MaxAsks \in Nat /\ MaxBlips \in Nat

VARIABLES
  roster,    \* mcpip:opusers:*: the records, NoUser for no field
  logged,    \* operator_user_invite and operator_user_update records
  clerk,
  asks,      \* invitations and updates so far
  blips,     \* failed round trips so far
  miscounts  \* counts that failed and answered 0 (history)

rosterVars == <<roster, logged, clerk, asks, blips, miscounts>>

NoUser == [role |-> "none", status |-> "none", token |-> 0]
NoRole == "none"
NoStatus == "none"
Statuses == {"invited", "active", "disabled"}

\* token stands for invite_token_hash: 0 for None.
User == [role : Roles, status : Statuses, token : 0 .. MaxAsks]

Free == [pc |-> "free"]

\* What a body asks for; seen is the record an update has read.
Ask == [role : Roles \cup {NoRole}, status : Statuses \cup {NoStatus}]
Working == [pc : {"count", "create", "get", "put", "remove"},
            email : Emails, ask : Ask, seen : User \cup {NoUser}, token : 0 .. MaxAsks]

\* Every variable has its type; only an invited member has a live token.
RosterTypeOK ==
  /\ roster \in [Emails -> User \cup {NoUser}]
  /\ \A e \in Emails : roster[e].token # 0 => roster[e].status = "invited"
  /\ logged \subseteq [email : Emails, ask : Ask]
  /\ clerk \in [Clerks -> Working \cup {Free}]
  /\ asks \in 0 .. MaxAsks /\ blips \in 0 .. MaxBlips /\ miscounts \in 0 .. MaxBlips

RosterInit ==
  /\ roster = [e \in Emails |-> NoUser]
  /\ logged = {} /\ asks = 0 /\ blips = 0 /\ miscounts = 0
  /\ clerk = [c \in Clerks |-> Free]

Members == {e \in Emails : roster[e] # NoUser}

Turns(c, pc) == clerk' = [clerk EXCEPT ![c].pc = pc]
Frees(c) == clerk' = [clerk EXCEPT ![c] = Free]
Blip == blips < MaxBlips /\ blips' = blips + 1

---------------------------------------------------------------------------

\* A body that passed validation; an update names a role or a status.
AsksOf(op) ==
  CASE op = "invite" -> [role : Roles, status : {"invited"}]
    [] op = "update" -> {a \in Ask : a.role # NoRole \/ a.status # NoStatus}
    [] op = "remove" -> {[role |-> NoRole, status |-> NoStatus]}

FirstCall == [invite |-> "count", update |-> "get", remove |-> "remove"]

Errand(op, e, a) == [pc |-> FirstCall[op], email |-> e, ask |-> a, seen |-> NoUser,
                  token |-> IF op = "invite" THEN asks + 1 ELSE 0]

\* Mutant: an update is not recorded before it is made.
ReceiveEmittingLate(c) ==
  /\ clerk[c] = Free
  /\ \E op \in DOMAIN FirstCall, e \in Emails : \E a \in AsksOf(op) :
       /\ clerk' = [clerk EXCEPT ![c] = Errand(op, e, a)]
       /\ asks' = IF op = "remove" THEN asks ELSE asks + 1
       /\ logged' = IF op # "invite" THEN logged ELSE logged \cup {[email |-> e, ask |-> a]}
  /\ asks' <= MaxAsks
  /\ UNCHANGED <<roster, blips, miscounts>>

\* The endpoint's emit, before the store is called; an emit that fails ends
\* the request with nothing done.  The record of a removal is left out: what is
\* held never rests on it.
Receive(c) ==
  /\ clerk[c] = Free
  /\ \E op \in DOMAIN FirstCall, e \in Emails : \E a \in AsksOf(op) :
       /\ clerk' = [clerk EXCEPT ![c] = Errand(op, e, a)]
       /\ asks' = IF op = "remove" THEN asks ELSE asks + 1
       /\ logged' = IF op = "remove" THEN logged ELSE logged \cup {[email |-> e, ask |-> a]}
  /\ asks' <= MaxAsks
  /\ UNCHANGED <<roster, blips, miscounts>>

\* Mutant: the cap is compared off by one.
CountLoose(c, failed) ==
  /\ clerk[c].pc = "count" /\ ~failed
  /\ IF Cardinality(Members) > RosterCap THEN Frees(c) ELSE Turns(c, "create")
  /\ UNCHANGED <<roster, logged, asks, blips, miscounts>>

\* count, 0 when it fails; a full roster raises.
Count(c, failed) ==
  /\ clerk[c].pc = "count"
  /\ IF failed THEN Blip /\ miscounts' = miscounts + 1 ELSE UNCHANGED <<blips, miscounts>>
  /\ IF ~failed /\ Cardinality(Members) >= RosterCap
     THEN Frees(c) ELSE Turns(c, "create")
  /\ UNCHANGED <<roster, logged, asks>>

\* HSETNX: an email on the roster is a conflict.
Create(c) ==
  /\ clerk[c].pc = "create" /\ Frees(c)
  /\ roster' = [roster EXCEPT ![clerk[c].email] =
                  IF @ # NoUser THEN @
                  ELSE [role |-> clerk[c].ask.role, status |-> "invited", token |-> clerk[c].token]]
  /\ UNCHANGED <<logged, asks, blips, miscounts>>

\* The first half of update: a failed read looks like a non-member.
Get(c, failed) ==
  /\ clerk[c].pc = "get"
  /\ IF failed THEN Blip ELSE UNCHANGED blips
  /\ IF failed \/ roster[clerk[c].email] = NoUser
     THEN Frees(c)
     ELSE clerk' = [clerk EXCEPT ![c].pc = "put", ![c].seen = roster[clerk[c].email]]
  /\ UNCHANGED <<roster, logged, asks, miscounts>>

Updated(seen, ask) ==
  LET status == IF ask.status = NoStatus THEN seen.status ELSE ask.status
  IN [role |-> IF ask.role = NoRole THEN seen.role ELSE ask.role,
      status |-> status,
      token |-> IF status = "invited" THEN seen.token ELSE 0]

\* HSET of the whole record.
Put(c) ==
  /\ clerk[c].pc = "put" /\ Frees(c)
  /\ roster' = [roster EXCEPT ![clerk[c].email] = Updated(clerk[c].seen, clerk[c].ask)]
  /\ UNCHANGED <<logged, asks, blips, miscounts>>

Remove(c) ==
  /\ clerk[c].pc = "remove" /\ Frees(c)
  /\ roster' = [roster EXCEPT ![clerk[c].email] = NoUser]
  /\ UNCHANGED <<logged, asks, blips, miscounts>>

\* A write raises LockError: nothing is written, or the reply is lost and
\* the outcome is that of Create, Put or Remove.
StoreFails(c) ==
  /\ clerk[c].pc \in {"create", "put", "remove"} /\ Blip /\ Frees(c)
  /\ UNCHANGED <<roster, logged, asks, miscounts>>

RosterNext ==
  \E c \in Clerks :
    \/ Receive(c)
    \/ \E failed \in BOOLEAN : Count(c, failed) \/ Get(c, failed)
    \/ Create(c) \/ Put(c) \/ Remove(c) \/ StoreFails(c)

RosterSpec == RosterInit /\ [][RosterNext]_rosterVars

---------------------------------------------------------------------------
(* Properties *)

\* Emit before mutate (invite and update endpoints): a role a member holds,
\* and a status other than invited, were asked for in a logged record of that
\* email, also when an update writes back what it read before another write.
RosterLogged ==
  \A e \in Members :
    /\ \E r \in logged : r.email = e /\ r.ask.role = roster[e].role
    /\ \E r \in logged : r.email = e /\ r.ask.status = roster[e].status

\* Requests that have passed their check and will write.
Writers == {c \in Clerks : clerk[c].pc \in {"create", "put"}}

\* The cap (operator_users.py, count then write): concurrent invitations, and
\* updates that put a removed member back, exceed the cap by fewer members
\* than there are requests in flight, and by one more for each failed count.
RosterBounded ==
  Cardinality(Members \cup {clerk[c].email : c \in Writers})
    <= RosterCap + Cardinality(Clerks) - 1 + miscounts
=============================================================================
