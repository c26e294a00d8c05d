-------------------------- MODULE DelegationProofs --------------------------
(* Delegated authority only shrinks and every cut reaches the whole        *)
(* subtree, for any number of requests, sessions and grants.               *)
EXTENDS Delegation, TLAPS

\* What prepare establishes of a grant, by itself: everything it conveys is
\* held by the token of every session above it, and its lists are aligned.
GrantSound(x) ==
  /\ x \in Grant
  /\ \A s \in Elems(x.anc) : /\ x.caps \subseteq TokenCaps[s]
                             /\ x.comp # None => x.comp = TokenComp[s]
                             /\ x.exp <= TokenExp[s]
  /\ x.depth >= 1 /\ Len(x.anc) = x.depth /\ x.depth <= MaxDepth
  /\ x.ancAgents = [i \in 1 .. x.depth |-> AgentOf[x.anc[i]]]
  /\ x.anc[x.depth] = x.parent

\* Stored grants are sound, recorded, and under ids already drawn.
StoreInv ==
  \A g \in GrantId : grants[g] # NoGrant =>
     GrantSound(grants[g]) /\ g \in sealed /\ g <= drawn

AdmittedPc == Kinds \cup {"seal", "persist", "cut"}

\* A task past FetchGrant holds the grant its token names, which never changes.
ReadInv(t) ==
  task[t].gid # 0 /\ task[t].pc \in {"chain", "ancestors"} \cup AdmittedPc =>
     /\ task[t].read # NoGrant
     /\ grants[task[t].gid] = task[t].read
     /\ task[t].read.child = task[t].sess

\* Effective authority.
AuthorityInv(t) ==
  task[t].pc \in AdmittedPc =>
     /\ task[t].caps \subseteq TokenCaps[task[t].sess]
     /\ task[t].comp # None => task[t].comp = TokenComp[task[t].sess]
     /\ task[t].gid # 0 => /\ task[t].caps \subseteq task[t].read.caps
                           /\ task[t].comp # None => task[t].comp = task[t].read.comp

\* What was cut off at the start and still is has not been passed over.
CutInv(t) ==
  /\ task[t].sessionsCut \subseteq cutoff /\ task[t].marksCut \subseteq marks
  /\ task[t].pc \in {"chain", "ancestors"} => task[t].gid # 0
  /\ task[t].pc = "cut" => task[t].target \in Sessions
  /\ \A m \in {AgentOf[task[t].sess]} \X Switches :
        m \in task[t].marksCut => task[t].pc = "own" /\ m \in task[t].todo
  /\ task[t].gid # 0 /\ task[t].pc \in {"ancestors"} \cup AdmittedPc =>
        /\ Chain(task[t].read) \cap task[t].sessionsCut = {}
        /\ \A m \in Elems(task[t].read.ancAgents) \X Switches :
              m \in task[t].marksCut => task[t].pc = "ancestors" /\ m \in task[t].todo

\* A grant being issued is sound, its id is its own.
IssueInv(t) ==
  task[t].pc \in {"seal", "persist"} =>
     /\ GrantSound(task[t].new)
     /\ task[t].newId # 0 /\ task[t].newId <= drawn
     /\ grants[task[t].newId] = NoGrant
     /\ task[t].pc = "persist" => task[t].newId \in sealed
     /\ \A u \in Tasks : u # t /\ task[u].pc \in {"seal", "persist"} =>
           task[u].newId # task[t].newId

TaskInv(t) == ReadInv(t) /\ AuthorityInv(t) /\ CutInv(t) /\ IssueInv(t)

IInv == TypeOK /\ StoreInv /\ \A t \in Tasks : task[t] # Idle => TaskInv(t)

---------------------------------------------------------------------------
(* Lemmas *)

LEMMA ElemsAppend ==
  ASSUME NEW S, NEW q \in Seq(S), NEW e \in S
  PROVE  Elems(Append(q, e)) = Elems(q) \cup {e}
<1>1. Len(Append(q, e)) = Len(q) + 1 /\ Len(q) \in Nat
  OBVIOUS
<1>2. \A i \in 1 .. Len(q) : Append(q, e)[i] = q[i]
  OBVIOUS
<1>3. Append(q, e)[Len(q) + 1] = e
  OBVIOUS
<1> QED
  BY <1>1, <1>2, <1>3 DEF Elems

\* A task that is not idle is a full record.
LEMMA BusyTask ==
  ASSUME TypeOK, NEW t \in Tasks, task[t] # Idle
  PROVE  task[t] \in Task
BY DEF TypeOK

LEMMA PcBusy ==
  ASSUME NEW t, task[t].pc # "idle"
  PROVE  task[t] # Idle
BY DEF Idle

LEMMA TaskNotIdle ==
  ASSUME NEW x \in Task
  PROVE  x # Idle /\ x.pc # "idle"
BY DEF Task, Idle, Kinds

\* A step of one task that leaves the stored grants alone.
LEMMA OneTask ==
  ASSUME IInv, NEW t \in Tasks, NEW x \in Task \cup {Idle},
         task' = [task EXCEPT ![t] = x],
         grants' = grants, drawn' = drawn, marks' = marks,
         sealed \subseteq sealed', cutoff \subseteq cutoff', TypeOK',
         x # Idle => TaskInv(t)'
  PROVE  IInv'
<1>1. StoreInv'
  BY DEF IInv, StoreInv, GrantSound
<1>2. \A u \in Tasks : u # t => task'[u] = task[u]
  BY DEF IInv, TypeOK
<1>3. task'[t] = x
  BY DEF IInv, TypeOK
<1>4. ASSUME NEW u \in Tasks, u # t, task[u] # Idle
      PROVE  TaskInv(u)'
  <2>1. TaskInv(u) /\ task'[u] = task[u]
    BY <1>2, <1>4 DEF IInv
  <2>2. ReadInv(u)' /\ AuthorityInv(u)'
    BY <2>1 DEF TaskInv, ReadInv, AuthorityInv
  <2>3. CutInv(u)'
    BY <2>1 DEF TaskInv, CutInv
  <2>4. IssueInv(u)'
    <3> SUFFICES ASSUME task[u].pc \in {"seal", "persist"}
                 PROVE  IssueInv(u)'
      BY <2>1 DEF IssueInv
    <3>1. GrantSound(task'[u].new)
      BY <2>1 DEF TaskInv, IssueInv
    <3>2. ASSUME NEW v \in Tasks, v # u, task'[v].pc \in {"seal", "persist"}
          PROVE  task'[v].newId # task'[u].newId
      <4>1. CASE v = t
        <5>1. x # Idle
          BY <1>3, <3>2, <4>1 DEF Idle
        <5> QED
          BY <1>3, <1>4, <2>1, <3>2, <4>1, <5>1 DEF TaskInv, IssueInv
      <4>2. CASE v # t
        BY <1>2, <2>1, <3>2, <4>2 DEF TaskInv, IssueInv
      <4> QED
        BY <4>1, <4>2
    <3> QED
      BY <2>1, <3>1, <3>2 DEF TaskInv, IssueInv
  <2> QED
    BY <2>2, <2>3, <2>4 DEF TaskInv
<1> QED
  BY <1>1, <1>2, <1>3, <1>4 DEF IInv

---------------------------------------------------------------------------
(* The steps *)

LEMMA InitInv == Init => IInv
<1> SUFFICES ASSUME Init PROVE IInv
  OBVIOUS
<1>1. TypeOK
  BY RequestAssumption DEF Init, TypeOK
<1>2. StoreInv /\ \A t \in Tasks : task[t] = Idle
  BY DEF Init, StoreInv
<1> QED
  BY <1>1, <1>2 DEF IInv

LEMMA BeginInv ==
  ASSUME IInv, NEW t \in Tasks, Begin(t)
  PROVE  IInv'
<1>1. PICK k \in Kinds, token \in Tokens :
        /\ token[2] <= drawn
        /\ task' = [task EXCEPT ![t] =
            [pc |-> "own", kind |-> k, sess |-> token[1], gid |-> token[2],
             todo |-> ProbesOf({AgentOf[token[1]]}), read |-> NoGrant,
             caps |-> {}, comp |-> None, new |-> NoGrant, newId |-> 0,
             target |-> None,
             sessionsCut |-> cutoff, marksCut |-> marks]]
  BY DEF Begin
<1> DEFINE x == [pc |-> "own", kind |-> k, sess |-> token[1], gid |-> token[2],
             todo |-> ProbesOf({AgentOf[token[1]]}), read |-> NoGrant,
             caps |-> {}, comp |-> None, new |-> NoGrant, newId |-> 0,
             target |-> None,
             sessionsCut |-> cutoff, marksCut |-> marks]
<1>2. token[1] \in Sessions /\ token[2] \in {0} \cup GrantId
  BY RequestAssumption
<1>3. x \in Task
  BY <1>2, ClaimAssumption DEF IInv, TypeOK, Task, ProbesOf, Mark
<1>4. UNCHANGED <<clock, drawn, sealed, grants, goneAt, cutoff, marks>>
  BY DEF Begin, grantVars
<1>5. TypeOK'
  BY <1>1, <1>3, <1>4 DEF IInv, TypeOK
<1>6. task'[t] = x
  BY <1>1 DEF IInv, TypeOK
<1>7. TaskInv(t)'
  BY <1>4, <1>6 DEF TaskInv, ReadInv, AuthorityInv, CutInv, IssueInv, ProbesOf,
     AdmittedPc, Kinds
<1> QED
  BY <1>1, <1>3, <1>4, <1>5, <1>7, OneTask

LEMMA ProbeInv ==
  ASSUME IInv, NEW t \in Tasks, Probe(t)
  PROVE  IInv'
<1>1. PICK p \in task[t].todo :
        p \notin marks /\ task' = [task EXCEPT ![t].todo = @ \ {p}]
  BY DEF Probe
<1> DEFINE x == [task[t] EXCEPT !.todo = @ \ {p}]
<1>2. task[t] # Idle /\ task[t].pc \in {"own", "ancestors"}
  BY DEF Probe, Idle
<1>3. task[t] \in Task /\ TaskInv(t)
  BY <1>2, BusyTask DEF IInv
<1>4. x \in Task
  BY <1>3 DEF Task
<1>5. UNCHANGED <<clock, drawn, sealed, grants, goneAt, cutoff, marks>>
  BY DEF Probe, grantVars
<1>6. task' = [task EXCEPT ![t] = x] /\ task'[t] = x
  BY <1>1 DEF IInv, TypeOK
<1>7. TypeOK'
  BY <1>4, <1>5, <1>6 DEF IInv, TypeOK
<1>8. /\ x.pc = task[t].pc /\ x.gid = task[t].gid /\ x.read = task[t].read
      /\ x.sess = task[t].sess /\ x.sessionsCut = task[t].sessionsCut
      /\ x.marksCut = task[t].marksCut /\ x.todo = task[t].todo \ {p}
  BY <1>3 DEF Task
<1>9. CutInv(t)'
  BY <1>1, <1>2, <1>3, <1>5, <1>6, <1>8 DEF TaskInv, CutInv, AdmittedPc, Kinds
<1>10. ReadInv(t)' /\ AuthorityInv(t)' /\ IssueInv(t)'
  BY <1>2, <1>3, <1>5, <1>6, <1>8 DEF TaskInv, ReadInv, AuthorityInv, IssueInv, AdmittedPc, Kinds
<1> QED
  BY <1>4, <1>5, <1>6, <1>7, <1>9, <1>10, OneTask DEF TaskInv

LEMMA PassUndelegatedInv ==
  ASSUME IInv, NEW t \in Tasks, PassUndelegated(t)
  PROVE  IInv'
<1> DEFINE x == [task[t] EXCEPT !.pc = task[t].kind,
                 !.caps = TokenCaps[task[t].sess], !.comp = TokenComp[task[t].sess]]
<1>1. task[t] # Idle /\ task[t].pc = "own" /\ task[t].gid = 0 /\ task[t].todo = {}
  BY DEF PassUndelegated, Idle, Kinds
<1>2. task[t] \in Task /\ TaskInv(t)
  BY <1>1, BusyTask DEF IInv
<1>3. x \in Task
  BY <1>2, ClaimAssumption DEF PassUndelegated, Task, Kinds, IInv, TypeOK
<1>4. UNCHANGED <<clock, drawn, sealed, grants, goneAt, cutoff, marks>>
  BY DEF PassUndelegated, grantVars
<1>5. task' = [task EXCEPT ![t] = x] /\ task'[t] = x
  BY DEF PassUndelegated, IInv, TypeOK
<1>6. TypeOK'
  BY <1>3, <1>4, <1>5 DEF IInv, TypeOK
<1>7. /\ x.pc \in Kinds /\ x.gid = 0 /\ x.sess = task[t].sess
      /\ x.caps = TokenCaps[x.sess] /\ x.comp = TokenComp[x.sess]
      /\ x.sessionsCut = task[t].sessionsCut /\ x.marksCut = task[t].marksCut
  BY <1>1, <1>2 DEF Task
<1>8. CutInv(t)'
  BY <1>1, <1>2, <1>4, <1>5, <1>7 DEF TaskInv, CutInv, Kinds
<1>9. TaskInv(t)'
  BY <1>5, <1>7, <1>8 DEF TaskInv, ReadInv, AuthorityInv, IssueInv, Kinds
<1> QED
  BY <1>3, <1>4, <1>5, <1>6, <1>9, OneTask DEF TaskInv

LEMMA FetchGrantInv ==
  ASSUME IInv, NEW t \in Tasks, FetchGrant(t)
  PROVE  IInv'
<1> DEFINE x == [task[t] EXCEPT !.pc = "chain", !.read = grants[task[t].gid]]
<1>1. task[t] # Idle /\ task[t].pc = "own" /\ task[t].gid # 0 /\ task[t].todo = {}
  BY DEF FetchGrant, Idle, Kinds
<1>2. task[t] \in Task /\ TaskInv(t)
  BY <1>1, BusyTask DEF IInv
<1>3. x \in Task
  BY <1>2 DEF FetchGrant, Task, Kinds, IInv, TypeOK
<1>4. UNCHANGED <<clock, drawn, sealed, grants, goneAt, cutoff, marks>>
  BY DEF FetchGrant, grantVars
<1>5. task' = [task EXCEPT ![t] = x] /\ task'[t] = x
  BY DEF FetchGrant, IInv, TypeOK
<1>6. TypeOK'
  BY <1>3, <1>4, <1>5 DEF IInv, TypeOK
<1>7. /\ x.pc = "chain" /\ x.gid = task[t].gid /\ x.sess = task[t].sess
      /\ x.read = grants[x.gid] /\ x.read # NoGrant /\ x.read.child = x.sess
      /\ x.sessionsCut = task[t].sessionsCut /\ x.marksCut = task[t].marksCut
  BY <1>1, <1>2 DEF Task, FetchGrant, Live
<1>8. CutInv(t)'
  BY <1>1, <1>2, <1>4, <1>5, <1>7 DEF TaskInv, CutInv, AdmittedPc, Kinds
<1>9. TaskInv(t)'
  BY <1>4, <1>5, <1>7, <1>8 DEF TaskInv, ReadInv, AuthorityInv, IssueInv, AdmittedPc, Kinds
<1> QED
  BY <1>3, <1>4, <1>5, <1>6, <1>9, OneTask DEF TaskInv

LEMMA ProbeChainInv ==
  ASSUME IInv, NEW t \in Tasks, ProbeChain(t)
  PROVE  IInv'
<1> DEFINE x == [task[t] EXCEPT !.pc = "ancestors",
                 !.todo = ProbesOf(Elems(task[t].read.ancAgents))]
<1>1. task[t] # Idle /\ task[t].pc = "chain"
  BY DEF ProbeChain, Idle
<1>2. task[t] \in Task /\ TaskInv(t)
  BY <1>1, BusyTask DEF IInv
<1>3. task[t].gid # 0 /\ task[t].read \in Grant
  BY <1>1, <1>2 DEF TaskInv, CutInv, ReadInv, Task
<1>4. ProbesOf(Elems(task[t].read.ancAgents)) \in SUBSET Mark
  BY <1>3 DEF ProbesOf, Elems, Mark, Grant
<1>5. x \in Task
  BY <1>2, <1>4 DEF Task
<1>6. UNCHANGED <<clock, drawn, sealed, grants, goneAt, cutoff, marks>>
  BY DEF ProbeChain, grantVars
<1>7. task' = [task EXCEPT ![t] = x] /\ task'[t] = x
  BY DEF ProbeChain, IInv, TypeOK
<1>8. TypeOK'
  BY <1>5, <1>6, <1>7 DEF IInv, TypeOK
<1>9. /\ x.pc = "ancestors" /\ x.gid = task[t].gid /\ x.sess = task[t].sess
      /\ x.read = task[t].read /\ x.todo = Elems(x.read.ancAgents) \X Switches
      /\ x.sessionsCut = task[t].sessionsCut /\ x.marksCut = task[t].marksCut
  BY <1>2 DEF Task, ProbesOf
<1>10. Chain(x.read) \cap cutoff = {}
  BY <1>9 DEF ProbeChain
<1>11. CutInv(t)'
  BY <1>1, <1>2, <1>3, <1>6, <1>7, <1>9, <1>10 DEF TaskInv, CutInv, AdmittedPc, Kinds
<1>12. ReadInv(t)' /\ AuthorityInv(t)' /\ IssueInv(t)'
  BY <1>1, <1>2, <1>6, <1>7, <1>9
  DEF TaskInv, ReadInv, AuthorityInv, IssueInv, AdmittedPc, Kinds
<1> QED
  BY <1>5, <1>6, <1>7, <1>8, <1>11, <1>12, OneTask DEF TaskInv

LEMMA NarrowInv ==
  ASSUME IInv, NEW t \in Tasks, Narrow(t)
  PROVE  IInv'
<1> DEFINE r == task[t].read
           c == IF r.comp = TokenComp[task[t].sess] THEN r.comp ELSE None
           x == [task[t] EXCEPT !.pc = task[t].kind,
                                !.caps = TokenCaps[task[t].sess] \cap r.caps,
                                !.comp = c]
<1>1. task[t] # Idle /\ task[t].pc = "ancestors" /\ task[t].todo = {}
  BY DEF Narrow, Idle
<1>2. task[t] \in Task /\ TaskInv(t)
  BY <1>1, BusyTask DEF IInv
<1>3. task[t].gid # 0 /\ r \in Grant
  BY <1>1, <1>2 DEF TaskInv, CutInv, ReadInv, Task
<1>4. /\ c \in Compartments \cup {None}
      /\ TokenCaps[task[t].sess] \cap r.caps \in SUBSET Caps
  BY <1>2, <1>3 DEF Grant, Task
<1> HIDE DEF c
<1>5. x \in Task
  BY <1>2, <1>4 DEF Task
<1>6. UNCHANGED <<clock, drawn, sealed, grants, goneAt, cutoff, marks>>
  BY DEF Narrow, grantVars
<1>7. task' = [task EXCEPT ![t] = x] /\ task'[t] = x
  BY DEF Narrow, IInv, TypeOK, c
<1>8. TypeOK'
  BY <1>5, <1>6, <1>7 DEF IInv, TypeOK
<1>9. /\ x.pc \in Kinds /\ x.gid = task[t].gid /\ x.sess = task[t].sess
      /\ x.read = r /\ x.todo = {} /\ x.caps = TokenCaps[x.sess] \cap r.caps
      /\ x.comp # None => x.comp = r.comp /\ x.comp = TokenComp[x.sess]
      /\ x.sessionsCut = task[t].sessionsCut /\ x.marksCut = task[t].marksCut
  BY <1>1, <1>2 DEF Task, c
<1>10. CutInv(t)'
  BY <1>1, <1>2, <1>6, <1>7, <1>9 DEF TaskInv, CutInv, AdmittedPc, Kinds
<1>11. ReadInv(t)'
  BY <1>1, <1>2, <1>6, <1>7, <1>9 DEF TaskInv, ReadInv, AdmittedPc, Kinds
<1>12. AuthorityInv(t)' /\ IssueInv(t)'
  BY <1>7, <1>9 DEF AuthorityInv, IssueInv, Kinds
<1> QED
  BY <1>5, <1>6, <1>7, <1>8, <1>10, <1>11, <1>12, OneTask DEF TaskInv

\* A task that ends.
LEMMA EndInv ==
  ASSUME IInv, NEW t \in Tasks, task' = [task EXCEPT ![t] = Idle],
         UNCHANGED <<clock, grantVars, marks>>,
         cutoff' \subseteq Sessions, cutoff \subseteq cutoff'
  PROVE  IInv'
<1>1. UNCHANGED <<clock, drawn, sealed, grants, goneAt, marks>>
  BY DEF grantVars
<1>2. TypeOK'
  BY <1>1 DEF IInv, TypeOK
<1> QED
  BY <1>1, <1>2, OneTask

LEMMA UseInv ==
  ASSUME IInv, NEW t \in Tasks, Use(t)
  PROVE  IInv'
BY EndInv DEF Use, IInv, TypeOK

LEMMA FailInv ==
  ASSUME IInv, NEW t \in Tasks, Fail(t)
  PROVE  IInv'
BY EndInv DEF Fail, IInv, TypeOK

LEMMA CutStepInv ==
  ASSUME IInv, NEW t \in Tasks, Cut(t)
  PROVE  IInv'
<1>1. task[t] \in Task
  BY BusyTask DEF IInv, Cut, Idle
<1>2. task[t].target \in Sessions
  BY <1>1, TaskNotIdle DEF IInv, TaskInv, CutInv, Cut
<1>3. cutoff' \subseteq Sessions /\ cutoff \subseteq cutoff'
  BY <1>2 DEF Cut, IInv, TypeOK
<1> QED
  BY <1>3, EndInv DEF Cut

LEMMA ScanInv ==
  ASSUME IInv, NEW t \in Tasks, Scan(t)
  PROVE  IInv'
<1>1. PICK g \in GrantId :
        /\ Live(g)
        /\ task' = [task EXCEPT ![t].pc = "cut", ![t].target = grants[g].child]
  BY DEF Scan
<1> DEFINE x == [task[t] EXCEPT !.pc = "cut", !.target = grants[g].child]
<1>2. task[t] # Idle /\ task[t].pc = "revoke"
  BY DEF Scan, Idle
<1>3. task[t] \in Task /\ TaskInv(t)
  BY <1>2, BusyTask DEF IInv
<1>4. grants[g].child \in Sessions
  BY <1>1 DEF Live, IInv, TypeOK, Grant
<1>5. x \in Task
  BY <1>3, <1>4 DEF Task
<1>6. UNCHANGED <<clock, drawn, sealed, grants, goneAt, cutoff, marks>>
  BY DEF Scan, grantVars
<1>7. task' = [task EXCEPT ![t] = x] /\ task'[t] = x
  BY <1>1 DEF IInv, TypeOK
<1>8. TypeOK'
  BY <1>5, <1>6, <1>7 DEF IInv, TypeOK
<1>9. /\ x.pc = "cut" /\ x.gid = task[t].gid /\ x.sess = task[t].sess
      /\ x.read = task[t].read /\ x.caps = task[t].caps /\ x.comp = task[t].comp
      /\ x.sessionsCut = task[t].sessionsCut /\ x.marksCut = task[t].marksCut
      /\ x.target \in Sessions
  BY <1>3, <1>4 DEF Task
<1>10. CutInv(t)'
  BY <1>2, <1>3, <1>6, <1>7, <1>9 DEF TaskInv, CutInv, AdmittedPc, Kinds
<1>11. ReadInv(t)' /\ AuthorityInv(t)' /\ IssueInv(t)'
  BY <1>2, <1>3, <1>6, <1>7, <1>9
  DEF TaskInv, ReadInv, AuthorityInv, IssueInv, AdmittedPc, Kinds
<1> QED
  BY <1>5, <1>6, <1>7, <1>8, <1>10, <1>11, OneTask DEF TaskInv

LEMMA SealInv ==
  ASSUME IInv, NEW t \in Tasks, Seal(t)
  PROVE  IInv'
<1> DEFINE x == [task[t] EXCEPT !.pc = "persist"]
<1>1. task[t] # Idle /\ task[t].pc = "seal"
  BY DEF Seal, Idle
<1>2. task[t] \in Task /\ TaskInv(t)
  BY <1>1, BusyTask DEF IInv
<1>3. task[t].newId \in GrantId
  BY <1>1, <1>2 DEF TaskInv, IssueInv, Task
<1>4. x \in Task
  BY <1>2 DEF Task
<1>5. UNCHANGED <<clock, drawn, grants, goneAt, cutoff, marks>>
  BY DEF Seal
<1>6. task' = [task EXCEPT ![t] = x] /\ task'[t] = x
  BY DEF Seal, IInv, TypeOK
<1>7. sealed' = sealed \cup {task[t].newId}
  BY DEF Seal
<1>8. TypeOK'
  BY <1>3, <1>4, <1>5, <1>6, <1>7 DEF IInv, TypeOK
<1>9. /\ x.pc = "persist" /\ x.gid = task[t].gid /\ x.sess = task[t].sess
      /\ x.read = task[t].read /\ x.caps = task[t].caps /\ x.comp = task[t].comp
      /\ x.sessionsCut = task[t].sessionsCut /\ x.marksCut = task[t].marksCut
      /\ x.new = task[t].new /\ x.newId = task[t].newId
  BY <1>2 DEF Task
<1>10. CutInv(t)'
  BY <1>1, <1>2, <1>5, <1>6, <1>9 DEF TaskInv, CutInv, AdmittedPc, Kinds
<1>11. ReadInv(t)' /\ AuthorityInv(t)'
  BY <1>1, <1>2, <1>5, <1>6, <1>9 DEF TaskInv, ReadInv, AuthorityInv, AdmittedPc, Kinds
<1>12. IssueInv(t)'
  <2>1. \A u \in Tasks : u # t => task'[u] = task[u]
    BY <1>6 DEF IInv, TypeOK
  <2>2. IssueInv(t) /\ GrantSound(task[t].new)
    BY <1>1, <1>2, <1>9 DEF TaskInv, IssueInv
  <2> QED
    BY <1>1, <1>5, <1>6, <1>7, <1>9, <2>1, <2>2 DEF IssueInv, GrantSound
<1> QED
  BY <1>4, <1>5, <1>6, <1>7, <1>8, <1>10, <1>11, <1>12, OneTask DEF TaskInv

\* What prepare returns is a sound grant: nothing in it exceeds the caller.
LEMMA AppendAgents ==
  ASSUME NEW q \in Seq(Sessions), NEW s \in Sessions
  PROVE  LET a == [i \in 1 .. Len(q) |-> AgentOf[q[i]]]
         IN /\ a \in Seq(Agents) /\ Len(a) = Len(q)
            /\ Append(a, AgentOf[s]) =
                 [i \in 1 .. Len(q) + 1 |-> AgentOf[Append(q, s)[i]]]
<1> DEFINE a == [i \in 1 .. Len(q) |-> AgentOf[q[i]]]
           n == Len(q)
<1>1. n \in Nat /\ \A i \in 1 .. n : q[i] \in Sessions
  OBVIOUS
<1>2. a \in [1 .. n -> Agents]
  BY <1>1, ClaimAssumption
<1>3. a \in Seq(Agents)
  BY <1>1, <1>2
<1>4. Len(a) = n
  BY <1>1, <1>2
<1>5. /\ Append(a, AgentOf[s]) \in Seq(Agents)
      /\ Len(Append(a, AgentOf[s])) = n + 1
  <2>1. AgentOf[s] \in Agents
    BY ClaimAssumption
  <2> HIDE DEF a
  <2> QED
    BY <1>3, <1>4, <2>1
<1>6. \A i \in 1 .. n : Append(a, AgentOf[s])[i] = AgentOf[Append(q, s)[i]]
  <2>1. \A i \in 1 .. n : a[i] = AgentOf[q[i]] /\ Append(q, s)[i] = q[i]
    BY <1>1
  <2> HIDE DEF a
  <2> QED
    BY <1>1, <1>3, <1>4, <2>1
<1>7. Append(a, AgentOf[s])[n + 1] = AgentOf[Append(q, s)[n + 1]]
  <2> HIDE DEF a
  <2> QED
    BY <1>1, <1>3, <1>4
<1>8. \A i \in 1 .. n + 1 : Append(a, AgentOf[s])[i] = AgentOf[Append(q, s)[i]]
  BY <1>1, <1>6, <1>7
<1> QED
  BY <1>3, <1>4, <1>5, <1>8

LEMMA LeastBound ==
  ASSUME NEW a \in Int, NEW b \in Int
  PROVE  Least(a, b) \in Int /\ Least(a, b) <= a /\ Least(a, b) <= b
BY DEF Least

\* A grant under a sound chain (possibly empty), narrower than all of it.
LEMMA LongerChainSound ==
  ASSUME NEW anc \in Seq(Sessions), NEW s \in Sessions, NEW b \in Body,
         NEW e \in Int, Len(anc) + 1 <= MaxDepth,
         \A x \in Elems(anc) \cup {s} :
            /\ b.caps \subseteq TokenCaps[x]
            /\ b.comp # None => b.comp = TokenComp[x]
            /\ e <= TokenExp[x]
  PROVE  GrantSound([parent |-> s, child |-> b.child, agent |-> b.agent,
            caps |-> b.caps, comp |-> b.comp, exp |-> e, depth |-> Len(anc) + 1,
            anc |-> Append(anc, s),
            ancAgents |-> Append([i \in 1 .. Len(anc) |-> AgentOf[anc[i]]], AgentOf[s])])
<1> DEFINE q == Append(anc, s)
           a == Append([i \in 1 .. Len(anc) |-> AgentOf[anc[i]]], AgentOf[s])
           n == [parent |-> s, child |-> b.child, agent |-> b.agent,
                 caps |-> b.caps, comp |-> b.comp, exp |-> e, depth |-> Len(anc) + 1,
                 anc |-> q, ancAgents |-> a]
<1>1. q \in Seq(Sessions) /\ Len(q) = Len(anc) + 1 /\ q[Len(anc) + 1] = s
      /\ Len(anc) \in Nat
  OBVIOUS
<1>2. a = [i \in 1 .. Len(anc) + 1 |-> AgentOf[q[i]]]
  BY AppendAgents
<1>3. a \in Seq(Agents)
  <2>1. AgentOf[s] \in Agents
    BY ClaimAssumption
  <2>2. [i \in 1 .. Len(anc) |-> AgentOf[anc[i]]] \in Seq(Agents)
    BY AppendAgents
  <2> QED
    BY <2>1, <2>2
<1>4. Elems(q) = Elems(anc) \cup {s}
  BY ElemsAppend
<1> HIDE DEF q, a
<1>5. n \in Grant
  BY <1>1, <1>3 DEF Grant, Body
<1>6. \A x \in Elems(q) : /\ b.caps \subseteq TokenCaps[x]
                          /\ b.comp # None => b.comp = TokenComp[x]
                          /\ e <= TokenExp[x]
  BY <1>4
<1>7. GrantSound(n)
  BY <1>1, <1>2, <1>5, <1>6 DEF GrantSound
<1> QED
  BY <1>7 DEF q, a

LEMMA PreparedSound ==
  ASSUME IInv, NEW t \in Tasks, task[t].pc = "delegate", NEW b \in Bodies,
         NEW parent,
         parent = (IF task[t].gid = 0 THEN NoGrant ELSE grants[task[t].gid]),
         Attenuates(t, b, parent)
  PROVE  GrantSound(Prepared(t, b, parent))
<1> DEFINE s == task[t].sess
<1>1. task[t] \in Task /\ TaskInv(t)
  <2>1. task[t] # Idle
    BY DEF Idle
  <2> QED
    BY <2>1, BusyTask DEF IInv
<1>2. s \in Sessions /\ TokenExp[s] \in Int
  BY <1>1, ClaimAssumption DEF Task
<1>3. b \in Body /\ clock + b.ttl \in Int
  BY RequestAssumption DEF Body, IInv, TypeOK
<1>4. /\ b.caps \subseteq TokenCaps[s]
      /\ b.comp # None => b.comp = TokenComp[s]
  BY <1>1 DEF TaskInv, AuthorityInv, AdmittedPc, Kinds, Attenuates
<1>5. CASE task[t].gid = 0
  <2> DEFINE e == Least(clock + b.ttl, TokenExp[s])
  <2>1. parent = NoGrant
    BY <1>5
  <2>2. Prepared(t, b, parent) =
          [parent |-> s, child |-> b.child, agent |-> b.agent,
           caps |-> b.caps, comp |-> b.comp, exp |-> e, depth |-> 1,
           anc |-> Append(<< >>, s), ancAgents |-> Append(<< >>, AgentOf[s])]
    BY <2>1 DEF Prepared, Depth, Expiry
  <2>3. e \in Int /\ e <= TokenExp[s]
    BY <1>2, <1>3, LeastBound
  <2>4. 1 <= MaxDepth
    BY <2>1 DEF Attenuates, Depth
  <2>5. << >> \in Seq(Sessions) /\ Len(<< >>) = 0 /\ Elems(<< >>) = {}
    BY DEF Elems
  <2>6. [i \in 1 .. Len(<< >>) |-> AgentOf[<< >>[i]]] = << >>
    BY <2>5
  <2>7. \A x \in Elems(<< >>) \cup {s} :
            /\ b.caps \subseteq TokenCaps[x]
            /\ b.comp # None => b.comp = TokenComp[x]
            /\ e <= TokenExp[x]
    BY <1>4, <2>3, <2>5
  <2> HIDE DEF e, s
  <2>8. Len(<< >>) + 1 = 1
    BY <2>5
  <2>9. GrantSound([parent |-> s, child |-> b.child, agent |-> b.agent,
            caps |-> b.caps, comp |-> b.comp, exp |-> e, depth |-> Len(<< >>) + 1,
            anc |-> Append(<< >>, s),
            ancAgents |-> Append([i \in 1 .. Len(<< >>) |-> AgentOf[<< >>[i]]], AgentOf[s])])
    BY <1>2, <1>3, <2>3, <2>4, <2>5, <2>7, <2>8, LongerChainSound
  <2> QED
    BY <2>2, <2>6, <2>8, <2>9, Zenon
<1>6. CASE task[t].gid # 0
  <2> DEFINE e == Least(Least(clock + b.ttl, TokenExp[s]), parent.exp)
             anc == parent.anc
  <2>1. /\ parent = task[t].read /\ parent # NoGrant
        /\ parent = grants[task[t].gid] /\ task[t].gid \in GrantId
    BY <1>1, <1>6 DEF TaskInv, ReadInv, AdmittedPc, Kinds, Task
  <2>2. GrantSound(parent)
    BY <2>1 DEF IInv, StoreInv
  <2>3. /\ parent \in Grant /\ parent.exp \in Int /\ anc \in Seq(Sessions)
        /\ parent.depth = Len(anc)
        /\ parent.ancAgents = [i \in 1 .. Len(anc) |-> AgentOf[anc[i]]]
    BY <2>2 DEF GrantSound, Grant
  <2>4. Prepared(t, b, parent) =
          [parent |-> s, child |-> b.child, agent |-> b.agent,
           caps |-> b.caps, comp |-> b.comp, exp |-> e, depth |-> Len(anc) + 1,
           anc |-> Append(anc, s),
           ancAgents |-> Append([i \in 1 .. Len(anc) |-> AgentOf[anc[i]]], AgentOf[s])]
    BY <2>1, <2>3, Zenon DEF Prepared, Depth, Expiry
  <2>5. e \in Int /\ e <= TokenExp[s] /\ e <= parent.exp
    <3>1. /\ Least(clock + b.ttl, TokenExp[s]) \in Int
          /\ Least(clock + b.ttl, TokenExp[s]) <= TokenExp[s]
      BY <1>2, <1>3, LeastBound
    <3> DEFINE w == Least(clock + b.ttl, TokenExp[s])
    <3> HIDE DEF w
    <3>2. Least(w, parent.exp) \in Int /\ Least(w, parent.exp) <= w
          /\ Least(w, parent.exp) <= parent.exp
      BY <2>3, <3>1, LeastBound DEF w
    <3>3. w \in Int /\ w <= TokenExp[s]
      BY <3>1 DEF w
    <3>4. /\ Least(w, parent.exp) \in Int /\ Least(w, parent.exp) <= TokenExp[s]
          /\ Least(w, parent.exp) <= parent.exp
      <4> DEFINE v == Least(w, parent.exp)
      <4> HIDE DEF v
      <4> SUFFICES v \in Int /\ v <= TokenExp[s] /\ v <= parent.exp
        BY DEF v
      <4>1. v \in Int /\ v <= w /\ v <= parent.exp
        BY <3>2 DEF v
      <4> QED
        BY <1>2, <3>3, <4>1
    <3> QED
      BY <3>4 DEF w
  <2>6. Len(anc) + 1 <= MaxDepth
    BY <2>1, <2>3 DEF Attenuates, Depth
  <2>7. /\ b.caps \subseteq parent.caps
        /\ b.comp # None => b.comp = parent.comp
    BY <1>1, <1>6, <2>1 DEF TaskInv, AuthorityInv, AdmittedPc, Kinds, Attenuates
  <2>8. ASSUME NEW x \in Elems(anc) \cup {s}
        PROVE  /\ b.caps \subseteq TokenCaps[x]
               /\ b.comp # None => b.comp = TokenComp[x]
               /\ e <= TokenExp[x]
    <3>1. CASE x = s
      BY <1>4, <2>5, <3>1
    <3>2. CASE x \in Elems(anc)
      <4>1. x \in Sessions /\ TokenExp[x] \in Int
        BY <2>3, <3>2, ClaimAssumption DEF Elems
      <4>2. /\ parent.caps \subseteq TokenCaps[x] /\ parent.exp <= TokenExp[x]
            /\ parent.comp # None => parent.comp = TokenComp[x]
        BY <2>2, <3>2 DEF GrantSound
      <4> HIDE DEF e
      <4>3. e <= TokenExp[x]
        BY <2>3, <2>5, <4>1, <4>2
      <4>4. b.comp # None => b.comp = TokenComp[x]
        BY <2>7, <4>2
      <4> QED
        BY <2>7, <4>2, <4>3, <4>4
    <3> QED
      BY <2>8, <3>1, <3>2
  <2>9. \A x \in Elems(anc) \cup {s} :
            /\ b.caps \subseteq TokenCaps[x]
            /\ b.comp # None => b.comp = TokenComp[x]
            /\ e <= TokenExp[x]
    BY <2>8
  <2> HIDE DEF e, s, anc
  <2>10. GrantSound([parent |-> s, child |-> b.child, agent |-> b.agent,
            caps |-> b.caps, comp |-> b.comp, exp |-> e, depth |-> Len(anc) + 1,
            anc |-> Append(anc, s),
            ancAgents |-> Append([i \in 1 .. Len(anc) |-> AgentOf[anc[i]]], AgentOf[s])])
    BY <1>2, <1>3, <2>3, <2>5, <2>6, <2>9, LongerChainSound
  <2> QED
    BY <2>4, <2>10, Zenon
<1> QED
  BY <1>5, <1>6

LEMMA PrepareInv ==
  ASSUME IInv, NEW t \in Tasks, Prepare(t)
  PROVE  IInv'
<1> DEFINE parent == IF task[t].gid = 0 THEN NoGrant ELSE grants[task[t].gid]
<1>1. PICK b \in Bodies :
        /\ Attenuates(t, b, parent)
        /\ task' = [task EXCEPT ![t].pc = "seal",
                                ![t].new = Prepared(t, b, parent),
                                ![t].newId = drawn + 1]
  BY DEF Prepare
<1>2. task[t] # Idle /\ task[t].pc = "delegate"
  BY DEF Prepare, Idle
<1>3. task[t] \in Task /\ TaskInv(t)
  BY <1>2, BusyTask DEF IInv
<1>4. GrantSound(Prepared(t, b, parent))
  BY <1>1, <1>2, PreparedSound
<1> DEFINE n == Prepared(t, b, parent)
           x == [task[t] EXCEPT !.pc = "seal", !.new = n, !.newId = drawn + 1]
<1>5. task' = [task EXCEPT ![t] = x] /\ task'[t] = x
  BY <1>1 DEF IInv, TypeOK
<1> HIDE DEF n, parent
<1>6. n \in Grant /\ GrantSound(n)
  BY <1>4 DEF n, GrantSound
<1>7. drawn' = drawn + 1 /\ drawn' \in GrantId /\ drawn < MaxGrants /\ drawn \in Nat
  BY RequestAssumption DEF Prepare, IInv, TypeOK, GrantId
<1>8. x \in Task
  BY <1>3, <1>6, <1>7 DEF Task
<1>9. UNCHANGED <<clock, sealed, grants, goneAt, cutoff, marks>>
  BY DEF Prepare
<1>10. TypeOK'
  BY <1>5, <1>7, <1>8, <1>9 DEF IInv, TypeOK
<1>11. /\ x.pc = "seal" /\ x.gid = task[t].gid /\ x.sess = task[t].sess
       /\ x.read = task[t].read /\ x.caps = task[t].caps /\ x.comp = task[t].comp
       /\ x.sessionsCut = task[t].sessionsCut /\ x.marksCut = task[t].marksCut
       /\ x.new = n /\ x.newId = drawn + 1
  BY <1>3 DEF Task
<1> HIDE DEF x
<1>12. \A u \in Tasks : u # t => task'[u] = task[u]
  BY <1>5 DEF IInv, TypeOK
<1>13. StoreInv'
  <2> SUFFICES ASSUME NEW g \in GrantId, grants[g] # NoGrant
               PROVE  GrantSound(grants[g]) /\ g \in sealed /\ g <= drawn'
    BY <1>9 DEF StoreInv, GrantSound
  <2> QED
    BY <1>7 DEF IInv, StoreInv, GrantId
<1>14. grants[drawn + 1] = NoGrant
  BY <1>7 DEF IInv, StoreInv, GrantId
<1>15. ASSUME NEW u \in Tasks, u # t, task[u].pc \in {"seal", "persist"}
       PROVE  task[u].newId # drawn + 1 /\ task[u].newId <= drawn + 1
  <2>1. task[u] # Idle
    BY <1>15 DEF Idle
  <2>2. task[u] \in Task /\ task[u].newId <= drawn
    BY <1>15, <2>1, BusyTask DEF IInv, TaskInv, IssueInv
  <2> QED
    BY <1>7, <2>2 DEF Task, GrantId
<1>16. IssueInv(t)'
  BY <1>5, <1>6, <1>7, <1>9, <1>11, <1>12, <1>14, <1>15 DEF IssueInv, GrantSound
<1>17. CutInv(t)'
  BY <1>2, <1>3, <1>5, <1>9, <1>11 DEF TaskInv, CutInv, AdmittedPc, Kinds
<1>18. ReadInv(t)' /\ AuthorityInv(t)'
  BY <1>2, <1>3, <1>5, <1>9, <1>11 DEF TaskInv, ReadInv, AuthorityInv, AdmittedPc, Kinds
<1>19. ASSUME NEW u \in Tasks, u # t, task[u] # Idle
       PROVE  TaskInv(u)'
  <2>1. TaskInv(u) /\ task'[u] = task[u]
    BY <1>12, <1>19 DEF IInv
  <2>2. ReadInv(u)' /\ AuthorityInv(u)' /\ CutInv(u)'
    BY <1>9, <2>1 DEF TaskInv, ReadInv, AuthorityInv, CutInv
  <2>3. IssueInv(u)'
    <3> SUFFICES ASSUME task[u].pc \in {"seal", "persist"}
                 PROVE  IssueInv(u)'
      BY <2>1 DEF IssueInv
    <3>1. \A v \in Tasks : v # u /\ task'[v].pc \in {"seal", "persist"} =>
             task'[v].newId # task'[u].newId
      BY <1>5, <1>11, <1>12, <1>15, <1>19, <2>1 DEF TaskInv, IssueInv
    <3>2. task[u].newId <= drawn'
      BY <1>7, <1>15, <1>19
    <3> QED
      BY <1>9, <2>1, <3>1, <3>2 DEF TaskInv, IssueInv, GrantSound
  <2> QED
    BY <2>2, <2>3 DEF TaskInv
<1>20. ASSUME NEW u \in Tasks, task'[u] # Idle
       PROVE  TaskInv(u)'
  <2>1. CASE u = t
    BY <1>16, <1>17, <1>18, <2>1 DEF TaskInv
  <2>2. CASE u # t
    BY <1>12, <1>19, <1>20, <2>2
  <2> QED
    BY <2>1, <2>2
<1> QED
  BY <1>10, <1>13, <1>20 DEF IInv

LEMMA PersistInv ==
  ASSUME IInv, NEW t \in Tasks, Persist(t)
  PROVE  IInv'
<1>1. task[t] # Idle /\ task[t].pc = "persist"
  BY DEF Persist, Idle
<1>2. task[t] \in Task /\ TaskInv(t)
  BY <1>1, BusyTask DEF IInv
<1> DEFINE g == task[t].newId
<1>3. /\ g \in GrantId /\ g \in sealed /\ g <= drawn /\ grants[g] = NoGrant
      /\ GrantSound(task[t].new)
  BY <1>1, <1>2 DEF TaskInv, IssueInv, Task
<1>4. task[t].new \in Grant /\ task[t].new.exp \in Int
  BY <1>3 DEF GrantSound, Grant
<1>5. /\ grants' = [grants EXCEPT ![g] = task[t].new]
      /\ task' = [task EXCEPT ![t] = Idle]
      /\ UNCHANGED <<clock, drawn, sealed, cutoff, marks>>
  BY DEF Persist
<1>6. goneAt' \in [GrantId -> Int]
  <2> DEFINE left == task[t].new.exp - clock
             w == clock + (IF left >= 1 THEN left ELSE 1)
  <2>1. w \in Int
    BY <1>4 DEF IInv, TypeOK
  <2>2. goneAt' = [goneAt EXCEPT ![g] = w]
    BY DEF Persist
  <2> HIDE DEF w
  <2> QED
    BY <2>1, <2>2 DEF IInv, TypeOK
<1>7. TypeOK'
  BY <1>3, <1>4, <1>5, <1>6 DEF IInv, TypeOK
<1>8. /\ grants'[g] = task[t].new
      /\ \A h \in GrantId : h # g => grants'[h] = grants[h]
  BY <1>3, <1>5 DEF IInv, TypeOK
<1>9. StoreInv'
  <2> HIDE DEF g
  <2> SUFFICES ASSUME NEW h \in GrantId, grants'[h] # NoGrant
               PROVE  GrantSound(grants'[h]) /\ h \in sealed /\ h <= drawn
    BY <1>5 DEF StoreInv, GrantSound
  <2>1. CASE h = g
    BY <1>3, <1>8, <2>1
  <2>2. CASE h # g
    BY <1>8, <2>2 DEF IInv, StoreInv
  <2> QED
    BY <2>1, <2>2
<1>10. \A u \in Tasks : u # t => task'[u] = task[u]
  BY <1>5 DEF IInv, TypeOK
<1>11. task'[t] = Idle
  BY <1>5 DEF IInv, TypeOK
<1>12. ASSUME NEW u \in Tasks, u # t, task[u] # Idle
       PROVE  TaskInv(u)'
  <2>1. TaskInv(u) /\ task'[u] = task[u] /\ task[u] \in Task
    BY <1>10, <1>12, BusyTask DEF IInv
  <2>2. AuthorityInv(u)' /\ CutInv(u)'
    BY <1>5, <2>1 DEF TaskInv, AuthorityInv, CutInv
  <2>3. ReadInv(u)'
    BY <1>3, <1>8, <2>1 DEF TaskInv, ReadInv, Task
  <2>4. IssueInv(u)'
    <3> SUFFICES ASSUME task[u].pc \in {"seal", "persist"}
                 PROVE  IssueInv(u)'
      BY <2>1 DEF IssueInv
    <3>1. task[u].newId # g /\ task[u].newId \in GrantId
      BY <1>1, <1>2, <1>12, <2>1 DEF TaskInv, IssueInv, Task
    <3>2. grants'[task[u].newId] = NoGrant
      BY <1>8, <2>1, <3>1 DEF TaskInv, IssueInv
    <3>3. \A v \in Tasks : v # u /\ task'[v].pc \in {"seal", "persist"} =>
             task'[v].newId # task'[u].newId
      BY <1>10, <1>11, <2>1 DEF TaskInv, IssueInv, Idle
    <3> QED
      BY <1>5, <2>1, <3>2, <3>3 DEF TaskInv, IssueInv, GrantSound
  <2> QED
    BY <2>2, <2>3, <2>4 DEF TaskInv
<1>13. ASSUME NEW u \in Tasks, task'[u] # Idle
       PROVE  TaskInv(u)'
  BY <1>10, <1>11, <1>12, <1>13
<1> QED
  BY <1>7, <1>9, <1>13 DEF IInv

\* More sessions or principals under a kill switch disturb nothing.
LEMMA MoreCutInv ==
  ASSUME IInv, UNCHANGED <<clock, grantVars, task>>,
         cutoff \subseteq cutoff', cutoff' \subseteq Sessions,
         marks \subseteq marks', marks' \subseteq Mark
  PROVE  IInv'
<1>1. UNCHANGED <<clock, drawn, sealed, grants, goneAt, task>>
  BY DEF grantVars
<1>2. TypeOK'
  BY <1>1 DEF IInv, TypeOK
<1>3. StoreInv'
  BY <1>1 DEF IInv, StoreInv, GrantSound
<1>4. ASSUME NEW t \in Tasks, task'[t] # Idle
      PROVE  TaskInv(t)'
  <2>1. TaskInv(t)
    BY <1>1, <1>4 DEF IInv
  <2>2. ReadInv(t)' /\ AuthorityInv(t)' /\ CutInv(t)'
    BY <1>1, <2>1 DEF TaskInv, ReadInv, AuthorityInv, CutInv
  <2>3. IssueInv(t)'
    BY <1>1, <2>1 DEF TaskInv, IssueInv, GrantSound
  <2> QED
    BY <2>2, <2>3 DEF TaskInv
<1> QED
  BY <1>2, <1>3, <1>4 DEF IInv

LEMMA TickInv == ASSUME IInv, Tick PROVE IInv'
<1>1. UNCHANGED <<drawn, sealed, grants, goneAt, cutoff, marks, task>>
  BY DEF Tick, grantVars
<1>2. TypeOK'
  BY <1>1 DEF Tick, IInv, TypeOK
<1>3. StoreInv'
  BY <1>1 DEF IInv, StoreInv, GrantSound
<1>4. ASSUME NEW t \in Tasks, task'[t] # Idle
      PROVE  TaskInv(t)'
  <2>1. TaskInv(t)
    BY <1>1, <1>4 DEF IInv
  <2>2. ReadInv(t)' /\ AuthorityInv(t)' /\ CutInv(t)'
    BY <1>1, <2>1 DEF TaskInv, ReadInv, AuthorityInv, CutInv
  <2>3. IssueInv(t)'
    BY <1>1, <2>1 DEF TaskInv, IssueInv, GrantSound
  <2> QED
    BY <2>2, <2>3 DEF TaskInv
<1> QED
  BY <1>2, <1>3, <1>4 DEF IInv

LEMMA AdminCutInv == ASSUME IInv, NEW s \in Sessions, AdminCut(s) PROVE IInv'
BY MoreCutInv DEF AdminCut, IInv, TypeOK

LEMMA ThrowInv == ASSUME IInv, NEW m \in Mark, Throw(m) PROVE IInv'
BY MoreCutInv DEF Throw, IInv, TypeOK

\* A lifted mark leaves the history of every request.
LEMMA LiftInv == ASSUME IInv, NEW m \in Mark, Lift(m) PROVE IInv'
<1>1. /\ UNCHANGED <<clock, drawn, sealed, grants, goneAt, cutoff>>
      /\ marks' = marks \ {m}
  BY DEF Lift, grantVars
<1>2. ASSUME NEW t \in Tasks, task[t] = Idle
      PROVE  task'[t] = Idle
  BY <1>2 DEF Lift
<1>3. ASSUME NEW t \in Tasks, task[t] # Idle
      PROVE  /\ task'[t] \in Task /\ TaskInv(t)
             /\ task'[t].pc = task[t].pc /\ task'[t].gid = task[t].gid
             /\ task'[t].sess = task[t].sess /\ task'[t].todo = task[t].todo
             /\ task'[t].read = task[t].read /\ task'[t].caps = task[t].caps
             /\ task'[t].comp = task[t].comp /\ task'[t].new = task[t].new
             /\ task'[t].newId = task[t].newId /\ task'[t].target = task[t].target
             /\ task'[t].sessionsCut = task[t].sessionsCut
             /\ task'[t].marksCut = task[t].marksCut \ {m}
  <2>1. task'[t] = [task[t] EXCEPT !.marksCut = @ \ {m}]
    BY <1>3 DEF Lift
  <2>2. task[t] \in Task /\ TaskInv(t)
    BY <1>3, BusyTask DEF IInv
  <2> QED
    BY <2>1, <2>2 DEF Task
<1>4. TypeOK'
  <2>1. task' \in [Tasks -> Task \cup {Idle}]
    <3>1. \A t \in Tasks : task'[t] \in Task \cup {Idle}
      BY <1>2, <1>3
    <3>2. task' = [t \in Tasks |-> task'[t]]
      BY DEF Lift
    <3> QED
      BY <3>1, <3>2
  <2> QED
    BY <1>1, <2>1 DEF IInv, TypeOK
<1>5. StoreInv'
  BY <1>1 DEF IInv, StoreInv, GrantSound
<1>6. \A t \in Tasks : task'[t].pc \in {"seal", "persist"} =>
         task[t].pc = task'[t].pc /\ task[t].newId = task'[t].newId
  <2> SUFFICES ASSUME NEW t \in Tasks, task'[t].pc \in {"seal", "persist"}
               PROVE  task[t].pc = task'[t].pc /\ task[t].newId = task'[t].newId
    OBVIOUS
  <2>1. task[t] # Idle
    BY <1>2 DEF Idle
  <2> QED
    BY <1>3, <2>1
<1>7. ASSUME NEW t \in Tasks, task'[t] # Idle
      PROVE  TaskInv(t)'
  <2>1. task[t] # Idle
    BY <1>2, <1>7
  <2>2. ReadInv(t)' /\ AuthorityInv(t)' /\ CutInv(t)'
    BY <1>1, <1>3, <2>1 DEF TaskInv, ReadInv, AuthorityInv, CutInv
  <2>3. IssueInv(t)'
    <3> SUFFICES ASSUME task'[t].pc \in {"seal", "persist"}
                 PROVE  IssueInv(t)'
      BY DEF IssueInv
    <3>1. \A u \in Tasks : u # t /\ task'[u].pc \in {"seal", "persist"} =>
             task'[u].newId # task'[t].newId
      BY <1>3, <1>6, <2>1 DEF TaskInv, IssueInv
    <3>2. /\ TaskInv(t) /\ task'[t].pc = task[t].pc /\ task'[t].new = task[t].new
          /\ task'[t].newId = task[t].newId
      BY <1>3, <2>1
    <3>3. IssueInv(t)
      BY <3>2 DEF TaskInv
    <3> QED
      BY <1>1, <3>1, <3>2, <3>3 DEF IssueInv, GrantSound
  <2> QED
    BY <2>2, <2>3 DEF TaskInv
<1> QED
  BY <1>4, <1>5, <1>7 DEF IInv

---------------------------------------------------------------------------
(* Theorems *)

LEMMA StepInv == IInv /\ [Next]_vars => IInv'
<1> SUFFICES ASSUME IInv, [Next]_vars PROVE IInv'
  OBVIOUS
<1>1. ASSUME NEW t \in Tasks, Step(t)
      PROVE  IInv'
  <2>1. CASE Begin(t) \/ Probe(t) \/ PassUndelegated(t) \/ FetchGrant(t)
    BY <2>1, BeginInv, ProbeInv, PassUndelegatedInv, FetchGrantInv
  <2>2. CASE ProbeChain(t) \/ Narrow(t) \/ Use(t) \/ Fail(t)
    BY <2>2, ProbeChainInv, NarrowInv, UseInv, FailInv
  <2>3. CASE Prepare(t) \/ Seal(t) \/ Persist(t)
    BY <2>3, PrepareInv, SealInv, PersistInv
  <2>4. CASE Scan(t) \/ Cut(t)
    BY <2>4, ScanInv, CutStepInv
  <2> QED
    BY <1>1, <2>1, <2>2, <2>3, <2>4 DEF Step
<1>2. ASSUME NEW s \in Sessions, AdminCut(s) PROVE IInv'
  BY <1>2, AdminCutInv
<1>3. ASSUME NEW m \in Mark, Throw(m) \/ Lift(m) PROVE IInv'
  BY <1>3, ThrowInv, LiftInv
<1>4. CASE Tick
  BY <1>4, TickInv
<1>5. CASE UNCHANGED vars
  <2>1. UNCHANGED <<clock, grantVars, cutoff, marks, task>>
    BY <1>5 DEF vars, grantVars
  <2> QED
    BY <2>1, MoreCutInv DEF IInv, TypeOK
<1> QED
  BY <1>1, <1>2, <1>3, <1>4, <1>5 DEF Next

\* The inductive invariant of the delegation protocol.
THEOREM InductiveInvariant == Spec => []IInv
<1>1. Init => IInv
  BY InitInv
<1>2. IInv /\ [Next]_vars => IInv'
  BY StepInv
<1> QED
  BY <1>1, <1>2, PTL DEF Spec

\* Type correctness.
THEOREM TypeCorrect == Spec => []TypeOK
BY InductiveInvariant, PTL DEF IInv

\* The grant a delegated task holds is stored, sound and in the audit log.
LEMMA HeldGrant ==
  ASSUME IInv, NEW t \in Tasks, task[t] \in Task, task[t].gid # 0,
         task[t].read # NoGrant, grants[task[t].gid] = task[t].read
  PROVE  GrantSound(task[t].read) /\ task[t].gid \in sealed
<1> DEFINE g == task[t].gid
<1>1. g \in GrantId
  BY DEF Task
<1>2. grants[g] # NoGrant
  OBVIOUS
<1>3. \A h \in GrantId : grants[h] # NoGrant => GrantSound(grants[h]) /\ h \in sealed
  BY DEF IInv, StoreInv
<1> HIDE DEF g
<1>4. GrantSound(grants[g]) /\ g \in sealed
  BY <1>1, <1>2, <1>3
<1> QED
  BY <1>4 DEF g

\* A step of one task leaves the others as they are.
LEMMA OtherTask ==
  ASSUME TypeOK, NEW u \in Tasks, NEW t \in Tasks, t # u, Step(u)
  PROVE  task'[t] = task[t]
<1>1. CASE Begin(u)
  BY <1>1 DEF Begin, TypeOK
<1>2. CASE Probe(u)
  BY <1>2 DEF Probe, TypeOK
<1>3. CASE PassUndelegated(u)
  BY <1>3 DEF PassUndelegated, TypeOK
<1>4. CASE FetchGrant(u)
  BY <1>4 DEF FetchGrant, TypeOK
<1>5. CASE ProbeChain(u)
  BY <1>5 DEF ProbeChain, TypeOK
<1>6. CASE Narrow(u)
  BY <1>6 DEF Narrow, TypeOK
<1>7. CASE Use(u) \/ Seal(u) \/ Persist(u) \/ Cut(u) \/ Fail(u)
  BY <1>7 DEF Use, Seal, Persist, Cut, Fail, TypeOK
<1>8. CASE Prepare(u)
  BY <1>8 DEF Prepare, TypeOK
<1>9. CASE Scan(u)
  BY <1>9 DEF Scan, TypeOK
<1> QED
  BY <1>1, <1>2, <1>3, <1>4, <1>5, <1>6, <1>7, <1>8, <1>9 DEF Step

LEMMA AdmittedBusy ==
  ASSUME NEW t, Admitted(t)
  PROVE  task[t] # Idle /\ task[t].pc \in AdmittedPc
BY DEF Admitted, AdmittedPc, Idle, Kinds

\* A revoked session severs every request that starts after it, along
\* chains of any length and however many grants were in flight.
THEOREM SubtreesSevered == Spec => []SubtreeSevered
<1>1. IInv => SubtreeSevered
  BY AdmittedBusy DEF IInv, TaskInv, CutInv, SubtreeSevered, Delegated
<1> QED
  BY <1>1, InductiveInvariant, PTL

\* The kill switches of the caller and of every principal above it do too.
THEOREM PrincipalsStaySevered == Spec => []PrincipalsSevered
<1>1. ASSUME IInv, NEW t \in Tasks, Admitted(t)
      PROVE  LET above == IF Delegated(t) THEN Elems(task[t].read.ancAgents) ELSE {}
             IN (above \cup {AgentOf[task[t].sess]}) \X Switches \cap task[t].marksCut = {}
  <2>1. CutInv(t) /\ task[t].pc \in AdmittedPc
    BY <1>1, AdmittedBusy DEF IInv, TaskInv
  <2>2. task[t].pc # "own" /\ task[t].pc # "ancestors"
    BY <2>1 DEF AdmittedPc, Kinds
  <2>3. {AgentOf[task[t].sess]} \X Switches \cap task[t].marksCut = {}
    BY <2>1, <2>2 DEF CutInv
  <2>4. Delegated(t) => Elems(task[t].read.ancAgents) \X Switches \cap task[t].marksCut = {}
    BY <2>1, <2>2 DEF CutInv, Delegated
  <2> QED
    BY <2>3, <2>4
<1>2. IInv => PrincipalsSevered
  BY <1>1 DEF PrincipalsSevered
<1> QED
  BY <1>2, InductiveInvariant, PTL

\* A cut by session or by principal severs at once.
THEOREM ChainStaysSevered == Spec => []ChainSevered
BY SubtreesSevered, PrincipalsStaySevered, PTL DEF ChainSevered

\* No session of a chain is exceeded, in capabilities or compartment.
THEOREM AuthorityOnlyShrinks == Spec => []AuthorityShrinks
<1>1. ASSUME IInv, NEW t \in Tasks, Admitted(t), Delegated(t),
             NEW s \in Chain(task[t].read)
      PROVE  /\ task[t].caps \subseteq TokenCaps[s]
             /\ task[t].comp # None => task[t].comp = TokenComp[s]
  <2>1. task[t] \in Task /\ TaskInv(t) /\ task[t].pc \in AdmittedPc /\ task[t].gid # 0
    BY <1>1, AdmittedBusy, BusyTask DEF IInv, Delegated
  <2>2. /\ task[t].read # NoGrant /\ grants[task[t].gid] = task[t].read
        /\ task[t].read.child = task[t].sess
    BY <2>1 DEF TaskInv, ReadInv
  <2>3. GrantSound(task[t].read)
    BY <1>1, <2>1, <2>2, HeldGrant
  <2>4. CASE s = task[t].sess
    BY <2>1, <2>4 DEF TaskInv, AuthorityInv
  <2>5. CASE s \in Elems(task[t].read.anc)
    BY <2>1, <2>3, <2>5 DEF TaskInv, AuthorityInv, GrantSound
  <2> QED
    BY <1>1, <2>2, <2>4, <2>5 DEF Chain
<1>2. IInv => AuthorityShrinks
  BY <1>1 DEF AuthorityShrinks
<1> QED
  BY <1>2, InductiveInvariant, PTL

\* The two ancestor lists stay aligned and bounded.
THEOREM ChainsAligned == Spec => []ChainAligned
<1>1. IInv => ChainAligned
  BY DEF IInv, StoreInv, GrantSound, ChainAligned
<1> QED
  BY <1>1, InductiveInvariant, PTL

\* Nothing is conveyed by a grant the audit log does not have.
THEOREM GrantsAreSealed == Spec => []GrantsSealed
<1>1. ASSUME IInv, NEW t \in Tasks, Admitted(t), Delegated(t)
      PROVE  task[t].gid \in sealed
  <2>1. task[t] \in Task /\ TaskInv(t) /\ task[t].pc \in AdmittedPc /\ task[t].gid # 0
    BY <1>1, AdmittedBusy, BusyTask DEF IInv, Delegated
  <2>2. task[t].read # NoGrant /\ grants[task[t].gid] = task[t].read
    BY <2>1 DEF TaskInv, ReadInv
  <2> QED
    BY <1>1, <2>1, <2>2, HeldGrant
<1>2. IInv => GrantsSealed
  BY <1>1 DEF IInv, StoreInv, GrantsSealed
<1> QED
  BY <1>2, InductiveInvariant, PTL

\* A delegated request never outlives a session above it.
THEOREM LifetimeOnlyShrinks == Spec => LifetimeShrinks
<1>1. ASSUME IInv, [Next]_vars, NEW t \in Tasks,
             task[t].pc = "own", task'[t].pc = "chain",
             NEW s \in Elems(task'[t].read.anc)
      PROVE  clock < TokenExp[s]
  <2>1. FetchGrant(t)
    <3>1. ASSUME NEW u \in Tasks, Step(u), u # t
          PROVE  FALSE
      <4>1. task'[t] = task[t]
        BY <1>1, <3>1, OtherTask DEF IInv
      <4> QED
        BY <1>1, <4>1
    <3>2. ~ \E m \in Mark : Lift(m)
      <4> SUFFICES ASSUME NEW m \in Mark, Lift(m)
                   PROVE  FALSE
        OBVIOUS
      <4>1. task[t] # Idle
        BY <1>1 DEF Idle
      <4>2. task[t] \in Task
        BY <1>1, <4>1, BusyTask DEF IInv
      <4>3. task'[t].pc = task[t].pc
        BY <4>1, <4>2 DEF Lift, Task
      <4> QED
        BY <1>1, <4>3
    <3>3. task' # task
      BY <1>1
    <3>4. Step(t)
      BY <1>1, <3>1, <3>2, <3>3 DEF Next, vars, AdminCut, Throw, Tick
    <3>5. task[t] # Idle
      BY <1>1 DEF Idle
    <3>6. task[t] \in Task
      BY <1>1, <3>5, BusyTask DEF IInv
    <3>7. ~Begin(t) /\ ~Fail(t) /\ ~PassUndelegated(t) /\ ~Probe(t)
      BY <1>1, <3>5, <3>6 DEF Begin, Fail, PassUndelegated, Probe, Idle, IInv, TypeOK, Task, Kinds
    <3> QED
      BY <1>1, <3>4, <3>7 DEF Step, ProbeChain, Narrow, Use, Prepare, Seal,
         Persist, Scan, Cut, Kinds
  <2> DEFINE r == grants[task[t].gid]
  <2>2. task[t] \in Task /\ task[t].gid \in GrantId
    <3>1. task[t] # Idle
      BY <1>1 DEF Idle
    <3> QED
      BY <1>1, <2>1, <3>1, BusyTask DEF IInv, FetchGrant, Task
  <2>3. r # NoGrant /\ r.exp > clock /\ task'[t].read = r
    BY <1>1, <2>1, <2>2 DEF FetchGrant, Live, IInv, TypeOK, Task
  <2>4. GrantSound(r)
    BY <1>1, <2>2, <2>3 DEF IInv, StoreInv
  <2>5. r.anc \in Seq(Sessions) /\ r.exp \in Int
    BY <2>4 DEF GrantSound, Grant
  <2>6. s \in Sessions /\ r.exp <= TokenExp[s]
    BY <1>1, <2>3, <2>4, <2>5 DEF GrantSound, Elems
  <2>7. TokenExp[s] \in Int /\ clock \in Int
    BY <1>1, <2>6, ClaimAssumption DEF IInv, TypeOK
  <2> QED
    BY <2>3, <2>5, <2>6, <2>7
<1>2. IInv /\ [Next]_vars =>
        [\A t \in Tasks : task[t].pc = "own" /\ task'[t].pc = "chain" =>
           \A s \in Elems(task'[t].read.anc) : clock < TokenExp[s]]_vars
  BY <1>1
<1> QED
  BY <1>2, InductiveInvariant, PTL DEF Spec, LifetimeShrinks
=============================================================================
