----------------------------- MODULE MCSessions -----------------------------
(* What a session rests on: the delegations of sessions, the authenticator  *)
(* of a principal, and the replay guard of proofs of possession.  They      *)
(* share no key, so a behaviour moves one of them and leaves the others in  *)
(* their initial state; focus says which.                                   *)
EXTENDS Delegation, Authenticator, PopReplay, TLC

CONSTANTS revoked, t1, t2, top, mid, low, pay, read, hr, a1, a2, h1, v1, v2, p1, p2

VARIABLE focus

(* Delegation: a root session top, its child mid, and a grandchild low.  The
   token of mid claims more than top may hand down. *)
MCAgentOf   == [s \in Sessions |-> s]
MCTokenCaps == top :> {read} @@ mid :> {read, pay} @@ low :> {read, pay}
MCTokenComp == top :> hr @@ mid :> hr @@ low :> None
MCTokenExp  == top :> 1 @@ mid :> 2 @@ low :> 2

Ask(child, caps, comp, ttl) ==
  [child |-> child, agent |-> child, caps |-> caps, comp |-> comp, ttl |-> ttl]
MCBodies == {Ask(mid, {read}, hr, 2),
             Ask(low, {read}, hr, 2), Ask(low, {read, pay}, None, 2)}

MCTokens == {<<top, 0>>, <<mid, 1>>, <<low, 2>>}

(* Proofs: v1 runs a second ahead of v2. *)
MCOffset == v1 :> 1 @@ v2 :> 0
MCIat == p1 :> 1 @@ p2 :> 4

\* Two requests of one kind are interchangeable.
SwapNames == Permutations(Tasks) \cup Permutations(Ceremonies)

SessionsInit ==
  /\ focus \in {"delegation", "factor", "proofs"}
  /\ Init /\ FactorInit /\ PopInit

SessionsNext ==
  /\ \/ focus = "delegation" /\ Next /\ UNCHANGED <<factorVars, popVars>>
     \/ focus = "factor" /\ FactorNext /\ UNCHANGED <<vars, popVars>>
     \/ focus = "proofs" /\ PopNext /\ UNCHANGED <<vars, factorVars>>
  /\ UNCHANGED focus

SessionsSpec ==
  SessionsInit /\ [][SessionsNext]_<<focus, vars, factorVars, popVars>>

\* The type invariants of the three modules.
TypesOK == TypeOK /\ FactorTypeOK /\ PopTypeOK
=============================================================================
