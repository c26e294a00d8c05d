---------------------------- MODULE MCResponses ----------------------------
(* The compartment grants and the response playbook, each beside the other: *)
(* they share no key, so a behaviour moves one of them and leaves the other *)
(* in its initial state; focus says which.                                  *)
EXTENDS CompartmentGrants, ResponsePlaybook, TLC

CONSTANTS h1, h2, w1, w2, salaries, bait, d1, d2, canary, probe

VARIABLE focus

\* Two requests, on two workers with a cache each.
OnePerWorker == h1 :> w1 @@ h2 :> w2

Init ==
  /\ focus \in {"grants", "playbook"}
  /\ GrantInit /\ PlaybookInit

InGrants(A) == focus = "grants" /\ A /\ UNCHANGED <<focus, playVars>>
InPlaybook(A) == focus = "playbook" /\ A /\ UNCHANGED <<focus, grantVars>>

Next == InGrants(GrantNext) \/ InPlaybook(PlaybookNext)

vars == <<focus, grantVars, playVars>>

\* GrantFairness and PlaybookFairness, of the component that moves.
Fairness ==
  /\ WF_vars(InGrants(Second))
  /\ \A h \in Handlers : WF_vars(InGrants(GrantReply(h)))
  /\ \A d \in Daemons : WF_vars(InPlaybook(Proceed(d)))

Spec == Init /\ [][Next]_vars /\ Fairness

\* The type invariants of both modules.
TypesOK == GrantTypeOK /\ PlaybookTypeOK
=============================================================================
