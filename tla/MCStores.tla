------------------------------ MODULE MCStores ------------------------------
(* What administrators keep: the operator roster, the catalog overlay with   *)
(* its review, the bindings and vault of the cloud broker, the switches and  *)
(* documents of the control desk, and the rules of a policy document.  They  *)
(* share no key, so a behaviour moves one of them and leaves the others in   *)
(* their initial state; focus says which.                                    *)
EXTENDS OperatorRoster, CatalogReview, CloudVending, ControlPlane, PolicyRules, TLC

CONSTANTS b1, b2, e1, e2, e3,
          k1, k2, n1, n2, refund, lookup, pay, ledger, ledgers, crm, skill, pack, acme,
          v1, v2, aws, s1, s2, m1, m2, hr,
          o1, o2, root, aide, q1, q2, g1, g2, anyClass

VARIABLE focus

\* The two clerks, callers, orders and calls are interchangeable, and so are
\* the two desks with their nodes: one permutation exchanges all of them, and a
\* behaviour moves the names of one focus only.
Exchange(x, y) == x :> y @@ y :> x
Partner == Exchange(b1, b2) @@ Exchange(v1, v2) @@ Exchange(o1, o2) @@ Exchange(g1, g2)
            @@ Exchange(k1, k2) @@ Exchange(n1, n2)
SwapNames == {IF swap THEN Partner ELSE [x \in DOMAIN Partner |-> x] : swap \in BOOLEAN}

(* Catalog: pay is shipped; the target ledgers covers ledger. *)
OnePerNode == k1 :> n1 @@ k2 :> n2
MCRelated == {ledger, ledgers} \X {ledger, ledgers} \cup {<<crm, crm>>}
MCConfig == pay :> [target |-> ledger, posture |-> <<1, 1>>, source |-> Shipped]
MCBodies == {[alias |-> refund, target |-> crm, posture |-> <<1, 1>>],
             [alias |-> lookup, target |-> ledgers, posture |-> <<1, 0>>]}
Manifest(kind, posture, publisher) ==
  [kind |-> kind, alias |-> lookup, target |-> crm, posture |-> posture, publisher |-> publisher]

\* A skill weaker than what an administrator may register, and a registry skill.
MCManifestOf == skill :> Manifest("skill", <<1, 0>>, NoPublisher)
                @@ pack :> Manifest("registry", <<1, 1>>, acme)

(* Policy: payments of two kinds of arguments, a lookup, and their class.  A *)
(* document may count twice on one scope and refuse an argument.             *)
Cap(scope, max) == [kind |-> "velocity", scope |-> scope, max |-> max]
Ban(scope, what) == [kind |-> "argument", scope |-> scope, refuses |-> what]
MCKinds == {[scopes |-> {pay, anyClass}, argument |-> "small"],
            [scopes |-> {pay, anyClass}, argument |-> "large"],
            [scopes |-> {lookup, anyClass}, argument |-> "small"]}
MCRuleLists == {<<Cap(pay, 1), Ban(pay, {"large"}), Cap(anyClass, 2)>>,
                <<Cap(pay, 1), Cap(pay, 2)>>, <<Cap(anyClass, 1)>>}

(* Desk: with its captures only investigators come, without them everybody.  *)
OnlyReads == \A o \in Orders : order[o] = Waiting \/ Op(o) = "read"

storesVars == <<focus, rosterVars, catalogVars, vendVars, deskVars, policyVars>>

StartIn(foci) ==
  /\ focus \in foci
  /\ RosterInit /\ CatalogInit /\ VendInit /\ DeskInit /\ PolicyInit

StoresNext ==
  /\ \/ /\ focus = "roster" /\ RosterNext
        /\ UNCHANGED <<catalogVars, vendVars, deskVars, policyVars>>
     \/ /\ focus = "catalog" /\ CatalogNext
        /\ UNCHANGED <<rosterVars, vendVars, deskVars, policyVars>>
     \/ /\ focus = "vault" /\ VendNext
        /\ UNCHANGED <<rosterVars, catalogVars, deskVars, policyVars>>
     \/ /\ focus = "desk" /\ DeskNext /\ due' = {}
        /\ UNCHANGED <<rosterVars, catalogVars, vendVars, policyVars>>
     \/ /\ focus = "captures" /\ DeskNext /\ OnlyReads'
        /\ UNCHANGED <<rosterVars, catalogVars, vendVars, policyVars>>
     \/ /\ focus = "policy" /\ PolicyNext
        /\ UNCHANGED <<rosterVars, catalogVars, vendVars, deskVars>>
  /\ UNCHANGED focus

StoresSpec ==
  StartIn({"roster", "catalog", "vault", "desk", "captures", "policy"}) /\ [][StoresNext]_storesVars

\* The catalog alone.
CatalogOnly == StartIn({"catalog"}) /\ [][StoresNext]_storesVars

\* The type invariants of the modules.
TypesOK == RosterTypeOK /\ CatalogTypeOK /\ VendTypeOK /\ DeskTypeOK /\ PolicyTypeOK

\* Write before execute: what a store holds was asked for in a record of the
\* audit log that precedes the write.
WriteBeforeExecute == RosterLogged /\ CatalogLogged /\ StoredOnRecord /\ DeskOnRecord

\* Limits hold though they are checked in one round trip and used in another:
\* the cap on the roster, and the caps of the policy rules.
CapsHold == RosterBounded /\ RulesHold
=============================================================================
