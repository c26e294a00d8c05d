----------------------------- MODULE SessionsProofs -----------------------------
(***************************************************************************)
(* What an authenticator, the record of proofs of possession and the       *)
(* guards of a session together promise, for any number of requests,       *)
(* challenges, secrets, proofs, windows and failures.                      *)
(***************************************************************************)
EXTENDS MCSessions, DelegationProofs, FiniteSetTheorems, TLAPS

---------------------------------------------------------------------------
(* What a request carries from one round trip to the next *)

\* Nothing has been disclosed of a code that is still to be answered with; the
\* request that holds it has taken it out of the stash.
Holds(k) ==
  k.found =>
    /\ k.op = "reveal" /\ k.pc \in {"emit", "answer"} /\ k.challenge \in Challenges
    /\ shown[k.challenge] = 0 /\ stash[k.challenge] = "gone"
    /\ k.pc = "answer" => k.challenge \in announced

\* A confirmation writes a secret it has verified; a code about to be burnt was
\* within the drift when it was checked, so it is not from the future.
Carries(k) ==
  /\ k.pc = "activate" => k.secret \in proven
  /\ k.pc = "burn" => Period * (k.step - Drift) <= tick
  /\ k.pc \in {"admit", "check", "burn"} => k.op \in {"confirm", "disable", "reveal"}
  /\ k.pc = "release" => k.op = "reveal"
  /\ k.op = "reveal" => k.challenge \in Challenges
  /\ Holds(k)

CeremoniesSound == \A c \in Ceremonies : ceremony[c] # Calm => Carries(ceremony[c])

\* Two requests never hold one staged code.
OneHolder ==
  \A c, d \in Ceremonies :
    /\ ceremony[c] # Calm /\ ceremony[d] # Calm /\ ceremony[c].found /\ ceremony[d].found
    /\ ceremony[c].challenge = ceremony[d].challenge
    => c = d

\* A code is shown once, after its record and after it has left the stash.
ShownOnce ==
  \A h \in Challenges :
    /\ shown[h] <= 1
    /\ stash[h] # "gone" => shown[h] = 0
    /\ shown[h] > 0 => h \in announced

\* The key of a timestep outlasts the drift window of its codes.
BurntLongEnough ==
  \A s \in TimeStep : burnt[s] > 0 => burnt[s] >= Period * (s + Drift + 1)

\* The requests at one step of the limiter.
At(pc) == {c \in Ceremonies : ceremony[c].pc = pc}

\* A wrong code is counted, about to be counted, or lost; and what was admitted
\* before the limit was reached fits in flight.
Counted == guesses <= tries.count + Cardinality(At("fail")) + losses
InFlightBounded ==
  guesses + Cardinality(At("check")) < TryLimit + Cardinality(Ceremonies) + losses

FactorIInv ==
  /\ FactorTypeOK
  /\ CeremoniesSound /\ OneHolder /\ ShownOnce
  /\ FactorProven /\ BurntLongEnough /\ CodeSpentOnce
  /\ Counted /\ InFlightBounded

---------------------------------------------------------------------------
(* Clocks and tallies *)

LEMMA Parameters ==
  /\ IsFiniteSet(Ceremonies) /\ NoChallenge \notin Challenges
  /\ Period \in Nat /\ Period > 0 /\ Drift \in Nat
  /\ TryLimit \in Nat /\ TryLimit > 0 /\ TryWindow \in Nat /\ TryWindow > 0
  /\ MaxSecrets \in Nat /\ MaxCeremonies \in Nat /\ MaxLosses \in Nat /\ LastTick \in Nat
BY AuthenticatorAssumption

\* The step of an instant, and the instants of a step.
LEMMA Steps ==
  ASSUME NEW t \in Nat, NEW s \in Int
  PROVE  /\ t \div Period \in Nat
         /\ s <= t \div Period => Period * s <= t
         /\ Period * s <= t => s <= t \div Period
<1>1. Period \in Nat /\ Period > 0
  BY Parameters
<1> DEFINE n == t \div Period
           r == t % Period
<1>2. n \in Int /\ r \in Int /\ t = Period * n + r /\ 0 <= r /\ r < Period
  BY <1>1
<1>3. n \in Nat
  <2>1. n >= 0
    BY <1>1
  <2>2. QED
    BY <1>2, <2>1
<1> HIDE DEF n, r
<1>4. ASSUME s <= n PROVE Period * s <= t
  <2>1. Period * s <= Period * n
    BY <1>1, <1>2, <1>4
  <2>2. QED
    BY <1>1, <1>2, <2>1
<1>5. ASSUME Period * s <= t PROVE s <= n
  <2>1. SUFFICES ASSUME s >= n + 1 PROVE FALSE
    BY <1>2
  <2>2. Period * s >= Period * (n + 1)
    BY <1>1, <1>2, <2>1
  <2>3. Period * (n + 1) = Period * n + Period
    BY <1>1, <1>2
  <2>4. Period * s \in Int /\ Period * n \in Int
    BY <1>1, <1>2
  <2>5. QED
    BY <1>1, <1>2, <1>5, <2>2, <2>3, <2>4
<1>6. QED
  BY <1>3, <1>4, <1>5 DEF n

\* A code that is acceptable is not from the future ...
LEMMA AcceptableEarly ==
  ASSUME tick \in Nat, NEW s \in TimeStep, Acceptable(s)
  PROVE  Period * (s - Drift) <= tick
<1>1. s \in Int /\ Drift \in Nat
  BY Parameters, Steps DEF TimeStep
<1>2. tick \div Period \in Nat
  BY Steps, <1>1
<1>3. s - Drift <= tick \div Period
  BY <1>1, <1>2 DEF Acceptable
<1>4. QED
  BY <1>1, <1>3, Steps

\* ... and out of date when its key has expired.
LEMMA ExpiredLate ==
  ASSUME tick \in Nat, NEW s \in TimeStep, Period * (s + Drift + 1) <= tick
  PROVE  ~Acceptable(s)
<1>1. s \in Int /\ Drift \in Nat
  BY Parameters, Steps DEF TimeStep
<1>2. tick \div Period \in Nat
  BY Steps, <1>1
<1>3. s + Drift + 1 <= tick \div Period
  BY <1>1, Steps
<1>4. QED
  BY <1>1, <1>2, <1>3 DEF Acceptable

\* One more and one less of a finite set.
Num(b) == IF b THEN 1 ELSE 0

Tally(c, k, p) ==
  /\ Cardinality(At(p)) \in Nat /\ Cardinality(At(p)') \in Nat
  /\ Cardinality(At(p)') = Cardinality(At(p)) - Num(ceremony[c].pc = p) + Num(k.pc = p)

LEMMA Tallies ==
  ASSUME ceremony \in [Ceremonies -> Busy \cup {Calm}],
         NEW c \in Ceremonies, NEW k, ceremony' = [ceremony EXCEPT ![c] = k], NEW p
  PROVE  Tally(c, k, p)
<1> DEFINE S == At(p)
           R == S \ {c}
<1>1. IsFiniteSet(S) /\ S \subseteq Ceremonies
  BY Parameters, FS_Subset DEF At
<1>2. IsFiniteSet(R) /\ c \notin R
  BY <1>1, FS_RemoveElement
<1>3. Cardinality(R) \in Nat /\ Cardinality(S) \in Nat
  BY <1>1, <1>2, FS_CardinalityType
<1>4. Cardinality(S) = Cardinality(R) + Num(ceremony[c].pc = p)
  <2>1. CASE ceremony[c].pc = p
    <3>1. S = R \cup {c}
      BY <2>1 DEF At
    <3>2. Cardinality(R \cup {c}) = Cardinality(R) + 1
      BY <1>2, FS_AddElement
    <3>3. QED
      BY <2>1, <3>1, <3>2 DEF Num
  <2>2. CASE ceremony[c].pc # p
    <3>1. S = R
      BY <2>2 DEF At
    <3>2. Cardinality(S) = Cardinality(R) /\ Num(ceremony[c].pc = p) = 0
      BY <2>2, <3>1, Zenon DEF Num
    <3> HIDE DEF S, R
    <3>3. QED
      BY <3>2, <1>3
  <2>3. QED
    BY <2>1, <2>2
<1>5. Cardinality(At(p)') = Cardinality(R) + Num(k.pc = p)
  <2>1. CASE k.pc = p
    <3>1. At(p)' = R \cup {c}
      BY <2>1 DEF At
    <3>2. Cardinality(R \cup {c}) = Cardinality(R) + 1
      BY <1>2, FS_AddElement
    <3>3. QED
      BY <2>1, <3>1, <3>2 DEF Num
  <2>2. CASE k.pc # p
    <3>1. At(p)' = R
      BY <2>2 DEF At
    <3>2. Cardinality(At(p)') = Cardinality(R) /\ Num(k.pc = p) = 0
      BY <2>2, <3>1, Zenon DEF Num
    <3>3. QED
      BY <3>2, <1>3
  <2>3. QED
    BY <2>1, <2>2
<1>6. Num(ceremony[c].pc = p) \in Nat /\ Num(k.pc = p) \in Nat
  BY DEF Num
<1> HIDE DEF S, R
<1>7. QED
  BY <1>3, <1>4, <1>5, <1>6 DEF S, Tally

---------------------------------------------------------------------------
(* A step of one request *)

LEMMA Requests ==
  ASSUME FactorIInv, NEW c \in Ceremonies, NEW k, k = ceremony[c], k # Calm
  PROVE  k \in Busy /\ Carries(k)
BY DEF FactorIInv, FactorTypeOK, CeremoniesSound

LEMMA WellTyped ==
  ASSUME FactorIInv
  PROVE  /\ ceremony \in [Ceremonies -> Busy \cup {Calm}]
         /\ tick \in Nat /\ guesses \in Nat /\ losses \in Nat /\ tries.count \in Nat
         /\ losses \in 0 .. MaxLosses /\ begun \in 0 .. MaxCeremonies
BY Parameters DEF FactorIInv, FactorTypeOK

LEMMA CalmIsNotBusy == Calm \notin Busy /\ Calm.pc = "calm"
BY DEF Calm, Busy

\* What the limiter must still say after a step of one request.
Limited(c, pc) ==
  LET fails  == Num(pc = "fail") - Num(ceremony[c].pc = "fail")
      checks == Num(pc = "check") - Num(ceremony[c].pc = "check")
  IN
  /\ guesses' - guesses <= (tries'.count - tries.count) + fails + (losses' - losses)
  /\ \/ guesses' - guesses + checks <= losses' - losses
     \/ tries.count < TryLimit /\ guesses' = guesses /\ losses' >= losses
        /\ pc = "check" /\ ceremony[c].pc # "check" /\ ceremony[c].pc # "fail"

LEMMA LimitKept ==
  ASSUME FactorIInv, NEW c \in Ceremonies, NEW k, ceremony' = [ceremony EXCEPT ![c] = k],
         guesses' \in Nat, losses' \in Nat, tries'.count \in Nat, Limited(c, k.pc)
  PROVE  Counted' /\ InFlightBounded'
<1>1. /\ guesses \in Nat /\ losses \in Nat /\ tries.count \in Nat
      /\ Num(k.pc = "fail") \in 0 .. 1 /\ Num(ceremony[c].pc = "fail") \in 0 .. 1
      /\ Num(k.pc = "check") \in 0 .. 1 /\ Num(ceremony[c].pc = "check") \in 0 .. 1
  BY WellTyped DEF Num
<1>2. /\ Cardinality(At("fail")) \in Nat /\ Cardinality(At("fail")') \in Nat
      /\ Cardinality(At("fail")') =
           Cardinality(At("fail")) - Num(ceremony[c].pc = "fail") + Num(k.pc = "fail")
  <2>1. Tally(c, k, "fail")
    BY WellTyped, Tallies
  <2>2. QED
    BY <2>1, Zenon DEF Tally
<1>3. /\ Cardinality(At("check")) \in Nat /\ Cardinality(At("check")') \in Nat
      /\ Cardinality(At("check")') =
           Cardinality(At("check")) - Num(ceremony[c].pc = "check") + Num(k.pc = "check")
  <2>1. Tally(c, k, "check")
    BY WellTyped, Tallies
  <2>2. QED
    BY <2>1, Zenon DEF Tally
<1>4. /\ guesses <= tries.count + Cardinality(At("fail")) + losses
      /\ guesses + Cardinality(At("check")) < TryLimit + Cardinality(Ceremonies) + losses
  BY DEF FactorIInv, Counted, InFlightBounded
<1>5. guesses' - guesses <= (tries'.count - tries.count)
        + (Num(k.pc = "fail") - Num(ceremony[c].pc = "fail")) + (losses' - losses)
  BY DEF Limited
<1>6. guesses' <= tries'.count + Cardinality(At("fail")') + losses'
  BY <1>1, <1>2, <1>4, <1>5
<1>7. TryLimit \in Nat /\ Cardinality(Ceremonies) \in Nat
  BY Parameters, FS_CardinalityType
<1>8. guesses' + Cardinality(At("check")') < TryLimit + Cardinality(Ceremonies) + losses'
  <2>1. CASE guesses' - guesses + (Num(k.pc = "check") - Num(ceremony[c].pc = "check"))
               <= losses' - losses
    BY <1>1, <1>3, <1>4, <1>7, <2>1
  <2>2. CASE tries.count < TryLimit /\ guesses' = guesses /\ losses' >= losses
             /\ k.pc = "check" /\ ceremony[c].pc # "check" /\ ceremony[c].pc # "fail"
    <3>1. k.pc # "fail" /\ ceremony[c].pc # "fail"
      BY <2>2
    <3>2. Num(k.pc = "fail") = 0 /\ Num(ceremony[c].pc = "fail") = 0
      BY <3>1 DEF Num
    <3>3. Cardinality(At("fail")') = Cardinality(At("fail"))
      BY <1>2, <3>2
    <3>4. Cardinality(At("check")') + Cardinality(At("fail")') <= Cardinality(Ceremonies)
      <4>1. IsFiniteSet(Ceremonies)
        BY Parameters
      <4> DEFINE P == At("check")'
                 R == At("fail")'
      <4>2. P \cap R = {} /\ P \subseteq Ceremonies /\ R \subseteq Ceremonies
        BY DEF At
      <4> HIDE DEF P, R
      <4>3. IsFiniteSet(P) /\ IsFiniteSet(R)
        BY <4>1, <4>2, FS_Subset
      <4>4. Cardinality(P \cup R) = Cardinality(P) + Cardinality(R) - Cardinality(P \cap R)
        BY <4>3, FS_Union
      <4>5. Cardinality(P \cap R) = 0
        BY <4>2, FS_EmptySet
      <4>6. Cardinality(P \cup R) <= Cardinality(Ceremonies)
        BY <4>1, <4>2, FS_Subset
      <4>7. Cardinality(P) \in Nat /\ Cardinality(R) \in Nat
        BY <4>3, FS_CardinalityType
      <4>8. Cardinality(P) + Cardinality(R) <= Cardinality(Ceremonies)
        BY <4>4, <4>5, <4>6, <4>7
      <4>9. QED
        BY <4>8 DEF P, R
    <3>5. QED
      BY <1>1, <1>2, <1>3, <1>4, <1>7, <2>2, <3>3, <3>4
  <2>3. QED
    BY <2>1, <2>2 DEF Limited
<1>9. QED
  BY <1>6, <1>8 DEF Counted, InFlightBounded

\* All that a request carries is still so when the clock goes on, more secrets
\* are proven and more records written; the code it holds must be left alone.
LEMMA CarriesKept ==
  ASSUME tick \in Nat, tick' \in Nat, tick' >= tick, proven \subseteq proven',
         announced \subseteq announced', NEW k \in Busy, Carries(k),
         k.found => /\ shown'[k.challenge] = shown[k.challenge]
                    /\ stash'[k.challenge] = stash[k.challenge]
  PROVE  Carries(k)'
<1>1. Holds(k)'
  BY DEF Carries, Holds
<1>2. k.pc = "burn" => Period * (k.step - Drift) <= tick'
  <2>1. Period * (k.step - Drift) \in Int
    BY Parameters, Steps DEF Busy, TimeStep
  <2>2. k.pc = "burn" => Period * (k.step - Drift) <= tick
    BY DEF Carries
  <2>3. QED
    BY <2>1, <2>2
<1>3. /\ k.pc = "activate" => k.secret \in proven'
      /\ k.pc \in {"admit", "check", "burn"} => k.op \in {"confirm", "disable", "reveal"}
      /\ k.pc = "release" => k.op = "reveal"
      /\ k.op = "reveal" => k.challenge \in Challenges
  BY DEF Carries
<1>4. QED
  BY <1>1, <1>2, <1>3 DEF Carries

\* Nobody but c may hold the code that this step takes or shows.
Others(c, k) ==
  \A d \in Ceremonies \ {c} : ceremony[d] # Calm /\ ceremony[d].found =>
    /\ shown'[ceremony[d].challenge] = shown[ceremony[d].challenge]
    /\ stash'[ceremony[d].challenge] = stash[ceremony[d].challenge]
    /\ k # Calm /\ k.found => k.challenge # ceremony[d].challenge

\* What a step of one request shows of the requests.
LEMMA RequestsKept ==
  ASSUME FactorIInv, NEW c \in Ceremonies, NEW k \in Busy \cup {Calm},
         ceremony' = [ceremony EXCEPT ![c] = k],
         tick' = tick, proven \subseteq proven', announced \subseteq announced',
         k # Calm => Carries(k)', Others(c, k)
  PROVE  /\ ceremony' \in [Ceremonies -> Busy \cup {Calm}]
         /\ CeremoniesSound' /\ OneHolder'
<1>1. /\ ceremony' \in [Ceremonies -> Busy \cup {Calm}] /\ ceremony'[c] = k
      /\ \A d \in Ceremonies \ {c} : ceremony'[d] = ceremony[d]
  BY WellTyped
<1>2. ASSUME NEW d \in Ceremonies, ceremony'[d] # Calm PROVE Carries(ceremony[d])'
  <2>1. CASE d = c
    BY <1>1, <1>2, <2>1
  <2>2. CASE d # c
    <3>1. PICK q : q = ceremony[d]
      OBVIOUS
    <3>2. q = ceremony'[d] /\ q # Calm
      BY <1>1, <1>2, <2>2, <3>1
    <3>3. q \in Busy /\ Carries(q)
      BY <3>1, <3>2, Requests
    <3>4. q.found => /\ shown'[q.challenge] = shown[q.challenge]
                     /\ stash'[q.challenge] = stash[q.challenge]
      BY <2>2, <3>1, <3>2 DEF Others
    <3>5. Carries(q)'
      BY <3>3, <3>4, WellTyped, CarriesKept
    <3>6. QED
      BY <3>2, <3>5
  <2>3. QED
    BY <2>1, <2>2
<1>3. CeremoniesSound'
  BY <1>2 DEF CeremoniesSound
<1>4. OneHolder
  BY DEF FactorIInv
<1>5. OneHolder'
  BY <1>1, <1>4 DEF OneHolder, Others
<1>6. QED
  BY <1>1, <1>3, <1>5

still == <<tick, factor, minted, burnt, stash, announced, proven, again, late, shown>>

\* A step that moves one request and, perhaps, the attempt counter.
LEMMA Moved ==
  ASSUME FactorIInv, NEW c \in Ceremonies, NEW k \in Busy \cup {Calm},
         ceremony' = [ceremony EXCEPT ![c] = k], UNCHANGED still,
         guesses' \in Nat, losses' \in 0 .. MaxLosses, begun' \in 0 .. MaxCeremonies,
         tries' \in [count : Nat, left : Endless .. TryWindow],
         tries'.left = Endless =>
           \/ losses' > 0 \/ k.pc = "limit"
           \/ tries.left = Endless /\ ceremony[c].pc # "limit" /\ losses' >= losses,
         k # Calm => Carries(k),
         k # Calm /\ k.found =>
           ceremony[c] # Calm /\ ceremony[c].found /\ ceremony[c].challenge = k.challenge,
         Limited(c, k.pc)
  PROVE  FactorIInv'
<1>1. /\ tick' = tick /\ factor' = factor /\ minted' = minted /\ burnt' = burnt
      /\ stash' = stash /\ announced' = announced /\ proven' = proven /\ again' = again
      /\ late' = late /\ shown' = shown
  BY DEF still
<1>2. k # Calm => Carries(k)'
  <2>1. ASSUME k # Calm PROVE Carries(k)'
    <3>1. k \in Busy
      BY <2>1
    <3>2. QED
      BY <1>1, <2>1, <3>1, WellTyped, CarriesKept
  <2>2. QED
    BY <2>1
<1>3. \A d \in Ceremonies \ {c} : ceremony[d] # Calm /\ ceremony[d].found /\ k # Calm /\ k.found
                                  => k.challenge # ceremony[d].challenge
  BY DEF FactorIInv, OneHolder
<1>4. /\ ceremony' \in [Ceremonies -> Busy \cup {Calm}]
      /\ CeremoniesSound' /\ OneHolder'
  <2>1. Others(c, k)
    BY <1>1, <1>3 DEF Others
  <2>2. QED
    BY <1>1, <1>2, <2>1, RequestsKept
<1>5. ShownOnce' /\ FactorProven' /\ BurntLongEnough' /\ CodeSpentOnce'
  BY <1>1 DEF FactorIInv, ShownOnce, FactorProven, BurntLongEnough, CodeSpentOnce
<1>6. losses' \in Nat /\ tries'.count \in Nat
  BY Parameters
<1>7. Counted' /\ InFlightBounded'
  BY <1>6, LimitKept
<1>8. tries'.left = Endless => losses' > 0 \/ \E d \in Ceremonies : ceremony'[d].pc = "limit"
  <2>1. ceremony'[c] = k /\ \A d \in Ceremonies \ {c} : ceremony'[d] = ceremony[d]
    BY WellTyped
  <2>2. tries.left = Endless => losses > 0 \/ \E d \in Ceremonies : ceremony[d].pc = "limit"
    BY DEF FactorIInv, FactorTypeOK
  <2>3. losses \in Nat /\ losses' \in Nat
    BY WellTyped, <1>6
  <2>4. CASE tries.left = Endless /\ ceremony[c].pc # "limit" /\ losses' >= losses
    <3>1. CASE losses > 0
      BY <2>3, <2>4, <3>1
    <3>2. CASE \E d \in Ceremonies : ceremony[d].pc = "limit"
      BY <2>1, <2>4, <3>2
    <3>3. QED
      BY <2>2, <2>4, <3>1, <3>2
  <2>5. QED
    BY <2>1, <2>4
<1>9. FactorTypeOK'
  BY <1>1, <1>4, <1>8 DEF FactorIInv, FactorTypeOK
<1>10. QED
  BY <1>4, <1>5, <1>7, <1>9 DEF FactorIInv

\* ... and goes on to a step that asks for nothing more,
LEMMA GoesTo ==
  ASSUME FactorIInv, NEW c \in Ceremonies, NEW pc \in {"load", "mint", "check", "fail", "limit"},
         Moves(c, pc), UNCHANGED still, ceremony[c] # Calm,
         ceremony[c].pc \notin {"emit", "answer"} \/ ceremony[c].op # "reveal",
         pc = "check" => ceremony[c].op \in {"confirm", "disable", "reveal"},
         guesses' \in Nat, losses' \in 0 .. MaxLosses, begun' \in 0 .. MaxCeremonies,
         tries' \in [count : Nat, left : Endless .. TryWindow],
         tries'.left = Endless =>
           \/ losses' > 0 \/ pc = "limit"
           \/ tries.left = Endless /\ ceremony[c].pc # "limit" /\ losses' >= losses,
         Limited(c, pc)
  PROVE  FactorIInv'
<1>1. PICK q : q = ceremony[c]
  OBVIOUS
<1>2. q \in Busy /\ Carries(q)
  BY <1>1, Requests
<1>3. PICK k : k = [q EXCEPT !.pc = pc]
  OBVIOUS
<1>4. /\ k \in Busy /\ k.pc = pc /\ k.op = q.op /\ k.challenge = q.challenge
      /\ k.found = q.found
  BY <1>2, <1>3 DEF Busy
<1>5. ~q.found
  BY <1>1, <1>2 DEF Carries, Holds
<1>6. Carries(k)
  BY <1>1, <1>2, <1>4, <1>5 DEF Carries, Holds
<1>7. ceremony' = [ceremony EXCEPT ![c] = k]
  BY <1>1, <1>3 DEF Moves
<1>8. ~k.found
  BY <1>4, <1>5
<1>9. QED
  BY <1>4, <1>6, <1>7, <1>8, Moved

\* ... or ends.
LEMMA EndsWith ==
  ASSUME FactorIInv, NEW c \in Ceremonies, Ends(c), UNCHANGED still,
         guesses' \in Nat, losses' \in 0 .. MaxLosses, begun' \in 0 .. MaxCeremonies,
         tries' \in [count : Nat, left : Endless .. TryWindow],
         tries'.left = Endless =>
           losses' > 0 \/ (tries.left = Endless /\ ceremony[c].pc # "limit" /\ losses' >= losses),
         Limited(c, "calm")
  PROVE  FactorIInv'
<1>1. PICK k : k = Calm
  OBVIOUS
<1>2. k.pc = "calm" /\ k \in Busy \cup {Calm}
  BY <1>1, CalmIsNotBusy
<1>3. ceremony' = [ceremony EXCEPT ![c] = k]
  BY <1>1 DEF Ends
<1>4. Limited(c, k.pc)
  BY <1>2
<1>5. QED
  BY <1>1, <1>2, <1>3, <1>4, Moved

\* The attempts keep their types, however many calls fail.
LEMMA LossTyped ==
  ASSUME FactorIInv,
         losses' = losses \/ (losses < MaxLosses /\ losses' = losses + 1)
  PROVE  /\ losses' \in 0 .. MaxLosses /\ losses' >= losses /\ losses' \in Nat /\ losses \in Nat
         /\ guesses \in Nat /\ tries.count \in Nat /\ begun \in 0 .. MaxCeremonies
         /\ tries \in [count : Nat, left : Endless .. TryWindow]
BY Parameters, WellTyped DEF FactorIInv, FactorTypeOK

LEMMA LossIs ==
  ASSUME NEW b, Loss(b)
  PROVE  losses' = losses \/ (losses < MaxLosses /\ losses' = losses + 1)
BY DEF Loss

\* A step that leaves the counter alone and gives up no place in the limiter.
LEMMA LimiterIdle ==
  ASSUME FactorIInv, NEW c \in Ceremonies, NEW pc, pc # "check", pc # "fail" \/ ceremony[c].pc = "fail",
         ceremony[c].pc # "fail" \/ pc = "fail", guesses' = guesses,
         tries'.count = tries.count, losses' \in Nat, losses' >= losses
  PROVE  Limited(c, pc)
<1>1. guesses \in Nat /\ losses \in Nat /\ tries.count \in Nat
  BY WellTyped
<1>2. Num(pc = "check") = 0 /\ Num(ceremony[c].pc = "check") \in 0 .. 1
  BY DEF Num
<1>3. Num(pc = "fail") = Num(ceremony[c].pc = "fail") /\ Num(pc = "fail") \in 0 .. 1
  BY DEF Num
<1>4. QED
  BY <1>1, <1>2, <1>3 DEF Limited

LEMMA BeginsStep ==
  ASSUME FactorIInv, NEW c \in Ceremonies, NEW op \in Operation,
         NEW h \in Challenges \cup {NoChallenge}, op = "reveal" => h \in Challenges,
         NEW b, Begins(c, op, h), Loss(b)
  PROVE  FactorIInv'
<1>1. PICK k : k = [pc |-> FirstStep[op], op |-> op, secret |-> 0, step |-> 0,
                    challenge |-> h, found |-> FALSE]
  OBVIOUS
<1>2. k.pc = FirstStep[op] /\ k.op = op /\ k.challenge = h /\ ~k.found
      /\ k.secret = 0 /\ k.step = 0
  BY <1>1
<1>3. k.pc \in {"emit", "admit", "delete"}
      /\ (k.pc = "admit" => op \in {"confirm", "disable", "reveal"})
  BY <1>2 DEF FirstStep, Operation
<1>4. 0 \in Secret /\ 0 \in TimeStep
  <2>1. LastTick \div Period \in Nat
    BY Parameters, Steps
  <2>2. QED
    BY <2>1, Parameters DEF Secret, TimeStep
<1>5. k \in Busy
  BY <1>1, <1>3, <1>2, <1>4 DEF Busy
<1>6. Carries(k)
  BY <1>2, <1>3 DEF Carries, Holds
<1>7. /\ ceremony' = [ceremony EXCEPT ![c] = k] /\ ceremony[c] = Calm
      /\ begun < MaxCeremonies /\ begun' = begun + 1 /\ UNCHANGED still
      /\ tries' = tries /\ guesses' = guesses
  BY <1>1 DEF Begins, still, factorPast
<1>8. ceremony[c].pc = "calm"
  BY <1>7, CalmIsNotBusy
<1>9. begun' \in 0 .. MaxCeremonies
  BY <1>7, LossIs, LossTyped, Parameters
<1>10. Limited(c, k.pc)
  BY <1>3, <1>7, <1>8, LossIs, LossTyped, LimiterIdle
<1>11. QED
  BY <1>2, <1>5, <1>6, <1>7, <1>8, <1>9, <1>10, LossIs, LossTyped, Moved

LEMMA AsksStep ==
  ASSUME FactorIInv, NEW c \in Ceremonies,
         \/ \E op \in {"confirm", "disable", "strip"} : AskCeremony(c, op)
         \/ \E h \in Challenges : AskReveal(c, h)
         \/ \E failed \in BOOLEAN : AskEnroll(c, failed)
  PROVE  FactorIInv'
<1>1. UNCHANGED losses => Loss(FALSE)
  BY DEF Loss
<1>2. CASE \E op \in {"confirm", "disable", "strip"} : AskCeremony(c, op)
  BY <1>1, <1>2, BeginsStep DEF AskCeremony, Operation
<1>3. CASE \E h \in Challenges : AskReveal(c, h)
  BY <1>1, <1>3, BeginsStep DEF AskReveal, Operation
<1>4. CASE \E failed \in BOOLEAN : AskEnroll(c, failed)
  BY <1>4, BeginsStep DEF AskEnroll, Operation
<1>5. QED
  BY <1>2, <1>3, <1>4

LEMMA EnrollLoadStep ==
  ASSUME FactorIInv, NEW c \in Ceremonies, NEW failed \in BOOLEAN, EnrollLoad(c, failed)
  PROVE  FactorIInv'
<1>1. /\ ceremony[c].pc = "load" /\ Loss(failed) /\ UNCHANGED still
      /\ begun' = begun /\ tries' = tries /\ guesses' = guesses
  BY DEF EnrollLoad, still, factorPast
<1>2. ceremony[c] # Calm
  BY <1>1, CalmIsNotBusy
<1>3. Limited(c, "mint") /\ Limited(c, "calm")
  BY <1>1, LossIs, LossTyped, LimiterIdle
<1>4. CASE Moves(c, "mint")
  BY <1>1, <1>2, <1>3, <1>4, LossIs, LossTyped, GoesTo
<1>5. CASE Ends(c)
  BY <1>1, <1>3, <1>5, LossIs, LossTyped, EndsWith
<1>6. QED
  BY <1>4, <1>5 DEF EnrollLoad

LEMMA AdmitStep ==
  ASSUME FactorIInv, NEW c \in Ceremonies, Admit(c)
  PROVE  FactorIInv'
<1>1. /\ ceremony[c].pc = "admit" /\ UNCHANGED still
      /\ begun' = begun /\ tries' = tries /\ guesses' = guesses /\ losses' = losses
  BY DEF Admit, still, factorPast
<1>2. ceremony[c] # Calm
  BY <1>1, CalmIsNotBusy
<1>3. /\ losses' \in 0 .. MaxLosses /\ losses' >= losses /\ losses' \in Nat /\ losses \in Nat
      /\ guesses \in Nat /\ tries.count \in Nat /\ begun \in 0 .. MaxCeremonies
      /\ tries \in [count : Nat, left : Endless .. TryWindow]
  BY <1>1, LossTyped
<1>4. CASE tries.count < TryLimit /\ Moves(c, "check")
  <2>1. Limited(c, "check")
    <3>1. Num("check" = "fail") = 0 /\ Num(ceremony[c].pc = "fail") = 0
      BY <1>1 DEF Num
    <3>2. QED
      BY <1>1, <1>4, <3>1, WellTyped DEF Limited
  <2>2. ceremony[c].op \in {"confirm", "disable", "reveal"}
    BY <1>1, <1>2, Requests DEF Carries
  <2>3. /\ guesses' \in Nat /\ losses' \in 0 .. MaxLosses /\ begun' \in 0 .. MaxCeremonies
        /\ tries' \in [count : Nat, left : Endless .. TryWindow]
        /\ tries.left = tries'.left /\ ceremony[c].pc # "limit" /\ losses' >= losses
        /\ ceremony[c].pc \notin {"emit", "answer"}
    BY <1>1, <1>3
  <2>4. QED
    BY <1>1, <1>2, <1>4, <2>1, <2>2, <2>3, GoesTo
<1>5. CASE Ends(c)
  <2>1. Limited(c, "calm")
    BY <1>1, <1>3, LimiterIdle
  <2>2. QED
    BY <1>1, <1>3, <1>5, <2>1, EndsWith
<1>6. QED
  BY <1>4, <1>5 DEF Admit

LEMMA CheckAbsentStep ==
  ASSUME FactorIInv, NEW c \in Ceremonies, NEW failed \in BOOLEAN, CheckAbsent(c, failed)
  PROVE  FactorIInv'
<1>1. /\ ceremony[c].pc = "check" /\ Loss(failed) /\ UNCHANGED still
      /\ begun' = begun /\ tries' = tries /\ guesses' = guesses
  BY DEF CheckAbsent, still, factorPast
<1>2. ceremony[c] # Calm
  BY <1>1, CalmIsNotBusy
<1>3. CASE Ends(c)
  <2>1. Limited(c, "calm")
    BY <1>1, LossIs, LossTyped, LimiterIdle
  <2>2. QED
    BY <1>1, <1>3, <2>1, LossIs, LossTyped, EndsWith
<1>4. CASE Moves(c, "fail")
  <2>1. Limited(c, "fail")
    <3>1. /\ Num("fail" = "fail") = 1 /\ Num(ceremony[c].pc = "fail") = 0
          /\ Num("fail" = "check") = 0 /\ Num(ceremony[c].pc = "check") = 1
      BY <1>1 DEF Num
    <3>2. QED
      BY <1>1, <3>1, LossIs, LossTyped DEF Limited
  <2>2. QED
    BY <1>1, <1>2, <1>4, <2>1, LossIs, LossTyped, GoesTo
<1>5. QED
  BY <1>3, <1>4 DEF CheckAbsent

LEMMA CheckWrongStep ==
  ASSUME FactorIInv, NEW c \in Ceremonies, CheckWrong(c)
  PROVE  FactorIInv'
<1>1. /\ ceremony[c].pc = "check" /\ UNCHANGED still /\ Moves(c, "fail")
      /\ begun' = begun /\ tries' = tries /\ guesses' = guesses + 1 /\ losses' = losses
  BY DEF CheckWrong, still
<1>2. ceremony[c] # Calm
  BY <1>1, CalmIsNotBusy
<1>3. /\ losses' \in 0 .. MaxLosses /\ losses' >= losses /\ losses' \in Nat /\ losses \in Nat
      /\ guesses \in Nat /\ tries.count \in Nat /\ begun \in 0 .. MaxCeremonies
      /\ tries \in [count : Nat, left : Endless .. TryWindow]
  BY <1>1, LossTyped
<1>4. Limited(c, "fail")
  <2>1. /\ Num("fail" = "fail") = 1 /\ Num(ceremony[c].pc = "fail") = 0
        /\ Num("fail" = "check") = 0 /\ Num(ceremony[c].pc = "check") = 1
    BY <1>1 DEF Num
  <2>2. /\ guesses' - guesses = 1 /\ tries'.count - tries.count = 0 /\ losses' - losses = 0
    BY <1>1, <1>3
  <2>3. QED
    BY <2>1, <2>2 DEF Limited
<1>5. guesses' \in Nat
  BY <1>1, WellTyped
<1>6. QED
  BY <1>1, <1>2, <1>3, <1>4, <1>5, GoesTo

LEMMA CheckRightStep ==
  ASSUME FactorIInv, NEW c \in Ceremonies, NEW s \in TimeStep, CheckRight(c, s)
  PROVE  FactorIInv'
<1>1. PICK q : q = ceremony[c]
  OBVIOUS
<1>2. /\ q.pc = "check" /\ UNCHANGED still /\ Acceptable(s)
      /\ begun' = begun /\ tries' = tries /\ guesses' = guesses /\ losses' = losses
  BY <1>1 DEF CheckRight, still, factorPast
<1>3. q # Calm
  BY <1>2, CalmIsNotBusy
<1>4. q \in Busy /\ Carries(q)
  BY <1>1, <1>3, Requests
<1>5. PICK k : k = [q EXCEPT !.pc = "burn", !.secret = factor.secret, !.step = s]
  OBVIOUS
<1>6. factor.secret \in Secret
  BY DEF FactorIInv, FactorTypeOK
<1>7. /\ k \in Busy /\ k.pc = "burn" /\ k.op = q.op /\ k.step = s
      /\ k.challenge = q.challenge /\ k.found = q.found
  BY <1>4, <1>5, <1>6 DEF Busy
<1>8. ceremony' = [ceremony EXCEPT ![c] = k]
  BY <1>1, <1>5, WellTyped DEF CheckRight
<1>9. ~k.found
  BY <1>2, <1>4, <1>7 DEF Carries, Holds
<1>10. Carries(k)
  <2>1. Period * (k.step - Drift) <= tick
    BY <1>2, <1>7, AcceptableEarly, WellTyped
  <2>2. QED
    BY <1>2, <1>4, <1>7, <1>9, <2>1 DEF Carries, Holds
<1>11. /\ losses' \in 0 .. MaxLosses /\ losses' >= losses /\ losses' \in Nat /\ losses \in Nat
       /\ guesses \in Nat /\ tries.count \in Nat /\ begun \in 0 .. MaxCeremonies
       /\ tries \in [count : Nat, left : Endless .. TryWindow]
  BY <1>2, LossTyped
<1>12. Limited(c, k.pc)
  BY <1>1, <1>2, <1>7, <1>11, LimiterIdle
<1>13. /\ guesses' \in Nat /\ losses' \in 0 .. MaxLosses /\ begun' \in 0 .. MaxCeremonies
       /\ tries' \in [count : Nat, left : Endless .. TryWindow]
       /\ tries.left = tries'.left /\ ceremony[c].pc # "limit" /\ losses' >= losses
  BY <1>1, <1>2, <1>11
<1>14. QED
  BY <1>2, <1>7, <1>8, <1>9, <1>10, <1>12, <1>13, Moved

LEMMA CountFailureStep ==
  ASSUME FactorIInv, NEW c \in Ceremonies, CountFailure(c)
  PROVE  FactorIInv'
<1>1. /\ ceremony[c].pc = "fail" /\ UNCHANGED still
      /\ begun' = begun /\ guesses' = guesses /\ losses' = losses
      /\ tries' = [count |-> tries.count + 1,
                   left |-> IF tries.count = 0 THEN Endless ELSE tries.left]
  BY DEF CountFailure, still, factorPast
<1>2. ceremony[c] # Calm
  BY <1>1, CalmIsNotBusy
<1>3. /\ losses' \in 0 .. MaxLosses /\ losses' >= losses /\ losses' \in Nat /\ losses \in Nat
      /\ guesses \in Nat /\ tries.count \in Nat /\ begun \in 0 .. MaxCeremonies
      /\ tries \in [count : Nat, left : Endless .. TryWindow]
  BY <1>1, LossTyped
<1>4. /\ guesses' \in Nat /\ losses' \in 0 .. MaxLosses /\ begun' \in 0 .. MaxCeremonies
      /\ ceremony[c].pc # "limit" /\ losses' >= losses
      /\ guesses' - guesses = 0 /\ losses' - losses = 0
  BY <1>1, <1>3
<1>5. tries' \in [count : Nat, left : Endless .. TryWindow] /\ tries'.count - tries.count = 1
  <2>1. Endless \in Endless .. TryWindow
    BY Parameters DEF Endless
  <2>2. tries.count \in Nat /\ tries.left \in Endless .. TryWindow
    BY <1>3
  <2>3. QED
    BY <1>1, <2>1, <2>2
<1>6. ASSUME NEW pc, pc \in {"limit", "calm"} PROVE Limited(c, pc)
  <2>1. /\ Num(pc = "fail") = 0 /\ Num(ceremony[c].pc = "fail") = 1
        /\ Num(pc = "check") = 0 /\ Num(ceremony[c].pc = "check") = 0
    BY <1>1, <1>6 DEF Num
  <2>2. QED
    BY <1>4, <1>5, <2>1 DEF Limited
<1>7. CASE tries.count = 0 /\ Moves(c, "limit")
  <2>1. Limited(c, "limit")
    BY <1>6
  <2>2. QED
    BY <1>1, <1>2, <1>4, <1>5, <1>7, <2>1, GoesTo
<1>8. CASE tries.count # 0 /\ Ends(c)
  <2>1. Limited(c, "calm")
    BY <1>6
  <2>2. tries'.left = tries.left
    BY <1>1, <1>8
  <2>3. QED
    BY <1>1, <1>4, <1>5, <1>8, <2>1, <2>2, EndsWith
<1>9. QED
  BY <1>7, <1>8 DEF CountFailure

LEMMA LimitWindowStep ==
  ASSUME FactorIInv, NEW c \in Ceremonies, LimitWindow(c)
  PROVE  FactorIInv'
<1>1. /\ ceremony[c].pc = "limit" /\ UNCHANGED still /\ Ends(c)
      /\ begun' = begun /\ guesses' = guesses /\ losses' = losses
      /\ tries' = [tries EXCEPT !.left = TryWindow]
  BY DEF LimitWindow, still, factorPast
<1>2. /\ losses' \in 0 .. MaxLosses /\ losses' >= losses /\ losses' \in Nat /\ losses \in Nat
      /\ guesses \in Nat /\ tries.count \in Nat /\ begun \in 0 .. MaxCeremonies
      /\ tries \in [count : Nat, left : Endless .. TryWindow]
  BY <1>1, LossTyped
<1>3. /\ tries' \in [count : Nat, left : Endless .. TryWindow]
      /\ tries'.count = tries.count /\ tries'.left # Endless
  <2>1. TryWindow \in Endless .. TryWindow /\ TryWindow # Endless
    BY Parameters DEF Endless
  <2>2. tries \in [count : Nat, left : Endless .. TryWindow]
    BY <1>2
  <2>3. QED
    BY <1>1, <2>1, <2>2
<1>4. Limited(c, "calm")
  BY <1>1, <1>2, <1>3, LimiterIdle
<1>5. QED
  BY <1>1, <1>2, <1>3, <1>4, EndsWith

LEMMA CutShortStep ==
  ASSUME FactorIInv, NEW c \in Ceremonies, CutShort(c)
  PROVE  FactorIInv'
<1>1. /\ UNCHANGED still /\ Ends(c) /\ Loss(TRUE)
      /\ begun' = begun /\ tries' = tries /\ guesses' = guesses
  BY DEF CutShort, still, factorPast
<1>2. Limited(c, "calm")
  <2>1. /\ Num("calm" = "fail") = 0 /\ Num(ceremony[c].pc = "fail") \in 0 .. 1
        /\ Num("calm" = "check") = 0 /\ Num(ceremony[c].pc = "check") \in 0 .. 1
    BY DEF Num
  <2>2. guesses' - guesses = 0 /\ tries'.count - tries.count = 0 /\ losses' - losses = 1
    BY <1>1, LossIs, LossTyped DEF Loss
  <2>3. QED
    BY <2>1, <2>2 DEF Limited
<1>3. losses' > 0
  BY <1>1, LossIs, LossTyped DEF Loss
<1>4. QED
  BY <1>1, <1>2, <1>3, LossIs, LossTyped, EndsWith

---------------------------------------------------------------------------
(* Steps that change what requests share *)

Kept ==
  /\ ceremony' \in [Ceremonies -> Busy \cup {Calm}] /\ CeremoniesSound' /\ OneHolder'
  /\ Counted' /\ InFlightBounded'
  /\ begun' \in 0 .. MaxCeremonies /\ losses' \in 0 .. MaxLosses
  /\ tries' \in [count : Nat, left : Endless .. TryWindow] /\ guesses' \in Nat
  /\ tries'.left = Endless => losses' > 0 \/ \E d \in Ceremonies : ceremony'[d].pc = "limit"

LEMMA Goes ==
  ASSUME FactorIInv, NEW c \in Ceremonies, NEW k \in Busy \cup {Calm},
         ceremony' = [ceremony EXCEPT ![c] = k],
         tick' = tick, proven \subseteq proven', announced \subseteq announced',
         begun' = begun, tries' = tries, guesses' = guesses,
         losses' = losses \/ (losses < MaxLosses /\ losses' = losses + 1),
         ceremony[c].pc \notin {"limit", "fail"}, k.pc \notin {"check", "fail"},
         k # Calm => Carries(k)', Others(c, k)
  PROVE  Kept
<1>1. /\ ceremony' \in [Ceremonies -> Busy \cup {Calm}] /\ CeremoniesSound' /\ OneHolder'
  BY RequestsKept
<1>2. /\ losses' \in 0 .. MaxLosses /\ losses' >= losses /\ losses' \in Nat /\ losses \in Nat
      /\ guesses \in Nat /\ tries.count \in Nat /\ begun \in 0 .. MaxCeremonies
      /\ tries \in [count : Nat, left : Endless .. TryWindow]
  BY LossTyped
<1>3. Limited(c, k.pc)
  BY <1>2, LimiterIdle
<1>4. Counted' /\ InFlightBounded'
  BY <1>2, <1>3, LimitKept
<1>5. tries'.left = Endless => losses' > 0 \/ \E d \in Ceremonies : ceremony'[d].pc = "limit"
  <2>1. \A d \in Ceremonies \ {c} : ceremony'[d] = ceremony[d]
    BY WellTyped
  <2>2. tries.left = Endless => losses > 0 \/ \E d \in Ceremonies : ceremony[d].pc = "limit"
    BY DEF FactorIInv, FactorTypeOK
  <2>3. (\E d \in Ceremonies : ceremony[d].pc = "limit")
        => \E d \in Ceremonies : ceremony'[d].pc = "limit"
    BY <2>1
  <2>4. losses > 0 => losses' > 0
    BY <1>2
  <2>5. QED
    BY <2>2, <2>3, <2>4
<1>6. QED
  BY <1>1, <1>2, <1>4, <1>5 DEF Kept

\* What is left to show of such a step.
Rest ==
  /\ tick \in 0 .. LastTick /\ minted \in Secret
  /\ factor \in [state : {"none", "pending", "active"}, secret : Secret]
  /\ burnt \in [TimeStep -> Nat]
  /\ stash \in [Challenges -> {"unstaged", "held", "gone"}]
  /\ announced \subseteq Challenges /\ proven \subseteq Secret
  /\ again \in Nat /\ late \in Nat /\ shown \in [Challenges -> Nat]
  /\ ShownOnce /\ FactorProven /\ BurntLongEnough /\ CodeSpentOnce

LEMMA Whole ==
  ASSUME Kept, Rest'
  PROVE  FactorIInv'
BY DEF Kept, Rest, FactorIInv, FactorTypeOK

LEMMA RestNow == ASSUME FactorIInv PROVE Rest
BY DEF FactorIInv, FactorTypeOK, Rest

LEMMA OthersIdle ==
  ASSUME shown' = shown, stash' = stash, NEW c, NEW k, k = Calm \/ ~k.found
  PROVE  Others(c, k)
BY DEF Others

LEMMA EmitStep ==
  ASSUME FactorIInv, NEW c \in Ceremonies, Emit(c)
  PROVE  FactorIInv'
<1>1. PICK q : q = ceremony[c]
  OBVIOUS
<1>2. /\ q.pc = "emit" /\ Moves(c, IF q.op = "enroll" THEN "load" ELSE "answer")
      /\ announced' = IF q.found THEN announced \cup {q.challenge} ELSE announced
      /\ begun' = begun /\ tries' = tries /\ guesses' = guesses /\ losses' = losses
      /\ tick' = tick /\ factor' = factor /\ minted' = minted /\ burnt' = burnt
      /\ stash' = stash /\ proven' = proven /\ again' = again
      /\ late' = late /\ shown' = shown
  BY <1>1 DEF Emit, factorPast
<1>3. q # Calm
  BY <1>2, CalmIsNotBusy
<1>4. q \in Busy /\ Carries(q)
  BY <1>1, <1>3, Requests
<1>5. PICK k : k = [q EXCEPT !.pc = IF q.op = "enroll" THEN "load" ELSE "answer"]
  OBVIOUS
<1>6. /\ k \in Busy /\ k.pc = (IF q.op = "enroll" THEN "load" ELSE "answer")
      /\ k.op = q.op /\ k.challenge = q.challenge /\ k.found = q.found
  BY <1>4, <1>5 DEF Busy
<1>7. ceremony' = [ceremony EXCEPT ![c] = k]
  BY <1>1, <1>2, <1>5 DEF Moves
<1>8. q.found => q.challenge \in Challenges /\ q.op = "reveal"
                 /\ shown[q.challenge] = 0 /\ stash[q.challenge] = "gone"
  BY <1>4 DEF Carries, Holds
<1>9. Carries(k)'
  <2>1. Holds(k)'
    BY <1>2, <1>6, <1>8 DEF Holds
  <2>2. k.pc \in {"load", "answer"} /\ (k.op = "reveal" => k.challenge \in Challenges)
    BY <1>4, <1>6 DEF Carries
  <2>3. QED
    BY <2>1, <2>2 DEF Carries
<1>10. Others(c, k)
  BY <1>1, <1>2, <1>3, <1>6 DEF Others, FactorIInv, OneHolder
<1>11. announced \subseteq announced'
  BY <1>2
<1>12. ceremony[c].pc \notin {"limit", "fail"} /\ k.pc \notin {"check", "fail"}
  BY <1>1, <1>2, <1>6
<1>13. Kept
  BY <1>2, <1>6, <1>7, <1>9, <1>10, <1>11, <1>12, Goes
<1>14. Rest'
  <2>1. announced' \subseteq Challenges
    BY <1>2, <1>8, RestNow DEF Rest
  <2>2. QED
    BY <1>2, <1>11, <2>1, RestNow
       DEF Rest, ShownOnce, FactorProven, BurntLongEnough, CodeSpentOnce
<1>15. QED
  BY <1>13, <1>14, Whole

\* A request that writes the enrolment and ends.
LEMMA WritesFactor ==
  ASSUME FactorIInv, NEW c \in Ceremonies, Ends(c), ceremony[c].pc \notin {"limit", "fail"},
         UNCHANGED <<begun, tick, burnt, tries, stash, announced, factorPast, losses>>,
         minted' \in Secret,
         factor' \in [state : {"none", "pending", "active"}, secret : Secret],
         FactorProven'
  PROVE  FactorIInv'
<1>1. PICK k : k = Calm
  OBVIOUS
<1>2. k.pc = "calm" /\ k \in Busy \cup {Calm} /\ k.pc \notin {"check", "fail"}
  BY <1>1, CalmIsNotBusy
<1>3. ceremony' = [ceremony EXCEPT ![c] = k]
  BY <1>1 DEF Ends
<1>4. /\ begun' = begun /\ tries' = tries /\ guesses' = guesses /\ losses' = losses
      /\ tick' = tick /\ burnt' = burnt /\ stash' = stash /\ announced' = announced
      /\ proven' = proven /\ again' = again /\ late' = late /\ shown' = shown
  BY DEF factorPast
<1>5. Others(c, k)
  BY <1>1, <1>4, OthersIdle
<1>6. Kept
  BY <1>1, <1>2, <1>3, <1>4, <1>5, Goes
<1>7. Rest'
  BY <1>4, RestNow DEF Rest, ShownOnce, BurntLongEnough, CodeSpentOnce
<1>8. QED
  BY <1>6, <1>7, Whole

LEMMA MintStep ==
  ASSUME FactorIInv, NEW c \in Ceremonies, Mint(c)
  PROVE  FactorIInv'
<1>1. minted' \in Secret /\ factor' = [state |-> "pending", secret |-> minted']
  BY Parameters, RestNow DEF Mint, Rest, Secret
<1>2. ceremony[c].pc \notin {"limit", "fail"}
  BY DEF Mint
<1>3. FactorProven'
  BY <1>1 DEF FactorProven
<1>4. QED
  BY <1>1, <1>2, <1>3, WritesFactor DEF Mint

LEMMA ActivateStep ==
  ASSUME FactorIInv, NEW c \in Ceremonies, Activate(c)
  PROVE  FactorIInv'
<1>1. ceremony[c].pc = "activate" /\ ceremony[c] # Calm
  BY CalmIsNotBusy DEF Activate
<1>2. ceremony[c].secret \in Secret /\ ceremony[c].secret \in proven
  BY <1>1, Requests DEF Busy, Carries
<1>3. factor' = [state |-> "active", secret |-> ceremony[c].secret] /\ proven' = proven
      /\ minted' = minted
  BY DEF Activate, factorPast
<1>4. FactorProven'
  BY <1>2, <1>3 DEF FactorProven
<1>5. minted' \in Secret
  BY <1>3, RestNow DEF Rest
<1>6. QED
  BY <1>1, <1>2, <1>3, <1>4, <1>5, WritesFactor DEF Activate

LEMMA DeleteStep ==
  ASSUME FactorIInv, NEW c \in Ceremonies, Delete(c)
  PROVE  FactorIInv'
<1>1. factor' = NoFactor /\ minted' = minted /\ 0 \in Secret
  BY Parameters DEF Delete, Secret
<1>2. FactorProven'
  BY <1>1 DEF FactorProven, NoFactor
<1>3. factor' \in [state : {"none", "pending", "active"}, secret : Secret]
  BY <1>1 DEF NoFactor
<1>4. minted' \in Secret /\ ceremony[c].pc \notin {"limit", "fail"}
  BY <1>1, RestNow DEF Rest, Delete
<1>5. QED
  BY <1>2, <1>3, <1>4, WritesFactor DEF Delete

LEMMA ReleaseStep ==
  ASSUME FactorIInv, NEW c \in Ceremonies, NEW lost \in BOOLEAN, Release(c, lost)
  PROVE  FactorIInv'
<1>1. PICK q : q = ceremony[c]
  OBVIOUS
<1>2. PICK b : b = (stash[q.challenge] = "held" /\ ~lost)
  OBVIOUS
<1>3. /\ q.pc = "release" /\ Loss(lost)
      /\ ceremony' = [ceremony EXCEPT ![c].pc = "emit", ![c].found = b]
      /\ stash' = [stash EXCEPT ![q.challenge] = IF @ = "held" THEN "gone" ELSE @]
      /\ begun' = begun /\ tries' = tries /\ guesses' = guesses /\ announced' = announced
      /\ tick' = tick /\ factor' = factor /\ minted' = minted /\ burnt' = burnt
      /\ proven' = proven /\ again' = again /\ late' = late /\ shown' = shown
  BY <1>1, <1>2 DEF Release, factorPast
<1>4. q # Calm
  BY <1>3, CalmIsNotBusy
<1>5. q \in Busy /\ Carries(q)
  BY <1>1, <1>4, Requests
<1>6. b \in BOOLEAN
  BY <1>2
<1>7. PICK k : k = [q EXCEPT !.pc = "emit", !.found = b]
  OBVIOUS
<1>8. /\ k \in Busy /\ k.pc = "emit" /\ k.op = q.op /\ k.challenge = q.challenge
      /\ k.found = b
  BY <1>5, <1>6, <1>7 DEF Busy
<1>9. ceremony' = [ceremony EXCEPT ![c] = k]
  BY <1>1, <1>3, <1>7, WellTyped
<1>10. q.op = "reveal" /\ q.challenge \in Challenges
  BY <1>3, <1>5 DEF Carries
<1>11. stash \in [Challenges -> {"unstaged", "held", "gone"}] /\ ShownOnce
       /\ shown \in [Challenges -> Nat]
  BY DEF FactorIInv, FactorTypeOK
<1>12. b => stash[q.challenge] = "held" /\ shown[q.challenge] = 0 /\ stash'[q.challenge] = "gone"
  BY <1>2, <1>3, <1>10, <1>11 DEF ShownOnce
<1>13. Carries(k)'
  <2>1. Holds(k)'
    BY <1>3, <1>8, <1>10, <1>12 DEF Holds
  <2>2. QED
    BY <2>1, <1>8, <1>10 DEF Carries
<1>14. Others(c, k)
  <2>1. SUFFICES ASSUME NEW d \in Ceremonies \ {c}, ceremony[d] # Calm, ceremony[d].found
                 PROVE  /\ shown'[ceremony[d].challenge] = shown[ceremony[d].challenge]
                        /\ stash'[ceremony[d].challenge] = stash[ceremony[d].challenge]
                        /\ b => q.challenge # ceremony[d].challenge
    BY <1>8, Zenon DEF Others
  <2>2. stash[ceremony[d].challenge] = "gone" /\ ceremony[d].challenge \in Challenges
    BY <2>1, Requests DEF Carries, Holds
  <2>3. stash'[ceremony[d].challenge] = stash[ceremony[d].challenge]
    BY <1>3, <1>11, <2>2
  <2>4. b => q.challenge # ceremony[d].challenge
    BY <1>12, <2>2
  <2>5. QED
    BY <1>3, <2>3, <2>4
<1>15. losses' = losses \/ (losses < MaxLosses /\ losses' = losses + 1)
  BY <1>3, LossIs
<1>16. ceremony[c].pc \notin {"limit", "fail"} /\ k.pc \notin {"check", "fail"}
  BY <1>1, <1>3, <1>8
<1>17. Kept
  BY <1>3, <1>8, <1>9, <1>13, <1>14, <1>15, <1>16, Goes
<1>18. Rest'
  <2>1. stash' \in [Challenges -> {"unstaged", "held", "gone"}]
    BY <1>3, <1>11
  <2>2. \A h \in Challenges : stash'[h] # "gone" => stash[h] # "gone"
    BY <1>3, <1>11
  <2>3. ShownOnce'
    BY <1>3, <1>11, <2>2 DEF ShownOnce
  <2>4. QED
    BY <1>3, <2>1, <2>3, RestNow DEF Rest, FactorProven, BurntLongEnough, CodeSpentOnce
<1>19. QED
  BY <1>17, <1>18, Whole

LEMMA AnswerStep ==
  ASSUME FactorIInv, NEW c \in Ceremonies, Answer(c)
  PROVE  FactorIInv'
<1>1. PICK q : q = ceremony[c]
  OBVIOUS
<1>2. /\ q.pc = "answer" /\ Ends(c)
      /\ shown' = IF q.found THEN [shown EXCEPT ![q.challenge] = @ + 1] ELSE shown
      /\ begun' = begun /\ tries' = tries /\ guesses' = guesses /\ losses' = losses
      /\ tick' = tick /\ factor' = factor /\ minted' = minted /\ burnt' = burnt
      /\ stash' = stash /\ announced' = announced
      /\ proven' = proven /\ again' = again /\ late' = late
  BY <1>1 DEF Answer
<1>3. q # Calm
  BY <1>2, CalmIsNotBusy
<1>4. q \in Busy /\ Carries(q)
  BY <1>1, <1>3, Requests
<1>5. q.found => /\ q.challenge \in Challenges /\ q.challenge \in announced
                 /\ shown[q.challenge] = 0 /\ stash[q.challenge] = "gone"
  BY <1>2, <1>4 DEF Carries, Holds
<1>6. shown \in [Challenges -> Nat] /\ ShownOnce
  BY DEF FactorIInv, FactorTypeOK
<1>7. PICK k : k = Calm
  OBVIOUS
<1>8. k.pc = "calm" /\ k \in Busy \cup {Calm} /\ k.pc \notin {"check", "fail"}
      /\ ceremony[c].pc \notin {"limit", "fail"}
  BY <1>1, <1>2, <1>7, CalmIsNotBusy
<1>9. ceremony' = [ceremony EXCEPT ![c] = k]
  BY <1>2, <1>7 DEF Ends
<1>10. Others(c, k)
  <2>1. SUFFICES ASSUME NEW d \in Ceremonies \ {c}, ceremony[d] # Calm, ceremony[d].found
                 PROVE  shown'[ceremony[d].challenge] = shown[ceremony[d].challenge]
    BY <1>2, <1>7, Zenon DEF Others
  <2>2. q.found => q.challenge # ceremony[d].challenge
    BY <1>1, <1>3, <2>1 DEF FactorIInv, OneHolder
  <2>3. QED
    BY <1>2, <1>6, <2>2
<1>11. Kept
  BY <1>2, <1>7, <1>8, <1>9, <1>10, Goes
<1>12. Rest'
  <2>1. shown' \in [Challenges -> Nat]
    <3>1. CASE q.found
      BY <1>2, <1>5, <1>6, <3>1
    <3>2. CASE ~q.found
      BY <1>2, <1>6, <3>2
    <3>3. QED
      BY <3>1, <3>2, <1>4 DEF Busy
  <2>2. ShownOnce'
    <3>1. SUFFICES ASSUME NEW h \in Challenges
                   PROVE  /\ shown'[h] <= 1
                          /\ stash[h] # "gone" => shown'[h] = 0
                          /\ shown'[h] > 0 => h \in announced
      BY <1>2 DEF ShownOnce
    <3>2. CASE q.found /\ h = q.challenge
      BY <1>2, <1>5, <1>6, <3>2
    <3>3. CASE ~(q.found /\ h = q.challenge)
      <4>1. shown'[h] = shown[h]
        BY <1>2, <1>6, <3>3
      <4>2. QED
        BY <1>6, <4>1 DEF ShownOnce
    <3>4. QED
      BY <3>2, <3>3
  <2>3. QED
    BY <1>2, <2>1, <2>2, RestNow DEF Rest, FactorProven, BurntLongEnough, CodeSpentOnce
<1>13. QED
  BY <1>11, <1>12, Whole

LEMMA BurnStep ==
  ASSUME FactorIInv, NEW c \in Ceremonies, NEW lost \in BOOLEAN, Burn(c, lost)
  PROVE  FactorIInv'
<1>1. PICK q : q = ceremony[c]
  OBVIOUS
<1>2. PICK good : good = (tick >= burnt[q.step] /\ ~lost)
  OBVIOUS
<1>3. /\ q.pc = "burn" /\ Loss(lost)
      /\ burnt' = IF tick >= burnt[q.step] THEN [burnt EXCEPT ![q.step] = tick + BurnTtl]
                  ELSE burnt
      /\ begun' = begun /\ tries' = tries /\ guesses' = guesses /\ announced' = announced
      /\ tick' = tick /\ factor' = factor /\ minted' = minted /\ stash' = stash
      /\ shown' = shown
  BY <1>1 DEF Burn
<1>4. q # Calm
  BY <1>3, CalmIsNotBusy
<1>5. q \in Busy /\ Carries(q)
  BY <1>1, <1>4, Requests
<1>6. q.step \in TimeStep /\ q.secret \in Secret /\ 0 \in Secret /\ 0 \in TimeStep
  <2>1. LastTick \div Period \in Nat
    BY Parameters, Steps
  <2>2. QED
    BY <1>5, <2>1, Parameters DEF Busy, Secret, TimeStep
<1>7. burnt \in [TimeStep -> Nat] /\ tick \in Nat /\ again \in Nat /\ late \in Nat
      /\ again <= late /\ BurntLongEnough /\ proven \subseteq Secret
  BY WellTyped DEF FactorIInv, FactorTypeOK, CodeSpentOnce
<1>8. q.step \in Int /\ Drift \in Nat /\ Period \in Nat /\ Period > 0
  <2>1. LastTick \div Period \in Nat
    BY Parameters, Steps
  <2>2. QED
    BY <1>6, <2>1, Parameters DEF TimeStep
\* The key of the timestep outlasts the last instant of its code.
<1>9. tick + BurnTtl \in Nat /\ tick + BurnTtl >= Period * (q.step + Drift + 1)
  <2>1. Period * (q.step - Drift) <= tick
    BY <1>3, <1>5 DEF Carries
  <2>2. Period * (q.step + Drift + 1) = Period * (q.step - Drift) + Period * (2 * Drift + 1)
    BY <1>8
  <2>3. Period * (2 * Drift + 1) \in Nat /\ Period * (q.step - Drift) \in Int
    BY <1>8
  <2>4. QED
    BY <1>7, <2>1, <2>2, <2>3 DEF BurnTtl
<1>10. burnt' \in [TimeStep -> Nat] /\ BurntLongEnough'
  <2>1. CASE tick >= burnt[q.step]
    <3>1. burnt' = [burnt EXCEPT ![q.step] = tick + BurnTtl]
      BY <1>3, <2>1
    <3> HIDE DEF BurnTtl
    <3>2. burnt' \in [TimeStep -> Nat]
      BY <1>7, <1>9, <3>1
    <3>3. ASSUME NEW s \in TimeStep, burnt'[s] > 0 PROVE burnt'[s] >= Period * (s + Drift + 1)
      <4>1. CASE s = q.step
        BY <1>7, <1>9, <3>1, <4>1
      <4>2. CASE s # q.step
        BY <1>7, <3>1, <3>3, <4>2 DEF BurntLongEnough
      <4>3. QED
        BY <4>1, <4>2
    <3>4. QED
      BY <3>2, <3>3 DEF BurntLongEnough
  <2>2. CASE ~(tick >= burnt[q.step])
    BY <1>3, <1>7, <2>2 DEF BurntLongEnough
  <2>3. QED
    BY <2>1, <2>2
<1>11. losses' = losses \/ (losses < MaxLosses /\ losses' = losses + 1)
  BY <1>3, LossIs
<1>12. ~q.found /\ q.op \in {"confirm", "disable", "reveal"}
  BY <1>3, <1>5 DEF Carries, Holds
<1>13. CASE good
  <2>1. /\ ceremony' = [ceremony EXCEPT ![c].pc = AfterBurn[q.op], ![c].step = 0,
                                        ![c].secret = IF q.op = "confirm" THEN @ ELSE 0]
        /\ again' = IF burnt[q.step] > 0 THEN again + 1 ELSE again
        /\ late' = IF Acceptable(q.step) THEN late ELSE late + 1
        /\ proven' = IF q.op = "confirm" THEN proven \cup {q.secret} ELSE proven
    BY <1>1, <1>2, <1>13 DEF Burn
  <2>2. PICK k : k = [q EXCEPT !.pc = AfterBurn[q.op], !.step = 0,
                               !.secret = IF q.op = "confirm" THEN @ ELSE 0]
    OBVIOUS
  <2>3. AfterBurn[q.op] \in {"activate", "delete", "release"}
        /\ (AfterBurn[q.op] = "activate" <=> q.op = "confirm")
        /\ (AfterBurn[q.op] = "release" <=> q.op = "reveal")
    BY <1>12 DEF AfterBurn
  <2>4. /\ k \in Busy /\ k.pc = AfterBurn[q.op] /\ k.op = q.op /\ k.challenge = q.challenge
        /\ k.found = q.found /\ (q.op = "confirm" => k.secret = q.secret)
    BY <1>5, <1>6, <2>2, <2>3 DEF Busy
  <2>5. ceremony' = [ceremony EXCEPT ![c] = k]
    BY <1>1, <2>1, <2>2, WellTyped
  <2>6. proven \subseteq proven' /\ proven' \subseteq Secret
    BY <1>6, <1>7, <2>1
  <2>7. Carries(k)'
    <3>1. k.pc = "activate" => k.secret \in proven'
      BY <2>1, <2>3, <2>4
    <3>2. k.pc = "release" => k.op = "reveal"
      BY <2>3, <2>4
    <3>3. k.pc \notin {"burn", "admit", "check"}
      BY <2>3, <2>4
    <3>4. k.op = "reveal" => k.challenge \in Challenges
      BY <1>5, <2>4 DEF Carries
    <3>5. ~k.found
      BY <1>12, <2>4
    <3>6. QED
      BY <3>1, <3>2, <3>3, <3>4, <3>5 DEF Carries, Holds
  <2>8. Others(c, k)
    BY <1>3, <1>12, <2>4, OthersIdle
  <2>9. ceremony[c].pc \notin {"limit", "fail"} /\ k.pc \notin {"check", "fail"}
    BY <1>1, <1>3, <2>3, <2>4
  <2>10. Kept
    BY <1>3, <1>11, <2>4, <2>5, <2>6, <2>7, <2>8, <2>9, Goes
  <2>11. again' \in Nat /\ late' \in Nat /\ again' <= late'
    <3>1. CASE burnt[q.step] > 0
      <4>1. burnt[q.step] >= Period * (q.step + Drift + 1)
        BY <1>6, <1>7, <3>1 DEF BurntLongEnough
      <4>2. tick >= burnt[q.step] /\ burnt[q.step] \in Nat
        BY <1>2, <1>6, <1>7, <1>13
      <4>3. Period * (q.step + Drift + 1) \in Int
        BY <1>8
      <4>4. Period * (q.step + Drift + 1) <= tick
        BY <1>7, <4>1, <4>2, <4>3
      <4>5. ~Acceptable(q.step)
        BY <1>6, <1>7, <4>4, ExpiredLate
      <4>6. again' = again + 1 /\ late' = late + 1
        BY <2>1, <3>1, <4>5
      <4>7. QED
        BY <1>7, <4>6
    <3>2. CASE ~(burnt[q.step] > 0)
      <4>1. again' = again /\ late' \in {late, late + 1}
        BY <2>1, <3>2
      <4>2. QED
        BY <1>7, <4>1
    <3>3. QED
      BY <3>1, <3>2
  <2>12. FactorProven'
    BY <1>3, <2>6 DEF FactorIInv, FactorProven
  <2>13. Rest'
    BY <1>3, <1>10, <2>6, <2>11, <2>12, RestNow DEF Rest, ShownOnce, CodeSpentOnce
  <2>14. QED
    BY <2>10, <2>13, Whole
<1>14. CASE ~good
  <2>1. Ends(c) /\ again' = again /\ late' = late /\ proven' = proven
    BY <1>1, <1>2, <1>14 DEF Burn
  <2>2. PICK k : k = Calm
    OBVIOUS
  <2>3. k.pc = "calm" /\ k \in Busy \cup {Calm} /\ k.pc \notin {"check", "fail"}
        /\ ceremony[c].pc \notin {"limit", "fail"}
    BY <1>1, <1>3, <2>2, CalmIsNotBusy
  <2>4. ceremony' = [ceremony EXCEPT ![c] = k]
    BY <2>1, <2>2 DEF Ends
  <2>5. Others(c, k)
    BY <1>3, <2>2, OthersIdle
  <2>6. Kept
    BY <1>3, <1>11, <2>1, <2>2, <2>3, <2>4, <2>5, Goes
  <2>7. Rest'
    BY <1>3, <1>10, <2>1, RestNow DEF Rest, ShownOnce, CodeSpentOnce, FactorProven
  <2>8. QED
    BY <2>6, <2>7, Whole
<1>15. QED
  BY <1>13, <1>14

---------------------------------------------------------------------------
(* Steps of the stash and the clock *)

\* No request moves.
LEMMA RequestsRest ==
  ASSUME FactorIInv, ceremony' = ceremony, tick' \in Nat, tick' >= tick,
         proven' = proven, announced' = announced, shown' = shown,
         \A h \in Challenges : stash[h] = "gone" => stash'[h] = "gone"
  PROVE  CeremoniesSound' /\ OneHolder'
<1>1. ASSUME NEW d \in Ceremonies, ceremony'[d] # Calm PROVE Carries(ceremony[d])'
  <2>1. PICK q : q = ceremony[d]
    OBVIOUS
  <2>2. q = ceremony'[d] /\ q # Calm
    BY <1>1, <2>1
  <2>3. q \in Busy /\ Carries(q)
    BY <2>1, <2>2, Requests
  <2>4. q.found => stash'[q.challenge] = stash[q.challenge]
    BY <2>3 DEF Carries, Holds
  <2>5. Carries(q)'
    BY <2>3, <2>4, WellTyped, CarriesKept
  <2>6. QED
    BY <2>2, <2>5
<1>2. CeremoniesSound'
  BY <1>1 DEF CeremoniesSound
<1>3. OneHolder'
  BY DEF FactorIInv, OneHolder
<1>4. QED
  BY <1>2, <1>3

LEMMA StashStep ==
  ASSUME FactorIInv, NEW h \in Challenges, StashCode(h) \/ StashExpires(h)
  PROVE  FactorIInv'
<1>1. /\ ceremony' = ceremony /\ begun' = begun /\ tries' = tries /\ guesses' = guesses
      /\ announced' = announced /\ losses' = losses
      /\ tick' = tick /\ factor' = factor /\ minted' = minted /\ burnt' = burnt
      /\ proven' = proven /\ again' = again /\ late' = late /\ shown' = shown
      /\ stash[h] # "gone" /\ (stash' = [stash EXCEPT ![h] = "held"]
                              \/ stash' = [stash EXCEPT ![h] = "gone"])
  BY DEF StashCode, StashExpires, factorPast
<1>2. stash \in [Challenges -> {"unstaged", "held", "gone"}]
  BY DEF FactorIInv, FactorTypeOK
<1>3. \A g \in Challenges : /\ stash[g] = "gone" => stash'[g] = "gone"
                            /\ stash'[g] # "gone" => stash[g] # "gone"
  BY <1>1, <1>2
<1>4. CeremoniesSound' /\ OneHolder'
  BY <1>1, <1>3, WellTyped, RequestsRest
<1>5. stash' \in [Challenges -> {"unstaged", "held", "gone"}]
  BY <1>1, <1>2
<1>6. ShownOnce'
  BY <1>1, <1>3 DEF FactorIInv, ShownOnce
<1>7. Counted' /\ InFlightBounded'
  BY <1>1 DEF FactorIInv, Counted, InFlightBounded, At
<1>8. FactorTypeOK'
  BY <1>1, <1>5 DEF FactorIInv, FactorTypeOK
<1>9. QED
  BY <1>1, <1>4, <1>6, <1>7, <1>8
     DEF FactorIInv, FactorProven, BurntLongEnough, CodeSpentOnce

\* The end of a window forgets the wrong codes with their count.
LEMMA TickStep ==
  ASSUME FactorIInv, FactorTick
  PROVE  FactorIInv'
<1>1. /\ ceremony' = ceremony /\ begun' = begun /\ stash' = stash
      /\ announced' = announced /\ losses' = losses
      /\ tick < LastTick /\ tick' = tick + 1
      /\ factor' = factor /\ minted' = minted /\ burnt' = burnt
      /\ proven' = proven /\ again' = again /\ late' = late /\ shown' = shown
  BY DEF FactorTick
<1>2. tick' \in 0 .. LastTick /\ tick' \in Nat /\ tick' >= tick
  BY <1>1, WellTyped, Parameters
<1>3. CeremoniesSound' /\ OneHolder'
  BY <1>1, <1>2, RequestsRest
<1>4. /\ tries \in [count : Nat, left : Endless .. TryWindow]
      /\ tries.left = Endless => losses > 0 \/ \E d \in Ceremonies : ceremony[d].pc = "limit"
  BY DEF FactorIInv, FactorTypeOK
<1>5. /\ guesses \in Nat /\ losses \in Nat /\ At("fail")' = At("fail")
      /\ At("check")' = At("check")
  BY <1>1, WellTyped DEF At
<1>6. \A p : Cardinality(At(p)) \in Nat /\ Cardinality(At(p)) <= Cardinality(Ceremonies)
  <2>1. SUFFICES ASSUME NEW p
                 PROVE  Cardinality(At(p)) \in Nat /\ Cardinality(At(p)) <= Cardinality(Ceremonies)
    OBVIOUS
  <2>2. At(p) \subseteq Ceremonies /\ IsFiniteSet(Ceremonies)
    BY Parameters DEF At
  <2>3. QED
    BY <2>2, FS_Subset, FS_CardinalityType
<1>7. /\ guesses <= tries.count + Cardinality(At("fail")) + losses
      /\ guesses + Cardinality(At("check")) < TryLimit + Cardinality(Ceremonies) + losses
  BY DEF FactorIInv, Counted, InFlightBounded
<1>8. /\ tries' \in [count : Nat, left : Endless .. TryWindow] /\ guesses' \in Nat
      /\ tries'.left = Endless => tries.left = Endless
      /\ Counted' /\ InFlightBounded'
  <2>1. CASE tries.left = 1
    <3>1. tries' = NoTries /\ guesses' = 0
      BY <2>1 DEF FactorTick
    <3>2. tries'.count = 0 /\ tries'.left = 0
      BY <3>1 DEF NoTries
    <3>3. tries' \in [count : Nat, left : Endless .. TryWindow] /\ tries'.left # Endless
      BY <3>1, Parameters DEF NoTries, Endless
    <3>4. Counted'
      BY <1>1, <1>5, <1>6, <3>1, <3>2 DEF Counted
    <3>5. Cardinality(Ceremonies) \in Nat
      BY Parameters, FS_CardinalityType
    <3>6. InFlightBounded'
      BY <1>1, <1>5, <1>6, <3>1, <3>5, Parameters DEF InFlightBounded
    <3>7. QED
      BY <3>1, <3>3, <3>4, <3>6
  <2>2. CASE tries.left # 1
    <3>1. /\ tries' = [tries EXCEPT !.left = IF @ > 0 THEN @ - 1 ELSE @]
          /\ guesses' = guesses
      BY <2>2 DEF FactorTick
    <3>2. tries.left \in Int /\ TryWindow \in Nat
      BY <1>4, Parameters DEF Endless
    <3>3. tries' \in [count : Nat, left : Endless .. TryWindow] /\ tries'.count = tries.count
          /\ (tries'.left = Endless => tries.left = Endless)
      BY <1>4, <3>1, <3>2 DEF Endless
    <3>4. Counted' /\ InFlightBounded'
      BY <1>1, <1>5, <1>7, <3>1, <3>3 DEF Counted, InFlightBounded
    <3>5. QED
      BY <1>5, <3>1, <3>3, <3>4
  <2>3. QED
    BY <2>1, <2>2
<1>9. FactorTypeOK'
  BY <1>1, <1>2, <1>4, <1>8 DEF FactorIInv, FactorTypeOK
<1>10. QED
  BY <1>1, <1>3, <1>8, <1>9
     DEF FactorIInv, ShownOnce, FactorProven, BurntLongEnough, CodeSpentOnce

---------------------------------------------------------------------------
(* The authenticator *)

LEMMA FactorStarts == FactorInit => FactorIInv
<1> SUFFICES ASSUME FactorInit PROVE FactorIInv
  OBVIOUS
<1>1. /\ tick = 0 /\ factor = NoFactor /\ minted = 0 /\ announced = {} /\ proven = {}
      /\ burnt = [s \in TimeStep |-> 0] /\ tries = NoTries /\ again = 0 /\ late = 0
      /\ stash = [h \in Challenges |-> "unstaged"] /\ ceremony = [c \in Ceremonies |-> Calm]
      /\ guesses = 0 /\ shown = [h \in Challenges |-> 0] /\ begun = 0 /\ losses = 0
  BY DEF FactorInit
<1>2. FactorTypeOK
  BY <1>1, Parameters DEF FactorTypeOK, NoFactor, NoTries, Secret, Endless
<1>3. CeremoniesSound /\ OneHolder
  BY <1>1 DEF CeremoniesSound, OneHolder
<1>4. ShownOnce /\ FactorProven /\ BurntLongEnough /\ CodeSpentOnce
  BY <1>1 DEF ShownOnce, FactorProven, NoFactor, BurntLongEnough, CodeSpentOnce
<1>5. At("fail") = {} /\ At("check") = {}
  BY <1>1 DEF At, Calm
<1>6. Cardinality(At("fail")) = 0 /\ Cardinality(At("check")) = 0
      /\ Cardinality(Ceremonies) \in Nat
  BY <1>5, FS_EmptySet, FS_CardinalityType, Parameters
<1>7. tries.count = 0
  BY <1>1 DEF NoTries
<1>8. Counted /\ InFlightBounded
  BY <1>1, <1>6, <1>7, Parameters DEF Counted, InFlightBounded
<1>9. QED
  BY <1>2, <1>3, <1>4, <1>8 DEF FactorIInv

LEMMA FactorInductive == FactorIInv /\ [FactorNext]_factorVars => FactorIInv'
<1> SUFFICES ASSUME FactorIInv, [FactorNext]_factorVars PROVE FactorIInv'
  OBVIOUS
<1>1. ASSUME NEW c \in Ceremonies,
             \/ \E op \in {"confirm", "disable", "strip"} : AskCeremony(c, op)
             \/ \E h \in Challenges : AskReveal(c, h)
             \/ \E failed \in BOOLEAN : AskEnroll(c, failed)
      PROVE  FactorIInv'
  BY <1>1, AsksStep
<1>2. ASSUME NEW c \in Ceremonies, NEW failed \in BOOLEAN,
             EnrollLoad(c, failed) \/ Release(c, failed)
      PROVE  FactorIInv'
  BY <1>2, EnrollLoadStep, ReleaseStep
<1>3. ASSUME NEW c \in Ceremonies, Verify(c) PROVE FactorIInv'
  BY <1>3, AdmitStep, CheckWrongStep, CountFailureStep, LimitWindowStep, CheckRightStep,
     CheckAbsentStep, BurnStep DEF Verify
<1>4. ASSUME NEW c \in Ceremonies,
             Emit(c) \/ Mint(c) \/ Activate(c) \/ Delete(c) \/ Answer(c) \/ CutShort(c)
      PROVE  FactorIInv'
  BY <1>4, EmitStep, MintStep, ActivateStep, DeleteStep, AnswerStep, CutShortStep
<1>5. ASSUME NEW h \in Challenges, StashCode(h) \/ StashExpires(h) PROVE FactorIInv'
  BY <1>5, StashStep
<1>6. CASE FactorTick
  BY <1>6, TickStep
<1>7. CASE UNCHANGED factorVars
  BY <1>7 DEF factorVars, FactorIInv, FactorTypeOK, CeremoniesSound, Carries, Holds, OneHolder,
       ShownOnce, FactorProven, BurntLongEnough, CodeSpentOnce, Counted, InFlightBounded, At
<1>8. QED
  BY <1>1, <1>2, <1>3, <1>4, <1>5, <1>6, <1>7 DEF FactorNext

LEMMA FactorTells == FactorIInv => FactorTypeOK /\ FactorSound
<1> SUFFICES ASSUME FactorIInv PROVE FactorTypeOK /\ FactorSound
  OBVIOUS
<1>1. FactorTypeOK /\ FactorProven /\ CodeSpentOnce /\ ShownOnce
  BY DEF FactorIInv
<1>2. RevealedOnce
  BY <1>1 DEF ShownOnce, RevealedOnce
<1>3. GuessesBounded
  <2>1. IsFiniteSet(Ceremonies) /\ At("check") \subseteq Ceremonies
    BY Parameters DEF At
  <2>2. Cardinality(At("check")) \in Nat /\ Cardinality(Ceremonies) \in Nat
    BY <2>1, FS_Subset, FS_CardinalityType
  <2>3. guesses + Cardinality(At("check")) < TryLimit + Cardinality(Ceremonies) + losses
    BY DEF FactorIInv, InFlightBounded
  <2>4. guesses \in Nat /\ losses \in Nat /\ TryLimit \in Nat
    BY WellTyped, Parameters
  <2>5. QED
    BY <2>2, <2>3, <2>4 DEF GuessesBounded
<1>4. QED
  BY <1>1, <1>2, <1>3 DEF FactorSound

\* However enrolments, confirmations, removals and disclosures of one principal
\* interleave, fail and are cut short: only a secret a code was accepted of is
\* ever active, a code is accepted once while it is good, the limiter lets pass
\* no more wrong codes than the limit, the requests in flight and the lost
\* counts, and a staged code is shown once, after its record.
THEOREM FactorSoundCorrect == FactorSpec => []FactorSound
BY FactorStarts, FactorInductive, FactorTells, PTL DEF FactorSpec

---------------------------------------------------------------------------
(* Single use of a proof, for any number of verifiers and proofs, any       *)
(* clocks and any window that satisfy PopAssumption                        *)

\* A request in flight has been checked within its timeout, against a window
\* that its own clock put around the proof.
InFlight ==
  \A v \in Verifiers : verifier[v] # Waiting =>
    /\ verifier[v].checked <= now /\ now <= verifier[v].checked + Timeout
    /\ verifier[v].checked + Offset[v] <= Iat[verifier[v].proof] + MaxAge
    /\ Iat[verifier[v].proof] <= verifier[v].checked + Offset[v]

\* The record of an accepted proof lasts longer than any clock finds it fresh.
LastsLonger ==
  \A p \in Proofs : uses[p] > 0 => record[p] >= (Iat[p] - Latest) + MaxAge + Skew

PopIInv == PopTypeOK /\ InFlight /\ LastsLonger /\ SingleUse

\* What an accepted proof's record means for a request in flight: it is there.
LEMMA StillRecorded ==
  ASSUME PopIInv, NEW v \in Verifiers, verifier[v] # Waiting, uses[verifier[v].proof] > 0
  PROVE  Recorded(verifier[v].proof)
<1> DEFINE p == verifier[v].proof
<1>1. p \in Proofs /\ verifier[v].checked \in Int
  BY DEF PopIInv, PopTypeOK, Recording
<1>2. record[p] >= (Iat[p] - Latest) + MaxAge + Skew
  BY <1>1 DEF PopIInv, LastsLonger
<1>3. now <= verifier[v].checked + Timeout /\ verifier[v].checked + Offset[v] <= Iat[p] + MaxAge
  BY DEF PopIInv, InFlight
<1>4. /\ Offset[v] \in Int /\ Earliest <= Offset[v] /\ Iat[p] \in Int /\ record[p] \in Int /\ now \in Int
      /\ MaxAge \in Int /\ Skew \in Int /\ Timeout \in Int /\ Earliest \in Int /\ Latest \in Int
  BY <1>1, PopAssumption DEF PopIInv, PopTypeOK
<1>5. (Latest - Earliest) + Timeout < Skew
  BY PopAssumption
<1> QED
  BY <1>1, <1>2, <1>3, <1>4, <1>5 DEF Recorded

LEMMA PopInductive == PopIInv /\ [PopNext]_popVars => PopIInv'
<1> SUFFICES ASSUME PopIInv, [PopNext]_popVars PROVE PopIInv'
  OBVIOUS
<1> USE DEF PopIInv
<1>1. ASSUME NEW v \in Verifiers, NEW p \in Proofs, CheckProof(v, p) PROVE PopIInv'
  <2>1. PopTypeOK'
    BY <1>1 DEF CheckProof, PopTypeOK, Recording, Waiting
  <2>2. InFlight'
    <3> SUFFICES ASSUME NEW u \in Verifiers, verifier'[u] # Waiting
                 PROVE  /\ verifier'[u].checked <= now' /\ now' <= verifier'[u].checked + Timeout
                        /\ verifier'[u].checked + Offset[u] <= Iat[verifier'[u].proof] + MaxAge
                        /\ Iat[verifier'[u].proof] <= verifier'[u].checked + Offset[u]
      BY DEF InFlight
    <3>1. CASE u # v
      BY <3>1, <1>1 DEF CheckProof, InFlight, PopTypeOK
    <3>2. CASE u = v
      <4>1. verifier'[u] = [pc |-> "record", proof |-> p, checked |-> now] /\ now' = now
        BY <3>2, <1>1 DEF CheckProof, PopTypeOK
      <4>2. Iat[p] <= now + Offset[v] /\ Iat[p] >= (now + Offset[v]) - MaxAge
        BY <1>1 DEF CheckProof, Fresh, Mature, Clock
      <4>3. /\ Offset[v] \in Int /\ Iat[p] \in Int /\ now \in Int /\ MaxAge \in Int /\ Timeout \in Nat
        BY PopAssumption DEF PopTypeOK
      <4> QED
        BY <3>2, <4>1, <4>2, <4>3
    <3> QED
      BY <3>1, <3>2
  <2>3. LastsLonger' /\ SingleUse'
    BY <1>1 DEF CheckProof, LastsLonger, SingleUse
  <2> QED
    BY <2>1, <2>2, <2>3
<1>2. ASSUME NEW v \in Verifiers, RecordProof(v) PROVE PopIInv'
  <2> DEFINE p == verifier[v].proof
  <2>1. verifier[v] # Waiting /\ p \in Proofs /\ verifier[v].checked \in Int
    BY <1>2 DEF RecordProof, PopTypeOK, Recording
  <2>2. InFlight'
    BY <1>2 DEF RecordProof, InFlight, PopTypeOK
  <2>3. CASE Recorded(p)
    <3>1. UNCHANGED <<record, uses, now>> /\ verifier' = [verifier EXCEPT ![v] = Waiting]
      BY <2>3, <1>2 DEF RecordProof
    <3>2. PopTypeOK' /\ LastsLonger' /\ SingleUse'
      BY <3>1 DEF PopTypeOK, LastsLonger, SingleUse
    <3> QED
      BY <3>2, <2>2
  <2>4. CASE ~Recorded(p)
    <3>1. /\ record' = [record EXCEPT ![p] = now + RecordTtl]
          /\ uses' = [uses EXCEPT ![p] = @ + 1]
          /\ verifier' = [verifier EXCEPT ![v] = Waiting] /\ now' = now
      BY <2>4, <1>2 DEF RecordProof
    <3>2. uses[p] = 0
      BY <2>4, <2>1, StillRecorded DEF PopTypeOK
    <3>3. now + RecordTtl \in Nat
      BY PopAssumption DEF RecordTtl, PopTypeOK
    <3>4. PopTypeOK'
      BY <3>1, <3>3, <2>1 DEF PopTypeOK
    <3>5. SingleUse'
      BY <3>1, <3>2, <2>1 DEF SingleUse, PopTypeOK
    <3>6. now + RecordTtl >= (Iat[p] - Latest) + MaxAge + Skew
      <4>1. Iat[p] <= verifier[v].checked + Offset[v] /\ verifier[v].checked <= now
        BY <2>1 DEF InFlight
      <4>2. /\ Offset[v] \in Int /\ Offset[v] <= Latest /\ Iat[p] \in Int /\ now \in Int
            /\ MaxAge \in Int /\ Skew \in Int /\ Latest \in Int
        BY <2>1, PopAssumption DEF PopTypeOK
      <4> QED
        BY <4>1, <4>2, <2>1 DEF RecordTtl
    <3>7. LastsLonger'
      BY <3>1, <3>6, <2>1 DEF LastsLonger, PopTypeOK
    <3> QED
      BY <3>4, <3>5, <3>7, <2>2
  <2> QED
    BY <2>3, <2>4
<1>3. ASSUME NEW v \in Verifiers, RecordFails(v) PROVE PopIInv'
  <2> DEFINE p == verifier[v].proof
  <2>1. verifier[v] # Waiting /\ p \in Proofs /\ verifier[v].checked \in Int
    BY <1>3 DEF RecordFails, PopTypeOK, Recording
  <2>2. InFlight' /\ SingleUse'
    BY <1>3 DEF RecordFails, InFlight, PopTypeOK, SingleUse
  <2>3. CASE UNCHANGED record
    BY <2>2, <2>3, <1>3 DEF RecordFails, PopTypeOK, LastsLonger
  <2>4. CASE ~Recorded(p) /\ record' = [record EXCEPT ![p] = now + RecordTtl]
    <3>1. uses[p] = 0 /\ uses' = uses
      BY <2>4, <2>1, <1>3, StillRecorded DEF PopTypeOK, RecordFails
    <3>2. now + RecordTtl \in Nat
      BY PopAssumption DEF RecordTtl, PopTypeOK
    <3>3. PopTypeOK'
      BY <3>2, <2>4, <2>1, <1>3 DEF PopTypeOK, RecordFails
    <3>4. LastsLonger'
      BY <3>1, <2>4 DEF LastsLonger, PopTypeOK
    <3> QED
      BY <2>2, <3>3, <3>4
  <2> QED
    BY <2>3, <2>4, <1>3 DEF RecordFails
<1>4. CASE PopTick
  <2>1. PopTypeOK' /\ LastsLonger' /\ SingleUse'
    BY <1>4, PopAssumption DEF PopTick, PopTypeOK, LastsLonger, SingleUse
  <2>2. InFlight'
    BY <1>4 DEF PopTick, InFlight, PopTypeOK, Recording
  <2> QED
    BY <2>1, <2>2
<1>5. CASE UNCHANGED popVars
  BY <1>5 DEF popVars, PopTypeOK, InFlight, LastsLonger, SingleUse
<1> QED
  BY <1>1, <1>2, <1>3, <1>4, <1>5 DEF PopNext

LEMMA PopInitial == PopInit => PopIInv
BY PopAssumption DEF PopInit, PopIInv, PopTypeOK, InFlight, LastsLonger, SingleUse, Waiting

\* A proof is accepted once at most.
THEOREM ProofsUsedOnce == PopSpec => []SingleUse
<1>1. PopIInv => SingleUse
  BY DEF PopIInv
<1> QED
  BY PopInitial, PopInductive, <1>1, PTL DEF PopSpec

\* The record of an accepted proof outlives its freshness on every worker.
THEOREM RecordsOutlive == PopSpec => []RecordOutlives
<1>1. PopIInv => RecordOutlives
  <2> SUFFICES ASSUME PopIInv, NEW p \in Proofs, NEW v \in Verifiers, uses[p] > 0, Fresh(v, p)
               PROVE  Recorded(p)
    BY DEF RecordOutlives
  <2>1. record[p] >= (Iat[p] - Latest) + MaxAge + Skew
    BY DEF PopIInv, LastsLonger
  <2>2. Iat[p] >= (now + Offset[v]) - MaxAge
    BY DEF Fresh, Clock
  <2>3. /\ Offset[v] \in Int /\ Earliest <= Offset[v] /\ Iat[p] \in Int /\ record[p] \in Int /\ now \in Int
        /\ MaxAge \in Int /\ Skew \in Int /\ Timeout \in Nat /\ Earliest \in Int /\ Latest \in Int
    BY PopAssumption DEF PopIInv, PopTypeOK
  <2>4. (Latest - Earliest) + Timeout < Skew
    BY PopAssumption
  <2> QED
    BY <2>1, <2>2, <2>3, <2>4 DEF Recorded
<1> QED
  BY PopInitial, PopInductive, <1>1, PTL DEF PopSpec

---------------------------------------------------------------------------
(* What a session rests on, together *)

\* A behaviour of the guards of a session is one of each.
LEMMA EachGuard == SessionsSpec => Spec /\ FactorSpec /\ PopSpec
<1>1. SessionsInit => Init /\ FactorInit /\ PopInit
  BY DEF SessionsInit
<1>2. [SessionsNext]_<<focus, vars, factorVars, popVars>> =>
        [Next]_vars /\ [FactorNext]_factorVars /\ [PopNext]_popVars
  BY DEF SessionsNext
<1>3. QED
  BY <1>1, <1>2, PTL DEF SessionsSpec, Spec, FactorSpec, PopSpec

\* Type correctness of the three.
THEOREM SessionsTypesCorrect == SessionsSpec => []TypesOK
<1>1. FactorSpec => []FactorTypeOK
  BY FactorStarts, FactorInductive, FactorTells, PTL DEF FactorSpec
<1>2. PopIInv => PopTypeOK
  BY DEF PopIInv
<1>3. PopSpec => []PopTypeOK
  BY <1>2, PopInitial, PopInductive, PTL DEF PopSpec
<1>4. QED
  BY <1>1, <1>3, TypeCorrect, EachGuard, PTL DEF TypesOK
=============================================================================
