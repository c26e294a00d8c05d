---------------------------- MODULE Authenticator ---------------------------
(***************************************************************************)
(* The authenticator of one principal: services/authenticator_enrollment.py *)
(* with the /v1/authenticator endpoints of app/main.py and the sealed stash *)
(* of services/authn_channel.py.                                            *)
(*                                                                         *)
(* The principal enrols a secret, confirms it with a code, reveals staged  *)
(* codes and turns the factor off; an administrator strips it.  Requests   *)
(* run side by side on several workers, every Redis call is an action, and *)
(* a code (secret and timestep, digests being injective) is good for as    *)
(* long as the clock says.                                                 *)
(***************************************************************************)
EXTENDS Integers, FiniteSets

CONSTANTS
  Ceremonies,           \* requests in flight
  Challenges,           \* staged step-up codes
  Period, Drift,        \* TOTP_PERIOD_S in ticks, TOTP_DRIFT_STEPS
  TryLimit, TryWindow,  \* MAX_TOTP_ATTEMPTS, TOTP_ATTEMPT_WINDOW_S in ticks
  NoChallenge,
  MaxSecrets,           \* bound: secrets minted
  MaxCeremonies,        \* bound: requests
  MaxLosses,            \* bound: failed calls and requests cut short
  LastTick              \* bound: ticks

ASSUME AuthenticatorAssumption ==
  /\ IsFiniteSet(Ceremonies) /\ NoChallenge \notin Challenges
  /\ Period \in Nat \ {0} /\ Drift \in Nat
  /\ TryLimit \in Nat \ {0} /\ TryWindow \in Nat \ {0}
  /\ MaxSecrets \in Nat /\ MaxCeremonies \in Nat /\ MaxLosses \in Nat /\ LastTick \in Nat

VARIABLES
  tick,
  factor,    \* mcpip:authn:totp:*: the enrolment
  minted,    \* secrets minted so far
  burnt,     \* mcpip:authn:used:*: when the key of a timestep expires
  tries,     \* mcpip:authn:fail:*: count, and ticks left of its window
  stash,     \* mcpip:otpv:*
  ceremony,
  announced, \* challenges with an otp_reveal record
  proven,    \* secrets a confirmation has accepted a code of (history)
  again,     \* codes accepted whose timestep was burnt before (history)
  late,      \* codes burnt when they were out of date (history)
  guesses,   \* wrong codes since the last window ended (history)
  shown,     \* disclosures of each challenge (history)
  begun, losses

factorVars == <<tick, factor, minted, burnt, tries, stash, ceremony, announced,
                proven, again, late, guesses, shown, begun, losses>>

TimeStep == -Drift .. LastTick \div Period + Drift
Secret   == 0 .. MaxSecrets
NoFactor == [state |-> "none", secret |-> 0]
NoTries  == [count |-> 0, left |-> 0]
Endless  == -1

Operation == {"enroll", "confirm", "disable", "reveal", "strip"}
Calm == [pc |-> "calm"]
Busy == [pc : {"emit", "load", "mint", "admit", "check", "fail", "limit", "burn",
               "activate", "delete", "release", "answer"},
         op : Operation, secret : Secret, step : TimeStep,
         challenge : Challenges \cup {NoChallenge}, found : BOOLEAN]

\* Every variable has its type; a window never ends only if its EXPIRE is
\* still to come or was lost (_record_failure).
FactorTypeOK ==
  /\ tick \in 0 .. LastTick /\ minted \in Secret
  /\ factor \in [state : {"none", "pending", "active"}, secret : Secret]
  /\ burnt \in [TimeStep -> Nat]
  /\ tries \in [count : Nat, left : Endless .. TryWindow]
  /\ stash \in [Challenges -> {"unstaged", "held", "gone"}]
  /\ ceremony \in [Ceremonies -> Busy \cup {Calm}]
  /\ announced \subseteq Challenges
  /\ proven \subseteq Secret /\ again \in Nat
  /\ late \in Nat /\ guesses \in Nat
  /\ shown \in [Challenges -> Nat]
  /\ begun \in 0 .. MaxCeremonies /\ losses \in 0 .. MaxLosses
  /\ tries.left = Endless => losses > 0 \/ \E c \in Ceremonies : ceremony[c].pc = "limit"

FactorInit ==
  /\ tick = 0 /\ factor = NoFactor /\ minted = 0
  /\ burnt = [s \in TimeStep |-> 0] /\ tries = NoTries
  /\ stash = [h \in Challenges |-> "unstaged"]
  /\ ceremony = [c \in Ceremonies |-> Calm]
  /\ announced = {} /\ proven = {} /\ again = 0
  /\ late = 0 /\ guesses = 0 /\ shown = [h \in Challenges |-> 0] /\ begun = 0 /\ losses = 0

factorPast == <<proven, again, late, guesses, shown>>

Moves(c, pc) == ceremony' = [ceremony EXCEPT ![c].pc = pc]
Ends(c) == ceremony' = [ceremony EXCEPT ![c] = Calm]
Loss(failed) == IF failed THEN losses < MaxLosses /\ losses' = losses + 1
                          ELSE UNCHANGED losses

---------------------------------------------------------------------------
(* Requests arrive. *)

\* The records of confirm, disable and strip come first, and nothing follows
\* without them.
FirstStep == [enroll |-> "emit", confirm |-> "admit", disable |-> "admit",
              strip |-> "delete", reveal |-> "admit"]

Begins(c, op, h) ==
  /\ ceremony[c] = Calm
  /\ begun < MaxCeremonies /\ begun' = begun + 1
  /\ ceremony' = [ceremony EXCEPT ![c] =
       [pc |-> FirstStep[op], op |-> op, secret |-> 0, step |-> 0, challenge |-> h, found |-> FALSE]]
  /\ UNCHANGED <<tick, factor, minted, burnt, tries, stash, announced, factorPast>>

\* authenticator_enroll reads the status; what cannot be read is not enrolled.
AskEnroll(c, failed) ==
  /\ failed \/ factor.state # "active"
  /\ Begins(c, "enroll", NoChallenge) /\ Loss(failed)

AskCeremony(c, op) == Begins(c, op, NoChallenge) /\ UNCHANGED losses
AskReveal(c, h) == Begins(c, "reveal", h) /\ UNCHANGED losses

\* The record of an enrolment, and that of a disclosure.
Emit(c) ==
  LET k == ceremony[c] IN
  /\ k.pc = "emit" /\ Moves(c, IF k.op = "enroll" THEN "load" ELSE "answer")
  /\ announced' = IF k.found THEN announced \cup {k.challenge} ELSE announced
  /\ UNCHANGED <<begun, tick, factor, minted, burnt, tries, stash, factorPast, losses>>

---------------------------------------------------------------------------
(* begin *)

EnrollLoad(c, failed) ==
  /\ ceremony[c].pc = "load" /\ Loss(failed)
  /\ IF failed \/ factor.state # "active" THEN Moves(c, "mint") ELSE Ends(c)
  /\ UNCHANGED <<begun, tick, factor, minted, burnt, tries, stash, announced, factorPast>>

\* SET, whatever the key holds by now.
Mint(c) ==
  /\ ceremony[c].pc = "mint" /\ Ends(c)
  /\ minted < MaxSecrets /\ minted' = minted + 1
  /\ factor' = [state |-> "pending", secret |-> minted + 1]
  /\ UNCHANGED <<begun, tick, burnt, tries, stash, announced, factorPast, losses>>

---------------------------------------------------------------------------
(* verify, and the verification in confirm *)

\* _admit_attempt.
Admit(c) ==
  /\ ceremony[c].pc = "admit"
  /\ IF tries.count < TryLimit THEN Moves(c, "check") ELSE Ends(c)
  /\ UNCHANGED <<begun, tick, factor, minted, burnt, tries, stash, announced, factorPast, losses>>

Acceptable(s) == LET d == s - tick \div Period IN -Drift <= d /\ d <= Drift

Expected(op) == IF op = "confirm" THEN "pending" ELSE "active"

\* _load finds no enrolment in the state asked for.
CheckAbsent(c, failed) ==
  LET op == ceremony[c].op IN
  /\ ceremony[c].pc = "check" /\ Loss(failed)
  /\ failed \/ factor.state # Expected(op)
  /\ IF op = "confirm" THEN Ends(c) ELSE Moves(c, "fail")
  /\ UNCHANGED <<begun, tick, factor, minted, burnt, tries, stash, announced, factorPast>>

\* _code_matches finds the timestep of the code in the drift window.
CheckRight(c, s) ==
  /\ ceremony[c].pc = "check" /\ factor.state = Expected(ceremony[c].op)
  /\ Acceptable(s)
  /\ ceremony' = [ceremony EXCEPT ![c].pc = "burn", ![c].secret = factor.secret, ![c].step = s]
  /\ UNCHANGED <<begun, tick, factor, minted, burnt, tries, stash, announced, factorPast, losses>>

CheckWrong(c) ==
  /\ ceremony[c].pc = "check" /\ factor.state = Expected(ceremony[c].op)
  /\ Moves(c, "fail") /\ guesses' = guesses + 1
  /\ UNCHANGED <<begun, tick, factor, minted, burnt, tries, stash, announced, proven, again, late,
                 shown, losses>>

\* _record_failure: INCR.
CountFailure(c) ==
  /\ ceremony[c].pc = "fail"
  /\ IF tries.count = 0 THEN Moves(c, "limit") ELSE Ends(c)
  /\ tries' = [count |-> tries.count + 1, left |-> IF tries.count = 0 THEN Endless ELSE tries.left]
  /\ UNCHANGED <<begun, tick, factor, minted, burnt, stash, announced, factorPast, losses>>

\* EXPIRE.
LimitWindow(c) ==
  /\ ceremony[c].pc = "limit" /\ Ends(c)
  /\ tries' = [tries EXCEPT !.left = TryWindow]
  /\ UNCHANGED <<begun, tick, factor, minted, burnt, stash, announced, factorPast, losses>>

\* Mutant: the key lives for the drift on either side only.
BurnTtlShort == Period * 2 * Drift

BurnTtl == Period * (2 * Drift + 1)

AfterBurn == [confirm |-> "activate", disable |-> "delete", reveal |-> "release"]

\* _burn_timestep: SET NX EX.  A lost reply refuses the code it has burnt.
Burn(c, lost) ==
  LET k == ceremony[c]
      first == tick >= burnt[k.step]
  IN
  /\ k.pc = "burn" /\ Loss(lost)
  /\ burnt' = IF first THEN [burnt EXCEPT ![k.step] = tick + BurnTtl] ELSE burnt
  /\ IF first /\ ~lost
     THEN /\ ceremony' = [ceremony EXCEPT ![c].pc = AfterBurn[k.op], ![c].step = 0,
                                          ![c].secret = IF k.op = "confirm" THEN @ ELSE 0]
          /\ again' = IF burnt[k.step] > 0 THEN again + 1 ELSE again
          /\ late' = IF Acceptable(k.step) THEN late ELSE late + 1
          /\ proven' = IF k.op = "confirm" THEN proven \cup {k.secret} ELSE proven
     ELSE Ends(c) /\ UNCHANGED <<again, late, proven>>
  /\ UNCHANGED <<begun, tick, factor, minted, tries, stash, announced, guesses, shown>>

---------------------------------------------------------------------------
(* What an accepted code is for *)

\* Mutant: the state is flipped in place.
ActivateInPlace(c) ==
  /\ ceremony[c].pc = "activate" /\ Ends(c)
  /\ factor' = [factor EXCEPT !.state = "active"]
  /\ UNCHANGED <<begun, tick, minted, burnt, tries, stash, announced, factorPast, losses>>

\* confirm writes back the enrolment it has read.
Activate(c) ==
  /\ ceremony[c].pc = "activate" /\ Ends(c)
  /\ factor' = [state |-> "active", secret |-> ceremony[c].secret]
  /\ UNCHANGED <<begun, tick, minted, burnt, tries, stash, announced, factorPast, losses>>

\* disable and admin_disable.
Delete(c) ==
  /\ ceremony[c].pc = "delete" /\ Ends(c)
  /\ factor' = NoFactor
  /\ UNCHANGED <<begun, tick, minted, burnt, tries, stash, announced, factorPast, losses>>

\* reveal: GETDEL; a lost reply reads as absent.
Release(c, lost) ==
  LET k == ceremony[c] IN
  /\ k.pc = "release" /\ Loss(lost)
  /\ ceremony' = [ceremony EXCEPT ![c].pc = "emit",
                                  ![c].found = stash[k.challenge] = "held" /\ ~lost]
  /\ stash' = [stash EXCEPT ![k.challenge] = IF @ = "held" THEN "gone" ELSE @]
  /\ UNCHANGED <<begun, tick, factor, minted, burnt, tries, announced, factorPast>>

Answer(c) ==
  LET k == ceremony[c] IN
  /\ k.pc = "answer" /\ Ends(c)
  /\ shown' = IF k.found THEN [shown EXCEPT ![k.challenge] = @ + 1] ELSE shown
  /\ UNCHANGED <<begun, tick, factor, minted, burnt, tries, stash, announced, proven, again, late,
                 guesses, losses>>

---------------------------------------------------------------------------

\* TotpVaultAuthenticatorChannel.deliver, for a challenge the pipeline stages.
StashCode(h) ==
  /\ stash[h] = "unstaged" /\ stash' = [stash EXCEPT ![h] = "held"]
  /\ UNCHANGED <<begun, tick, factor, minted, burnt, tries, ceremony, announced, factorPast, losses>>

\* Its TTL.
StashExpires(h) ==
  /\ stash[h] = "held" /\ stash' = [stash EXCEPT ![h] = "gone"]
  /\ UNCHANGED <<begun, tick, factor, minted, burnt, tries, ceremony, announced, factorPast, losses>>

\* A call raises, the client or the deadline cancels the request, or the
\* worker ends.
CutShort(c) ==
  /\ ceremony[c] # Calm /\ Ends(c) /\ Loss(TRUE)
  /\ UNCHANGED <<begun, tick, factor, minted, burnt, tries, stash, announced, factorPast>>

FactorTick ==
  /\ tick < LastTick /\ tick' = tick + 1
  /\ IF tries.left = 1 THEN tries' = NoTries /\ guesses' = 0
     ELSE /\ tries' = [tries EXCEPT !.left = IF @ > 0 THEN @ - 1 ELSE @]
          /\ UNCHANGED guesses
  /\ UNCHANGED <<begun, factor, minted, burnt, stash, ceremony, announced, proven, again, late,
                 shown, losses>>

Verify(c) ==
  \/ Admit(c) \/ CheckWrong(c) \/ CountFailure(c) \/ LimitWindow(c)
  \/ \E s \in TimeStep : CheckRight(c, s)
  \/ \E failed \in BOOLEAN : CheckAbsent(c, failed) \/ Burn(c, failed)

FactorNext ==
  \/ \E c \in Ceremonies :
       \/ \E op \in {"confirm", "disable", "strip"} : AskCeremony(c, op)
       \/ \E h \in Challenges : AskReveal(c, h)
       \/ \E failed \in BOOLEAN :
            AskEnroll(c, failed) \/ EnrollLoad(c, failed) \/ Release(c, failed)
       \/ Emit(c) \/ Mint(c) \/ Verify(c) \/ Activate(c) \/ Delete(c) \/ Answer(c)
       \/ CutShort(c)
  \/ \E h \in Challenges : StashCode(h) \/ StashExpires(h)
  \/ FactorTick

FactorSpec == FactorInit /\ [][FactorNext]_factorVars

---------------------------------------------------------------------------
(* Properties *)

\* An active authenticator holds a secret of which confirm has accepted a code
\* (confirm), whatever enrolments, removals and other confirmations run beside
\* it, so no other secret than the one a human holds gates the codes.
FactorProven ==
  factor.state = "active" => factor.secret \in proven

\* "The same 6 digits can never be spent twice" (module docstring): the key of
\* a timestep outlasts every moment its code is acceptable, unless a request
\* burns a code only after that code has gone out of date.
CodeSpentOnce == again <= late

\* The attempt limiter (_admit_attempt reads, _record_failure counts later):
\* between two resets of the counter, wrong codes exceed the limit by fewer
\* than there are requests in flight, and one more for each lost count.
GuessesBounded ==
  guesses < TryLimit + Cardinality(Ceremonies) + losses

\* A staged code is disclosed once at most, however requests race, and never
\* before its audit record (authenticator_reveal).
RevealedOnce ==
  \A h \in Challenges : shown[h] <= 1 /\ (shown[h] > 0 => h \in announced)

\* A stolen token alone gains nothing: no secret of one's own, no old code, no
\* guessing, and no staged code asked for twice.
FactorSound == FactorProven /\ CodeSpentOnce /\ GuessesBounded /\ RevealedOnce
=============================================================================
