------------------------ MODULE NamespaceLeaseProofs ------------------------
(***************************************************************************)
(* Proofs about NamespaceLease, for any set of runs and any timing that    *)
(* satisfies its assumptions.                                              *)
(***************************************************************************)
EXTENDS NamespaceLease, TLAPS

(***************************************************************************)
(* Clocks are natural numbers, at most MaxSkew ahead of the common one.    *)
(***************************************************************************)
LEMMA ClockBounds ==
    ASSUME now \in Nat, NEW r \in Runs
    PROVE  Clock(r) \in Nat /\ now <= Clock(r) /\ Clock(r) <= now + MaxSkew
BY TimingAssumption DEF Clock

LEMMA ClockIsNow ==
    ASSUME now \in Nat, MaxSkew = 0
    PROVE  \A r \in Runs : Clock(r) = now
<1> TAKE r \in Runs
<1>1. Skew[r] \in 0 .. 0
  BY TimingAssumption
<1>2. QED
  BY <1>1 DEF Clock

LEMMA ConstantTypes ==
    /\ Term \in Nat /\ Request \in Nat /\ Margin \in Nat
    /\ Pause \in Nat /\ SendDelay \in Nat
    /\ LateWriteSeconds \in Nat
BY TimingAssumption DEF LateWriteSeconds

(***************************************************************************)
(* A step of a run's main thread keeps every variable in its type.         *)
(***************************************************************************)
LEMMA MainStepType ==
    ASSUME TypeOK, NEW r \in Runs, MainStep(r)
    PROVE  TypeOK'
<1> USE ConstantTypes DEF TypeOK, Phases, HbStates, mainVars, hbVars
<1>0. Clock(r) \in Nat
  BY ClockBounds
<1>1. CASE ReadHolder(r)
  BY <1>1 DEF ReadHolder
<1>2. CASE AcquireLease(r)
  BY <1>0, <1>2 DEF AcquireLease
<1>3. CASE AcquireDenied(r)
  BY <1>3 DEF AcquireDenied
<1>4. CASE PassFence(r)
  BY <1>4 DEF PassFence
<1>5. CASE FailFence(r)
  BY <1>5 DEF FailFence
<1>6. CASE RetakeRequest(r)
  <2>1. (InFlight(r) \/ hb[r] = "releasing") \in BOOLEAN
    BY DEF InFlight
  <2>2. QED
    BY <1>0, <1>6, <2>1 DEF RetakeRequest
<1>7. CASE RetakeAnswer(r)
  BY <1>7 DEF RetakeAnswer
<1>8. ASSUME NEW stopped \in BOOLEAN, ExitBegin(r, stopped)
      PROVE  TypeOK'
  <2>1. writes' \subseteq [by : Runs, until : Nat]
    <3>1. SUFFICES ASSUME NEW w \in writes
                   PROVE  [w EXCEPT !.until =
                                Earlier(@, now + SendDelay + Request)]
                            \in [by : Runs, until : Nat]
      BY <1>8 DEF ExitBegin
    <3>2. w \in [by : Runs, until : Nat] /\ now + SendDelay + Request \in Nat
      OBVIOUS
    <3>3. Earlier(w.until, now + SendDelay + Request) \in Nat
      BY <3>2 DEF Earlier
    <3>4. QED
      BY <3>2, <3>3
  <2>2. ending' \in [Runs -> [held : BOOLEAN, how : {"release", "expire"},
                              at : Nat, since : Nat]]
    BY <1>0, <1>8 DEF ExitBegin, HandsOn
  <2>3. QED
    BY <1>8, <2>1, <2>2 DEF ExitBegin
<1>9. CASE GiveUp(r)
  BY <1>9 DEF GiveUp, GivenUp, NoLease
<1>10. CASE GiveUpFails(r)
  BY <1>10 DEF GiveUpFails
<1>11. CASE Die(r)
  BY <1>11 DEF Die
<1>12. QED
  BY <1>1, <1>2, <1>3, <1>4, <1>5, <1>6, <1>7, <1>8, <1>9, <1>10, <1>11
     DEF MainStep

(***************************************************************************)
(* So does a step of its heartbeat thread.                                 *)
(***************************************************************************)
LEMMA HeartbeatStepType ==
    ASSUME TypeOK, NEW r \in Runs, HeartbeatStep(r)
    PROVE  TypeOK'
<1> USE ConstantTypes DEF TypeOK, HbStates, mainVars, hbVars
<1>0. Clock(r) \in Nat
  BY ClockBounds
<1>1. CASE HeartbeatSend(r)
  BY <1>0, <1>1 DEF HeartbeatSend
<1>2. CASE HeartbeatApply(r)
  <2>1. lease' \in [owner : Runs \union {NoRun}, expires : Nat]
    BY <1>2 DEF HeartbeatApply
  <2>2. hb' \in [Runs -> HbStates]
    BY <1>2, SMTT(60) DEF HeartbeatApply
  <2>3. QED
    BY <1>2, <2>1, <2>2 DEF HeartbeatApply
<1>3. CASE HeartbeatError(r)
  <2>1. Expiring(r) \in BOOLEAN
    BY DEF Expiring
  <2>2. QED
    BY <1>0, <1>3, <2>1 DEF HeartbeatError
<1>4. CASE HeartbeatDenied(r)
  BY <1>4 DEF HeartbeatDenied
<1>5. CASE HeartbeatTooLate(r)
  BY <1>5 DEF HeartbeatTooLate
<1>6. CASE HeartbeatReleases(r)
  BY <1>6 DEF HeartbeatReleases, GivenUp, NoLease
<1>7. CASE HeartbeatRenewed(r)
  BY <1>0, <1>7 DEF HeartbeatRenewed
<1>8. CASE HeartbeatContinues(r)
  BY <1>0, <1>8 DEF HeartbeatContinues
<1>9. CASE HeartbeatGivesUp(r)
  BY <1>9 DEF HeartbeatGivesUp, GivenUp, NoLease
<1>10. CASE HeartbeatStops(r)
  BY <1>10 DEF HeartbeatStops
<1>11. QED
  BY <1>1, <1>2, <1>3, <1>4, <1>5, <1>6, <1>7, <1>8, <1>9, <1>10
     DEF HeartbeatStep

LEMMA InitType == Init => TypeOK
BY TimingAssumption DEF Init, TypeOK, NoLease, Phases, HbStates

LEMMA StepType == TypeOK /\ [Next]_vars => TypeOK'
<1> SUFFICES ASSUME TypeOK, [Next]_vars PROVE TypeOK'
  OBVIOUS
<1>1. ASSUME NEW r \in Runs, MainStep(r) \/ HeartbeatStep(r)
      PROVE  TypeOK'
  BY <1>1, MainStepType, HeartbeatStepType
<1>2. ASSUME NEW w \in writes, Land(w)
      PROVE  TypeOK'
  BY <1>2 DEF Land, TypeOK, mainVars, hbVars
<1>3. CASE Tick
  BY <1>3 DEF Tick, TypeOK, mainVars, hbVars
<1>4. CASE TtlDrop
  BY <1>4 DEF TtlDrop, NoLease, TypeOK, mainVars, hbVars
<1>5. CASE UNCHANGED vars
  BY <1>5 DEF TypeOK, vars, mainVars, hbVars
<1>6. QED
  BY <1>1, <1>2, <1>3, <1>4, <1>5 DEF Next

(***************************************************************************)
(* Every variable keeps its type: no step leaves a time, an owner or a     *)
(* request that the next one could not read (namespace_lease).             *)
(***************************************************************************)
THEOREM TypeCorrect == Spec => []TypeOK
BY InitType, StepType, PTL DEF Spec

-----------------------------------------------------------------------------
(***************************************************************************)
(* The inductive invariant.  A step of run q can change the lease only by  *)
(* taking one it may take, or by releasing its own.                        *)
(***************************************************************************)
LEMMA LeaseChange ==
    ASSUME TypeOK, NEW q \in Runs, TimesOrdered(q), MainStep(q) \/ HeartbeatStep(q)
    PROVE  /\ now' = now
           /\ \/ lease' = lease
              \/ lease.owner = q
              \/ \E at \in Nat : at <= Clock(q) /\ Takeable(q, at)
<1> USE DEF mainVars, hbVars, TypeOK
<1>0. Clock(q) \in Nat /\ hbSent[q] \in Nat
  BY ClockBounds
<1>1. CASE MainStep(q)
  BY <1>0, <1>1 DEF MainStep, ReadHolder, AcquireLease, AcquireDenied, PassFence,
     FailFence, RetakeRequest, RetakeAnswer, ExitBegin, GiveUp, GivenUp,
     GiveUpFails, Die
<1>2. CASE HeartbeatApply(q)
  BY <1>0, <1>2 DEF HeartbeatApply, TimesOrdered, InFlight
<1>3. CASE HeartbeatSend(q) \/ HeartbeatError(q) \/ HeartbeatDenied(q)
           \/ HeartbeatTooLate(q) \/ HeartbeatReleases(q) \/ HeartbeatRenewed(q)
           \/ HeartbeatContinues(q) \/ HeartbeatGivesUp(q) \/ HeartbeatStops(q)
  BY <1>0, <1>3 DEF HeartbeatSend, HeartbeatError, HeartbeatDenied,
     HeartbeatTooLate, HeartbeatReleases, HeartbeatRenewed, HeartbeatContinues,
     HeartbeatGivesUp, HeartbeatStops, GivenUp
<1>4. QED
  BY <1>1, <1>2, <1>3 DEF HeartbeatStep

(***************************************************************************)
(* Such a change takes nothing from a run whose lease is secured.          *)
(***************************************************************************)
LEMMA SecuredFromOthers ==
    ASSUME TypeOK, NEW q \in Runs, NEW r \in Runs, q # r, now' = now,
           \/ lease' = lease
           \/ lease.owner = q
           \/ \E at \in Nat : at <= Clock(q) /\ Takeable(q, at),
           NEW t \in Int, Secured(r, t)
    PROVE  Secured(r, t)'
<1> USE TimingAssumption DEF Secured, TypeOK
<1>1. CASE lease' = lease
  BY <1>1
<1>2. CASE lease.owner = q
  BY <1>2
<1>3. CASE \E at \in Nat : at <= Clock(q) /\ Takeable(q, at)
  <2>1. PICK at \in Nat : at <= Clock(q) /\ Takeable(q, at)
    BY <1>3
  <2>2. at <= now + MaxSkew
    BY <2>1, ClockBounds
  <2>3. ~(now + MaxSkew < t + Term)
    BY <2>1, <2>2 DEF Takeable
  <2>4. QED
    BY <2>3
<1>4. QED
  BY <1>1, <1>2, <1>3

(***************************************************************************)
(* A step of run q leaves every field of every other run alone.            *)
(***************************************************************************)
LEMMA OtherFields ==
    ASSUME TypeOK, NEW q \in Runs, MainStep(q) \/ HeartbeatStep(q),
           NEW r \in Runs, q # r
    PROVE  /\ phase'[r] = phase[r] /\ renewedAt'[r] = renewedAt[r]
           /\ lost'[r] = lost[r] /\ retakeSent'[r] = retakeSent[r]
           /\ hb'[r] = hb[r] /\ hbSent'[r] = hbSent[r] /\ hbAt'[r] = hbAt[r]
           /\ crossed'[r] = crossed[r]
<1> USE DEF mainVars, hbVars, TypeOK
<1>1. CASE MainStep(q)
  BY <1>1 DEF MainStep, ReadHolder, AcquireLease, AcquireDenied, PassFence,
     FailFence, RetakeRequest, RetakeAnswer, ExitBegin, GiveUp, GiveUpFails, Die
<1>2. CASE HeartbeatStep(q)
  BY <1>2 DEF HeartbeatStep, HeartbeatSend, HeartbeatApply, HeartbeatError,
     HeartbeatDenied, HeartbeatTooLate, HeartbeatReleases, HeartbeatRenewed,
     HeartbeatContinues, HeartbeatGivesUp, HeartbeatStops
<1>3. QED
  BY <1>1, <1>2

LEMMA OthersKeepInv ==
    ASSUME TypeOK, NEW q \in Runs, TimesOrdered(q), MainStep(q) \/ HeartbeatStep(q),
           NEW r \in Runs, q # r, RunInv(r)
    PROVE  RunInv(r)'
<1>1. now' = now
  BY LeaseChange
<1>2. \A t \in Int : Secured(r, t) => Secured(r, t)'
  BY LeaseChange, SecuredFromOthers
<1>3. hbSent[r] \in Int /\ retakeSent[r] \in Int /\ renewedAt[r] \in Int
  BY DEF TypeOK
<1>4. /\ TimesOrdered(r)'
      /\ Uncrossed(r) => Uncrossed(r)'
  BY <1>1, OtherFields DEF RunInv, TimesOrdered, Uncrossed, InFlight, Clock
<1>5. QED
  BY <1>1, <1>2, <1>3, <1>4, OtherFields DEF RunInv, Secured, InBlock

(***************************************************************************)
(* A run's own steps.                                                      *)
(***************************************************************************)
LEMMA OwnMainStepInv ==
    ASSUME TypeOK, NEW r \in Runs, RunInv(r), MainStep(r)
    PROVE  RunInv(r)'
<1> USE TimingAssumption, ThirdAssumption, ClockBounds
    DEF TypeOK, RunInv, TimesOrdered, Uncrossed, InFlight, InBlock,
        Secured, Clock, mainVars, hbVars
<1>1. CASE ReadHolder(r)
  BY <1>1 DEF ReadHolder
<1>2. CASE AcquireLease(r)
  BY <1>2 DEF AcquireLease
<1>3. CASE AcquireDenied(r)
  BY <1>3 DEF AcquireDenied
<1>4. CASE PassFence(r)
  BY <1>4 DEF PassFence
<1>5. CASE FailFence(r)
  BY <1>5 DEF FailFence
<1>6. CASE RetakeRequest(r)
  <2>1. ~crossed'[r] => hb[r] \notin {"sent", "held", "denied", "releasing"}
    BY <1>6 DEF RetakeRequest
  <2>2. /\ phase'[r] = "retaking" /\ Retakes /\ retakeSent'[r] = Clock(r)
        /\ lease'.owner = r /\ lease'.expires = Clock(r) + Term
        /\ phase[r] = "failing"
        /\ UNCHANGED <<now, renewedAt, lost, hbVars>>
    BY <1>6 DEF RetakeRequest
  <2>3. QED
    BY <2>1, <2>2
<1>7. CASE RetakeAnswer(r)
  BY <1>7 DEF RetakeAnswer
<1>8. ASSUME NEW stopped \in BOOLEAN, ExitBegin(r, stopped)
      PROVE  RunInv(r)'
  BY <1>8 DEF ExitBegin
<1>9. CASE GiveUp(r)
  BY <1>9 DEF GiveUp
<1>10. CASE GiveUpFails(r)
  BY <1>10 DEF GiveUpFails
<1>11. CASE Die(r)
  BY <1>11 DEF Die
<1>12. QED
  BY <1>1, <1>2, <1>3, <1>4, <1>5, <1>6, <1>7, <1>8, <1>9, <1>10, <1>11
     DEF MainStep

LEMMA OwnHeartbeatStepInv ==
    ASSUME TypeOK, NEW r \in Runs, RunInv(r), HeartbeatStep(r)
    PROVE  RunInv(r)'
<1> USE TimingAssumption, ThirdAssumption, ClockBounds
    DEF TypeOK, RunInv, TimesOrdered, Uncrossed, InFlight, InBlock,
        Secured, Clock, mainVars, hbVars
<1>1. CASE HeartbeatSend(r)
  BY <1>1 DEF HeartbeatSend, StopSet
<1>2. CASE HeartbeatApply(r)
  BY <1>2 DEF HeartbeatApply, Takeable
<1>3. CASE HeartbeatError(r)
  BY <1>3 DEF HeartbeatError, Expiring
<1>4. CASE HeartbeatDenied(r)
  BY <1>4 DEF HeartbeatDenied
<1>5. CASE HeartbeatTooLate(r)
  BY <1>5 DEF HeartbeatTooLate
<1>6. CASE HeartbeatReleases(r)
  BY <1>6 DEF HeartbeatReleases
<1>7. CASE HeartbeatRenewed(r)
  BY <1>7 DEF HeartbeatRenewed
<1>8. CASE HeartbeatContinues(r)
  BY <1>8 DEF HeartbeatContinues
<1>9. CASE HeartbeatGivesUp(r)
  BY <1>9 DEF HeartbeatGivesUp, StopSet
<1>10. CASE HeartbeatStops(r)
  BY <1>10 DEF HeartbeatStops, StopSet
<1>11. QED
  BY <1>1, <1>2, <1>3, <1>4, <1>5, <1>6, <1>7, <1>8, <1>9, <1>10
     DEF HeartbeatStep

(***************************************************************************)
(* Time, and DynamoDB's TTL.                                               *)
(***************************************************************************)
LEMMA TickInv ==
    ASSUME TypeOK, NEW r \in Runs, RunInv(r), Tick
    PROVE  RunInv(r)'
<1> USE TimingAssumption
    DEF TypeOK, RunInv, Clock, mainVars, hbVars, Tick
<1>1. TimesOrdered(r)' /\ (Uncrossed(r) => Uncrossed(r)')
  BY DEF TimesOrdered, Uncrossed, InFlight
<1>2. \A t \in Int : Secured(r, t) => Secured(r, t)'
  BY DEF Secured
<1>3. QED
  BY <1>1, <1>2 DEF InBlock, Secured

LEMMA TtlDropInv ==
    ASSUME TypeOK, NEW r \in Runs, RunInv(r), TtlDrop
    PROVE  RunInv(r)'
<1> USE TimingAssumption
    DEF TypeOK, RunInv, Clock, mainVars, hbVars, TtlDrop
<1>1. TimesOrdered(r)' /\ (Uncrossed(r) => Uncrossed(r)')
  BY DEF TimesOrdered, Uncrossed, InFlight
<1>2. \A t \in Int : Secured(r, t) => Secured(r, t)'
  BY DEF Secured
<1>3. QED
  BY <1>1, <1>2 DEF InBlock, Secured

LEMMA UnchangedInv ==
    ASSUME TypeOK, NEW r \in Runs, RunInv(r),
           UNCHANGED <<now, lease, mainVars, hbVars, crossed>>
    PROVE  RunInv(r)'
BY DEF RunInv, TimesOrdered, Uncrossed, InFlight, InBlock, Secured, Clock,
       mainVars, hbVars

LEMMA InitLeaseInv == Init => LeaseInv
BY TimingAssumption
   DEF Init, LeaseInv, RunInv, TimesOrdered, Uncrossed, InFlight, InBlock,
       Secured, Clock

LEMMA StepLeaseInv == TypeOK /\ LeaseInv /\ [Next]_vars => LeaseInv'
<1> SUFFICES ASSUME TypeOK, LeaseInv, [Next]_vars, NEW r \in Runs
             PROVE  RunInv(r)'
  BY DEF LeaseInv
<1>0. RunInv(r)
  BY DEF LeaseInv
<1>1. ASSUME NEW q \in Runs, MainStep(q) \/ HeartbeatStep(q)
      PROVE  RunInv(r)'
  <2>1. TimesOrdered(q)
    BY DEF LeaseInv, RunInv
  <2>2. CASE q = r
    BY <1>0, <1>1, <2>2, OwnMainStepInv, OwnHeartbeatStepInv
  <2>3. CASE q # r
    BY <1>0, <1>1, <2>1, <2>3, OthersKeepInv
  <2>4. QED
    BY <2>2, <2>3
<1>2. ASSUME NEW w \in writes, Land(w)
      PROVE  RunInv(r)'
  BY <1>0, <1>2, UnchangedInv DEF Land
<1>3. CASE Tick
  BY <1>0, <1>3, TickInv
<1>4. CASE TtlDrop
  BY <1>0, <1>4, TtlDropInv
<1>5. CASE UNCHANGED vars
  BY <1>0, <1>5, UnchangedInv DEF vars
<1>6. QED
  BY <1>1, <1>2, <1>3, <1>4, <1>5 DEF Next

(***************************************************************************)
(* The invariant gives the fence: a run that has used less than two thirds *)
(* of its term is inside what the registry has secured for it.             *)
(***************************************************************************)
LEMMA InvImpliesFence == TypeOK /\ LeaseInv => FenceHeld
<1> SUFFICES ASSUME TypeOK, LeaseInv, NEW r \in Runs, Trusted(r), ~crossed[r]
             PROVE  /\ lease.owner = r
                    /\ \A q \in Runs : Clock(q) < lease.expires
  BY DEF FenceHeld
<1>1. Secured(r, renewedAt[r])
  BY DEF LeaseInv, RunInv, Trusted
<1>2. now + MaxSkew < renewedAt[r] + Term
  BY TimingAssumption, ThirdAssumption, ClockBounds
     DEF Trusted, Expiring, TypeOK
<1>3. /\ lease.owner = r
      /\ now + MaxSkew < lease.expires
  BY <1>1, <1>2, TimingAssumption DEF Secured, TypeOK
<1>4. QED
  BY <1>3, ClockBounds, TimingAssumption DEF TypeOK

(***************************************************************************)
(* Whatever the interleaving, the freezes, the late or lost renewals, the  *)
(* deaths and the retakes: a run whose fence lets a write out owns the     *)
(* lease in the registry, and no other run can take it at that moment      *)
(* (check_held and _heartbeat against try_acquire_lease).  Two conditions: *)
(* clocks differ by no more than a third of the term, and a run that       *)
(* retook its lease had no request of its own heartbeat in flight then.    *)
(* Without the second it is false (RetakesHold).                           *)
(***************************************************************************)
THEOREM FenceImpliesLease == Spec => []FenceHeld
<1>1. Init => TypeOK /\ LeaseInv
  BY InitType, InitLeaseInv
<1>2. TypeOK /\ LeaseInv /\ [Next]_vars => (TypeOK /\ LeaseInv)'
  BY StepType, StepLeaseInv
<1>3. QED
  BY <1>1, <1>2, InvImpliesFence, PTL DEF Spec

(***************************************************************************)
(* Hence at most one run can write at a time, the same retakes aside.      *)
(***************************************************************************)
AtMostOneTrusted ==
    \A q, r \in Runs : /\ Trusted(q) /\ ~crossed[q]
                       /\ Trusted(r) /\ ~crossed[r]
                       => q = r

(***************************************************************************)
(* Two runs are never both past the fence (the purpose of the lease: one   *)
(* writing run at a time, namespace_lease), clocks a third of the term     *)
(* apart at most and neither having retaken its lease while a request of   *)
(* its own heartbeat was in flight.                                        *)
(***************************************************************************)
COROLLARY OneWriter == Spec => []AtMostOneTrusted
<1>1. FenceHeld => AtMostOneTrusted
  BY DEF FenceHeld, AtMostOneTrusted
<1>2. QED
  BY <1>1, FenceImpliesLease, PTL

(***************************************************************************)
(* With clocks that agree, a run that has not used a whole term since its  *)
(* last renewal, or since the retake it waits for, was the last to take    *)
(* the lease: the registry keeps what is Secured from every other run      *)
(* until then, and a renewal that was answered later is not trusted.       *)
(***************************************************************************)
UpToDate(r) == phase[r] \in {"open", "closing"} /\ ~lost[r] /\ ~TooLate(r)

Retook(r) == phase[r] = "retaking" /\ now < retakeSent[r] + Term

Keeps(r) == ~crossed[r] /\ (UpToDate(r) \/ Retook(r))

NotOvertaken == \A r \in Runs : Keeps(r) => taker = r

LEMMA KeepsHolds ==
    ASSUME MaxSkew = 0, TypeOK, LeaseInv, NEW r \in Runs, Keeps(r)
    PROVE  lease.owner = r /\ now < lease.expires
<1>1. Clock(r) = now
  BY ClockIsNow DEF TypeOK
<1>2. CASE UpToDate(r)
  <2>1. Secured(r, renewedAt[r])
    BY <1>2 DEF Keeps, UpToDate, LeaseInv, RunInv
  <2>2. QED
    BY <1>1, <1>2, <2>1, TimingAssumption DEF Secured, UpToDate, TooLate, TypeOK
<1>3. CASE Retook(r)
  <2>1. Secured(r, retakeSent[r])
    BY <1>3 DEF Keeps, Retook, LeaseInv, RunInv
  <2>2. QED
    BY <1>3, <2>1, TimingAssumption DEF Secured, Retook, TypeOK
<1>4. QED
  BY <1>2, <1>3 DEF Keeps

LEMMA StepNotOvertaken ==
    ASSUME MaxSkew = 0, TypeOK, LeaseInv, NotOvertaken, [Next]_vars
    PROVE  NotOvertaken'
<1> SUFFICES ASSUME NEW r \in Runs, Keeps(r)'
             PROVE  taker' = r
  BY DEF NotOvertaken
<1> USE TimingAssumption DEF TypeOK, mainVars, hbVars
<1>0. /\ \A q \in Runs : Clock(q) = now
      /\ Keeps(r) => taker = r /\ lease.owner = r /\ now < lease.expires
  BY ClockIsNow, KeepsHolds DEF NotOvertaken
<1>1. ASSUME NEW q \in Runs, AcquireLease(q) \/ RetakeRequest(q)
      PROVE  taker' = r
  <2>1. CASE q = r
    BY <1>1, <2>1 DEF AcquireLease, RetakeRequest
  <2>2. CASE q # r
    <3>1. Keeps(r)
      BY <1>1, <2>2 DEF AcquireLease, RetakeRequest, Keeps, UpToDate, Retook,
                        TooLate, Clock
    <3>2. QED
      BY <1>0, <1>1, <2>2, <3>1 DEF AcquireLease, RetakeRequest, Takeable
  <2>3. QED
    BY <2>1, <2>2
<1>2. ASSUME NEW q \in Runs, HeartbeatRenewed(q)
      PROVE  taker' = r
  <2>1. Keeps(r)
    BY <1>2 DEF HeartbeatRenewed, Keeps, UpToDate, Retook, TooLate, Clock
  <2>2. QED
    BY <1>0, <1>2, <2>1 DEF HeartbeatRenewed
<1>3. ASSUME NEW q \in Runs, RetakeAnswer(q)
      PROVE  taker' = r
  <2>1. Keeps(r)
    BY <1>0, <1>3 DEF RetakeAnswer, Keeps, UpToDate, Retook, TooLate, Clock
  <2>2. QED
    BY <1>0, <1>3, <2>1 DEF RetakeAnswer
<1>4. ASSUME NEW q \in Runs,
             \/ ReadHolder(q) \/ AcquireDenied(q) \/ PassFence(q) \/ FailFence(q)
             \/ (\E stopped \in BOOLEAN : ExitBegin(q, stopped))
             \/ GiveUp(q) \/ GiveUpFails(q) \/ Die(q)
      PROVE  taker' = r
  <2>1. Keeps(r) /\ taker' = taker
    BY <1>4 DEF Keeps, UpToDate, Retook, TooLate, Clock, ReadHolder,
       AcquireDenied, PassFence, FailFence, ExitBegin, GiveUp, GiveUpFails, Die
  <2>2. QED
    BY <1>0, <2>1
<1>5. ASSUME NEW q \in Runs,
             \/ HeartbeatSend(q) \/ HeartbeatApply(q) \/ HeartbeatError(q)
             \/ HeartbeatDenied(q) \/ HeartbeatTooLate(q) \/ HeartbeatReleases(q)
             \/ HeartbeatContinues(q) \/ HeartbeatGivesUp(q) \/ HeartbeatStops(q)
      PROVE  taker' = r
  <2>1. Keeps(r) /\ taker' = taker
    BY <1>5 DEF Keeps, UpToDate, Retook, TooLate, Clock, HeartbeatSend,
       HeartbeatApply, HeartbeatError, HeartbeatDenied, HeartbeatTooLate,
       HeartbeatReleases, HeartbeatContinues, HeartbeatGivesUp, HeartbeatStops
  <2>2. QED
    BY <1>0, <2>1
<1>6. CASE Tick
  <2>1. Keeps(r) /\ taker' = taker
    BY <1>6 DEF Keeps, UpToDate, Retook, TooLate, Clock, Tick
  <2>2. QED
    BY <1>0, <2>1
<1>7. CASE (\E w \in writes : Land(w)) \/ TtlDrop \/ UNCHANGED vars
  <2>1. Keeps(r) /\ taker' = taker
    BY <1>7 DEF Keeps, UpToDate, Retook, TooLate, Clock, Land, TtlDrop, vars
  <2>2. QED
    BY <1>0, <2>1
<1>8. QED
  BY <1>1, <1>2, <1>3, <1>4, <1>5, <1>6, <1>7
     DEF Next, MainStep, HeartbeatStep

(***************************************************************************)
(* However long a thread is frozen and whatever renewals are lost or late: *)
(* between hosts whose clocks agree, a run the fence trusts has not been   *)
(* overtaken since it took the lease (_heartbeat's check of its last       *)
(* renewal), unless it retook it while a request of its own heartbeat was  *)
(* in flight.  It does not follow where clocks differ.                     *)
(***************************************************************************)
THEOREM NotOvertakenWhileTrusted ==
    ASSUME MaxSkew = 0
    PROVE  Spec => []NoInterloper
<1>1. Init => TypeOK /\ LeaseInv /\ NotOvertaken
  <2>1. Init => NotOvertaken
    BY DEF Init, NotOvertaken, Keeps, UpToDate, Retook
  <2>2. QED
    BY <2>1, InitType, InitLeaseInv
<1>2. TypeOK /\ LeaseInv /\ NotOvertaken /\ [Next]_vars
        => (TypeOK /\ LeaseInv /\ NotOvertaken)'
  BY StepType, StepLeaseInv, StepNotOvertaken
<1>3. TypeOK /\ NotOvertaken => NoInterloper
  <2> SUFFICES ASSUME TypeOK, NotOvertaken, NEW r \in Runs, Trusted(r),
                      ~crossed[r]
               PROVE  taker = r
    BY DEF NoInterloper
  <2>1. ~TooLate(r)
    BY TimingAssumption, ClockBounds DEF Trusted, Expiring, TooLate, TypeOK
  <2>2. QED
    BY <2>1 DEF NotOvertaken, Keeps, UpToDate, Trusted
<1>4. QED
  BY <1>1, <1>2, <1>3, PTL DEF Spec

-----------------------------------------------------------------------------
(***************************************************************************)
(* The takeover wait.  What it needs: clocks that agree, no stale read of  *)
(* the holder, no retake, threads that are never frozen for a third of the *)
(* term nor for a whole wait, a margin longer than a send takes, and a TTL *)
(* no shorter than the wait.                                               *)
(***************************************************************************)
TakeoverConditions ==
    /\ MaxSkew = 0 /\ ~StaleReads /\ ~Retakes
    /\ 3 * Pause <= Term /\ Pause < LateWriteSeconds
    /\ SendDelay < Margin /\ LateWriteSeconds <= TtlGrace

\* A run in its block whose heartbeat has not ended.
Beating(r) == InBlock(r) /\ hb[r] # "off"

\* A renewal the heartbeat has sent and not done with.
Renewing(r) == InFlight(r) \/ hb[r] = "renewed"

\* A renewal that was in flight when the run ended.
Renews(r) == StopSet(r) /\ Renewing(r)

\* _exit has decided, and a request of the run may still change the lease.
Pending(r) == (phase[r] = "exiting" /\ ending[r].held) \/ Renews(r)

\* It will leave the lease expired rather than release it.
Expires(r) == Pending(r) /\ ending[r].how = "expire"

\* It ended during its takeover wait and hands that on.
HandedOn(r) == StopSet(r) /\ ending[r].at < ending[r].since

\* No renewal is in flight when a run hands its wait on.
RenewalsAnswered == \A r \in Runs : HandedOn(r) => ~Renewing(r)

(***************************************************************************)
(* A run's heartbeat never lets its term pass; what it ended with is about *)
(* now; and if it waits, it waits for the expiry of the lease it took.     *)
(***************************************************************************)
EndInv(r) ==
    Pending(r) =>
        /\ ending[r].since <= now /\ now <= ending[r].since + Pause
        /\ InFlight(r) => hbSent[r] <= ending[r].since
        /\ hb[r] = "renewed" => hbAt[r] <= ending[r].since
        /\ \/ ending[r].at = ending[r].since
           \/ /\ ending[r].at < ending[r].since /\ ending[r].how = "expire"
              /\ writesFrom[r] = ending[r].at + LateWriteSeconds

HeartInv(r) ==
    /\ hb[r] # "off" => /\ now <= hbAt[r] + Pause
                        /\ 3 * (hbAt[r] - renewedAt[r]) < 2 * Term
    /\ hb[r] # "releasing"
    /\ hb[r] = "renewed" => hbAt[r] <= renewedAt[r]
    /\ InBlock(r) /\ hb[r] = "off" => lost[r]
    /\ Beating(r) => Secured(r, renewedAt[r])
    /\ lease.owner = r => phase[r] \notin {"new", "read"}
    /\ \/ writesFrom[r] = 0
       \/ /\ writesFrom[r] = prevExpiry[r] + LateWriteSeconds
          /\ prevExpiry[r] < renewedAt[r]
    /\ EndInv(r)

(***************************************************************************)
(* A write in flight lands before the lease as it stands could be taken    *)
(* over and written under, before the run that holds it writes, and before *)
(* any lease still to be given back could be.                              *)
(***************************************************************************)
WriteInv(w) ==
    /\ lease.owner # NoRun
    /\ w.until < lease.expires + LateWriteSeconds
    /\ now <= w.until /\ w.until <= now + Pause + Request
    /\ phase[w.by] \notin {"new", "read"} /\ writesFrom[w.by] <= now
    /\ \A r \in Runs : Beating(r) /\ r # w.by => w.until < writesFrom[r]
    /\ \A r \in Runs : Expires(r) => w.until < ending[r].at + LateWriteSeconds
    /\ \A r \in Runs : Pending(r) /\ ending[r].how = "release" => lease.owner # r

(***************************************************************************)
(* While a request of an ended run is to come, the lease is not one that   *)
(* expired before its end,                                                 *)
(***************************************************************************)
OverInv(q) ==
    /\ Expires(q) => lease.owner # NoRun /\ lease.expires >= ending[q].since
    /\ Renews(q) => lease.owner = NoRun \/ lease.expires >= ending[q].since

(***************************************************************************)
(* and a run s that took it since waits: s keeps it until that request can *)
(* no longer come, or ends in its wait and hands that on.                  *)
(***************************************************************************)
AfterInv(q, s) ==
    /\ Expires(q) /\ Beating(s)
         => /\ lease.expires > ending[q].since + Pause
            /\ prevExpiry[s] >= ending[q].since
            /\ writesFrom[s] = prevExpiry[s] + LateWriteSeconds
            /\ renewedAt[s] > ending[q].since
    /\ Expires(q) /\ Pending(s) /\ ending[s].since > ending[q].since
         => /\ lease.owner = s
            /\ lease.expires > ending[q].since + Pause
            /\ HandedOn(s)
            /\ ending[s].at >= ending[q].since
    /\ Expires(q) /\ Expires(s) => ending[q].since # ending[s].since
    /\ Expires(q) /\ Pending(s) /\ ending[s].how = "release" => lease.owner # s
    /\ Renews(q) /\ Beating(s)
         => writesFrom[s] = 0 \/ prevExpiry[s] >= ending[q].since
    /\ Renews(q) /\ Expires(s) /\ ending[s].since >= ending[q].since
         => ending[s].at >= ending[q].since

HeartsInv == \A r \in Runs : HeartInv(r)

LateInv ==
    /\ WritesExclusive
    /\ \A w \in writes : WriteInv(w)
    /\ \A q \in Runs : OverInv(q)
    /\ \A q, s \in Runs : q # s => AfterInv(q, s)

(***************************************************************************)
(* The conditions, as the proofs use them.                                 *)
(***************************************************************************)
LEMMA Conditions ==
    ASSUME TakeoverConditions, TypeOK
    PROVE  /\ \A r \in Runs : Clock(r) = now
           /\ Term \in Nat \ {0} /\ Pause \in Nat \ {0} /\ Request \in Nat
           /\ SendDelay \in Nat /\ TtlGrace \in Nat /\ LateWriteSeconds \in Nat
           /\ 3 * Pause <= Term /\ Pause < Term /\ Pause < LateWriteSeconds
           /\ SendDelay + Request < LateWriteSeconds
           /\ LateWriteSeconds <= TtlGrace
BY ClockIsNow, TimingAssumption
   DEF TakeoverConditions, LateWriteSeconds, TypeOK

(***************************************************************************)
(* What a step of one run leaves alone of the others.                      *)
(***************************************************************************)
LEMMA OtherEndings ==
    ASSUME TypeOK, NEW q \in Runs, MainStep(q) \/ HeartbeatStep(q),
           NEW r \in Runs, q # r
    PROVE  /\ writesFrom'[r] = writesFrom[r] /\ prevExpiry'[r] = prevExpiry[r]
           /\ ending'[r] = ending[r]
<1> USE DEF mainVars, hbVars, TypeOK
<1>1. CASE MainStep(q)
  BY <1>1 DEF MainStep, ReadHolder, AcquireLease, AcquireDenied, PassFence,
     FailFence, RetakeRequest, RetakeAnswer, ExitBegin, GiveUp, GiveUpFails, Die
<1>2. CASE HeartbeatStep(q)
  BY <1>2 DEF HeartbeatStep, HeartbeatSend, HeartbeatApply, HeartbeatError,
     HeartbeatDenied, HeartbeatTooLate, HeartbeatReleases, HeartbeatRenewed,
     HeartbeatContinues, HeartbeatGivesUp, HeartbeatStops
<1>3. QED
  BY <1>1, <1>2

(***************************************************************************)
(* A run whose heartbeat beats holds the lease, and will for a while.      *)
(***************************************************************************)
LEMMA BeatingHolds ==
    ASSUME TakeoverConditions, TypeOK, NEW r \in Runs, HeartInv(r), hb[r] # "off"
    PROVE  /\ now < renewedAt[r] + Term
           /\ Beating(r) => /\ lease.owner = r
                            /\ renewedAt[r] + Term <= lease.expires
<1>1. now < renewedAt[r] + Term
  BY Conditions DEF HeartInv, TypeOK
<1>2. QED
  BY <1>1 DEF HeartInv, Secured, TakeoverConditions, TypeOK

LEMMA NeverTooLate ==
    ASSUME TakeoverConditions, TypeOK, NEW r \in Runs, HeartInv(r)
    PROVE  ~HeartbeatTooLate(r)
BY Conditions, BeatingHolds DEF HeartbeatTooLate, TooLate, TypeOK

(***************************************************************************)
(* A run's own steps keep its heartbeat in time.                           *)
(***************************************************************************)
LEMMA OwnMainStepHeart ==
    ASSUME TakeoverConditions, TypeOK, NEW r \in Runs, RunInv(r), HeartInv(r),
           MainStep(r)
    PROVE  HeartInv(r)'
<1> USE TimingAssumption, Conditions
    DEF TypeOK, HeartInv, EndInv, TimesOrdered, InFlight, InBlock, Beating,
        Pending, Renews, Renewing, StopSet, Secured, mainVars, hbVars
<1>0. /\ TimesOrdered(r) /\ ~Retakes /\ ~StaleReads /\ MaxSkew = 0
      /\ Clock(r) = now
  BY DEF RunInv, TakeoverConditions
<1>1. CASE ReadHolder(r)
  BY <1>0, <1>1 DEF ReadHolder
<1>2. CASE AcquireLease(r)
  BY <1>0, <1>2 DEF AcquireLease, TookOver, Takeable
<1>3. CASE AcquireDenied(r)
  BY <1>0, <1>3 DEF AcquireDenied
<1>4. CASE PassFence(r)
  BY <1>0, <1>4 DEF PassFence
<1>5. CASE FailFence(r)
  BY <1>0, <1>5 DEF FailFence
<1>6. CASE RetakeRequest(r)
  BY <1>0, <1>6 DEF RetakeRequest
<1>7. CASE RetakeAnswer(r)
  BY <1>0, <1>7 DEF RetakeAnswer
<1>8. ASSUME NEW stopped \in BOOLEAN, ExitBegin(r, stopped)
      PROVE  HeartInv(r)'
  BY <1>0, <1>8 DEF ExitBegin, HandsOn
<1>9. CASE GiveUp(r)
  BY <1>0, <1>9 DEF GiveUp, GivenUp
<1>10. CASE GiveUpFails(r)
  BY <1>0, <1>10 DEF GiveUpFails
<1>11. CASE Die(r)
  BY <1>0, <1>11 DEF Die
<1>12. QED
  BY <1>1, <1>2, <1>3, <1>4, <1>5, <1>6, <1>7, <1>8, <1>9, <1>10, <1>11
     DEF MainStep

LEMMA OwnHeartbeatStepHeart ==
    ASSUME TakeoverConditions, TypeOK, NEW r \in Runs, RunInv(r), HeartInv(r),
           HeartbeatStep(r)
    PROVE  HeartInv(r)'
<1> USE TimingAssumption, Conditions
    DEF TypeOK, HeartInv, EndInv, TimesOrdered, InFlight, InBlock, Beating,
        Pending, Renews, Renewing, StopSet, Secured, mainVars, hbVars
<1>0. /\ TimesOrdered(r) /\ ~Retakes /\ MaxSkew = 0 /\ Clock(r) = now
      /\ InFlight(r) => renewedAt[r] <= hbSent[r]
      /\ hb[r] = "held" /\ InBlock(r) => Secured(r, hbSent[r])
  BY DEF RunInv, Uncrossed, TakeoverConditions
<1>1. CASE HeartbeatSend(r)
  BY <1>0, <1>1 DEF HeartbeatSend
<1>2. CASE HeartbeatApply(r)
  <2>1. CASE Takeable(r, hbSent[r])
    <3>1. /\ lease'.owner = r /\ lease'.expires = hbSent[r] + Term
          /\ hb' = [hb EXCEPT ![r] = "held"]
      BY <1>2, <2>1 DEF HeartbeatApply
    <3>2. QED
      BY <1>0, <1>2, <3>1 DEF HeartbeatApply
  <2>2. CASE ~Takeable(r, hbSent[r])
    BY <1>0, <1>2, <2>2 DEF HeartbeatApply
  <2>3. QED
    BY <2>1, <2>2
<1>3. CASE HeartbeatError(r)
  <2>1. CASE Expiring(r)
    <3>1. hb' = [hb EXCEPT ![r] = "off"] /\ lost' = [lost EXCEPT ![r] = TRUE]
      BY <1>3, <2>1 DEF HeartbeatError
    <3>2. QED
      BY <1>0, <1>3, <3>1 DEF HeartbeatError
  <2>2. CASE ~Expiring(r)
    <3>1. hb' = [hb EXCEPT ![r] = "idle"] /\ lost'[r] = lost[r]
      BY <1>3, <2>2 DEF HeartbeatError
    <3>2. 3 * (now - renewedAt[r]) < 2 * Term
      BY <1>0, <2>2 DEF Expiring
    <3>3. QED
      BY <1>0, <1>3, <3>1, <3>2 DEF HeartbeatError
  <2>3. QED
    BY <2>1, <2>2
<1>4. CASE HeartbeatDenied(r)
  BY <1>0, <1>4 DEF HeartbeatDenied
<1>5. CASE HeartbeatTooLate(r)
  BY <1>5, NeverTooLate
<1>6. CASE HeartbeatReleases(r)
  BY <1>6 DEF HeartbeatReleases
<1>7. CASE HeartbeatRenewed(r)
  BY <1>0, <1>7 DEF HeartbeatRenewed, TooLate
<1>8. CASE HeartbeatContinues(r)
  BY <1>0, <1>8 DEF HeartbeatContinues
<1>9. CASE HeartbeatGivesUp(r)
  BY <1>0, <1>9 DEF HeartbeatGivesUp, GivenUp
<1>10. CASE HeartbeatStops(r)
  BY <1>0, <1>10 DEF HeartbeatStops
<1>11. QED
  BY <1>1, <1>2, <1>3, <1>4, <1>5, <1>6, <1>7, <1>8, <1>9, <1>10
     DEF HeartbeatStep

(***************************************************************************)
(* The steps of other runs, time, the TTL, and what touches writes only.   *)
(***************************************************************************)
LEMMA OthersKeepHeart ==
    ASSUME TakeoverConditions, TypeOK, NEW q \in Runs, TimesOrdered(q),
           HeartInv(q), MainStep(q) \/ HeartbeatStep(q),
           NEW r \in Runs, q # r, HeartInv(r)
    PROVE  HeartInv(r)'
<1>1. now' = now
  BY LeaseChange
<1>2. Secured(r, renewedAt[r]) => Secured(r, renewedAt[r])'
  <2>1. renewedAt[r] \in Int /\ renewedAt'[r] = renewedAt[r]
    BY OtherFields DEF TypeOK
  <2>2. Secured(r, renewedAt[r]) => Secured(r, renewedAt[r])'
    BY <1>1, <2>1, LeaseChange, SecuredFromOthers DEF Secured
  <2>3. QED
    BY <2>2
<1>3. lease'.owner = r => lease.owner = r
  <2> USE TimingAssumption DEF mainVars, hbVars, TypeOK
  <2>1. CASE MainStep(q)
    BY <2>1 DEF MainStep, ReadHolder, AcquireLease, AcquireDenied, PassFence,
       FailFence, RetakeRequest, RetakeAnswer, ExitBegin, GiveUp, GivenUp,
       NoLease, GiveUpFails, Die
  <2>2. CASE HeartbeatStep(q)
    BY <2>2 DEF HeartbeatStep, HeartbeatSend, HeartbeatApply, HeartbeatError,
       HeartbeatDenied, HeartbeatTooLate, HeartbeatReleases, HeartbeatRenewed,
       HeartbeatContinues, HeartbeatGivesUp, HeartbeatStops, GivenUp, NoLease
  <2>3. QED
    BY <2>1, <2>2
<1>4. QED
  BY <1>1, <1>2, <1>3, OtherFields, OtherEndings
     DEF HeartInv, EndInv, Beating, Pending, Renews, Renewing, InFlight,
         InBlock, StopSet

LEMMA TickHeart ==
    ASSUME TakeoverConditions, TypeOK, NEW r \in Runs, RunInv(r), HeartInv(r), Tick
    PROVE  HeartInv(r)'
<1> USE Conditions, TimingAssumption
    DEF TypeOK, TakeoverConditions, mainVars, hbVars, Tick
<1>1. now' = now + 1 /\ Clock(r) = now /\ Timely(r)
  OBVIOUS
<1>2. Secured(r, renewedAt[r]) => Secured(r, renewedAt[r])'
  BY DEF Secured
<1>3. InFlight(r) => hbAt[r] <= hbSent[r]
  BY DEF RunInv, TimesOrdered
<1>4. QED
  BY <1>1, <1>2, <1>3
     DEF HeartInv, EndInv, Beating, Pending, Renews, Renewing, InFlight,
         InBlock, StopSet,
         Timely

LEMMA TtlDropHeart ==
    ASSUME TakeoverConditions, TypeOK, NEW r \in Runs, HeartInv(r), TtlDrop
    PROVE  HeartInv(r)'
<1> USE Conditions, TimingAssumption
    DEF TypeOK, TakeoverConditions, mainVars, hbVars, TtlDrop
<1>1. Secured(r, renewedAt[r]) => Secured(r, renewedAt[r])'
  BY DEF Secured
<1>2. QED
  BY <1>1 DEF HeartInv, EndInv, Beating, Pending, Renews, Renewing, InFlight,
              InBlock,
              StopSet, NoLease

LEMMA UnchangedHeart ==
    ASSUME NEW r \in Runs, HeartInv(r), UNCHANGED <<now, lease, mainVars, hbVars>>
    PROVE  HeartInv(r)'
BY DEF HeartInv, EndInv, Beating, Pending, Renews, Renewing, InFlight, InBlock,
       StopSet,
       Secured, mainVars, hbVars

LEMMA InitHearts == Init => HeartsInv
BY TimingAssumption
   DEF Init, HeartsInv, HeartInv, EndInv, Beating, Pending, Renews, Renewing,
       InFlight,
       InBlock, StopSet, NoLease

LEMMA StepHearts ==
    ASSUME TakeoverConditions, TypeOK, LeaseInv, HeartsInv, [Next]_vars
    PROVE  HeartsInv'
<1> SUFFICES ASSUME NEW r \in Runs
             PROVE  HeartInv(r)'
  BY DEF HeartsInv
<1>0. /\ \A q \in Runs : RunInv(q) /\ TimesOrdered(q) /\ HeartInv(q)
  BY DEF LeaseInv, HeartsInv, RunInv
<1>1. ASSUME NEW q \in Runs, MainStep(q) \/ HeartbeatStep(q)
      PROVE  HeartInv(r)'
  <2>1. CASE q = r
    BY <1>0, <1>1, <2>1, OwnMainStepHeart, OwnHeartbeatStepHeart
  <2>2. CASE q # r
    BY <1>0, <1>1, <2>2, OthersKeepHeart
  <2>3. QED
    BY <2>1, <2>2
<1>2. ASSUME NEW w \in writes, Land(w)
      PROVE  HeartInv(r)'
  BY <1>0, <1>2, UnchangedHeart DEF Land
<1>3. CASE Tick
  BY <1>0, <1>3, TickHeart
<1>4. CASE TtlDrop
  BY <1>0, <1>4, TtlDropHeart
<1>5. CASE UNCHANGED vars
  BY <1>0, <1>5, UnchangedHeart DEF vars
<1>6. QED
  BY <1>1, <1>2, <1>3, <1>4, <1>5 DEF Next

-----------------------------------------------------------------------------
(***************************************************************************)
(* A step after which no more requests are to come, and no more runs beat, *)
(* than before.                                                            *)
(***************************************************************************)
Calm ==
    \A r \in Runs :
        /\ Beating(r)' => Beating(r) /\ renewedAt[r] <= renewedAt'[r]
        /\ Pending(r)' => Pending(r)
        /\ Renews(r)' => Renews(r)
        /\ prevExpiry'[r] = prevExpiry[r] /\ writesFrom'[r] = writesFrom[r]
        /\ ending'[r] = ending[r]
        /\ phase'[r] \in {"new", "read"} => phase[r] \in {"new", "read"}

LEMMA CalmKeepsWrite ==
    ASSUME TypeOK, TypeOK', Calm, lease' = lease, now' \in {now, now + 1},
           NEW w \in writes, WriteInv(w), now' <= w.until
    PROVE  WriteInv(w)'
<1>1. w \in [by : Runs, until : Nat]
  BY DEF TypeOK
<1>2. QED
  BY <1>1, TimingAssumption DEF Calm, WriteInv, Expires, TypeOK

LEMMA CalmKeepsAfter ==
    ASSUME TypeOK, TypeOK', Calm, lease' = lease,
           NEW q \in Runs, NEW s \in Runs, AfterInv(q, s)
    PROVE  AfterInv(q, s)'
<1>1. /\ renewedAt[s] \in Nat /\ renewedAt'[s] \in Nat
      /\ ending[q].since \in Nat
  BY DEF TypeOK
<1>2. HandedOn(s) /\ Pending(s)' => HandedOn(s)'
  BY DEF HandedOn, Pending, Renews, StopSet, Calm
<1>3. QED
  BY <1>1, <1>2 DEF AfterInv, Calm, Expires

LEMMA CalmKeepsOver ==
    ASSUME Calm, lease' = lease, NEW q \in Runs, OverInv(q)
    PROVE  OverInv(q)'
BY DEF OverInv, Calm, Expires

LEMMA CalmKeeps ==
    ASSUME TypeOK, TypeOK', LateInv, Calm, lease' = lease,
           now' \in {now, now + 1}, writes' \subseteq writes,
           \A w \in writes' : now' <= w.until
    PROVE  LateInv'
<1>1. ASSUME NEW w \in writes'
      PROVE  WriteInv(w)'
  BY <1>1, CalmKeepsWrite DEF LateInv
<1>2. QED
  BY <1>1, CalmKeepsAfter, CalmKeepsOver DEF LateInv, WritesExclusive

(***************************************************************************)
(* A run that gives its lease up.                                          *)
(***************************************************************************)
LEMMA GivingUpKeeps ==
    ASSUME TakeoverConditions, TypeOK, TypeOK', HeartsInv, LateInv,
           RenewalsAnswered, Calm, now' = now, writes' = writes,
           NEW s \in Runs, Pending(s), HandedOn(s) => ~Pending(s)',
           lease' = GivenUp(s, ending[s].how, ending[s].at)
    PROVE  LateInv'
<1> USE DEF TypeOK
<1>0. /\ \A q \in Runs : /\ HeartInv(q) /\ OverInv(q) /\ EndInv(q)
                         /\ ending[q].since \in Nat /\ ending[q].at \in Nat
                         /\ ending[q].how \in {"release", "expire"}
      /\ \A q, u \in Runs : q # u => AfterInv(q, u)
      /\ \A w \in writes : WriteInv(w) /\ now <= w.until
  BY DEF HeartsInv, LateInv, HeartInv, WriteInv
<1>1. CASE lease' = lease
  BY <1>0, <1>1, CalmKeeps
<1>2. CASE ending[s].how = "release" /\ lease' # lease
  <2>1. lease.owner = s /\ lease' = NoLease
    BY <1>2 DEF GivenUp
  <2>2. writes = {}
    BY <1>0, <1>2, <2>1 DEF WriteInv
  <2>3. \A q \in Runs : ~Expires(q)
    BY <1>0, <1>2, <2>1 DEF AfterInv, Expires
  <2>4. \A q \in Runs : ~Expires(q)'
    BY <2>3 DEF Calm, Expires
  <2>5. ASSUME NEW q \in Runs, NEW u \in Runs, q # u
        PROVE  AfterInv(q, u)'
    BY <1>0, <2>4, <2>5 DEF AfterInv, Calm
  <2>6. \A q \in Runs : OverInv(q)'
    BY <2>1, <2>4 DEF OverInv, NoLease
  <2>7. QED
    BY <2>2, <2>5, <2>6 DEF LateInv, WritesExclusive
<1>3. CASE ending[s].how = "expire" /\ lease' # lease
  <2>1. /\ lease' = [owner |-> s, expires |-> ending[s].at]
        /\ lease.owner = s \/ lease.expires < now
        /\ Expires(s)
    BY <1>0, <1>3, Conditions DEF GivenUp, Takeable, OverInv, Expires
  <2>2. lease'.owner = s /\ lease'.expires = ending[s].at /\ s # NoRun
    BY <2>1, TimingAssumption
  <2>3. \A u \in Runs : ~Beating(u)
    <3> SUFFICES ASSUME NEW u \in Runs, Beating(u)
                 PROVE  FALSE
      OBVIOUS
    <3>1. lease.owner = u /\ now < lease.expires
      BY <1>0, BeatingHolds, Conditions DEF Beating
    <3>2. u # s
      BY DEF Beating, Pending, Renews, InBlock, StopSet
    <3>3. QED
      BY <2>1, <3>1, <3>2
  <2>4. \A u \in Runs : Expires(u) => now <= ending[u].since + Pause
    BY <1>0 DEF EndInv, Expires
  <2>5. ASSUME NEW q \in Runs, NEW u \in Runs, q # u
        PROVE  AfterInv(q, u)'
    <3>1. AfterInv(q, u)
      BY <1>0, <2>5
    <3>2. ~(Expires(q)' /\ Pending(u)' /\ ending[u].since > ending[q].since)
      <4> SUFFICES ASSUME Expires(q)', Pending(u)',
                          ending[u].since > ending[q].since
                   PROVE  FALSE
        OBVIOUS
      <4>1. Expires(q) /\ Pending(u)
        BY DEF Calm, Expires
      <4>2. /\ lease.owner = u /\ HandedOn(u)
            /\ lease.expires > ending[q].since + Pause
        BY <3>1, <4>1 DEF AfterInv
      <4>3. u = s
        BY <1>0, <2>1, <2>4, <4>1, <4>2, Conditions
      <4>4. QED
        BY <4>2, <4>3
    <3>3. Pending(u)' /\ ending[u].how = "release" => s # u
      BY <1>3
    <3>4. QED
      BY <2>2, <2>3, <3>1, <3>2, <3>3 DEF AfterInv, Calm, Expires
  <2>6. ASSUME NEW q \in Runs, q # s, Pending(q)
        PROVE  /\ Expires(q) => ending[s].at >= ending[q].since
               /\ Renews(q) => ending[s].at >= ending[q].since
    <3>1. Expires(q) => ending[s].since >= ending[q].since
      <4> SUFFICES ASSUME Expires(q), ending[s].since < ending[q].since
                   PROVE  FALSE
        BY <1>0
      <4>1. lease.owner = q /\ lease.expires > ending[s].since + Pause
        BY <1>0, <2>1, <2>6 DEF AfterInv
      <4>2. QED
        BY <1>0, <2>1, <2>4, <2>6, <4>1, Conditions
    <3>2. ~(ending[s].since < ending[q].since /\ Renews(q))
      <4> SUFFICES ASSUME ending[s].since < ending[q].since, Renews(q)
                   PROVE  FALSE
        OBVIOUS
      <4>1. HandedOn(q)
        BY <1>0, <2>1, <2>6 DEF AfterInv
      <4>2. QED
        BY <4>1 DEF RenewalsAnswered, Renews
    <3>3. Expires(q) => ending[s].since # ending[q].since
      BY <1>0, <2>1, <2>6 DEF AfterInv
    <3>4. Expires(q) => ending[s].at >= ending[q].since
      <4>1. AfterInv(q, s)
        BY <1>0, <2>6
      <4>2. Expires(q) => ending[s].since > ending[q].since
        <5>1. ending[s].since \in Nat /\ ending[q].since \in Nat
          BY <1>0
        <5>2. SUFFICES ASSUME Expires(q)
                       PROVE  ending[s].since > ending[q].since
          OBVIOUS
        <5>3. /\ ending[s].since >= ending[q].since
              /\ ending[s].since # ending[q].since
          BY <3>1, <3>3, <5>2
        <5> HIDE DEF TypeOK
        <5>4. QED
          BY <5>1, <5>3
      <4>3. QED
        BY <4>1, <4>2 DEF AfterInv
    <3>5. Renews(q) => ending[s].at >= ending[q].since
      BY <1>0, <2>1, <2>6, <3>2 DEF AfterInv
    <3>6. QED
      BY <3>4, <3>5
  <2>7. ASSUME NEW q \in Runs
        PROVE  OverInv(q)'
    <3>1. CASE q = s
      <4>1. Pending(s)' => ending[s].at = ending[s].since
        BY <1>0 DEF EndInv, HandedOn, Pending, Renews, StopSet
      <4>2. QED
        BY <1>0, <2>2, <3>1, <4>1 DEF OverInv, Calm, Expires, Pending
    <3>2. CASE q # s
      BY <2>2, <2>6, <3>2 DEF OverInv, Calm, Expires, Pending
    <3>3. QED
      BY <3>1, <3>2
  <2>8. ASSUME NEW w \in writes
        PROVE  WriteInv(w)'
    <3>1. WriteInv(w) /\ w \in [by : Runs, until : Nat]
      BY <1>0, <2>8
    <3>2. w.until < ending[s].at + LateWriteSeconds
      BY <2>1, <3>1 DEF WriteInv
    <3>3. QED
      BY <1>3, <2>2, <2>3, <3>1, <3>2 DEF WriteInv, Calm, Expires
  <2>9. QED
    BY <2>5, <2>7, <2>8 DEF LateInv, WritesExclusive
<1>4. QED
  BY <1>0, <1>1, <1>2, <1>3

(***************************************************************************)
(* The registry applies a renewal.                                         *)
(***************************************************************************)
LEMMA ApplyKeeps ==
    ASSUME TakeoverConditions, TypeOK, TypeOK', LeaseInv, HeartsInv, LateInv,
           RenewalsAnswered, Calm, now' = now, writes' = writes,
           NEW s \in Runs, hb[s] = "sent", Takeable(s, hbSent[s]),
           lease' = [owner |-> s, expires |-> hbSent[s] + Term]
    PROVE  LateInv'
<1> USE DEF TypeOK
<1>0. /\ \A q \in Runs : /\ HeartInv(q) /\ OverInv(q) /\ EndInv(q)
                         /\ ending[q].since \in Nat /\ renewedAt[q] \in Nat
      /\ \A q, u \in Runs : q # u => AfterInv(q, u)
      /\ \A w \in writes : WriteInv(w) /\ w \in [by : Runs, until : Nat]
  BY DEF HeartsInv, LateInv, HeartInv
<1>1. /\ hbSent[s] <= now /\ now <= hbSent[s] + Pause
      /\ renewedAt[s] <= hbSent[s]
      /\ Beating(s) \/ Renews(s)
  <2>1. RunInv(s) /\ Clock(s) = now /\ ~Retakes
    BY Conditions DEF LeaseInv, TakeoverConditions
  <2>2. now <= hbAt[s] + Pause
    BY <1>0 DEF HeartInv
  <2>3. hbAt[s] <= hbSent[s] /\ hbSent[s] <= now /\ renewedAt[s] <= hbSent[s]
    BY <2>1 DEF RunInv, TimesOrdered, Uncrossed, InFlight
  <2>4. Beating(s) \/ Renews(s)
    BY <2>1 DEF RunInv, TimesOrdered, Beating, Renews, Renewing, InBlock, StopSet,
                InFlight, Phases
  <2>5. QED
    BY <2>2, <2>3, <2>4, Conditions
<1>2. /\ lease'.owner = s /\ s # NoRun /\ lease'.expires = hbSent[s] + Term
      /\ now + Pause < hbSent[s] + Term + LateWriteSeconds
      /\ now < hbSent[s] + Term
      /\ hbSent[s] \in Nat
  BY <1>1, Conditions, TimingAssumption
<1>3. lease.owner \in {NoRun, s} \/ lease.expires < hbSent[s]
  BY DEF Takeable
<1>4. \A u \in Runs : u # s => ~Beating(u)
  <2> SUFFICES ASSUME NEW u \in Runs, u # s, Beating(u)
               PROVE  FALSE
    OBVIOUS
  <2>1. lease.owner = u /\ now < lease.expires
    BY <1>0, BeatingHolds, Conditions DEF Beating
  <2>2. u # NoRun
    BY TimingAssumption
  <2>3. QED
    BY <1>1, <1>2, <1>3, <2>1, <2>2
\* A run that ended and is to release keeps from retaking an expired lease.
<1>5. ASSUME Pending(s), ending[s].how = "release",
             lease.owner \notin {NoRun, s}
      PROVE  FALSE
  <2>1. Renews(s)
    BY <1>1, <1>5 DEF Pending, Beating, InBlock, Renews, StopSet
  <2>2. lease.expires >= ending[s].since /\ hbSent[s] <= ending[s].since
    BY <1>0, <1>5, <2>1 DEF OverInv, EndInv, Renews, InFlight
  <2>3. QED
    BY <1>0, <1>2, <1>3, <1>5, <2>2
<1>6. ASSUME NEW w \in writes
      PROVE  WriteInv(w)'
  <2>1. WriteInv(w) /\ w \in [by : Runs, until : Nat]
    BY <1>0, <1>6
  <2>2. w.until < hbSent[s] + Term + LateWriteSeconds
    <3>1. w.until <= now + Pause + Request /\ w.until \in Nat
      BY <2>1 DEF WriteInv
    <3>2. now + Pause + Request < hbSent[s] + Term + LateWriteSeconds
      BY <1>1, <1>2, Conditions
    <3>3. QED
      BY <1>2, <3>1, <3>2, Conditions
  <2>3. Pending(s) => ending[s].how # "release"
    BY <1>5, <2>1 DEF WriteInv
  <2>4. QED
    BY <1>2, <2>1, <2>2, <2>3 DEF WriteInv, Calm, Expires
<1>7. \A q \in Runs : OverInv(q)'
  <2> SUFFICES ASSUME NEW q \in Runs, Pending(q)
               PROVE  hbSent[s] + Term >= ending[q].since
    BY <1>2 DEF OverInv, Calm, Expires, Pending
  <2>1. ending[q].since <= now /\ ending[q].since \in Nat
    BY <1>0 DEF EndInv
  <2>2. QED
    BY <1>2, <2>1, Conditions
<1>8. ASSUME NEW q \in Runs, NEW u \in Runs, q # u
      PROVE  AfterInv(q, u)'
  <2>1. AfterInv(q, u)
    BY <1>0, <1>8
  <2>2. Expires(q) /\ Beating(u)
          => u = s /\ hbSent[s] + Term > ending[q].since + Pause
    <3> SUFFICES ASSUME Expires(q), Beating(u)
                 PROVE  u = s /\ hbSent[s] + Term > ending[q].since + Pause
      OBVIOUS
    <3>1. u = s /\ renewedAt[s] > ending[q].since
      BY <1>4, <2>1 DEF AfterInv
    <3>2. QED
      BY <1>0, <1>1, <1>2, <3>1, Conditions
  <2>3. ~(Expires(q) /\ Pending(u) /\ ending[u].since > ending[q].since)
    <3> SUFFICES ASSUME Expires(q), Pending(u),
                        ending[u].since > ending[q].since
                 PROVE  FALSE
      OBVIOUS
    <3>1. /\ lease.owner = u /\ HandedOn(u)
          /\ lease.expires > ending[q].since + Pause
      BY <2>1 DEF AfterInv
    <3>2. now <= ending[q].since + Pause
      BY <1>0 DEF EndInv, Expires
    <3>3. u # s
      BY <1>1, <3>1 DEF RenewalsAnswered, Renews, Beating, HandedOn, StopSet,
                        InBlock
    <3>4. QED
      BY <1>0, <1>1, <1>2, <1>3, <3>1, <3>2, <3>3, Conditions, TimingAssumption
  <2>4. Expires(q) /\ Pending(u) /\ ending[u].how = "release" => s # u
    BY <1>0, <1>5, <2>1 DEF AfterInv, OverInv
  <2>5. QED
    BY <1>2, <2>1, <2>2, <2>3, <2>4 DEF AfterInv, Calm, Expires
<1>9. QED
  BY <1>6, <1>7, <1>8 DEF LateInv, WritesExclusive

(***************************************************************************)
(* A run takes the lease: from no holder, or from one whose lease expired, *)
(* which then is the one it waits for.                                     *)
(***************************************************************************)
LEMMA AcquireKeeps ==
    ASSUME TakeoverConditions, TypeOK, TypeOK', HeartsInv, LateInv,
           NEW s \in Runs, AcquireLease(s)
    PROVE  LateInv'
<1> USE DEF TypeOK, mainVars, hbVars
<1>0. /\ \A q \in Runs : /\ HeartInv(q) /\ OverInv(q) /\ EndInv(q)
                         /\ ending[q].since \in Nat
      /\ \A q, u \in Runs : q # u => AfterInv(q, u)
      /\ \A w \in writes : WriteInv(w) /\ w \in [by : Runs, until : Nat]
  BY DEF HeartsInv, LateInv, HeartInv
<1>1. /\ lease'.owner = s /\ lease'.expires = now + Term /\ s # NoRun
      /\ renewedAt'[s] = now /\ phase[s] = "read"
      /\ now' = now /\ writes' = writes
      /\ lease.owner # s
      /\ lease.owner = NoRun \/ lease.expires < now
      /\ previous[s] = lease /\ lease.expires \in Nat
  BY <1>0, Conditions, TimingAssumption
     DEF AcquireLease, Takeable, HeartInv, TakeoverConditions
<1>2. lease.owner # NoRun
        => /\ lease.expires < now
           /\ prevExpiry'[s] = lease.expires
           /\ writesFrom'[s] = lease.expires + LateWriteSeconds
  BY <1>1, Conditions DEF AcquireLease, TookOver
<1>3. lease.owner = NoRun => writesFrom'[s] = 0
  BY <1>1 DEF AcquireLease, TookOver
<1>4. \A u \in Runs : ~Beating(u)
  <2> SUFFICES ASSUME NEW u \in Runs, Beating(u)
               PROVE  FALSE
    OBVIOUS
  <2>1. lease.owner = u /\ now < lease.expires
    BY <1>0, BeatingHolds, Conditions DEF Beating
  <2>2. QED
    BY <1>1, <2>1, TimingAssumption
<1>5. \A u \in Runs :
        /\ Pending(u)' => u # s /\ Pending(u)
        /\ Expires(u)' => u # s /\ Expires(u)
        /\ Renews(u)' => u # s /\ Renews(u)
        /\ Beating(u)' => u = s
        /\ ending'[u] = ending[u] /\ HandedOn(u)' = HandedOn(u)
        /\ u # s => writesFrom'[u] = writesFrom[u] /\ phase'[u] = phase[u]
  BY <1>1, <1>4 DEF AcquireLease, Pending, Expires, Renews, Renewing, InFlight,
                    StopSet,
     Beating, InBlock, HandedOn
<1>6. ASSUME NEW w \in writes
      PROVE  WriteInv(w)'
  <2>1. WriteInv(w) /\ w.by \in Runs /\ w.until \in Nat
    BY <1>0, <1>6
  <2>2. w.by # s
    BY <1>1, <2>1 DEF WriteInv
  <2>3. w.until < lease.expires + LateWriteSeconds /\ lease.owner # NoRun
    BY <2>1 DEF WriteInv
  <2>4. w.until < now + Term + LateWriteSeconds
    BY <1>1, <1>2, <2>1, <2>3, Conditions
  <2>5. QED
    BY <1>1, <1>2, <1>5, <2>1, <2>2, <2>3, <2>4 DEF WriteInv
<1>7. ASSUME NEW q \in Runs, Pending(q)
      PROVE  now + Term > ending[q].since + Pause
  <2>1. ending[q].since <= now /\ ending[q].since \in Nat
    BY <1>0, <1>7 DEF EndInv
  <2>2. Pause \in Nat /\ Term \in Nat /\ Pause < Term
    BY Conditions
  <2>3. QED
    BY <2>1, <2>2
<1>8. ASSUME NEW q \in Runs
      PROVE  OverInv(q)'
  <2>1. Pending(q) => now + Term >= ending[q].since
    BY <1>0, <1>7, Conditions
  <2>2. QED
    BY <1>1, <1>5, <2>1 DEF OverInv, Expires, Pending
<1>9. ASSUME NEW q \in Runs, NEW u \in Runs, q # u
      PROVE  AfterInv(q, u)'
  <2>1. AfterInv(q, u) /\ OverInv(q)
    BY <1>0, <1>9
  <2>2. Expires(q) => /\ prevExpiry'[s] >= ending[q].since
                      /\ writesFrom'[s] = prevExpiry'[s] + LateWriteSeconds
                      /\ renewedAt'[s] > ending[q].since
                      /\ now + Term > ending[q].since + Pause
    <3> SUFFICES ASSUME Expires(q)
                 PROVE  /\ prevExpiry'[s] >= ending[q].since
                        /\ writesFrom'[s] = prevExpiry'[s] + LateWriteSeconds
                        /\ renewedAt'[s] > ending[q].since
                        /\ now + Term > ending[q].since + Pause
      OBVIOUS
    <3>1. lease.owner # NoRun /\ lease.expires >= ending[q].since
      BY <2>1 DEF OverInv
    <3>2. now + Term > ending[q].since + Pause
      BY <1>7 DEF Expires
    <3>3. QED
      BY <1>0, <1>1, <1>2, <3>1, <3>2
  <2>3. Renews(q) => writesFrom'[s] = 0 \/ prevExpiry'[s] >= ending[q].since
    BY <1>2, <1>3, <2>1 DEF OverInv
  <2>4. ~(Expires(q) /\ Pending(u) /\ ending[u].since > ending[q].since)
    <3> SUFFICES ASSUME Expires(q), Pending(u),
                        ending[u].since > ending[q].since
                 PROVE  FALSE
      OBVIOUS
    <3>1. lease.owner = u /\ lease.expires > ending[q].since + Pause
      BY <2>1 DEF AfterInv
    <3>2. now <= ending[q].since + Pause
      BY <1>0 DEF EndInv, Expires
    <3>3. QED
      BY <1>0, <1>1, <3>1, <3>2, Conditions, TimingAssumption
  <2>5. QED
    BY <1>1, <1>5, <2>1, <2>2, <2>3, <2>4 DEF AfterInv
<1>10. QED
  BY <1>1, <1>6, <1>8, <1>9 DEF LateInv, WritesExclusive

(***************************************************************************)
(* A write that passes the fence.                                          *)
(***************************************************************************)
LEMMA FenceKeeps ==
    ASSUME TakeoverConditions, TypeOK, TypeOK', HeartsInv, LateInv,
           NEW s \in Runs, PassFence(s)
    PROVE  LateInv'
<1> USE DEF TypeOK, mainVars, hbVars
<1>0. /\ \A q \in Runs : /\ HeartInv(q) /\ EndInv(q) /\ ending[q].since \in Nat
      /\ \A q, u \in Runs : q # u => AfterInv(q, u)
  BY DEF HeartsInv, LateInv, HeartInv
<1> DEFINE new == [by |-> s, until |-> now + Pause + Request]
<1>1. /\ UNCHANGED <<now, lease, mainVars, hbVars>>
      /\ writes' = writes \union {new}
  BY DEF PassFence
<1>2. /\ Beating(s) /\ ~StopSet(s) /\ phase[s] \notin {"new", "read"}
      /\ writesFrom[s] <= now /\ 3 * (now - renewedAt[s]) < 2 * Term
  BY <1>0, Conditions
     DEF PassFence, HeartInv, Beating, InBlock, StopSet, Expiring
<1>3. /\ lease.owner = s /\ s # NoRun
      /\ now + Pause < lease.expires
  <2>1. lease.owner = s /\ renewedAt[s] + Term <= lease.expires
    BY <1>0, <1>2, BeatingHolds DEF Beating
  <2>2. QED
    BY <1>2, <2>1, Conditions, TimingAssumption
<1>4. Calm
  BY <1>1 DEF Calm, Beating, InBlock, Pending, Renews, Renewing, InFlight, StopSet
<1>5. WriteInv(new)
  <2>1. /\ new.by = s /\ new.until = now + Pause + Request
    OBVIOUS
  <2>2. \A r \in Runs : r # s => ~Beating(r)
    BY <1>0, <1>3, BeatingHolds DEF Beating
  <2>3. \A r \in Runs : ~Expires(r)
    <3> SUFFICES ASSUME NEW r \in Runs, Expires(r)
                 PROVE  FALSE
      OBVIOUS
    <3>1. r # s
      BY <1>2 DEF Expires, Pending, Renews, StopSet
    <3>2. /\ prevExpiry[s] >= ending[r].since
          /\ writesFrom[s] = prevExpiry[s] + LateWriteSeconds
      BY <1>0, <1>2, <3>1 DEF AfterInv
    <3>3. now <= ending[r].since + Pause
      BY <1>0 DEF EndInv, Expires
    <3>4. QED
      BY <1>0, <1>2, <3>2, <3>3, Conditions
  <2>4. ~Pending(s)
    BY <1>2 DEF Pending, Renews, StopSet
  <2>5. now + Pause + Request < lease.expires + LateWriteSeconds
    BY <1>3, Conditions
  <2>6. /\ now <= now + Pause + Request
        /\ now + Pause + Request <= now + Pause + Request
    BY Conditions
  <2> HIDE DEF new
  <2>7. QED
    BY <1>2, <1>3, <2>1, <2>2, <2>3, <2>4, <2>5, <2>6 DEF WriteInv
<1>6. ASSUME NEW w \in writes'
      PROVE  WriteInv(w)'
  <2>1. WriteInv(w)
    BY <1>1, <1>5, <1>6 DEF LateInv
  <2>2. QED
    BY <1>1, <2>1 DEF WriteInv, Beating, InBlock, Expires, Pending, Renews,
                      Renewing, InFlight, StopSet
<1>7. WritesExclusive'
  <2>1. \A w \in writes : w.by = s
    <3> SUFFICES ASSUME NEW w \in writes, w.by # s
                 PROVE  FALSE
      OBVIOUS
    <3>1. w.until < writesFrom[s] /\ now <= w.until /\ w.until \in Nat
      BY <1>2 DEF LateInv, WriteInv
    <3>2. QED
      BY <1>2, <3>1
  <2>2. \A w \in writes' : w.by = s
    BY <1>1, <2>1
  <2>3. QED
    BY <2>2 DEF WritesExclusive
<1>8. QED
  BY <1>1, <1>4, <1>6, <1>7, CalmKeepsAfter, CalmKeepsOver DEF LateInv

(***************************************************************************)
(* A run that ends while a request of another ended run is to come is in   *)
(* its takeover wait.                                                      *)
(***************************************************************************)
LEMMA ExitKeeps ==
    ASSUME TakeoverConditions, TypeOK, TypeOK', LeaseInv, HeartsInv, LateInv,
           NEW s \in Runs, NEW stopped \in BOOLEAN, ExitBegin(s, stopped)
    PROVE  LateInv'
<1>0. /\ \A q \in Runs : /\ HeartInv(q) /\ OverInv(q) /\ EndInv(q)
                         /\ ending[q].since \in Nat /\ ending[q].at \in Nat
                         /\ writesFrom[q] \in Nat /\ prevExpiry[q] \in Nat
                         /\ renewedAt[q] \in Nat
      /\ \A q, u \in Runs : q # u => AfterInv(q, u)
      /\ \A w \in writes : WriteInv(w) /\ w \in [by : Runs, until : Nat]
      /\ Clock(s) = now /\ now \in Nat
  BY Conditions DEF HeartsInv, LateInv, HeartInv, TypeOK
<1>1. /\ now' = now /\ lease' = lease /\ renewedAt' = renewedAt
      /\ writesFrom' = writesFrom /\ prevExpiry' = prevExpiry
      /\ hb' = hb /\ hbSent' = hbSent /\ hbAt' = hbAt
      /\ phase' = [phase EXCEPT ![s] = "exiting"]
      /\ phase[s] \in {"open", "failing", "closing"}
      /\ \A q \in Runs : q # s => ending'[q] = ending[q]
      /\ phase'[s] = "exiting" /\ \A q \in Runs : q # s => phase'[q] = phase[q]
  BY DEF ExitBegin, TypeOK, hbVars
<1>2. /\ ending'[s].held = ~lost[s] /\ ending'[s].since = now
      /\ HandsOn(s) => ending'[s].how = "expire" /\ ending'[s].at = prevExpiry[s]
      /\ ~HandsOn(s) => /\ ending'[s].at = now
                        /\ ending'[s].how = IF stopped THEN "expire" ELSE "release"
      /\ stopped \/ \A w \in writes : w.by # s
  BY <1>0 DEF ExitBegin, TypeOK
<1>3. HandsOn(s) <=> writesFrom[s] > now
  BY <1>0 DEF HandsOn
<1>4. Pending(s)' => Beating(s)
  BY <1>0, <1>1, <1>2 DEF Pending, Renews, Renewing, InFlight, Beating,
                          InBlock, HeartInv
<1>5. Beating(s) => /\ lease.owner = s /\ now < lease.expires
                    /\ renewedAt[s] <= now
  <2>1. Beating(s) => lease.owner = s /\ now < lease.expires
    BY <1>0, BeatingHolds, Conditions DEF Beating, TypeOK
  <2>2. renewedAt[s] <= now
    BY <1>0 DEF LeaseInv, RunInv, TimesOrdered
  <2>3. QED
    BY <2>1, <2>2
<1>6. /\ ~Beating(s)' /\ ~Pending(s)
      /\ \A q \in Runs : q # s =>
            /\ Beating(q)' = Beating(q) /\ Pending(q)' = Pending(q)
            /\ Expires(q)' = Expires(q) /\ Renews(q)' = Renews(q)
            /\ HandedOn(q)' = HandedOn(q)
  BY <1>1 DEF Beating, InBlock, Pending, Expires, Renews, Renewing, StopSet,
              InFlight, HandedOn
<1>7. ASSUME NEW q \in Runs
      PROVE  OverInv(q)'
  <2>1. CASE q = s
    BY <1>0, <1>1, <1>2, <1>4, <1>5, <2>1, TimingAssumption
       DEF OverInv, Expires, Pending, TypeOK
  <2>2. CASE q # s
    BY <1>0, <1>1, <1>6, <2>2 DEF OverInv
  <2>3. QED
    BY <2>1, <2>2
\* What s does once a request of q is to come.
<1>8. ASSUME NEW q \in Runs, q # s, Pending(s)', Expires(q)
      PROVE  /\ lease.owner = s /\ lease.expires > ending[q].since + Pause
             /\ HandedOn(s)' /\ ending'[s].at >= ending[q].since
             /\ ending'[s].how = "expire"
             /\ ending'[s].since > ending[q].since
  <2>1. /\ lease.owner = s /\ lease.expires > ending[q].since + Pause
        /\ prevExpiry[s] >= ending[q].since
        /\ writesFrom[s] = prevExpiry[s] + LateWriteSeconds
        /\ renewedAt[s] > ending[q].since
    BY <1>0, <1>4, <1>5, <1>8 DEF AfterInv
  <2>2. now <= ending[q].since + Pause
    BY <1>0, <1>8 DEF EndInv, Expires
  <2>3. HandsOn(s)
    BY <1>0, <1>3, <2>1, <2>2, Conditions
  <2>4. prevExpiry[s] < now
    <3>1. writesFrom[s] # 0
      BY <1>0, <1>3, <2>3
    <3>2. prevExpiry[s] < renewedAt[s] /\ renewedAt[s] <= now
      BY <1>0, <1>4, <1>5, <1>8, <3>1 DEF HeartInv
    <3>3. QED
      BY <1>0, <3>2
  <2>5. HandedOn(s)'
    BY <1>1, <1>2, <2>3, <2>4 DEF HandedOn, StopSet
  <2>6. ending'[s].since > ending[q].since
    BY <1>0, <1>2, <1>4, <1>5, <1>8, <2>1
  <2>7. QED
    BY <1>2, <2>1, <2>3, <2>5, <2>6
<1>9. ASSUME NEW q \in Runs, q # s
      PROVE  AfterInv(q, s)'
  <2>1. Renews(q) /\ Expires(s)' /\ now >= ending[q].since
          => ending'[s].at >= ending[q].since
    <3> SUFFICES ASSUME Renews(q), Expires(s)', now >= ending[q].since
                 PROVE  ending'[s].at >= ending[q].since
      OBVIOUS
    <3>1. Beating(s)
      BY <1>4 DEF Expires
    <3>2. writesFrom[s] = 0 \/ prevExpiry[s] >= ending[q].since
      BY <1>0, <1>9, <3>1 DEF AfterInv
    <3>3. HandsOn(s) => prevExpiry[s] >= ending[q].since
      BY <1>0, <1>3, <3>2
    <3>4. QED
      BY <1>2, <3>3
  <2>2. Expires(q) /\ Pending(s)'
          => /\ lease.owner = s /\ lease.expires > ending[q].since + Pause
             /\ HandedOn(s)' /\ ending'[s].at >= ending[q].since
             /\ ending'[s].how = "expire"
             /\ ending'[s].since > ending[q].since
    BY <1>8, <1>9
  <2>3. Expires(q) /\ Expires(s)' => ending[q].since # ending'[s].since
    <3> SUFFICES ASSUME Expires(q), Expires(s)'
                 PROVE  ending[q].since # ending'[s].since
      OBVIOUS
    <3>1. ending'[s].since > ending[q].since /\ ending'[s].since = now
      BY <1>2, <2>2 DEF Expires
    <3>2. QED
      BY <1>0, <3>1
  <2>4. QED
    BY <1>1, <1>2, <1>6, <1>9, <2>1, <2>2, <2>3 DEF AfterInv
<1>10. ASSUME NEW u \in Runs, u # s
       PROVE  AfterInv(s, u)'
  <2>1. Pending(s)' => ~Beating(u)
    BY <1>0, <1>4, <1>5, <1>10, BeatingHolds DEF Beating
  <2>2. Pending(s)' /\ Expires(u) => ending[u].since # now
    <3> SUFFICES ASSUME Pending(s)', Expires(u)
                 PROVE  ending[u].since # now
      OBVIOUS
    <3>1. ending'[s].since > ending[u].since /\ ending'[s].since = now
      BY <1>2, <1>8, <1>10
    <3>2. QED
      BY <1>0, <3>1
  <2>3. Pending(u) => ending[u].since <= now
    BY <1>0 DEF EndInv
  <2>4. Pending(u) => ~(ending[u].since > now)
    BY <1>0, <2>3
  <2>5. Expires(u) /\ Pending(s)' => ~(ending[u].since >= now)
    <3> SUFFICES ASSUME Expires(u), Pending(s)', ending[u].since >= now
                 PROVE  FALSE
      OBVIOUS
    <3>1. ending[u].since # now /\ ending[u].since <= now
      BY <2>2, <2>3 DEF Expires
    <3>2. QED
      BY <1>0, <3>1
  <2>6. Pending(s)' => lease.owner # u
    BY <1>4, <1>5, <1>10
  <2>7. /\ Expires(s)' => Pending(s)'
        /\ Renews(s)' => Pending(s)'
        /\ Expires(u) => Pending(u)
    BY DEF Expires, Pending
  <2>8. QED
    BY <1>1, <1>2, <1>6, <1>10, <2>1, <2>2, <2>4, <2>5, <2>6, <2>7 DEF AfterInv
<1>11. ASSUME NEW q \in Runs, NEW u \in Runs, q # s, u # s, q # u
       PROVE  AfterInv(q, u)'
  BY <1>0, <1>1, <1>6, <1>11 DEF AfterInv
\* A write of a run that stops is cut to one request from now.
<1>12. ASSUME NEW w \in writes, NEW v \in [by : Runs, until : Nat],
              v.by = w.by, v.until <= w.until, now <= v.until,
              w.by = s => v.until <= now + SendDelay + Request
       PROVE  WriteInv(v)'
  <2>1. WriteInv(w) /\ w.until \in Nat /\ v.until \in Nat /\ w.by \in Runs
    BY <1>0, <1>12
  <2>2. Beating(s) => \/ w.by = s
                      \/ w.until < writesFrom[s]
    BY <2>1 DEF WriteInv
  <2>3. Expires(s)' => v.until < ending'[s].at + LateWriteSeconds
    <3> SUFFICES ASSUME Expires(s)'
                 PROVE  v.until < ending'[s].at + LateWriteSeconds
      OBVIOUS
    <3>1. Beating(s)
      BY <1>4 DEF Expires
    <3>2. CASE HandsOn(s)
      <4>1. w.by # s
        BY <1>0, <1>3, <2>1, <3>2 DEF WriteInv
      <4>2. writesFrom[s] = prevExpiry[s] + LateWriteSeconds
        BY <1>0, <1>3, <3>2 DEF HeartInv
      <4>3. w.until < writesFrom[s]
        BY <2>2, <3>1, <4>1
      <4>4. QED
        BY <1>0, <1>2, <1>12, <2>1, <3>2, <4>2, <4>3, Conditions
    <3>3. CASE ~HandsOn(s)
      <4>1. w.by = s
        BY <1>0, <1>3, <1>12, <2>1, <2>2, <3>1, <3>3
      <4>2. QED
        BY <1>0, <1>2, <1>12, <2>1, <3>3, <4>1, Conditions
    <3>4. QED
      BY <3>2, <3>3
  <2>4. Pending(s)' => ending'[s].how # "release"
    <3> SUFFICES ASSUME Pending(s)', ending'[s].how = "release"
                 PROVE  FALSE
      OBVIOUS
    <3>1. ~HandsOn(s) /\ w.by # s
      BY <1>2, <1>12
    <3>2. QED
      BY <1>0, <1>3, <1>4, <1>12, <2>1, <2>2, <3>1
  <2>5. \A r \in Runs : Beating(r)' /\ r # v.by => v.until < writesFrom[r]
    <3> SUFFICES ASSUME NEW r \in Runs, Beating(r)', r # v.by
                 PROVE  v.until < writesFrom[r]
      OBVIOUS
    <3>1. w.until < writesFrom[r]
      BY <1>6, <1>12, <2>1 DEF WriteInv
    <3>2. QED
      BY <1>0, <1>12, <2>1, <3>1
  <2>6. \A r \in Runs : Expires(r)' => v.until < ending'[r].at + LateWriteSeconds
    <3> SUFFICES ASSUME NEW r \in Runs, r # s, Expires(r)
                 PROVE  v.until < ending[r].at + LateWriteSeconds
      BY <1>1, <1>6, <2>3
    <3>1. w.until < ending[r].at + LateWriteSeconds
      BY <2>1 DEF WriteInv
    <3>2. QED
      BY <1>0, <1>12, <2>1, <3>1, Conditions
  <2>7. \A r \in Runs : Pending(r)' /\ ending'[r].how = "release"
                          => lease.owner # r
    BY <1>1, <1>6, <2>1, <2>4 DEF WriteInv
  <2>8. /\ lease.owner # NoRun /\ v.until < lease.expires + LateWriteSeconds
        /\ v.until <= now + Pause + Request
    <3>1. /\ lease.owner # NoRun /\ w.until < lease.expires + LateWriteSeconds
          /\ w.until <= now + Pause + Request
      BY <2>1 DEF WriteInv
    <3>2. lease.expires \in Nat
      BY DEF TypeOK
    <3>3. QED
      BY <1>0, <1>12, <2>1, <3>1, <3>2, Conditions
  <2>9. phase'[v.by] \notin {"new", "read"} /\ writesFrom[v.by] <= now
    BY <1>1, <1>12, <2>1 DEF WriteInv
  <2>10. QED
    BY <1>1, <1>12, <2>5, <2>6, <2>7, <2>8, <2>9 DEF WriteInv
<1>13. \A v \in writes' : /\ WriteInv(v)'
                           /\ \E w \in writes : v.by = w.by
  <2> SUFFICES ASSUME NEW v \in writes'
               PROVE  WriteInv(v)' /\ \E w \in writes : v.by = w.by
    OBVIOUS
  <2>1. PICK w \in writes :
            v = IF w.by = s
                THEN [w EXCEPT !.until = Earlier(@, now + SendDelay + Request)]
                ELSE w
    BY DEF ExitBegin
  <2>2. w \in [by : Runs, until : Nat] /\ now <= w.until
    BY <1>0 DEF WriteInv
  <2>3. CASE w.by = s
    <3>1. v = [by |-> s, until |-> Earlier(w.until, now + SendDelay + Request)]
      BY <2>1, <2>2, <2>3
    <3>2. LET e == Earlier(w.until, now + SendDelay + Request)
          IN  /\ e \in Nat /\ e <= w.until /\ now <= e
              /\ e <= now + SendDelay + Request
      BY <1>0, <2>2, Conditions DEF Earlier
    <3>3. QED
      BY <1>12, <2>2, <2>3, <3>1, <3>2
  <2>4. CASE w.by # s
    <3>1. v = w
      BY <2>1, <2>4
    <3>2. w.until <= w.until
      BY <2>2
    <3>3. QED
      BY <1>12, <2>2, <2>4, <3>1, <3>2
  <2>5. QED
    BY <2>3, <2>4
<1>14. QED
  <2>1. WritesExclusive'
    BY <1>13 DEF LateInv, WritesExclusive
  <2>2. QED
    BY <1>7, <1>9, <1>10, <1>11, <1>13, <2>1 DEF LateInv

(***************************************************************************)
(* DynamoDB drops an expired lease when no write of its holder is in       *)
(* flight any more, and no request of an ended run is to come.             *)
(***************************************************************************)
LEMMA DropKeeps ==
    ASSUME TakeoverConditions, TypeOK, HeartsInv, LateInv, TtlDrop
    PROVE  LateInv'
<1>0. /\ now' = now /\ lease' = NoLease /\ writes' = writes
      /\ UNCHANGED <<mainVars, hbVars>>
      /\ now >= lease.expires + TtlGrace
      /\ now \in Nat /\ lease.expires \in Nat
  BY DEF TtlDrop, TypeOK
<1>1. writes = {}
  <2> SUFFICES ASSUME NEW w \in writes
               PROVE  FALSE
    OBVIOUS
  <2>1. w.until \in Nat /\ now <= w.until
        /\ w.until < lease.expires + LateWriteSeconds
    BY DEF LateInv, WriteInv, TypeOK
  <2>2. QED
    BY <1>0, <2>1, Conditions
<1>2. \A q \in Runs : ~Expires(q)
  <2> SUFFICES ASSUME NEW q \in Runs, Expires(q)
               PROVE  FALSE
    OBVIOUS
  <2>1. /\ lease.expires >= ending[q].since
        /\ now <= ending[q].since + Pause /\ ending[q].since \in Nat
    BY DEF LateInv, OverInv, HeartsInv, HeartInv, EndInv, Expires, TypeOK
  <2>2. QED
    BY <1>0, <2>1, Conditions
<1>3. \A q \in Runs : /\ ~Expires(q)'
                      /\ Renews(q)' = Renews(q) /\ Beating(q)' = Beating(q)
  BY <1>0, <1>2
     DEF Expires, Pending, Renews, Renewing, Beating, InFlight, InBlock, StopSet,
         mainVars, hbVars
<1>4. ASSUME NEW q \in Runs, NEW u \in Runs, q # u
      PROVE  AfterInv(q, u)'
  BY <1>0, <1>3, <1>4 DEF LateInv, AfterInv, mainVars
<1>5. \A q \in Runs : OverInv(q)'
  BY <1>0, <1>3 DEF OverInv, NoLease
<1>6. QED
  BY <1>0, <1>1, <1>4, <1>5 DEF LateInv, WritesExclusive

(***************************************************************************)
(* The steps that neither touch the lease nor begin anything.              *)
(***************************************************************************)
CalmAction(q) ==
    \/ ReadHolder(q) \/ AcquireDenied(q) \/ FailFence(q)
    \/ GiveUpFails(q) \/ Die(q)
    \/ HeartbeatSend(q) \/ HeartbeatError(q) \/ HeartbeatDenied(q)
    \/ HeartbeatContinues(q) \/ HeartbeatStops(q)

LEMMA CalmActions ==
    ASSUME TypeOK, LeaseInv, NEW q \in Runs, CalmAction(q)
    PROVE  Calm /\ lease' = lease /\ now' = now /\ writes' = writes
<1> USE DEF mainVars, hbVars
<1>1. lease' = lease /\ now' = now /\ writes' = writes
  BY DEF CalmAction, ReadHolder, AcquireDenied, FailFence, GiveUpFails, Die,
     HeartbeatSend, HeartbeatError, HeartbeatDenied, HeartbeatContinues,
     HeartbeatStops
<1>2. ASSUME NEW r \in Runs
      PROVE  /\ renewedAt' = renewedAt /\ prevExpiry' = prevExpiry
             /\ writesFrom' = writesFrom /\ ending' = ending
             /\ renewedAt[r] <= renewedAt'[r]
  BY DEF CalmAction, ReadHolder, AcquireDenied, FailFence, GiveUpFails, Die,
     HeartbeatSend, HeartbeatError, HeartbeatDenied, HeartbeatContinues,
     HeartbeatStops, TypeOK
<1>3. ASSUME NEW r \in Runs
      PROVE  /\ Beating(r)' => Beating(r)
             /\ Pending(r)' => Pending(r)
             /\ Renews(r)' => Renews(r)
             /\ phase'[r] \in {"new", "read"} => phase[r] \in {"new", "read"}
  <2> USE DEF TypeOK, Beating, Pending, Renews, Renewing, InBlock, StopSet,
              InFlight
  <2>1. phase[q] = "read" => hb[q] = "off"
    BY DEF LeaseInv, RunInv, TimesOrdered
  <2>2. CASE ReadHolder(q) \/ AcquireDenied(q) \/ FailFence(q)
             \/ GiveUpFails(q) \/ Die(q)
    BY <2>1, <2>2 DEF ReadHolder, AcquireDenied, FailFence, GiveUpFails, Die
  <2>3. CASE HeartbeatSend(q) \/ HeartbeatDenied(q) \/ HeartbeatContinues(q)
             \/ HeartbeatStops(q)
    BY <2>3 DEF HeartbeatSend, HeartbeatDenied, HeartbeatContinues, HeartbeatStops
  <2>4. CASE HeartbeatError(q)
    <3>1. hb'[q] \in {"off", "idle"} /\ \A u \in Runs : u # q => hb'[u] = hb[u]
      BY <2>4 DEF HeartbeatError
    <3>2. phase' = phase /\ ending' = ending /\ hb[q] # "off"
      BY <2>4 DEF HeartbeatError
    <3>3. QED
      BY <3>1, <3>2
  <2>5. QED
    BY <2>2, <2>3, <2>4 DEF CalmAction
<1>4. QED
  BY <1>1, <1>2, <1>3 DEF Calm

LEMMA GiveUpKeeps ==
    ASSUME TakeoverConditions, TypeOK, TypeOK', HeartsInv, LateInv,
           RenewalsAnswered, NEW s \in Runs, GiveUp(s)
    PROVE  LateInv'
<1>1. /\ phase[s] = "exiting" /\ phase' = [phase EXCEPT ![s] = "ended"]
      /\ UNCHANGED <<now, renewedAt, prevExpiry, writesFrom, ending, hbVars, writes>>
  BY DEF GiveUp
<1>2. Calm
  BY <1>1 DEF Calm, Beating, Pending, Renews, Renewing, InFlight, InBlock,
              StopSet, TypeOK,
              hbVars
<1>3. CASE ending[s].held
  <2>1. Pending(s)
    BY <1>1, <1>3 DEF Pending
  <2>2. HandedOn(s) => ~Pending(s)'
    BY <1>1 DEF RenewalsAnswered, Pending, Renews, Renewing, InFlight, hbVars,
                TypeOK
  <2>3. lease' = GivenUp(s, ending[s].how, ending[s].at)
    BY <1>3 DEF GiveUp
  <2>4. QED
    BY <1>1, <1>2, <2>1, <2>2, <2>3, GivingUpKeeps
<1>4. CASE ~ending[s].held
  <2>1. lease' = lease
    BY <1>4 DEF GiveUp
  <2>2. QED
    BY <1>1, <1>2, <2>1, CalmKeeps DEF LateInv, WriteInv
<1>5. QED
  BY <1>3, <1>4

LEMMA RenewedKeeps ==
    ASSUME TakeoverConditions, TypeOK, TypeOK', LeaseInv, LateInv,
           NEW s \in Runs, HeartbeatRenewed(s)
    PROVE  LateInv'
<1>1. /\ hb[s] = "held" /\ renewedAt' = [renewedAt EXCEPT ![s] = hbSent[s]]
      /\ hb'[s] = "renewed"
      /\ \A r \in Runs : r # s => hb'[r] = hb[r]
      /\ UNCHANGED <<now, lease, phase, prevExpiry, writesFrom, ending, writes>>
  BY DEF HeartbeatRenewed, TypeOK
<1>2. renewedAt[s] <= hbSent[s]
  BY <1>1 DEF LeaseInv, RunInv, Uncrossed, InFlight, TakeoverConditions
<1>3. \A r \in Runs : renewedAt[r] <= renewedAt'[r]
  BY <1>1, <1>2 DEF TypeOK
<1>4. Calm
  BY <1>1, <1>3 DEF Calm, Beating, Pending, Renews, Renewing, InFlight, InBlock,
                    StopSet
<1>5. QED
  BY <1>1, <1>4, CalmKeeps DEF LateInv, WriteInv

LEMMA GivesUpKeeps ==
    ASSUME TakeoverConditions, TypeOK, TypeOK', HeartsInv, LateInv,
           RenewalsAnswered, NEW s \in Runs, HeartbeatGivesUp(s)
    PROVE  LateInv'
<1>1. /\ hb[s] = "renewed" /\ hb'[s] = "off" /\ StopSet(s)
      /\ \A r \in Runs : r # s => hb'[r] = hb[r]
      /\ UNCHANGED <<now, mainVars, writes>>
  BY DEF HeartbeatGivesUp, TypeOK
<1>2. Calm
  BY <1>1 DEF Calm, Beating, Pending, Renews, Renewing, InFlight, InBlock,
              StopSet,
              mainVars, TypeOK
<1>3. Pending(s) /\ ~HandedOn(s)
  BY <1>1 DEF Pending, Renews, Renewing, RenewalsAnswered
<1>4. \/ lease' = GivenUp(s, ending[s].how, ending[s].at)
      \/ lease' = lease
  BY DEF HeartbeatGivesUp
<1>5. CASE lease' = GivenUp(s, ending[s].how, ending[s].at)
  BY <1>1, <1>2, <1>3, <1>5, GivingUpKeeps
<1>6. CASE lease' = lease
  BY <1>1, <1>2, <1>6, CalmKeeps DEF LateInv, WriteInv
<1>7. QED
  BY <1>4, <1>5, <1>6

LEMMA HeartbeatApplyKeeps ==
    ASSUME TakeoverConditions, TypeOK, TypeOK', LeaseInv, HeartsInv, LateInv,
           RenewalsAnswered, NEW s \in Runs, HeartbeatApply(s)
    PROVE  LateInv'
<1>1. /\ hb[s] = "sent" /\ hb'[s] \in {"held", "denied"}
      /\ \A r \in Runs : r # s => hb'[r] = hb[r]
      /\ UNCHANGED <<now, mainVars, writes>>
  BY DEF HeartbeatApply, TypeOK
<1>2. Calm
  BY <1>1 DEF Calm, Beating, Pending, Renews, Renewing, InFlight, InBlock,
              StopSet, mainVars,
              TypeOK
<1>3. CASE Takeable(s, hbSent[s])
  <2>1. lease' = [owner |-> s, expires |-> hbSent[s] + Term]
    BY <1>3 DEF HeartbeatApply
  <2>2. QED
    BY <1>1, <1>2, <1>3, <2>1, ApplyKeeps
<1>4. CASE ~Takeable(s, hbSent[s])
  <2>1. lease' = lease
    BY <1>4 DEF HeartbeatApply
  <2>2. QED
    BY <1>1, <1>2, <2>1, CalmKeeps DEF LateInv, WriteInv
<1>5. QED
  BY <1>3, <1>4

LEMMA TickKeeps ==
    ASSUME TypeOK, TypeOK', LateInv, Tick
    PROVE  LateInv'
<1>1. /\ now' = now + 1 /\ lease' = lease /\ writes' = writes
      /\ UNCHANGED <<mainVars, hbVars>>
      /\ \A w \in writes : now + 1 <= w.until
  BY DEF Tick, TypeOK
<1>2. Calm
  BY <1>1 DEF Calm, Beating, Pending, Renews, Renewing, InFlight, InBlock,
              StopSet, mainVars,
              hbVars, TypeOK
<1>3. QED
  BY <1>1, <1>2, CalmKeeps

LEMMA UnchangedKeeps ==
    ASSUME TypeOK, TypeOK', LateInv, writes' \subseteq writes,
           UNCHANGED <<now, lease, mainVars, hbVars>>
    PROVE  LateInv'
<1>1. Calm
  BY DEF Calm, Beating, Pending, Renews, Renewing, InFlight, InBlock, StopSet,
         mainVars,
         hbVars, TypeOK
<1>2. QED
  BY <1>1, CalmKeeps DEF LateInv, WriteInv

LEMMA InitLate == Init => LateInv
BY DEF Init, LateInv, WritesExclusive, OverInv, AfterInv, Expires, Pending,
       Renews,
       StopSet

LEMMA StepLate ==
    ASSUME TakeoverConditions, TypeOK, LeaseInv, HeartsInv, LateInv,
           RenewalsAnswered, [Next]_vars
    PROVE  LateInv'
<1>0. TypeOK'
  BY StepType
<1>1. ASSUME NEW s \in Runs, CalmAction(s)
      PROVE  LateInv'
  BY <1>0, <1>1, CalmActions, CalmKeeps DEF LateInv, WriteInv
<1>2. ASSUME NEW s \in Runs, MainStep(s)
      PROVE  LateInv'
  <2>1. ~RetakeRequest(s) /\ ~RetakeAnswer(s)
    BY DEF RetakeRequest, RetakeAnswer, TakeoverConditions, LeaseInv, RunInv,
           TimesOrdered
  <2>2. QED
    BY <1>0, <1>1, <1>2, <2>1, AcquireKeeps, FenceKeeps, ExitKeeps, GiveUpKeeps
       DEF MainStep, CalmAction
<1>3. ASSUME NEW s \in Runs, HeartbeatStep(s)
      PROVE  LateInv'
  <2>1. ~HeartbeatTooLate(s) /\ ~HeartbeatReleases(s)
    BY NeverTooLate DEF HeartsInv, HeartInv, HeartbeatReleases
  <2>2. QED
    BY <1>0, <1>1, <1>3, <2>1, HeartbeatApplyKeeps, RenewedKeeps, GivesUpKeeps
       DEF HeartbeatStep, CalmAction
<1>4. ASSUME NEW w \in writes, Land(w)
      PROVE  LateInv'
  BY <1>0, <1>4, UnchangedKeeps DEF Land
<1>5. CASE Tick
  BY <1>0, <1>5, TickKeeps
<1>6. CASE TtlDrop
  BY <1>6, DropKeeps
<1>7. CASE UNCHANGED vars
  BY <1>0, <1>7, UnchangedKeeps DEF vars
<1>8. QED
  BY <1>2, <1>3, <1>4, <1>5, <1>6, <1>7 DEF Next

(***************************************************************************)
(* Two runs' writes are never in flight together, as long as no run that   *)
(* hands its takeover wait on has a renewal in flight: whichever runs die, *)
(* are stopped, are late with giving the lease up or hand their wait on,   *)
(* and however many they are (namespace_lease, the takeover wait).         *)
(***************************************************************************)
THEOREM WritesAreExclusive ==
    ASSUME TakeoverConditions
    PROVE  Spec /\ []RenewalsAnswered => []WritesExclusive
<1> DEFINE All == TypeOK /\ LeaseInv /\ HeartsInv /\ LateInv
<1>1. Init => All
  BY InitType, InitLeaseInv, InitHearts, InitLate
<1>2. All /\ RenewalsAnswered /\ [Next]_vars => All'
  BY StepType, StepLeaseInv, StepHearts, StepLate
<1>3. All => WritesExclusive
  BY DEF LateInv
<1>4. QED
  BY <1>1, <1>2, <1>3, PTL DEF Spec
=============================================================================
