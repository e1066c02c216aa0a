--------------------------- MODULE NamespaceLease ---------------------------
(***************************************************************************)
(* The write lease of an index namespace: one writing run at a time.       *)
(*                                                                         *)
(* Every run of the ingestion pipeline takes its namespace's lease from    *)
(* the doc-status registry with one conditional write, renews it from a    *)
(* heartbeat thread, asks it before every store write (the write fence)    *)
(* and gives it up when it ends.  No store conditions a write on the       *)
(* lease, so what keeps two runs' writes apart is arithmetic on clocks:    *)
(* this module keeps those clocks, the requests in flight and the three    *)
(* actors of a run (its main thread, its heartbeat, its worker writes).    *)
(*                                                                         *)
(* A run is one NamespaceLease object: it is entered once and exited once. *)
(* Times are ticks of a common clock; run r reads it with an offset of     *)
(* Skew[r].  The stores are remote (in_process_stores = False).            *)
(***************************************************************************)
EXTENDS Integers, FiniteSets

CONSTANTS
    Runs,        \* the runs that may enter the namespace
    NoRun,       \* the owner of no lease
    Term,        \* indexing.lease_seconds
    Request,     \* longest_write_request_seconds()
    Margin,      \* _TAKEOVER_MARGIN_SECONDS
    Skew,        \* how far each run's clock is ahead
    MaxSkew,     \* the largest Skew
    Pause,       \* the longest a thread of a live run stays without a step
    SendDelay,   \* fence check to send, while the process is running
    TtlGrace,    \* ticks after its expiry before DynamoDB's TTL drops a lease
    StaleReads,  \* whether the lease may change between __enter__'s read of
                 \* it and the conditional write that takes it
    Retakes,     \* whether a run that lost its lease takes it back (retake)
    MaxInFlight, \* bound on a run's writes in flight, for model checking
    MaxTime      \* bound of the clock, for model checking

ASSUME TimingAssumption ==
    /\ NoRun \notin Runs
    /\ Term \in Nat \ {0}
    /\ Request \in Nat /\ Margin \in Nat /\ MaxSkew \in Nat
    /\ Skew \in [Runs -> 0..MaxSkew]
    /\ Pause \in Nat \ {0}
    /\ SendDelay \in Nat /\ TtlGrace \in Nat
    /\ MaxInFlight \in Nat /\ MaxTime \in Nat
    /\ StaleReads \in BOOLEAN /\ Retakes \in BOOLEAN

(***************************************************************************)
(* A run stops writing with a third of its term left (check_held): that    *)
(* third covers the clocks' difference.                                    *)
(***************************************************************************)
ASSUME ThirdAssumption == 3 * MaxSkew <= Term

VARIABLES
    now,         \* the clock
    lease,       \* the registry's lease item: its owner and its expiry
    phase,       \* where the run's main thread is
    previous,    \* the lease item __enter__ read
    renewedAt,   \* _renewed_at
    lost,        \* _lost is not None
    writesFrom,  \* writes_from
    prevExpiry,  \* _previous_expiry
    hb,          \* the heartbeat thread: idle, its request's state, what it
                 \* does about the answer, or off
    hbSent,      \* when the renewal in flight was sent
    hbAt,        \* when the heartbeat started waiting for its next renewal
    retakeSent,  \* when retake()'s request was sent
    ending,      \* what _exit decided: held, _give_up, and when
    writes,      \* store writes past the fence that have not landed
    taker,       \* history: the run whose acquire or retake took the lease last
    crossed      \* history: whether a renewal of the run's own heartbeat, or
                 \* the release after a late one, overlapped its retake

mainVars == <<phase, previous, renewedAt, lost, writesFrom, prevExpiry,
              retakeSent, ending>>
hbVars == <<hb, hbSent, hbAt>>
vars == <<now, lease, mainVars, hbVars, writes, taker, crossed>>

Phases == {"new", "read", "open", "failing", "retaking", "closing",
           "exiting", "ended", "dead"}

HbStates == {"off", "idle", "sent", "held", "denied", "renewed", "releasing"}

NoLease == [owner |-> NoRun, expires |-> 0]

(***************************************************************************)
(* The store.                                                              *)
(***************************************************************************)
Clock(r) == now + Skew[r]

\* Mutant: an unconditional put.
TakeableAlways(r, at) == TRUE

\* The condition of try_acquire_lease (DynamoDB), with the caller's clock.
Takeable(r, at) ==
    \/ lease.owner \in {NoRun, r}
    \/ lease.expires < at

LateWriteSeconds == Request + Margin

\* Mutant: the whole term is trusted.
ExpiringAtTerm(r) == Clock(r) - renewedAt[r] > Term

Expiring(r) == 3 * (Clock(r) - renewedAt[r]) >= 2 * Term

\* The lease expired before the renewal in flight answered.
TooLateNever(r) == FALSE \* mutant: the answer is trusted however late

TooLate(r) == Clock(r) - renewedAt[r] >= Term

\* Mutant: the seconds from now are stored in place of the time.
GivenUpRelative(r, how, at) ==
    IF how = "release" THEN NoLease
    ELSE [owner |-> r, expires |-> at - Clock(r) - 1]

\* _release and _expire, the two ways to give the lease up.
GivenUp(r, how, at) ==
    IF how = "release"
    THEN IF lease.owner = r THEN NoLease ELSE lease
    ELSE IF Takeable(r, Clock(r)) THEN [owner |-> r, expires |-> at] ELSE lease

\* A renewal the heartbeat has sent and not yet read the answer of.
InFlight(r) == hb[r] \in {"sent", "held", "denied"}

InBlock(r) == phase[r] \in {"open", "failing", "retaking", "closing"}

\* self._stop is set.
StopSet(r) == phase[r] \in {"exiting", "ended"}

Init ==
    /\ now = 0
    /\ lease = NoLease
    /\ phase = [r \in Runs |-> "new"]
    /\ previous = [r \in Runs |-> NoLease]
    /\ renewedAt = [r \in Runs |-> 0]
    /\ lost = [r \in Runs |-> FALSE]
    /\ writesFrom = [r \in Runs |-> 0]
    /\ prevExpiry = [r \in Runs |-> 0]
    /\ hb = [r \in Runs |-> "off"]
    /\ hbSent = [r \in Runs |-> 0]
    /\ hbAt = [r \in Runs |-> 0]
    /\ retakeSent = [r \in Runs |-> 0]
    /\ ending = [r \in Runs |-> [held |-> FALSE, how |-> "release", at |-> 0,
                                 since |-> 0]]
    /\ writes = {}
    /\ taker = NoRun
    /\ crossed = [r \in Runs |-> FALSE]

(***************************************************************************)
(* Entering: the read of the previous holder, then the conditional write.  *)
(***************************************************************************)
ReadHolder(r) ==
    /\ phase[r] = "new"
    /\ phase' = [phase EXCEPT ![r] = "read"]
    /\ previous' = [previous EXCEPT ![r] = lease]
    /\ UNCHANGED <<now, lease, renewedAt, lost, writesFrom, prevExpiry,
                   retakeSent, ending, hbVars, writes, taker, crossed>>

\* A lease that is there but expired was taken over, not released.
TookOver(r) ==
    /\ previous[r].owner \notin {NoRun, r}
    /\ previous[r].expires <= Clock(r)

AcquireLease(r) ==
    /\ phase[r] = "read"
    /\ StaleReads \/ lease = previous[r]
    /\ Takeable(r, Clock(r))
    /\ lease' = [owner |-> r, expires |-> Clock(r) + Term]
    /\ taker' = r
    /\ phase' = [phase EXCEPT ![r] = "open"]
    /\ renewedAt' = [renewedAt EXCEPT ![r] = Clock(r)]
    /\ prevExpiry' = [prevExpiry EXCEPT
            ![r] = IF TookOver(r) THEN previous[r].expires ELSE 0]
    /\ writesFrom' = [writesFrom EXCEPT
            ![r] = IF TookOver(r) THEN previous[r].expires + LateWriteSeconds
                                  ELSE 0]
    /\ hb' = [hb EXCEPT ![r] = "idle"]
    /\ hbAt' = [hbAt EXCEPT ![r] = Clock(r)]
    /\ UNCHANGED <<now, previous, lost, retakeSent, ending, hbSent, writes,
                   crossed>>

\* NamespaceLeaseError: another run holds the lease.
AcquireDenied(r) ==
    /\ phase[r] = "read"
    /\ ~Takeable(r, Clock(r))
    /\ phase' = [phase EXCEPT ![r] = "ended"]
    /\ UNCHANGED <<now, lease, previous, renewedAt, lost, writesFrom,
                   prevExpiry, retakeSent, ending, hbVars, writes, taker,
                   crossed>>

(***************************************************************************)
(* The write fence.  A write that passes check() is in flight until it     *)
(* lands, at most Pause (its thread was frozen between the check and the   *)
(* send) plus one request later.                                           *)
(***************************************************************************)
PassFence(r) ==
    /\ phase[r] \in {"open", "closing"}
    /\ Clock(r) >= writesFrom[r]
    /\ ~lost[r] /\ ~Expiring(r)
    /\ Cardinality({w \in writes : w.by = r}) < MaxInFlight
    /\ writes' = writes \union {[by |-> r, until |-> now + Pause + Request]}
    /\ UNCHANGED <<now, lease, mainVars, hbVars, taker, crossed>>

\* check() or check_held() raises: the run unwinds.
FailFence(r) ==
    /\ phase[r] \in {"open", "closing"}
    /\ lost[r] \/ Expiring(r)
    /\ lost' = [lost EXCEPT ![r] = TRUE]
    /\ phase' = [phase EXCEPT ![r] = IF @ = "open" THEN "failing" ELSE @]
    /\ UNCHANGED <<now, lease, previous, renewedAt, writesFrom, prevExpiry,
                   retakeSent, ending, hbVars, writes, taker, crossed>>

Land(w) ==
    /\ w \in writes
    /\ writes' = writes \ {w}
    /\ UNCHANGED <<now, lease, mainVars, hbVars, taker, crossed>>

(***************************************************************************)
(* retake(): the request of a run that lost its lease and has its attempts *)
(* to close, and its answer, which clears _lost.  Nothing keeps it apart   *)
(* from the requests of the run's own heartbeat thread.                    *)
(***************************************************************************)
RetakeRequest(r) ==
    /\ Retakes
    /\ phase[r] = "failing"
    /\ Takeable(r, Clock(r))
    /\ lease' = [owner |-> r, expires |-> Clock(r) + Term]
    /\ taker' = r
    /\ retakeSent' = [retakeSent EXCEPT ![r] = Clock(r)]
    /\ phase' = [phase EXCEPT ![r] = "retaking"]
    /\ crossed' = [crossed EXCEPT ![r] = InFlight(r) \/ hb[r] = "releasing"]
    /\ UNCHANGED <<now, previous, renewedAt, lost, writesFrom, prevExpiry,
                   ending, hbVars, writes>>

RetakeAnswer(r) ==
    /\ phase[r] = "retaking"
    /\ phase' = [phase EXCEPT ![r] = "closing"]
    /\ lost' = [lost EXCEPT ![r] = FALSE]
    /\ renewedAt' = [renewedAt EXCEPT ![r] = retakeSent[r]]
    /\ UNCHANGED <<now, lease, previous, writesFrom, prevExpiry, retakeSent,
                   ending, hbVars, writes, taker, crossed>>

(***************************************************************************)
(* Leaving.  A stop does not wait for the requests in flight; a run that   *)
(* ended or failed has waited for its pools.                               *)
(***************************************************************************)
HandsOnNever(r) == FALSE \* mutant: the takeover wait is not handed on

HandsOn(r) == writesFrom[r] > Clock(r)

Earlier(a, b) == IF a <= b THEN a ELSE b

ExitBegin(r, stopped) ==
    /\ phase[r] \in {"open", "failing", "closing"}
    /\ stopped \/ \A w \in writes : w.by # r
    /\ ending' = [ending EXCEPT ![r] =
            [held  |-> ~lost[r],
             how   |-> IF HandsOn(r) \/ stopped THEN "expire" ELSE "release",
             at    |-> IF HandsOn(r) THEN prevExpiry[r] ELSE Clock(r),
             since |-> Clock(r)]]
    /\ lost' = [lost EXCEPT ![r] = TRUE]
    /\ phase' = [phase EXCEPT ![r] = "exiting"]
    /\ writes' = {IF w.by = r
                  THEN [w EXCEPT !.until = Earlier(@, now + SendDelay + Request)]
                  ELSE w : w \in writes}
    /\ UNCHANGED <<now, lease, previous, renewedAt, writesFrom, prevExpiry,
                   retakeSent, hbVars, taker, crossed>>

GiveUp(r) ==
    /\ phase[r] = "exiting"
    /\ lease' = IF ending[r].held
                THEN GivenUp(r, ending[r].how, ending[r].at) ELSE lease
    /\ phase' = [phase EXCEPT ![r] = "ended"]
    /\ UNCHANGED <<now, previous, renewedAt, lost, writesFrom, prevExpiry,
                   retakeSent, ending, hbVars, writes, taker, crossed>>

\* The give-up request failed: the lease expires by itself.
GiveUpFails(r) ==
    /\ phase[r] = "exiting"
    /\ phase' = [phase EXCEPT ![r] = "ended"]
    /\ UNCHANGED <<now, lease, previous, renewedAt, lost, writesFrom,
                   prevExpiry, retakeSent, ending, hbVars, writes, taker,
                   crossed>>

\* The process is killed: its requests in flight still land.
Die(r) ==
    /\ InBlock(r) \/ phase[r] \in {"read", "exiting"}
    /\ phase' = [phase EXCEPT ![r] = "dead"]
    /\ hb' = [hb EXCEPT ![r] = "off"]
    /\ UNCHANGED <<now, lease, previous, renewedAt, lost, writesFrom,
                   prevExpiry, retakeSent, ending, hbSent, hbAt, writes, taker,
                   crossed>>

(***************************************************************************)
(* The heartbeat thread.                                                   *)
(***************************************************************************)
HeartbeatSend(r) ==
    /\ hb[r] = "idle"
    /\ ~StopSet(r)
    /\ Clock(r) >= hbAt[r] + (Term \div 6)
    /\ hb' = [hb EXCEPT ![r] = "sent"]
    /\ hbSent' = [hbSent EXCEPT ![r] = Clock(r)]
    /\ crossed' = [crossed EXCEPT ![r] = @ \/ phase[r] = "retaking"]
    /\ UNCHANGED <<now, lease, mainVars, hbAt, writes, taker>>

\* The registry applies the conditional write of the renewal.
HeartbeatApply(r) ==
    /\ hb[r] = "sent"
    /\ IF Takeable(r, hbSent[r])
       THEN /\ lease' = [owner |-> r, expires |-> hbSent[r] + Term]
            /\ hb' = [hb EXCEPT ![r] = "held"]
       ELSE /\ lease' = lease
            /\ hb' = [hb EXCEPT ![r] = "denied"]
    /\ UNCHANGED <<now, mainVars, hbSent, hbAt, writes, taker, crossed>>

\* try_acquire_lease raised, with or without the registry having applied it.
HeartbeatError(r) ==
    /\ hb[r] \in {"sent", "held", "denied"}
    /\ lost' = [lost EXCEPT ![r] = @ \/ Expiring(r)]
    /\ hb' = [hb EXCEPT ![r] = IF Expiring(r) THEN "off" ELSE "idle"]
    /\ hbAt' = [hbAt EXCEPT ![r] = Clock(r)]
    /\ UNCHANGED <<now, lease, phase, previous, renewedAt, writesFrom,
                   prevExpiry, retakeSent, ending, hbSent, writes, taker,
                   crossed>>

\* The answer: another run holds the lease; or it came after the lease had
\* expired, which is then lost (_lose) and given back (_release).
HeartbeatDenied(r) ==
    /\ hb[r] = "denied"
    /\ lost' = [lost EXCEPT ![r] = TRUE]
    /\ hb' = [hb EXCEPT ![r] = "off"]
    /\ UNCHANGED <<now, lease, phase, previous, renewedAt, writesFrom,
                   prevExpiry, retakeSent, ending, hbSent, hbAt, writes, taker,
                   crossed>>

HeartbeatTooLate(r) ==
    /\ hb[r] = "held"
    /\ TooLate(r)
    /\ lost' = [lost EXCEPT ![r] = TRUE]
    /\ hb' = [hb EXCEPT ![r] = "releasing"]
    /\ UNCHANGED <<now, lease, phase, previous, renewedAt, writesFrom,
                   prevExpiry, retakeSent, ending, hbSent, hbAt, writes, taker,
                   crossed>>

HeartbeatReleases(r) ==
    /\ hb[r] = "releasing"
    /\ \/ lease' = GivenUp(r, "release", 0)
       \/ lease' = lease \* the request failed
    /\ hb' = [hb EXCEPT ![r] = "off"]
    /\ UNCHANGED <<now, mainVars, hbSent, hbAt, writes, taker, crossed>>

\* Or it renews the term; if the run ended meanwhile, the thread gives the
\* lease up again (self._give_up) and ends.
HeartbeatRenewed(r) ==
    /\ hb[r] = "held"
    /\ ~TooLate(r)
    /\ renewedAt' = [renewedAt EXCEPT ![r] = hbSent[r]]
    /\ hb' = [hb EXCEPT ![r] = "renewed"]
    /\ UNCHANGED <<now, lease, phase, previous, lost, writesFrom, prevExpiry,
                   retakeSent, ending, hbSent, hbAt, writes, taker, crossed>>

HeartbeatContinues(r) ==
    /\ hb[r] = "renewed"
    /\ ~StopSet(r)
    /\ hb' = [hb EXCEPT ![r] = "idle"]
    /\ hbAt' = [hbAt EXCEPT ![r] = Clock(r)]
    /\ UNCHANGED <<now, lease, mainVars, hbSent, writes, taker, crossed>>

HeartbeatGivesUp(r) ==
    /\ hb[r] = "renewed"
    /\ StopSet(r)
    /\ \/ lease' = GivenUp(r, ending[r].how, ending[r].at)
       \/ lease' = lease \* the request failed
    /\ hb' = [hb EXCEPT ![r] = "off"]
    /\ UNCHANGED <<now, mainVars, hbSent, hbAt, writes, taker, crossed>>

\* self._stop.wait returns True: the thread ends.
HeartbeatStops(r) ==
    /\ hb[r] = "idle"
    /\ StopSet(r)
    /\ hb' = [hb EXCEPT ![r] = "off"]
    /\ UNCHANGED <<now, lease, mainVars, hbSent, hbAt, writes, taker, crossed>>

(***************************************************************************)
(* The environment: time, which no thread of a live run outlasts by more   *)
(* than Pause and no write by more than its request, and DynamoDB's TTL.   *)
(***************************************************************************)
Timely(r) ==
    /\ hb[r] # "off" => Clock(r) < hbAt[r] + Pause
    /\ phase[r] = "retaking" => Clock(r) < retakeSent[r] + Pause
    /\ phase[r] = "exiting" => Clock(r) < ending[r].since + Pause

Tick ==
    /\ now < MaxTime
    /\ \A w \in writes : now + 1 < w.until
    /\ \A r \in Runs : Timely(r)
    /\ now' = now + 1
    /\ UNCHANGED <<lease, mainVars, hbVars, writes, taker, crossed>>

TtlDrop ==
    /\ lease.owner # NoRun
    /\ now >= lease.expires + TtlGrace
    /\ lease' = NoLease
    /\ UNCHANGED <<now, mainVars, hbVars, writes, taker, crossed>>

MainStep(r) ==
    \/ ReadHolder(r) \/ AcquireLease(r) \/ AcquireDenied(r)
    \/ PassFence(r) \/ FailFence(r)
    \/ RetakeRequest(r) \/ RetakeAnswer(r)
    \/ \E stopped \in BOOLEAN : ExitBegin(r, stopped)
    \/ GiveUp(r) \/ GiveUpFails(r)
    \/ Die(r)

HeartbeatStep(r) ==
    \/ HeartbeatSend(r) \/ HeartbeatApply(r) \/ HeartbeatError(r)
    \/ HeartbeatDenied(r) \/ HeartbeatTooLate(r) \/ HeartbeatReleases(r)
    \/ HeartbeatRenewed(r) \/ HeartbeatContinues(r) \/ HeartbeatGivesUp(r)
    \/ HeartbeatStops(r)

Next ==
    \/ \E r \in Runs : MainStep(r) \/ HeartbeatStep(r)
    \/ \E w \in writes : Land(w)
    \/ Tick
    \/ TtlDrop

Spec == Init /\ [][Next]_vars

-----------------------------------------------------------------------------
TypeOK ==
    /\ now \in Nat
    /\ lease \in [owner : Runs \union {NoRun}, expires : Nat]
    /\ phase \in [Runs -> Phases]
    /\ previous \in [Runs -> [owner : Runs \union {NoRun}, expires : Nat]]
    /\ renewedAt \in [Runs -> Nat]
    /\ lost \in [Runs -> BOOLEAN]
    /\ writesFrom \in [Runs -> Nat]
    /\ prevExpiry \in [Runs -> Nat]
    /\ hb \in [Runs -> HbStates]
    /\ hbSent \in [Runs -> Nat]
    /\ hbAt \in [Runs -> Nat]
    /\ retakeSent \in [Runs -> Nat]
    /\ ending \in [Runs -> [held : BOOLEAN, how : {"release", "expire"},
                            at : Nat, since : Nat]]
    /\ writes \subseteq [by : Runs, until : Nat]
    /\ taker \in Runs \union {NoRun}
    /\ crossed \in [Runs -> BOOLEAN]

\* A run whose fence would let a write out now (takeover wait aside).
Trusted(r) ==
    /\ phase[r] \in {"open", "closing"}
    /\ ~lost[r] /\ ~Expiring(r)

(***************************************************************************)
(* The fence decides from the run's own clock and its last renewal only;   *)
(* yet whenever it would let a write out, the registry's lease is that     *)
(* run's and no run, whatever its clock, could take it                     *)
(* (namespace_lease.check_held against try_acquire_lease).  Excepted is a  *)
(* run that retook its lease across a request of its own heartbeat, of     *)
(* which RetakesHold says what becomes.                                    *)
(***************************************************************************)
FenceHeld ==
    \A r \in Runs : Trusted(r) /\ ~crossed[r] =>
        /\ lease.owner = r
        /\ \A q \in Runs : Clock(q) < lease.expires

(***************************************************************************)
(* A run the fence trusts has not been overtaken since it took the lease:  *)
(* no other run acquired it, wrote and released it while a renewal of this *)
(* one was slow (namespace_lease._heartbeat's check of its last renewal).  *)
(* The same retakes are excepted.                                          *)
(***************************************************************************)
NoInterloper == \A r \in Runs : Trusted(r) /\ ~crossed[r] => taker = r

(***************************************************************************)
(* retake() "returns whether this run holds it again": a run that retook   *)
(* its lease and whose fence lets its last write out holds the lease.      *)
(***************************************************************************)
RetakesHold ==
    \A r \in Runs : phase[r] = "closing" /\ Trusted(r) => lease.owner = r

(***************************************************************************)
(* The writes of two runs are never in flight together: the first write of *)
(* a run that took over an expired lease, or one given up by a stopped     *)
(* run, goes out after the last write of every earlier holder has landed,  *)
(* so it is never overwritten by it (namespace_lease, the takeover wait).  *)
(***************************************************************************)
WritesExclusive == \A v, w \in writes : v.by = w.by

(***************************************************************************)
(* The inductive invariant behind FenceHeld.                               *)
(***************************************************************************)
\* The times a run noted are in its past, in the order it noted them.
TimesOrdered(r) ==
    /\ renewedAt[r] <= Clock(r)
    /\ phase[r] \in {"retaking", "closing"} => Retakes
    /\ phase[r] = "retaking" => retakeSent[r] <= Clock(r)
    /\ phase[r] \in {"new", "read", "dead"} => hb[r] = "off"
    /\ hb[r] # "off" => hbAt[r] <= Clock(r)
    /\ InFlight(r) => hbAt[r] <= hbSent[r] /\ hbSent[r] <= Clock(r)

\* A heartbeat request and a retake that do not cross: the request is later
\* than what the run trusts, and a lease is given back only once lost.
Uncrossed(r) ==
    /\ InFlight(r) => renewedAt[r] <= hbSent[r] /\ phase[r] # "retaking"
    /\ hb[r] = "releasing" => lost[r] /\ phase[r] # "retaking"

\* The registry has the lease as r's until t + Term at least, unless the
\* clocks have already passed that.
Secured(r, t) ==
    now + MaxSkew < t + Term =>
        /\ lease.owner = r
        /\ t + Term <= lease.expires

RunInv(r) ==
    /\ TimesOrdered(r)
    /\ crossed[r] => Retakes
    /\ ~crossed[r] =>
        /\ Uncrossed(r)
        /\ hb[r] = "held" /\ InBlock(r) => Secured(r, hbSent[r])
        /\ phase[r] = "retaking" => Secured(r, retakeSent[r])
        /\ phase[r] \in {"open", "closing"} /\ ~lost[r]
             => Secured(r, renewedAt[r])

LeaseInv == \A r \in Runs : RunInv(r)
=============================================================================
