-------------------------- MODULE MCNamespaceLease --------------------------
(***************************************************************************)
(* Model-checking instances of NamespaceLease.                             *)
(***************************************************************************)
EXTENDS NamespaceLease, TLC

CONSTANTS r1, r2, r3

NoSkew == [r \in Runs |-> 0]

Symmetry == Permutations(Runs)

(***************************************************************************)
(* What of a state a later step can still read: a run that is over has     *)
(* only its phase, and each field of a running one counts only while some  *)
(* step of its phase reads it.  Where no thread ever holds the clock back  *)
(* (Unhurried), a heartbeat with nothing left to do counts as stopped.     *)
(***************************************************************************)
Unhurried == Pause > MaxTime

Thread(r) ==
    IF Unhurried /\ StopSet(r) /\ hb[r] \in {"idle", "denied"}
    THEN "off" ELSE hb[r]

Over(r) == phase[r] \in {"new", "ended", "dead"} /\ Thread(r) = "off"

Live(r, relevant, value) == IF ~Over(r) /\ relevant THEN value ELSE 0

\* A request that gives the lease up is to come from the run or its thread.
ToGiveUp(r) ==
    StopSet(r) /\ \/ phase[r] = "exiting" /\ ending[r].held
                  \/ hb[r] \in {"sent", "held", "renewed"}

StateView ==
    <<now, lease, phase, writes, [r \in Runs |-> Thread(r)],
      IF taker \in Runs /\ ~InBlock(taker) THEN NoRun ELSE taker,
      [r \in Runs |->
        <<phase[r] \in {"retaking", "closing"} /\ crossed[r],
          IF phase[r] = "read" THEN previous[r] ELSE NoLease,
          Live(r, IF InBlock(r) THEN ~lost[r] \/ hb[r] # "off"
                  ELSE hb[r] \in {"sent", "held"}, renewedAt[r]),
          ~Over(r) /\ lost[r],
          Live(r, InBlock(r) /\ HandsOn(r), writesFrom[r]),
          Live(r, InBlock(r) /\ HandsOn(r), prevExpiry[r]),
          Live(r, phase[r] = "retaking", retakeSent[r]),
          IF ToGiveUp(r) THEN ending[r].how ELSE "none",
          phase[r] = "exiting" /\ ending[r].held,
          Live(r, ToGiveUp(r) /\ ending[r].how = "expire", ending[r].at),
          Live(r, phase[r] = "exiting" /\ ~Unhurried, ending[r].since),
          Live(r, hb[r] \in {"sent", "held"}, hbSent[r]),
          Live(r, hb[r] # "off" /\ (~Unhurried \/ Term >= 6), hbAt[r])>>]>>
=============================================================================
