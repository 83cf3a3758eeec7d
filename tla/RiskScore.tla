----------------------------- MODULE RiskScore -----------------------------
(***************************************************************************)
(* The arithmetic of risk/scorer.py: what each factor is worth, the caps,  *)
(* and the band a total falls into.  The state the behavioural factors are *)
(* read from is in RiskScorer.                                             *)
(***************************************************************************)
EXTENDS Lattice

THREAT_INTEL_HIT         == 60
DEST_NEVER_SEEN_BY_AGENT == 10
DEST_UNKNOWN_TO_ORG      == 15
ACTION_POINTS            == {0, 10, 25, 30}
DATA_CLASS_POINTS        == {0, 10, 25, 40}
TAINTED_AND_EXTERNAL     == 30
RATE_ANOMALY             == 20
UNSEEN_BIGRAM            == 15
DENIAL_STREAK_PER_HIT    == 5
DENIAL_STREAK_CAP        == 25
CATEGORY_CAP             == 60
TOTAL_CAP                == 100

AtMost(n, cap) == IF n <= cap THEN n ELSE cap

StreakPoints(streak) == AtMost(streak * DENIAL_STREAK_PER_HIT, DENIAL_STREAK_CAP)

\* The factor vectors score() can return; an absent factor is worth nothing.
Factors ==
  [intel       : {0, THREAT_INTEL_HIT},
   destination : {0, DEST_NEVER_SEEN_BY_AGENT, DEST_UNKNOWN_TO_ORG},
   action      : ACTION_POINTS,
   data        : DATA_CLASS_POINTS,
   tainted     : {0, TAINTED_AND_EXTERNAL},
   rate        : {0, RATE_ANOMALY},
   bigram      : {0, UNSEEN_BIGRAM},
   streak      : 0 .. DENIAL_STREAK_CAP]

Capped(points) == AtMost(points, CATEGORY_CAP)

Total(f) ==
  AtMost(Capped(f.intel) + Capped(f.destination) + Capped(f.action) + Capped(f.data)
           + Capped(f.tainted) + Capped(f.rate) + Capped(f.bigram) + Capped(f.streak),
         TOTAL_CAP)

Band(total) ==
  IF total >= 75 THEN "CRITICAL"
  ELSE IF total >= 50 THEN "HIGH"
  ELSE IF total >= 25 THEN "MODERATE"
  ELSE "LOW"
=============================================================================
