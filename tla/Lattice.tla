------------------------------ MODULE Lattice ------------------------------
(***************************************************************************)
(* The monotonic decision lattice of policy/engine.py and the groupings    *)
(* of verdicts the rest of the program branches on.  Decision is an        *)
(* IntEnum there, so the order is the order of the integers.               *)
(***************************************************************************)
EXTENDS Integers

DENY             == 0
QUARANTINE       == 1
REQUIRE_APPROVAL == 2
RATE_LIMIT       == 3
ALLOW_REDACTED   == 4
ALLOW            == 5

Decision == DENY .. ALLOW

\* "Does the PEP perform the call": asked by pipeline.py and proxy.py.
EXECUTABLE_DECISIONS == {ALLOW, ALLOW_REDACTED, RATE_LIMIT}

\* "Did the firewall stop the call": counted toward quarantine.
BLOCKED_DECISIONS == {DENY, QUARANTINE}

\* final = min(policy, dlp, risk)
Narrowest(S) == CHOOSE d \in S : \A e \in S : d <= e

-----------------------------------------------------------------------------
(***************************************************************************)
(* The risk bands of risk/scorer.py and the ceiling each one puts on the   *)
(* decision.                                                               *)
(***************************************************************************)
Bands == {"LOW", "MODERATE", "HIGH", "CRITICAL"}

Ceiling == [LOW |-> ALLOW, MODERATE |-> RATE_LIMIT,
            HIGH |-> REQUIRE_APPROVAL, CRITICAL |-> QUARANTINE]
=============================================================================
