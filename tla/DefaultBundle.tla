---------------------------- MODULE DefaultBundle ----------------------------
(***************************************************************************)
(* policy/bundles/default.yaml, the bundle the deployed PEP loads.  A      *)
(* rule's identifier is its rank among the bundle's identifiers, and a     *)
(* pattern stands for those of the named hosts, tables and addresses that  *)
(* it matches.                                                             *)
(***************************************************************************)
EXTENDS PolicyEngine

Tables   == {"ledger", "invoices", "customers", "hr", "credentials"}
Helpdesk == {"helpdesk"}

Rule(id, priority, role, tool, effect, destination, resource, taint, class, inspect) ==
  [id |-> id, priority |-> priority, role |-> role, tool |-> tool,
   effect |-> effect, destination |-> destination, resource |-> resource,
   session_taint |-> taint, max_data_class |-> class, inspect |-> inspect]

Grant(id, priority, role, tool, destination, resource, taint, class, inspect) ==
  Rule(id, priority, role, tool, ALLOW, destination, resource, {taint}, class, inspect)

\* The denials name no host, and no taint.
Ban(id, priority, role, tool, resource, class) ==
  Rule(id, priority, role, tool, DENY, {}, resource, {}, class, FALSE)

ResearchRules == <<
  Grant(11, 100, "research_agent", {"http.get"}, {{"trusted-news", "arxiv"}}, {}, Taints,
        "internal", FALSE),
  Ban(12, 200, "research_agent", {"http.post", "http.put", "db.query"}, {}, "secret") >>

FinanceRules == <<
  Grant(5, 100, "finance_agent", {"http.post"}, {{"erp"}}, {}, {"clean"}, "confidential", TRUE),
  Grant(6, 110, "finance_agent", {"db.query"}, {}, {{"ledger", "invoices"}}, Taints,
        "confidential", TRUE),
  Ban(7, 200, "finance_agent", {"http.get"}, {}, "unset"),
  Ban(8, 200, "finance_agent", {"email.send"}, {}, "unset") >>

SupportRules == <<
  Grant(13, 100, "support_agent", {"db.query"}, {}, {{"customers"}}, Taints, "confidential", TRUE),
  Grant(14, 110, "support_agent", {"email.send"}, {}, {Helpdesk}, {"clean"}, "internal", FALSE),
  Ban(15, 200, "support_agent", {"db.query"}, {{"hr", "credentials"}}, "secret"),
  Ban(16, 200, "support_agent", {"http.post", "http.put"}, {}, "unset") >>

AdminRules == <<
  Grant(1, 100, "admin_agent", {"http.get"}, {{"internal-admin"}}, {}, Taints, "internal", FALSE),
  Grant(2, 110, "admin_agent", {"db.query"}, {}, {Tables}, {"clean"}, "secret", TRUE),
  Ban(3, 200, "admin_agent", {"http.post", "http.put"}, {}, "unset"),
  Ban(4, 200, "admin_agent", {"email.send"}, {}, "unset") >>

GlobalRules == <<
  Ban(9, 500, "research_agent", {"email.send", "file.read"}, {}, "unset"),
  Ban(10, 500, "finance_agent", {"file.read"}, {}, "unset") >>

BUNDLE == ResearchRules \o FinanceRules \o SupportRules \o AdminRules \o GlobalRules

EAST_WEST_RULES == <<>>

EffectOf(policy_id) ==
  BUNDLE[CHOOSE i \in DOMAIN BUNDLE : BUNDLE[i].id = policy_id].effect

\* The reason of evaluate()'s result, and of evaluate_east_west()'s.
PolicyReason(outcome) ==
  LET allowed   == outcome.decision = ALLOW
      unmatched == outcome.policy_id = DEFAULT_DENY
      explicit  == EffectOf(outcome.policy_id) = DENY
  IN CASE allowed                               -> "matched_explicit_allow"
       [] ~ allowed /\ unmatched                -> "no_matching_rule"
       [] ~ allowed /\ ~ unmatched /\ explicit  -> "matched_explicit_deny"
       [] OTHER                                 -> "taint_ceiling"

EastWestReason(outcome) ==
  LET allowed   == outcome.decision = ALLOW
      unmatched == outcome.policy_id = DEFAULT_DENY
  IN CASE allowed               -> "matched_explicit_east_west_allow"
       [] ~ allowed /\ unmatched -> "no_matching_east_west_rule"
       [] OTHER                 -> "matched_explicit_east_west_deny"
=============================================================================
