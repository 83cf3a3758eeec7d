--------------------------- MODULE PolicyCompiler ---------------------------
(***************************************************************************)
(* policy/compiler.py: the validation a bundle goes through before it is   *)
(* ever evaluated (pep/pipeline.py compiles its bundle at import).  Errors *)
(* reject the bundle; a shadowed rule is only a warning.  Rules are named  *)
(* by their place in the file.                                             *)
(***************************************************************************)
EXTENDS PolicyEngine

CONSTANTS KNOWN_ROLES, KNOWN_WORKLOADS

UnknownRoles(rules) == {i \in DOMAIN rules : rules[i].role \notin KNOWN_ROLES}

UnknownWorkloads(table) ==
  {i \in DOMAIN table :
     ~ {table[i].source_workload, table[i].dest_workload}
          \subseteq KNOWN_WORKLOADS \union {"*"}}

SameTarget(r, s) == r.destination = s.destination /\ r.resource = s.resource

\* Copied rules whose effect was flipped and whose priority was not changed.
Overlaps(rules) ==
  {p \in (DOMAIN rules) \X (DOMAIN rules) :
     LET r == rules[p[1]]
         s == rules[p[2]]
     IN /\ p[1] < p[2]
        /\ r.role = s.role /\ r.priority = s.priority /\ r.effect # s.effect
        /\ r.tool \intersect s.tool # {}
        /\ SameTarget(r, s)}

WithoutCriticalPath(rules) ==
  {role \in KNOWN_ROLES :
     ~ \E i \in DOMAIN rules : rules[i].role = role /\ rules[i].critical_path}

\* compile_bundle raises unless there is no error of any kind.
Compiles(rules, table) ==
  /\ UnknownRoles(rules) = {} /\ Overlaps(rules) = {}
  /\ WithoutCriticalPath(rules) = {} /\ UnknownWorkloads(table) = {}

\* Higher priority, or the same and the smaller identifier.
Outranks(s, r) ==
  s.priority > r.priority \/ (s.priority = r.priority /\ s.id < r.id)

Unrestricted(r) == r.destination = {} /\ r.resource = {}

\* Mutant: a restricted rule may shadow too.
ShadowsAnyTarget(rules, j, i) ==
  LET r == rules[i]
      s == rules[j]
  IN /\ j # i /\ s.role = r.role /\ r.tool \subseteq s.tool
     /\ \/ s.effect = DENY /\ r.effect = ALLOW
        \/ s.effect = r.effect /\ Outranks(s, r)

\* Rule j is taken to win every request rule i matches.
Shadows(rules, j, i) ==
  LET r == rules[i]
      s == rules[j]
  IN /\ j # i /\ s.role = r.role
     /\ Unrestricted(s)
     /\ r.tool \subseteq s.tool
     /\ \/ s.effect = DENY /\ r.effect = ALLOW
        \/ s.effect = r.effect /\ Outranks(s, r)

\* The SHADOWED_RULE warnings: one per rule, naming the first that shadows it.
ShadowWarnings(rules) ==
  {w \in (DOMAIN rules) \X (DOMAIN rules) :
     /\ Shadows(rules, w[2], w[1])
     /\ \A j \in 1 .. w[2] - 1 : ~Shadows(rules, j, w[1])}
=============================================================================
