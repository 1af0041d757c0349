-------------------------- MODULE CapabilityRouting --------------------------
(***************************************************************************)
(* routeCapability of packages/capability-router: the one entry of the     *)
(* registry that may do a task.  A registry is a sequence, since the       *)
(* loader does not ask that ids differ; sets of its indices stand for the  *)
(* filtered lists of the code.                                             *)
(***************************************************************************)
EXTENDS Refusals

riskRank == [low |-> 1, medium |-> 2, high |-> 3]

routeFailureCodes ==
  << "unsupported_task_type", "unknown_capability", "overbroad_capability",
     "risk_too_low", "permission_denied", "permission_unsupported",
     "ambiguous_capability" >>

TaskMatches(registry, task) ==
  {i \in DOMAIN registry : task.task_type \in registry[i].task_types}

\* registry.capabilities.find: the first entry of the suggested id
Suggested(registry, task) ==
  {i \in DOMAIN registry :
     /\ registry[i].id = task.suggested_capability
     /\ \A j \in DOMAIN registry : registry[j].id = registry[i].id => i <= j}

Candidates(registry, task) ==
  IF task.suggested_capability = None THEN TaskMatches(registry, task)
  ELSE Suggested(registry, task)

RiskSafe(registry, task) ==
  {i \in Candidates(registry, task) :
     riskRank[registry[i].risk_level] <= riskRank[task.risk]}

Safe(registry, task) ==
  {i \in RiskSafe(registry, task) :
     task.required_permissions \subseteq registry[i].allow}

\* Mutant: only what the capability does not allow is held against it.
DeniesNothing(registry, task) == FALSE

\* One candidate that denies a required permission fails the whole routing,
\* whatever the others would allow.
DeniesRequired(registry, task) ==
  \E i \in RiskSafe(registry, task) :
    task.required_permissions \cap registry[i].deny # {}

routeFailure(registry, task) ==
  LET suggested == Suggested(registry, task)
      isNamed   == task.suggested_capability # None
      safe      == Safe(registry, task)
  IN  FirstOf(routeFailureCodes, Failing(
        [unsupported_task_type  |-> TaskMatches(registry, task) = {},
         unknown_capability     |-> isNamed /\ suggested = {},
         overbroad_capability   |->
           isNamed /\ ~(suggested \subseteq TaskMatches(registry, task)),
         risk_too_low           |-> RiskSafe(registry, task) = {},
         permission_denied      |-> DeniesRequired(registry, task),
         permission_unsupported |-> safe = {},
         ambiguous_capability   |-> \E i, j \in safe : i # j]))

\* The entry a task is routed to when nothing fails
routeCapability(registry, task) ==
  registry[CHOOSE i \in Safe(registry, task) : TRUE]
=============================================================================
