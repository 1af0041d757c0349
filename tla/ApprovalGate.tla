---------------------------- MODULE ApprovalGate ----------------------------
(***************************************************************************)
(* createInMemoryApprovalGate of packages/approval-gate: human approvals   *)
(* of one exact action, denials, and the check that lets an action run and *)
(* uses its approval up.                                                   *)
(*                                                                         *)
(* The methods are synchronous, one call is one step.  Inputs that fail a  *)
(* schema or a parse change nothing and are left out; a target is one      *)
(* value, compared as isDeepStrictEqual does; time is a small counter that *)
(* only advances (the default clock of the gate is the system's).          *)
(***************************************************************************)
EXTENDS Naturals, Sequences, FiniteSets

CONSTANTS
  None,            \* an absent field
  GateTasks, Proofs, Runs, Targets,
  Actions,         \* the actions approvals and requests name
  ApprovalIds,
  VerifiedProofs,  \* verified_proof_ids
  MaxTime          \* bound of the clock

executableActions == {"create_pr"}

\* ApprovalScope and the scope fields of ApprovalRequest; run_id is optional
Scope ==
  [task_id : GateTasks, proof_id : Proofs, run_id : Runs \cup {None},
   action : Actions, target : Targets]

ApprovalRecord == [scope : Scope, expires_at : 0..MaxTime]

\* ApprovalRequest: approval_id is optional
ApprovalRequest == [approval_id : ApprovalIds \cup {None}, scope : Scope]

\* A parsed ApprovalDenial is a scope that has no run_id.
ApprovalDenial == {s \in Scope : s.run_id = None}

ASSUME GateAssumption ==
  /\ MaxTime \in Nat
  /\ VerifiedProofs \subseteq Proofs
  /\ None \notin ApprovalIds
  /\ None \notin Runs
  /\ None \notin ApprovalRecord

VARIABLES
  approvals,        \* approvals: the record under each id
  granted,          \* the keys of that Map in insertion order
  usedApprovalIds,  \* usedApprovalIds
  denials,          \* denials
  clock,            \* now()
  authorized        \* history: what authorize has let through, in order

gateVars == <<approvals, granted, usedApprovalIds, denials, clock, authorized>>

GateInit ==
  /\ approvals = [a \in ApprovalIds |-> None]
  /\ granted = << >>
  /\ usedApprovalIds = {}
  /\ denials = {}
  /\ clock = 0
  /\ authorized = << >>

-----------------------------------------------------------------------------
canExecute(action) == action \in executableActions

\* Mutant: the last moment of an approval still counts.
isExpiredAfterLimit(expires_at) == expires_at < clock

isExpired(expires_at) == expires_at <= clock

\* matchesApprovalScope: every field is compared, run_id too
matchesApprovalScope(scope, requested) == scope = requested

IsDenied(scope) == \E d \in denials : matchesApprovalScope(d, scope)

\* Mutant: the newest key whose approval matches.
LastMatch(scope) ==
  LET hits == {i \in DOMAIN granted :
                 matchesApprovalScope(approvals[granted[i]].scope, scope)}
  IN  IF hits = {} THEN None
      ELSE granted[CHOOSE i \in hits : \A j \in hits : j <= i]

\* [...approvals.values()].find(...): the oldest key whose approval matches
FirstMatch(scope) ==
  LET hits == {i \in DOMAIN granted :
                 matchesApprovalScope(approvals[granted[i]].scope, scope)}
  IN  IF hits = {} THEN None
      ELSE granted[CHOOSE i \in hits : \A j \in hits : i <= j]

\* The approval a request is checked against: the one it names, or the first
\* whose scope matches.
Selected(req) ==
  IF req.approval_id = None THEN FirstMatch(req.scope)
  ELSE IF approvals[req.approval_id] = None THEN None
  ELSE req.approval_id

\* Mutant: the approval a request names is not compared with the request.
CheckWithoutMismatch(req) ==
  LET id == Selected(req)
  IN  IF ~canExecute(req.scope.action) THEN "forbidden_action"
      ELSE IF req.scope.proof_id \notin VerifiedProofs THEN "unverified_proof"
      ELSE IF IsDenied(req.scope) THEN "approval_denied"
      ELSE IF id = None THEN "approval_required"
      ELSE IF id \in usedApprovalIds THEN "approval_replayed"
      ELSE IF isExpired(approvals[id].expires_at) THEN "approval_expired"
      ELSE "ok"

\* checkAuthorization, up to its effect: the refusal, or "ok"
CheckAuthorization(req) ==
  LET id == Selected(req)
  IN  IF ~canExecute(req.scope.action) THEN "forbidden_action"
      ELSE IF req.scope.proof_id \notin VerifiedProofs THEN "unverified_proof"
      ELSE IF IsDenied(req.scope) THEN "approval_denied"
      ELSE IF id = None THEN "approval_required"
      ELSE IF id \in usedApprovalIds THEN "approval_replayed"
      ELSE IF isExpired(approvals[id].expires_at) THEN "approval_expired"
      ELSE IF ~matchesApprovalScope(approvals[id].scope, req.scope)
      THEN "approval_mismatch"
      ELSE "ok"

-----------------------------------------------------------------------------
\* Mutant: a new record under an id may be used again.
GrantRefreshingUse(id, record) ==
  /\ record.scope.proof_id \in VerifiedProofs
  /\ ~isExpired(record.expires_at)
  /\ approvals' = [approvals EXCEPT ![id] = record]
  /\ granted' = IF approvals[id] = None THEN Append(granted, id) ELSE granted
  /\ usedApprovalIds' = usedApprovalIds \ {id}
  /\ UNCHANGED <<denials, clock, authorized>>

\* Mutant: granting lifts an earlier denial.
GrantLiftingDenials(id, record) ==
  /\ record.scope.proof_id \in VerifiedProofs
  /\ ~isExpired(record.expires_at)
  /\ approvals' = [approvals EXCEPT ![id] = record]
  /\ granted' = IF approvals[id] = None THEN Append(granted, id) ELSE granted
  /\ denials' = denials \ {record.scope}
  /\ UNCHANGED <<usedApprovalIds, clock, authorized>>

\* Mutant: every grant adds a key.
GrantAppendingAlways(id, record) ==
  /\ record.scope.proof_id \in VerifiedProofs
  /\ ~isExpired(record.expires_at)
  /\ Len(granted) <= Cardinality(ApprovalIds)   \* bound of the mutant
  /\ approvals' = [approvals EXCEPT ![id] = record]
  /\ granted' = Append(granted, id)
  /\ UNCHANGED <<usedApprovalIds, denials, clock, authorized>>

\* grant: an id granted again gets the new record and keeps its place in the
\* Map; whether it was used before is not asked.
Grant(id, record) ==
  /\ record.scope.proof_id \in VerifiedProofs
  /\ ~isExpired(record.expires_at)
  /\ approvals' = [approvals EXCEPT ![id] = record]
  /\ granted' = IF approvals[id] = None THEN Append(granted, id) ELSE granted
  /\ UNCHANGED <<usedApprovalIds, denials, clock, authorized>>

\* deny
Deny(denial) ==
  /\ canExecute(denial.action)
  /\ denial.proof_id \in VerifiedProofs
  /\ denials' = denials \cup {denial}
  /\ UNCHANGED <<approvals, granted, usedApprovalIds, clock, authorized>>

\* Mutant: the action runs, the approval stays unused.
AuthorizeUnused(req) ==
  /\ CheckAuthorization(req) = "ok"
  /\ Len(authorized) <= Cardinality(ApprovalIds)   \* bound of the mutant
  /\ authorized' = Append(authorized,
                     [approval_id |-> Selected(req), scope |-> req.scope])
  /\ UNCHANGED <<approvals, granted, usedApprovalIds, denials, clock>>

\* Mutant: what is marked used is the id in the request, which may be absent.
AuthorizeNamed(req) ==
  /\ CheckAuthorization(req) = "ok"
  /\ usedApprovalIds' = usedApprovalIds \cup {req.approval_id}
  /\ Len(authorized) <= Cardinality(ApprovalIds)   \* bound of the mutant
  /\ authorized' = Append(authorized,
                     [approval_id |-> Selected(req), scope |-> req.scope])
  /\ UNCHANGED <<approvals, granted, denials, clock>>

\* authorize, when it lets the action run: the approval is used up. A refusal,
\* and previewAuthorize, change nothing.
Authorize(req) ==
  /\ CheckAuthorization(req) = "ok"
  /\ usedApprovalIds' = usedApprovalIds \cup {Selected(req)}
  /\ authorized' = Append(authorized,
                     [approval_id |-> Selected(req), scope |-> req.scope])
  /\ UNCHANGED <<approvals, granted, denials, clock>>

\* Time passes.
Tick ==
  /\ clock < MaxTime
  /\ clock' = clock + 1
  /\ UNCHANGED <<approvals, granted, usedApprovalIds, denials, authorized>>

GateNext ==
  \/ \E id \in ApprovalIds, record \in ApprovalRecord : Grant(id, record)
  \/ \E d \in ApprovalDenial : Deny(d)
  \/ \E req \in ApprovalRequest : Authorize(req)
  \/ Tick

GateSpec == GateInit /\ [][GateNext]_gateVars

-----------------------------------------------------------------------------
(* Properties.                                                             *)

\* Type invariant of the gate; `granted` lists the keys of `approvals` once.
GateTypeOK ==
  /\ approvals \in [ApprovalIds -> ApprovalRecord \cup {None}]
  /\ granted \in Seq({a \in ApprovalIds : approvals[a] # None})
  /\ Len(granted) = Cardinality({a \in ApprovalIds : approvals[a] # None})
  /\ usedApprovalIds \subseteq ApprovalIds
  /\ denials \subseteq ApprovalDenial
  /\ clock \in 0..MaxTime
  /\ authorized \in Seq([approval_id : ApprovalIds, scope : Scope])

\* An approval id authorizes at most one action, also when a human grants a
\* new record under the same id, with another scope or expiry, afterwards.
SingleUse ==
  \A i, j \in DOMAIN authorized :
    authorized[i].approval_id = authorized[j].approval_id => i = j

\* What authorize lets through is covered by an approval that stood when it
\* did: same scope, not yet expired, a proof that was verified.  A request
\* that names an approval granted for something else gets nothing.
AuthorizedWithinApproval ==
  [][\A i \in DOMAIN authorized' \ DOMAIN authorized :
       LET auth == authorized'[i]
       IN  /\ approvals[auth.approval_id] # None
           /\ approvals[auth.approval_id].scope = auth.scope
           /\ clock < approvals[auth.approval_id].expires_at
           /\ auth.scope.proof_id \in VerifiedProofs
    ]_gateVars

\* A denial of an action whose scope names no run is final: no approval given
\* before or after it lifts it or lets the action run.
DenialIsFinal ==
  [][\A d \in denials :
       /\ d \in denials'
       /\ \A i \in DOMAIN authorized' \ DOMAIN authorized :
            authorized'[i].scope # d
    ]_gateVars

\* packages/approval-gate/test/approval-gate.test.ts "treats denial and
\* timeout as terminal outcomes for that action": after the denial of an action
\* on a target for a proof, that action is not authorized, whichever run asks.
DenialIsTerminalForAction ==
  [][\A d \in denials : \A i \in DOMAIN authorized' \ DOMAIN authorized :
       [authorized'[i].scope EXCEPT !.run_id = None] # d
    ]_gateVars

\* An approval that is unused, unexpired and not denied does work: for a
\* request that names it always, and for one that names none unless an approval
\* of the same scope whose key is older was used up or ran out. That one hides
\* it (approval-gate.ts:154); nothing else does.
GoodApprovalWorks ==
  \A id \in ApprovalIds \ usedApprovalIds :
    approvals[id] # None =>
      LET scope == approvals[id].scope
          Check(name) == CheckAuthorization([approval_id |-> name,
                                             scope |-> scope])
      IN  /\ canExecute(scope.action)
          /\ ~IsDenied(scope)
          /\ clock < approvals[id].expires_at
          => /\ Check(id) = "ok"
             /\ \/ Check(None) = "ok"
                \/ \E i, j \in DOMAIN granted :
                     /\ i < j /\ granted[j] = id
                     /\ approvals[granted[i]].scope = scope
                     /\ \/ granted[i] \in usedApprovalIds
                        \/ isExpired(approvals[granted[i]].expires_at)
=============================================================================
