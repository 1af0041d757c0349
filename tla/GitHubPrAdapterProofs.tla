----------------------- MODULE GitHubPrAdapterProofs -----------------------
(***************************************************************************)
(* Theorems about GitHubPrAdapter for any calls, projections and gate.     *)
(* Answers, launches, denials and time are calls of the gate, so whatever  *)
(* holds of the gate holds of the adapter; what is added is who holds      *)
(* which approval.                                                         *)
(***************************************************************************)
EXTENDS GitHubPrAdapter, ApprovalGateProofs

\* A projection is turned into a record of the gate.
LEMMA ProjectionType ==
  ASSUME NEW p \in Projections
  PROVE  /\ p.approval_id \in ApprovalIds
         /\ p.scope \in Scope
         /\ [scope |-> p.scope, expires_at |-> p.expires_at] \in ApprovalRecord
         /\ safeId[p.approval_id] \in ProjectionIds
BY AdapterAssumption DEF AdapterAssumption, Projection, ApprovalRecord

\* What the adapter asks the gate is a request of the gate.
LEMMA RequestType ==
  ASSUME NEW input \in PrInput
  PROVE  /\ RequestOf(input) \in ApprovalRequest
         /\ RequestOf(input).scope = input.scope
         /\ input.scope \in Scope
BY DEF RequestOf, PrInput, ApprovalRequest

\* What a launch has in hand: an approval of exactly this scope, not yet used.
LEMMA LaunchedRequest ==
  ASSUME GateTypeOK, NEW input \in PrInput, IsAccepted(input)
  PROVE  /\ Selected(RequestOf(input)) \in ApprovalIds
         /\ approvals[Selected(RequestOf(input))] # None
         /\ Selected(RequestOf(input)) \notin usedApprovalIds
         /\ approvals[Selected(RequestOf(input))].scope = input.scope
BY RequestType, CheckedRequest DEF IsAccepted, Keys

-----------------------------------------------------------------------------
(* The adapter is a client of the gate.                                    *)

\* Every step of intake and adapter is one call of the gate, or none.
LEMMA GateStep == [Next]_vars => [GateNext]_gateVars
<1> SUFFICES ASSUME [Next]_vars PROVE [GateNext]_gateVars
  OBVIOUS
<1>1. ASSUME NEW p \in Projections, AnswerProjection(p)
      PROVE  [GateNext]_gateVars
  BY <1>1, ProjectionType DEF AnswerProjection, GateNext
<1>2. ASSUME NEW c \in Calls, NEW input \in PrInput,
             RefusePullRequest(c, input) \/ LaunchRunner(c, input)
      PROVE  [GateNext]_gateVars
  BY <1>2, RequestType DEF RefusePullRequest, LaunchRunner, GateNext
<1>3. ASSUME NEW c \in Calls,
             \/ GhCreates(c)
             \/ \E result \in RunnerResult : RunnerReturns(c, result)
             \/ RunnerThrows(c)
      PROVE  UNCHANGED gateVars
  BY <1>3 DEF GhCreates, RunnerReturns, RunnerThrows
<1>4. CASE \/ \E d \in ApprovalDenial : Deny(d)
           \/ Tick
           \/ UNCHANGED vars
  BY <1>4 DEF GateNext, vars
<1> QED
  BY <1>1, <1>2, <1>3, <1>4 DEF Next

\* Every behaviour of the adapter and its intake is one of the gate, so that
\* the theorems about the gate hold beside a running gh, too.
THEOREM AdapterIsGateClient == Spec => GateSpec
<1>1. Init => GateInit
  BY DEF Init
<1> QED
  BY <1>1, GateStep, PTL DEF Spec, GateSpec

\* The types of intake and adapter alone
AdapterTypeOK ==
  /\ usedProjectionIds \subseteq ProjectionIds
  /\ acceptedApprovalIds \subseteq ApprovalIds
  /\ calls \in [Calls -> [phase : Phases, approval_id : ApprovalIds \cup {None},
                          scope : Scope \cup {None}]]
  /\ prs \in Seq(Calls)
  /\ remote \subseteq Calls

\* Every step keeps the types of intake and adapter.
LEMMA AdapterTypeStep ==
  ASSUME GateTypeOK, AdapterTypeOK, [Next]_vars
  PROVE  AdapterTypeOK'
<1>1. ASSUME NEW p \in Projections, AnswerProjection(p)
      PROVE  AdapterTypeOK'
  BY <1>1, ProjectionType DEF AnswerProjection, AdapterTypeOK, prVars
<1>2. ASSUME NEW c \in Calls, NEW input \in PrInput,
             RefusePullRequest(c, input)
      PROVE  AdapterTypeOK'
  BY <1>2 DEF RefusePullRequest, AdapterTypeOK, Phases, intakeVars
<1>3. ASSUME NEW c \in Calls, NEW input \in PrInput, LaunchRunner(c, input)
      PROVE  AdapterTypeOK'
  BY <1>3, RequestType, LaunchedRequest
     DEF LaunchRunner, AdapterTypeOK, Phases, intakeVars
<1>4. ASSUME NEW c \in Calls, GhCreates(c)
      PROVE  AdapterTypeOK'
  BY <1>4 DEF GhCreates, AdapterTypeOK, intakeVars
<1>5. ASSUME NEW c \in Calls, NEW result \in RunnerResult,
             RunnerReturns(c, result)
      PROVE  AdapterTypeOK'
  <2>1. Outcome(result) \in Phases
    BY DEF Outcome, Phases
  <2>2. prs' \in Seq(Calls)
    BY <1>5, AppendProperties DEF RunnerReturns, AdapterTypeOK
  <2> QED
    BY <1>5, <2>1, <2>2 DEF RunnerReturns, AdapterTypeOK, intakeVars
<1>6. ASSUME NEW c \in Calls, RunnerThrows(c)
      PROVE  AdapterTypeOK'
  BY <1>6 DEF RunnerThrows, AdapterTypeOK, Phases, intakeVars
<1>7. CASE UNCHANGED <<intakeVars, prVars>>
  BY <1>7 DEF AdapterTypeOK, intakeVars, prVars
<1> QED
  BY <1>1, <1>2, <1>3, <1>4, <1>5, <1>6, <1>7 DEF Next, vars

\* The gate, the intake and the adapter always hold what their types say.
THEOREM AdapterTypeCorrect == Spec => []TypeOK
<1>1. Init => AdapterTypeOK
  BY DEF Init, AdapterTypeOK, Idle, Phases
<1>2. TypeOK <=> GateTypeOK /\ AdapterTypeOK
  BY DEF TypeOK, AdapterTypeOK
<1>3. Spec => []GateTypeOK
  BY AdapterIsGateClient, GateTypeCorrect
<1>4. GateTypeOK /\ AdapterTypeOK /\ [Next]_vars => AdapterTypeOK'
  BY AdapterTypeStep
<1> QED
  BY <1>1, <1>2, <1>3, <1>4, PTL DEF Spec

-----------------------------------------------------------------------------
(***************************************************************************)
(* One approval, one run of gh.  A call that launched holds an approval    *)
(* that is used, so the gate will not select it again; the intake accepts  *)
(* an approval id once, so the record it was launched with stays.          *)
(***************************************************************************)
OnlyAcceptedGranted ==
  \A a \in ApprovalIds : approvals[a] # None => a \in acceptedApprovalIds

LaunchInv == OnlyAcceptedGranted /\ RunWasApproved /\ OneRunPerApproval

\* A step that launches nothing and grants nothing changes neither.
LEMMA LaunchInvUnchanged ==
  ASSUME LaunchInv, UNCHANGED <<approvals, usedApprovalIds, intakeVars>>,
         \A c \in Calls :
           /\ Launched(c)' <=> Launched(c)
           /\ calls'[c].approval_id = calls[c].approval_id
           /\ calls'[c].scope = calls[c].scope
  PROVE  LaunchInv'
<1>1. OnlyAcceptedGranted'
  BY DEF LaunchInv, OnlyAcceptedGranted, intakeVars
<1>2. RunWasApproved'
  BY DEF LaunchInv, RunWasApproved, intakeVars
<1>3. OneRunPerApproval'
  BY DEF LaunchInv, OneRunPerApproval
<1> QED
  BY <1>1, <1>2, <1>3 DEF LaunchInv

\* A launch, an answer, and everything else.
LEMMA LaunchInvStep ==
  ASSUME TypeOK, LaunchInv, [Next]_vars
  PROVE  LaunchInv'
<1>0. /\ calls \in [Calls -> [phase : Phases,
                              approval_id : ApprovalIds \cup {None},
                              scope : Scope \cup {None}]]
      /\ approvals \in [ApprovalIds -> ApprovalRecord \cup {None}]
  BY DEF TypeOK, GateTypeOK
<1>1. ASSUME NEW p \in Projections, AnswerProjection(p)
      PROVE  LaunchInv'
  <2>1. /\ p.approval_id \notin acceptedApprovalIds
        /\ acceptedApprovalIds' = acceptedApprovalIds \cup {p.approval_id}
        /\ UNCHANGED <<calls, usedApprovalIds>>
        /\ p.approval_id \in ApprovalIds
    BY <1>1, ProjectionType
       DEF AnswerProjection, IsReplayed, Grant, Tick, gateVars, prVars
  <2>2. \A a \in ApprovalIds \ {p.approval_id} : approvals'[a] = approvals[a]
    BY <1>0, <1>1 DEF AnswerProjection, Grant, Tick, gateVars
  <2>3. OnlyAcceptedGranted'
    BY <2>1, <2>2 DEF LaunchInv, OnlyAcceptedGranted
  <2>4. RunWasApproved'
    <3> SUFFICES ASSUME NEW c \in Calls, Launched(c)'
                 PROVE  /\ calls'[c].approval_id
                             \in acceptedApprovalIds' \cap usedApprovalIds'
                        /\ approvals'[calls'[c].approval_id].scope
                             = calls'[c].scope
      BY DEF RunWasApproved
    <3>1. /\ calls[c].approval_id \in acceptedApprovalIds \cap usedApprovalIds
          /\ approvals[calls[c].approval_id].scope = calls[c].scope
      BY <2>1 DEF LaunchInv, RunWasApproved, Launched
    <3>2. calls[c].approval_id \in ApprovalIds \ {p.approval_id}
      BY <2>1, <3>1 DEF TypeOK
    <3> QED
      BY <2>1, <2>2, <3>1, <3>2
  <2>5. OneRunPerApproval'
    BY <2>1 DEF LaunchInv, OneRunPerApproval, Launched
  <2> QED
    BY <2>3, <2>4, <2>5 DEF LaunchInv
<1>2. ASSUME NEW c \in Calls, NEW input \in PrInput, LaunchRunner(c, input)
      PROVE  LaunchInv'
  <2> DEFINE id == Selected(RequestOf(input))
  <2>1. /\ id \in ApprovalIds /\ approvals[id] # None
        /\ id \notin usedApprovalIds
        /\ approvals[id].scope = input.scope
        /\ usedApprovalIds' = usedApprovalIds \cup {id}
        /\ UNCHANGED <<approvals, acceptedApprovalIds>>
        /\ calls' = [calls EXCEPT ![c] =
             [phase |-> "running", approval_id |-> id, scope |-> input.scope]]
    BY <1>2, LaunchedRequest
       DEF LaunchRunner, Authorize, TypeOK, intakeVars
  <2> HIDE DEF id
  <2>2. /\ calls'[c].approval_id = id /\ calls'[c].scope = input.scope
        /\ \A d \in Calls \ {c} : calls'[d] = calls[d]
    BY <1>0, <2>1
  <2>3. OnlyAcceptedGranted'
    BY <2>1 DEF LaunchInv, OnlyAcceptedGranted
  <2>4. RunWasApproved'
    BY <2>1, <2>2
       DEF LaunchInv, OnlyAcceptedGranted, RunWasApproved, Launched
  <2>5. \A d \in Calls \ {c} : Launched(d)' => calls'[d].approval_id # id
    BY <2>1, <2>2 DEF LaunchInv, RunWasApproved, Launched
  <2>6. OneRunPerApproval'
    BY <2>2, <2>5 DEF LaunchInv, OneRunPerApproval, Launched
  <2> QED
    BY <2>3, <2>4, <2>6 DEF LaunchInv
<1>3. ASSUME NEW c \in Calls, NEW input \in PrInput,
             RefusePullRequest(c, input)
      PROVE  LaunchInv'
  BY <1>0, <1>3, LaunchInvUnchanged
     DEF RefusePullRequest, Launched, gateVars
<1>4. ASSUME NEW c \in Calls, GhCreates(c)
      PROVE  LaunchInv'
  BY <1>4, LaunchInvUnchanged DEF GhCreates, Launched, gateVars
<1>5. ASSUME NEW c \in Calls, NEW result \in RunnerResult,
             RunnerReturns(c, result)
      PROVE  LaunchInv'
  <2>1. Outcome(result) \notin {"idle", "refused"}
    BY DEF Outcome
  <2> QED
    BY <1>0, <1>5, <2>1, LaunchInvUnchanged
       DEF RunnerReturns, Launched, gateVars
<1>6. ASSUME NEW c \in Calls, RunnerThrows(c)
      PROVE  LaunchInv'
  BY <1>0, <1>6, LaunchInvUnchanged DEF RunnerThrows, Launched, gateVars
<1>7. CASE \/ \E d \in ApprovalDenial : Deny(d) /\ UNCHANGED <<intakeVars, prVars>>
           \/ Tick /\ UNCHANGED <<intakeVars, prVars>>
           \/ UNCHANGED vars
  BY <1>7, LaunchInvUnchanged
     DEF Deny, Tick, Launched, vars, gateVars, intakeVars, prVars
<1> QED
  BY <1>1, <1>2, <1>3, <1>4, <1>5, <1>6, <1>7 DEF Next

\* At the start nothing is granted and nothing launched.
LEMMA LaunchInvInit == Init => LaunchInv
BY DEF Init, GateInit, LaunchInv, OnlyAcceptedGranted, RunWasApproved,
       OneRunPerApproval, Launched, Idle

\* However calls, answers, denials and runs of gh interleave, and however often
\* a caller tries again, one approval launches gh once.
THEOREM OneRunOfEachApproval == Spec => []OneRunPerApproval
BY LaunchInvInit, LaunchInvStep, AdapterTypeCorrect, PTL DEF Spec, LaunchInv

\* Every run of gh has on record, then and ever after, an approval of exactly
\* its task, proof, run, action and target, which a human gave and which is
\* used up.
THEOREM EveryRunWasApproved == Spec => []RunWasApproved
BY LaunchInvInit, LaunchInvStep, AdapterTypeCorrect, PTL DEF Spec, LaunchInv

-----------------------------------------------------------------------------
(* What a human said yes to is granted, spent by a launch, or known to be of *)
(* no use.                                                                   *)

\* What became of an answer the intake took, as AnswersAreNotWasted has it
Accounted(a) ==
  \E p \in Projections :
    /\ p.approval_id = a
    /\ \/ /\ approvals[a] = None
          /\ p.scope.proof_id \notin VerifiedProofs \/ isExpired(p.expires_at)
       \/ /\ approvals[a] = [scope |-> p.scope, expires_at |-> p.expires_at]
          /\ a \in usedApprovalIds =>
               \E c \in Calls : Launched(c) /\ calls[c].approval_id = a

\* With what the intake remembers of the answers: an approval that was used had
\* been answered, and the projection id of each answer is marked.
AnswersInv ==
  /\ AnswersAreNotWasted
  /\ usedApprovalIds \subseteq acceptedApprovalIds
  /\ \A a \in acceptedApprovalIds : safeId[a] \in usedProjectionIds

\* An answer stays accounted for while its approval stays as it is, launches
\* are not undone and time only advances.
LEMMA AccountedStays ==
  ASSUME GateTypeOK, GateTypeOK', NEW a, Accounted(a),
         approvals'[a] = approvals[a], clock <= clock',
         \/ a \in usedApprovalIds' => a \in usedApprovalIds
         \/ \E c \in Calls : Launched(c)' /\ calls'[c].approval_id = a,
         \A c \in Calls : Launched(c) =>
           Launched(c)' /\ calls'[c].approval_id = calls[c].approval_id
  PROVE  Accounted(a)'
<1>1. PICK p \in Projections :
        /\ p.approval_id = a
        /\ \/ /\ approvals[a] = None
              /\ p.scope.proof_id \notin VerifiedProofs \/ isExpired(p.expires_at)
           \/ /\ approvals[a] = [scope |-> p.scope, expires_at |-> p.expires_at]
              /\ a \in usedApprovalIds =>
                   \E c \in Calls : Launched(c) /\ calls[c].approval_id = a
  BY DEF Accounted
<1>2. isExpired(p.expires_at) => isExpired(p.expires_at)'
  <2>1. p.expires_at \in Int /\ clock \in Int /\ clock' \in Int
    BY AdapterAssumption, GateAssumption
       DEF AdapterAssumption, GateAssumption, Projection, GateTypeOK
  <2> QED
    BY <2>1 DEF isExpired
<1>3. CASE /\ approvals[a] = None
           /\ p.scope.proof_id \notin VerifiedProofs \/ isExpired(p.expires_at)
  BY <1>1, <1>2, <1>3 DEF Accounted
<1>4. CASE /\ approvals[a] = [scope |-> p.scope, expires_at |-> p.expires_at]
           /\ a \in usedApprovalIds =>
                \E c \in Calls : Launched(c) /\ calls[c].approval_id = a
  <2>1. a \in usedApprovalIds' =>
          \E c \in Calls : Launched(c)' /\ calls'[c].approval_id = a
    BY <1>4
  <2> QED
    BY <1>1, <1>4, <2>1 DEF Accounted
<1> QED
  BY <1>1, <1>3, <1>4

\* A step that takes no answer and spends no approval
LEMMA AnswersUnchanged ==
  ASSUME GateTypeOK, GateTypeOK', AnswersInv,
         UNCHANGED <<approvals, usedApprovalIds, intakeVars>>, clock <= clock',
         \A c \in Calls : Launched(c) =>
           Launched(c)' /\ calls'[c].approval_id = calls[c].approval_id
  PROVE  AnswersInv'
<1>1. \A a \in acceptedApprovalIds : Accounted(a)
  BY DEF AnswersInv, AnswersAreNotWasted, Accounted
<1>2. \A a \in acceptedApprovalIds' : Accounted(a)'
  BY <1>1, AccountedStays DEF intakeVars
<1> QED
  BY <1>2 DEF AnswersInv, AnswersAreNotWasted, Accounted, intakeVars

\* An answer is granted or refused for its proof or expiry, and its approval
\* was not used before; a launch spends an approval that was answered.
LEMMA AnswersStep ==
  ASSUME TypeOK, TypeOK', LaunchInv, AnswersInv, [Next]_vars
  PROVE  AnswersInv'
<1>0. /\ GateTypeOK /\ GateTypeOK' /\ clock \in Int
      /\ calls \in [Calls -> [phase : Phases,
                              approval_id : ApprovalIds \cup {None},
                              scope : Scope \cup {None}]]
      /\ approvals \in [ApprovalIds -> ApprovalRecord \cup {None}]
      /\ acceptedApprovalIds \subseteq ApprovalIds
      /\ \A a \in acceptedApprovalIds : Accounted(a)
  <2>1. GateTypeOK /\ GateTypeOK'
    BY DEF TypeOK
  <2>2. \A a \in acceptedApprovalIds : Accounted(a)
    BY DEF AnswersInv, AnswersAreNotWasted, Accounted
  <2>3. clock \in Int
    BY <2>1, GateAssumption DEF GateAssumption, GateTypeOK
  <2> QED
    BY <2>1, <2>2, <2>3 DEF TypeOK, GateTypeOK
<1>1. ASSUME NEW p \in Projections, AnswerProjection(p)
      PROVE  AnswersInv'
  <2> DEFINE id == p.approval_id
  <2>1. /\ id \in ApprovalIds /\ id \notin acceptedApprovalIds
        /\ safeId[id] \notin usedProjectionIds
        /\ acceptedApprovalIds' = acceptedApprovalIds \cup {id}
        /\ usedProjectionIds' = usedProjectionIds \cup {safeId[id]}
        /\ UNCHANGED <<calls, usedApprovalIds>>
    BY <1>1, ProjectionType
       DEF AnswerProjection, IsReplayed, Grant, Tick, gateVars, prVars
  <2>2. /\ \A a \in ApprovalIds \ {id} : approvals'[a] = approvals[a]
        /\ clock <= clock'
    BY <1>0, <1>1 DEF AnswerProjection, Grant, Tick, gateVars
  <2>3. approvals[id] = None /\ id \notin usedApprovalIds
    BY <2>1 DEF LaunchInv, OnlyAcceptedGranted, AnswersInv
  <2>4. Accounted(id)'
    <3>1. CASE Grant(id, [scope |-> p.scope, expires_at |-> p.expires_at])
      <4>1. approvals'[id] = [scope |-> p.scope, expires_at |-> p.expires_at]
        BY <1>0, <2>1, <3>1 DEF Grant
      <4> QED
        BY <2>1, <2>3, <4>1 DEF Accounted
    <3>2. CASE p.scope.proof_id \notin VerifiedProofs /\ UNCHANGED gateVars
      BY <2>3, <3>2 DEF Accounted, gateVars
    <3>3. CASE p.expires_at = clock + 1 /\ Tick
      <4>1. isExpired(p.expires_at)' /\ approvals'[id] = None
        BY <1>0, <2>3, <3>3 DEF Tick, isExpired
      <4> QED
        BY <4>1 DEF Accounted
    <3> QED
      BY <1>1, <3>1, <3>2, <3>3 DEF AnswerProjection
  <2>5. \A c \in Calls : Launched(c) =>
          Launched(c)' /\ calls'[c].approval_id = calls[c].approval_id
    BY <2>1 DEF Launched
  <2>6. \A a \in acceptedApprovalIds : Accounted(a)'
    <3> SUFFICES ASSUME NEW a \in acceptedApprovalIds PROVE Accounted(a)'
      OBVIOUS
    <3>1. a \in ApprovalIds \ {id} /\ Accounted(a)
      BY <1>0, <2>1
    <3>2. approvals'[a] = approvals[a] /\ usedApprovalIds' = usedApprovalIds
      BY <2>1, <2>2, <3>1
    <3> QED
      BY <1>0, <2>2, <2>5, <3>1, <3>2, AccountedStays
  <2>7. \A a \in acceptedApprovalIds' : Accounted(a)'
    BY <2>1, <2>4, <2>6
  <2>8. \A a, b \in acceptedApprovalIds' : safeId[a] = safeId[b] => a = b
    BY <2>1 DEF AnswersInv, AnswersAreNotWasted
  <2> QED
    BY <2>1, <2>7, <2>8 DEF AnswersInv, AnswersAreNotWasted, Accounted
<1>2. ASSUME NEW c \in Calls, NEW input \in PrInput, LaunchRunner(c, input)
      PROVE  AnswersInv'
  <2> DEFINE id == Selected(RequestOf(input))
  <2>1. /\ id \in acceptedApprovalIds
        /\ usedApprovalIds' = usedApprovalIds \cup {id}
        /\ UNCHANGED <<approvals, clock, acceptedApprovalIds,
                       usedProjectionIds>>
        /\ calls[c].phase = "idle"
        /\ calls' = [calls EXCEPT ![c] =
             [phase |-> "running", approval_id |-> id, scope |-> input.scope]]
    BY <1>0, <1>2, LaunchedRequest
       DEF LaunchRunner, Authorize, intakeVars, LaunchInv, OnlyAcceptedGranted
  <2> HIDE DEF id
  <2>2. /\ Launched(c)' /\ calls'[c].approval_id = id
        /\ \A d \in Calls : Launched(d) =>
             Launched(d)' /\ calls'[d].approval_id = calls[d].approval_id
    BY <1>0, <2>1 DEF Launched
  <2>3. \A a \in acceptedApprovalIds : Accounted(a)'
    <3> SUFFICES ASSUME NEW a \in acceptedApprovalIds PROVE Accounted(a)'
      OBVIOUS
    <3>1. \/ a \in usedApprovalIds' => a \in usedApprovalIds
          \/ \E d \in Calls : Launched(d)' /\ calls'[d].approval_id = a
      BY <2>1, <2>2
    <3>2. Accounted(a) /\ approvals'[a] = approvals[a] /\ clock <= clock'
      BY <1>0, <2>1
    <3> QED
      BY <1>0, <2>2, <3>1, <3>2, AccountedStays
  <2> QED
    BY <2>1, <2>3 DEF AnswersInv, AnswersAreNotWasted, Accounted
<1>3. ASSUME NEW c \in Calls,
             \/ \E input \in PrInput : RefusePullRequest(c, input)
             \/ GhCreates(c)
             \/ \E result \in RunnerResult : RunnerReturns(c, result)
             \/ RunnerThrows(c)
      PROVE  AnswersInv'
  <2>1. UNCHANGED <<gateVars, intakeVars>>
    BY <1>3 DEF RefusePullRequest, GhCreates, RunnerReturns, RunnerThrows
  <2>2. \A d \in Calls : Launched(d) =>
          Launched(d)' /\ calls'[d].approval_id = calls[d].approval_id
    BY <1>0, <1>3 DEF RefusePullRequest, GhCreates, RunnerReturns,
                      RunnerThrows, Outcome, Launched
  <2> QED
    BY <1>0, <2>1, <2>2, AnswersUnchanged DEF gateVars
<1>4. CASE \/ \E d \in ApprovalDenial : Deny(d) /\ UNCHANGED <<intakeVars, prVars>>
           \/ Tick /\ UNCHANGED <<intakeVars, prVars>>
           \/ UNCHANGED vars
  <2>1. UNCHANGED <<approvals, usedApprovalIds, intakeVars, calls>>
    BY <1>4 DEF Deny, Tick, vars, gateVars, prVars
  <2>2. clock <= clock'
    BY <1>0, <1>4 DEF Deny, Tick, vars, gateVars
  <2> QED
    BY <1>0, <2>1, <2>2, AnswersUnchanged DEF Launched
<1> QED
  BY <1>1, <1>2, <1>3, <1>4 DEF Next

\* However many calls are refused, fail or throw, a human's yes is spent by a
\* launch of gh or still stands as it was shown; it comes to nothing only when
\* its proof was not verified or it ran out before it was granted.
THEOREM NoAnswerIsWasted == Spec => []AnswersAreNotWasted
<1>1. Init => AnswersInv
  BY DEF Init, GateInit, AnswersInv, AnswersAreNotWasted
<1>2. Spec => [](TypeOK /\ LaunchInv)
  BY LaunchInvInit, LaunchInvStep, AdapterTypeCorrect, PTL DEF Spec
<1>3. TypeOK /\ TypeOK' /\ LaunchInv /\ AnswersInv /\ [Next]_vars => AnswersInv'
  BY AnswersStep
<1>4. AnswersInv => AnswersAreNotWasted
  BY DEF AnswersInv
<1> QED
  BY <1>1, <1>2, <1>3, <1>4, PTL DEF Spec

-----------------------------------------------------------------------------
(* The list of pull requests.                                              *)

\* A step that neither lists a pull request nor ends a call as created keeps
\* the list true; GitHub forgets none.
LEMMA ListUnchanged ==
  ASSUME ListedPrsAreReal, prs' = prs, remote \subseteq remote',
         \A c \in Calls :
           calls'[c].phase = "created" <=> calls[c].phase = "created"
  PROVE  ListedPrsAreReal'
BY DEF ListedPrsAreReal

\* Only the return of a runner lists a pull request: one that GitHub has and
\* that no earlier return listed, since the call was still running.
LEMMA ListStep ==
  ASSUME TypeOK, ListedPrsAreReal, [Next]_vars
  PROVE  ListedPrsAreReal'
<1>0. calls \in [Calls -> [phase : Phases,
                           approval_id : ApprovalIds \cup {None},
                           scope : Scope \cup {None}]]
      /\ prs \in Seq(Calls)
  BY DEF TypeOK
<1>1. ASSUME NEW c \in Calls, NEW result \in RunnerResult,
             RunnerReturns(c, result), Outcome(result) = "created"
      PROVE  ListedPrsAreReal'
  <2>1. /\ calls[c].phase = "running" /\ c \in remote /\ remote' = remote
        /\ prs' = Append(prs, c)
    BY <1>1 DEF RunnerReturns, Outcome
  <2>2. {d \in Calls : calls'[d].phase = "created"} =
          {d \in Calls : calls[d].phase = "created"} \cup {c}
    BY <1>0, <1>1 DEF RunnerReturns
  <2> DEFINE n == Len(prs)
  <2>3. /\ n \in Nat /\ DOMAIN prs = 1..n /\ DOMAIN prs' = 1..(n + 1)
        /\ prs'[n + 1] = c
        /\ \A i \in 1..n : prs'[i] = prs[i]
    BY <1>0, <2>1, AppendProperties, LenProperties
  <2> HIDE DEF n
  <2>4. \A i \in 1..n : prs[i] # c
    BY <2>1, <2>3 DEF ListedPrsAreReal
  <2>5. {prs'[i] : i \in DOMAIN prs'} = {prs[i] : i \in DOMAIN prs} \cup {c}
    <3>1. 1..(n + 1) = (1..n) \cup {n + 1}
      BY <2>3
    <3> QED
      BY <2>3, <3>1
  <2>6. \A i, j \in DOMAIN prs' : prs'[i] = prs'[j] => i = j
    <3>1. \A i \in 1..(n + 1) : i \in 1..n \/ i = n + 1
      BY <2>3
    <3> QED
      BY <2>3, <2>4, <3>1 DEF ListedPrsAreReal
  <2> QED
    BY <2>1, <2>2, <2>5, <2>6 DEF ListedPrsAreReal
<1>2. ASSUME NEW c \in Calls, NEW result \in RunnerResult,
             RunnerReturns(c, result), Outcome(result) # "created"
      PROVE  ListedPrsAreReal'
  BY <1>0, <1>2, ListUnchanged DEF RunnerReturns
<1>3. ASSUME NEW p \in Projections, AnswerProjection(p)
      PROVE  ListedPrsAreReal'
  BY <1>3, ListUnchanged DEF AnswerProjection, prVars
<1>4. ASSUME NEW c \in Calls, NEW input \in PrInput,
             RefusePullRequest(c, input) \/ LaunchRunner(c, input)
      PROVE  ListedPrsAreReal'
  BY <1>0, <1>4, ListUnchanged DEF RefusePullRequest, LaunchRunner
<1>5. ASSUME NEW c \in Calls, GhCreates(c) \/ RunnerThrows(c)
      PROVE  ListedPrsAreReal'
  BY <1>0, <1>5, ListUnchanged DEF GhCreates, RunnerThrows
<1>6. CASE UNCHANGED prVars
  BY <1>6, ListUnchanged DEF prVars
<1> QED
  BY <1>1, <1>2, <1>3, <1>4, <1>5, <1>6 DEF Next, vars

\* The adapter lists each successful call once, and nothing that GitHub does
\* not have.
THEOREM ListIsAlwaysReal == Spec => []ListedPrsAreReal
<1>1. Init => ListedPrsAreReal
  BY DEF Init, ListedPrsAreReal, Idle
<1> QED
  BY <1>1, ListStep, AdapterTypeCorrect, PTL DEF Spec
=============================================================================
