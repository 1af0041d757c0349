--------------------------- MODULE FakePrAdapter ---------------------------
(***************************************************************************)
(* createFakeGitHubPrAdapter over an approval gate: the simulated pull     *)
(* request of a task, proof and target is made once, and asked for again   *)
(* it is handed out again before the gate is consulted.  The adapter names *)
(* neither a run nor an approval id in its request.  The checks of target, *)
(* proof and body come first and are abstracted to one refusal that        *)
(* touches nothing.  The gate is shared: whoever else holds it authorizes  *)
(* actions of its own on it, by scope or by approval id.                   *)
(***************************************************************************)
EXTENDS ApprovalGate

\* The action this adapter asks for is one that approvals name.
ASSUME FakePrAssumption == "create_pr" \in Actions

VARIABLES
  prs,       \* prs: the approval of the pull request stored under each key
  others,    \* history: the approvals other executors used up
  withheld   \* history: the keys refused while their pull request was stored

vars == <<gateVars, prs, others, withheld>>

\* prKey: task, proof, ref and base ref, joined by "|". The proof's schema keeps
\* a "|" out of the ids; refs that contain one and join to one key are left out.
PrKey == [task_id : GateTasks, proof_id : Proofs, target : Targets]

Init ==
  /\ GateInit
  /\ prs = [key \in PrKey |-> None]
  /\ others = {}
  /\ withheld = {}

RequestFor(key) ==
  [approval_id |-> None,
   scope |-> [task_id |-> key.task_id, proof_id |-> key.proof_id,
              run_id |-> None, action |-> "create_pr",
              target |-> key.target]]

\* Mutant: a stored pull request is handed out only while nobody denied it.
ExistsAndStillApproved(key) ==
  prs[key] # None /\ ~IsDenied(RequestFor(key).scope)

\* prs.get(key)
Exists(key) == prs[key] # None

\* createPullRequest, by the way it ends. Handing out a stored pull request
\* changes nothing.
RefusePullRequest(key) ==
  /\ ~Exists(key)
  /\ CheckAuthorization(RequestFor(key)) # "ok"
  /\ withheld' = IF prs[key] # None THEN withheld \cup {key} ELSE withheld
  /\ UNCHANGED <<gateVars, prs, others>>

CreatePullRequest(key) ==
  /\ ~Exists(key)
  /\ Authorize(RequestFor(key))
  /\ prs' = [prs EXCEPT ![key] = Selected(RequestFor(key))]
  /\ UNCHANGED <<others, withheld>>

\* Another executor of the same gate asks for an action.
OtherExecutor(req) ==
  /\ Authorize(req)
  /\ others' = others \cup {Selected(req)}
  /\ UNCHANGED <<prs, withheld>>

Next ==
  \/ \E key \in PrKey : RefusePullRequest(key) \/ CreatePullRequest(key)
  \/ \E req \in ApprovalRequest : OtherExecutor(req)
  \/ /\ \/ \E id \in ApprovalIds, record \in ApprovalRecord :
             Grant(id, record)
        \/ \E d \in ApprovalDenial : Deny(d)
        \/ Tick
     /\ UNCHANGED <<prs, others, withheld>>

Spec == Init /\ [][Next]_vars

-----------------------------------------------------------------------------
(* Properties.                                                             *)

\* A caller that got its pull request keeps getting it: a retry is neither
\* refused because the approval is spent, denied or expired by now, nor does
\* it spend a second approval.
RetryIsIdempotent ==
  /\ withheld = {}
  /\ \A key \in PrKey : prs[key] # None =>
       Cardinality({i \in DOMAIN authorized :
                      /\ authorized[i].scope = RequestFor(key).scope
                      /\ authorized[i].approval_id \notin others}) = 1

\* Each simulated pull request stands on an approval of its own, which nobody
\* else used: neither another pull request nor another executor of the gate.
EachPrHasItsApproval ==
  /\ \A k, l \in PrKey : prs[k] # None /\ prs[k] = prs[l] => k = l
  /\ \A k \in PrKey : prs[k] \notin others
  /\ Len(authorized) = Cardinality({k \in PrKey : prs[k] # None})
                       + Cardinality(others)
=============================================================================
