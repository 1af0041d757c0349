------------------------ MODULE FakePrAdapterProofs ------------------------
(***************************************************************************)
(* Theorems about FakePrAdapter for any gate, keys and other executors.    *)
(* The argument is a book of accounts: every authorization of the gate was *)
(* either spent by another executor or is the one of exactly one stored    *)
(* pull request.                                                           *)
(***************************************************************************)
EXTENDS FakePrAdapter, ApprovalGateProofs

\* The request made for a key is one of the gate.
LEMMA KeyRequestType ==
  ASSUME NEW key \in PrKey
  PROVE  RequestFor(key) \in ApprovalRequest
<1>1. RequestFor(key).scope \in Scope
  BY FakePrAssumption DEF FakePrAssumption, RequestFor, PrKey, Scope
<1> QED
  BY <1>1 DEF RequestFor, ApprovalRequest

\* Keys that differ ask for different scopes.
LEMMA ScopeNamesKey ==
  ASSUME NEW key \in PrKey, NEW l \in PrKey,
         RequestFor(l).scope = RequestFor(key).scope
  PROVE  l = key
<1>1. /\ l.task_id = key.task_id /\ l.proof_id = key.proof_id
      /\ l.target = key.target
  BY DEF RequestFor
<1> QED
  BY <1>1 DEF PrKey

-----------------------------------------------------------------------------
(* The adapter is a client of the gate.                                    *)

\* A stored pull request handed out again is no call of the gate; everything
\* else is one.
LEMMA FakeGateStep == [Next]_vars => [GateNext]_gateVars
<1> SUFFICES ASSUME [Next]_vars PROVE [GateNext]_gateVars
  OBVIOUS
<1>1. ASSUME NEW key \in PrKey,
             RefusePullRequest(key) \/ CreatePullRequest(key)
      PROVE  [GateNext]_gateVars
  BY <1>1, KeyRequestType DEF RefusePullRequest, CreatePullRequest, GateNext
<1>2. ASSUME NEW req \in ApprovalRequest, OtherExecutor(req)
      PROVE  [GateNext]_gateVars
  BY <1>2 DEF OtherExecutor, GateNext
<1> QED
  BY <1>1, <1>2 DEF Next, GateNext, vars

\* Every behaviour of the adapter beside other executors is one of the gate.
THEOREM FakeAdapterIsGateClient == Spec => GateSpec
<1>1. Init => GateInit
  BY DEF Init
<1> QED
  BY <1>1, FakeGateStep, PTL DEF Spec, GateSpec

-----------------------------------------------------------------------------
(* The accounts.                                                           *)

Stored == {k \in PrKey : prs[k] # None}

\* An authorization is the one of the pull request stored under a key.
IsOf(i, k) ==
  /\ authorized[i].approval_id = prs[k]
  /\ authorized[i].scope = RequestFor(k).scope

\* What is stored and spent, and that each is booked once
Spent ==
  /\ prs \in [PrKey -> ApprovalIds \cup {None}]
  /\ others \subseteq usedApprovalIds
  /\ \A k \in Stored : prs[k] \in usedApprovalIds \ others
  /\ \A k, l \in Stored : prs[k] = prs[l] => k = l
  /\ withheld = {}

\* Who each authorization was for
Booked ==
  /\ \A k \in Stored : \E i \in DOMAIN authorized : IsOf(i, k)
  /\ \A i \in DOMAIN authorized :
       authorized[i].approval_id \in others \/ \E k \in Stored : IsOf(i, k)

\* How many there were
Balanced ==
  /\ IsFiniteSet(Stored) /\ IsFiniteSet(others)
  /\ Len(authorized) = Cardinality(Stored) + Cardinality(others)

Accounts == Spent /\ Booked /\ Balanced

\* An authorized request adds one entry to the gate's history, for an approval
\* that was not spent before.
LEMMA FreshEntry ==
  ASSUME GateTypeOK, UseIsRemembered, NEW req \in ApprovalRequest,
         Authorize(req)
  PROVE  /\ Selected(req) \in ApprovalIds \ usedApprovalIds
         /\ usedApprovalIds' = usedApprovalIds \cup {Selected(req)}
         /\ Len(authorized) \in Nat
         /\ Len(authorized') = Len(authorized) + 1
         /\ \A i \in DOMAIN authorized : authorized'[i] = authorized[i]
         /\ \E last \in DOMAIN authorized' :
              /\ DOMAIN authorized' = DOMAIN authorized \cup {last}
              /\ authorized'[last].approval_id = Selected(req)
              /\ authorized'[last].scope = req.scope
<1> DEFINE entry == [approval_id |-> Selected(req), scope |-> req.scope]
<1>1. /\ Selected(req) \in ApprovalIds \ usedApprovalIds
      /\ usedApprovalIds' = usedApprovalIds \cup {Selected(req)}
      /\ authorized' = Append(authorized, entry)
  BY CheckedRequest DEF Authorize, Keys
<1>2. entry \in [approval_id : ApprovalIds, scope : Scope]
  BY <1>1 DEF ApprovalRequest
<1>3. entry.approval_id = Selected(req) /\ entry.scope = req.scope
  OBVIOUS
<1> HIDE DEF entry
<1>4. /\ Len(authorized) \in Nat
      /\ Len(authorized') = Len(authorized) + 1
      /\ DOMAIN authorized = 1..Len(authorized)
      /\ DOMAIN authorized' = 1..(Len(authorized) + 1)
      /\ authorized'[Len(authorized) + 1] = entry
      /\ \A i \in DOMAIN authorized : authorized'[i] = authorized[i]
  BY <1>1, <1>2, AppendProperties, LenProperties DEF GateTypeOK
<1>5. DOMAIN authorized' = DOMAIN authorized \cup {Len(authorized) + 1}
  BY <1>4
<1> QED
  BY <1>1, <1>3, <1>4, <1>5

\* A pull request is stored: one entry, one key.
LEMMA CreateKeepsAccounts ==
  ASSUME GateTypeOK, UseIsRemembered, Accounts,
         NEW key \in PrKey, CreatePullRequest(key)
  PROVE  Accounts'
<1> DEFINE id == Selected(RequestFor(key))
<1>0. /\ prs[key] = None
      /\ Authorize(RequestFor(key))
      /\ prs' = [prs EXCEPT ![key] = id]
      /\ UNCHANGED <<others, withheld>>
  BY DEF CreatePullRequest, Exists
<1>1. /\ id \in ApprovalIds \ usedApprovalIds
      /\ usedApprovalIds' = usedApprovalIds \cup {id}
      /\ Len(authorized) \in Nat
      /\ Len(authorized') = Len(authorized) + 1
      /\ \A i \in DOMAIN authorized : authorized'[i] = authorized[i]
  BY <1>0, KeyRequestType, FreshEntry
<1>9. PICK last \in DOMAIN authorized' :
        /\ DOMAIN authorized' = DOMAIN authorized \cup {last}
        /\ authorized'[last].approval_id = id
        /\ authorized'[last].scope = RequestFor(key).scope
  BY <1>0, KeyRequestType, FreshEntry
<1>2. id # None
  BY <1>1, GateAssumption DEF GateAssumption
<1> HIDE DEF id
<1>3. /\ prs'[key] = id
      /\ \A k \in PrKey \ {key} : prs'[k] = prs[k]
  BY <1>0 DEF Accounts, Spent
<1>4. key \notin Stored /\ Stored' = Stored \cup {key}
  BY <1>0, <1>2, <1>3 DEF Stored
<1>5. Spent'
  BY <1>0, <1>1, <1>3, <1>4 DEF Accounts, Spent, Stored
<1>6. Booked'
  <2>1. \A i \in DOMAIN authorized, k \in Stored : IsOf(i, k)' <=> IsOf(i, k)
    BY <1>1, <1>3, <1>4 DEF IsOf, Stored, RequestFor
  <2>2. IsOf(last, key)'
    BY <1>3, <1>9 DEF IsOf, RequestFor
  <2>3. DOMAIN authorized \subseteq DOMAIN authorized'
    BY <1>9
  <2>4. ASSUME NEW k \in Stored'
        PROVE  \E i \in DOMAIN authorized' : IsOf(i, k)'
    BY <1>4, <2>1, <2>2, <2>3 DEF Accounts, Booked
  <2>5. ASSUME NEW i \in DOMAIN authorized'
        PROVE  \/ authorized'[i].approval_id \in others'
               \/ \E k \in Stored' : IsOf(i, k)'
    <3>1. CASE i \in DOMAIN authorized
      BY <1>0, <1>1, <1>4, <2>1, <3>1 DEF Accounts, Booked
    <3>2. CASE i = last
      BY <1>4, <2>2, <3>2
    <3> QED
      BY <1>9, <3>1, <3>2
  <2> QED
    BY <2>4, <2>5 DEF Booked
<1>7. Balanced'
  <2>1. /\ IsFiniteSet(Stored')
        /\ Cardinality(Stored') = Cardinality(Stored) + 1
    BY <1>4, FS_AddElement DEF Accounts, Balanced
  <2>2. Cardinality(Stored) \in Nat /\ Cardinality(others) \in Nat
    BY FS_CardinalityType DEF Accounts, Balanced
  <2> QED
    BY <1>0, <1>1, <2>1, <2>2 DEF Accounts, Balanced
<1> QED
  BY <1>5, <1>6, <1>7 DEF Accounts

\* Another executor spends an approval: one entry, one approval of theirs.
LEMMA OtherKeepsAccounts ==
  ASSUME GateTypeOK, UseIsRemembered, Accounts,
         NEW req \in ApprovalRequest, OtherExecutor(req)
  PROVE  Accounts'
<1> DEFINE id == Selected(req)
<1>0. /\ Authorize(req)
      /\ others' = others \cup {id}
      /\ UNCHANGED <<prs, withheld>>
  BY DEF OtherExecutor
<1>1. /\ id \in ApprovalIds \ usedApprovalIds
      /\ usedApprovalIds' = usedApprovalIds \cup {id}
      /\ Len(authorized) \in Nat
      /\ Len(authorized') = Len(authorized) + 1
      /\ \A i \in DOMAIN authorized : authorized'[i] = authorized[i]
  BY <1>0, FreshEntry
<1>9. PICK last \in DOMAIN authorized' :
        /\ DOMAIN authorized' = DOMAIN authorized \cup {last}
        /\ authorized'[last].approval_id = id
  BY <1>0, FreshEntry
<1> HIDE DEF id
<1>2. Stored' = Stored /\ id \notin others
  BY <1>0, <1>1 DEF Stored, Accounts, Spent
<1>3. Spent'
  BY <1>0, <1>1, <1>2 DEF Accounts, Spent
<1>4. Booked'
  <2>1. \A i \in DOMAIN authorized, k \in Stored : IsOf(i, k)' <=> IsOf(i, k)
    BY <1>0, <1>1 DEF IsOf, RequestFor
  <2>2. DOMAIN authorized \subseteq DOMAIN authorized'
    BY <1>9
  <2>3. ASSUME NEW k \in Stored'
        PROVE  \E i \in DOMAIN authorized' : IsOf(i, k)'
    BY <1>2, <2>1, <2>2 DEF Accounts, Booked
  <2>4. ASSUME NEW i \in DOMAIN authorized'
        PROVE  \/ authorized'[i].approval_id \in others'
               \/ \E k \in Stored' : IsOf(i, k)'
    <3>1. CASE i \in DOMAIN authorized
      BY <1>0, <1>1, <1>2, <2>1, <3>1 DEF Accounts, Booked
    <3>2. CASE i = last
      BY <1>0, <1>9, <3>2
    <3> QED
      BY <1>9, <3>1, <3>2
  <2> QED
    BY <2>3, <2>4 DEF Booked
<1>5. Balanced'
  <2>1. /\ IsFiniteSet(others')
        /\ Cardinality(others') = Cardinality(others) + 1
    BY <1>0, <1>2, FS_AddElement DEF Accounts, Balanced
  <2>2. Cardinality(Stored) \in Nat /\ Cardinality(others) \in Nat
    BY FS_CardinalityType DEF Accounts, Balanced
  <2> QED
    BY <1>1, <1>2, <2>1, <2>2 DEF Accounts, Balanced
<1> QED
  BY <1>3, <1>4, <1>5 DEF Accounts

\* Whatever authorizes nothing leaves the accounts alone; a refusal withholds
\* no stored pull request, since a stored one is looked for first.
LEMMA AccountsStep ==
  ASSUME GateTypeOK, UseIsRemembered, Accounts, [Next]_vars
  PROVE  Accounts'
<1>1. CASE UNCHANGED <<prs, others, withheld, authorized, usedApprovalIds>>
  <2>1. Stored' = Stored
    BY <1>1 DEF Stored
  <2>2. Spent'
    BY <1>1, <2>1 DEF Accounts, Spent
  <2>3. Booked'
    BY <1>1, <2>1 DEF Accounts, Booked, IsOf, RequestFor
  <2>4. Balanced'
    BY <1>1, <2>1 DEF Accounts, Balanced
  <2> QED
    BY <2>2, <2>3, <2>4 DEF Accounts
<1>2. ASSUME NEW key \in PrKey, RefusePullRequest(key)
      PROVE  UNCHANGED <<prs, others, withheld, authorized, usedApprovalIds>>
  BY <1>2 DEF RefusePullRequest, Exists, gateVars
<1>3. CASE /\ \/ \E id \in ApprovalIds, record \in ApprovalRecord :
                   Grant(id, record)
              \/ \E d \in ApprovalDenial : Deny(d)
              \/ Tick
           /\ UNCHANGED <<prs, others, withheld>>
  BY <1>1, <1>3 DEF Grant, Deny, Tick
<1>4. CASE UNCHANGED vars
  BY <1>1, <1>4 DEF vars, gateVars
<1> QED
  BY <1>1, <1>2, <1>3, <1>4, CreateKeepsAccounts, OtherKeepsAccounts
     DEF Next

\* Nothing is stored or spent at the start.
LEMMA AccountsInit == Init => Accounts
<1> SUFFICES ASSUME Init PROVE Accounts
  OBVIOUS
<1>1. Stored = {} /\ others = {} /\ Len(authorized) = 0
  BY DEF Init, GateInit, Stored
<1>2. Balanced
  BY <1>1, FS_EmptySet DEF Balanced
<1> QED
  BY <1>1, <1>2 DEF Init, GateInit, Accounts, Spent, Booked

\* The books of the adapter and the gate stay balanced; the gate's own
\* invariants come from its theorems, since the adapter is a client of it.
LEMMA AccountsKept == Spec => [](GateTypeOK /\ SingleUse /\ Accounts)
<1>1. Spec => [](GateTypeOK /\ UseIsRemembered /\ SingleUse)
  BY FakeAdapterIsGateClient, GateTypeCorrect, UsesStayRemembered, PTL
<1> QED
  BY <1>1, AccountsInit, AccountsStep, PTL DEF Spec

\* A pull request once made is handed out for ever, at the price of the one
\* approval it was made with.
THEOREM RetriesAreIdempotent == Spec => []RetryIsIdempotent
<1>1. GateTypeOK /\ SingleUse /\ Accounts => RetryIsIdempotent
  <2> SUFFICES ASSUME GateTypeOK, SingleUse, Accounts,
                      NEW key \in PrKey, prs[key] # None
               PROVE  Cardinality({i \in DOMAIN authorized :
                        /\ authorized[i].scope = RequestFor(key).scope
                        /\ authorized[i].approval_id \notin others}) = 1
    BY DEF RetryIsIdempotent, Accounts, Spent
  <2> DEFINE its == {i \in DOMAIN authorized :
                       /\ authorized[i].scope = RequestFor(key).scope
                       /\ authorized[i].approval_id \notin others}
  <2>1. key \in Stored
    BY DEF Stored
  <2>2. PICK i \in DOMAIN authorized : IsOf(i, key)
    BY <2>1 DEF Accounts, Booked
  <2>3. i \in its
    BY <2>1, <2>2 DEF IsOf, Accounts, Spent
  <2>4. ASSUME NEW j \in its PROVE j = i
    <3>1. PICK l \in Stored : IsOf(j, l)
      BY <2>4 DEF Accounts, Booked
    <3>2. l = key
      BY <2>4, <3>1, ScopeNamesKey DEF IsOf, Stored
    <3> QED
      BY <2>2, <2>4, <3>1, <3>2 DEF IsOf, SingleUse
  <2>5. its = {i}
    BY <2>3, <2>4
  <2> HIDE DEF its
  <2>6. Cardinality(its) = 1
    BY <2>5, FS_Singleton
  <2> QED
    BY <2>6 DEF its
<1> QED
  BY <1>1, AccountsKept, PTL

\* No two pull requests and no other executor share an approval, and every
\* action the gate let through is accounted for.
THEOREM EachPrOwnsItsApproval == Spec => []EachPrHasItsApproval
<1>1. GateTypeOK /\ Accounts => EachPrHasItsApproval
  <2> SUFFICES ASSUME GateTypeOK, Accounts PROVE EachPrHasItsApproval
    OBVIOUS
  <2>1. None \notin others
    BY GateAssumption DEF GateAssumption, GateTypeOK, Accounts, Spent
  <2>2. \A k \in PrKey : prs[k] # None <=> k \in Stored
    BY DEF Stored
  <2>3. \A k, l \in PrKey : prs[k] # None /\ prs[k] = prs[l] => k = l
    BY <2>2 DEF Accounts, Spent
  <2>4. \A k \in PrKey : prs[k] \notin others
    BY <2>1, <2>2 DEF Accounts, Spent
  <2> QED
    BY <2>3, <2>4 DEF Accounts, Balanced, Stored, EachPrHasItsApproval
<1> QED
  BY <1>1, AccountsKept, PTL
=============================================================================
