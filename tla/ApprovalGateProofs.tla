------------------------- MODULE ApprovalGateProofs -------------------------
(***************************************************************************)
(* Theorems about ApprovalGate for any ids, scopes and clock.              *)
(***************************************************************************)
EXTENDS ApprovalGate, LeastIndex, SequenceTheorems, FiniteSetTheorems, TLAPS

Keys == {a \in ApprovalIds : approvals[a] # None}

\* The type invariant, with the finiteness its count of keys rests on.
GateTypeInv == GateTypeOK /\ IsFiniteSet(Keys)

\* What is checked is None or a key of the approvals map.
LEMMA SelectedIsKey ==
  ASSUME GateTypeOK, NEW req \in ApprovalRequest, Selected(req) # None
  PROVE  Selected(req) \in Keys
<1>1. CASE req.approval_id = None
  <2> DEFINE hits == {i \in DOMAIN granted :
                 matchesApprovalScope(approvals[granted[i]].scope, req.scope)}
             first == CHOOSE i \in hits : \A j \in hits : i <= j
  <2>1. granted \in Seq(Keys)
    BY DEF GateTypeOK, Keys
  <2>2. hits # {} /\ Selected(req) = granted[first]
    BY <1>1 DEF Selected, FirstMatch
  <2>3. first \in hits
    <3>1. hits \in SUBSET Nat
      BY <2>1, LenProperties
    <3> HIDE DEF hits
    <3>2. \E i \in hits : \A j \in hits : i <= j
      BY <2>2, <3>1, SetOfNaturalsHasMin
    <3> QED
      BY <3>2
  <2>4. first \in DOMAIN granted
    BY <2>3
  <2> HIDE DEF first
  <2> QED
    BY <2>1, <2>2, <2>4, ElementOfSeq, LenProperties
<1>2. CASE req.approval_id # None
  BY <1>2 DEF Selected, ApprovalRequest, Keys
<1> QED
  BY <1>1, <1>2

\* What the check says of a request that it lets through.
LEMMA CheckedRequest ==
  ASSUME GateTypeOK, NEW req \in ApprovalRequest,
         CheckAuthorization(req) = "ok"
  PROVE  /\ Selected(req) \in Keys
         /\ Selected(req) \notin usedApprovalIds
         /\ approvals[Selected(req)].scope = req.scope
         /\ ~isExpired(approvals[Selected(req)].expires_at)
         /\ req.scope.proof_id \in VerifiedProofs
         /\ ~IsDenied(req.scope)
<1>1. Selected(req) # None
  BY DEF CheckAuthorization
<1>2. Selected(req) \in Keys
  BY <1>1, SelectedIsKey
<1>3. /\ Selected(req) \notin usedApprovalIds
      /\ matchesApprovalScope(approvals[Selected(req)].scope, req.scope)
      /\ ~isExpired(approvals[Selected(req)].expires_at)
      /\ req.scope.proof_id \in VerifiedProofs
      /\ ~IsDenied(req.scope)
  BY DEF CheckAuthorization
<1> QED
  BY <1>2, <1>3 DEF matchesApprovalScope

-----------------------------------------------------------------------------
\* A new gate has no keys and lists none.
LEMMA GateTypeInit == GateInit => GateTypeInv
<1> SUFFICES ASSUME GateInit PROVE GateTypeInv
  OBVIOUS
<1>1. Keys = {}
  BY DEF GateInit, Keys
<1>2. IsFiniteSet(Keys) /\ Cardinality(Keys) = 0
  BY <1>1, FS_EmptySet
<1>3. granted \in Seq(Keys) /\ Len(granted) = Cardinality(Keys)
  BY <1>1, <1>2 DEF GateInit
<1>4. 0 \in 0..MaxTime
  BY GateAssumption DEF GateAssumption
<1> QED
  BY <1>2, <1>3, <1>4 DEF GateInit, GateTypeInv, GateTypeOK, Keys

\* Every call of the gate keeps the types; grant lists a new key once.
LEMMA GateTypeStep == GateTypeInv /\ [GateNext]_gateVars => GateTypeInv'
<1> SUFFICES ASSUME GateTypeInv, [GateNext]_gateVars PROVE GateTypeInv'
  OBVIOUS
<1>0. /\ approvals \in [ApprovalIds -> ApprovalRecord \cup {None}]
      /\ granted \in Seq(Keys)
      /\ Len(granted) = Cardinality(Keys)
      /\ IsFiniteSet(Keys)
  BY DEF GateTypeInv, GateTypeOK, Keys
<1>1. ASSUME NEW id \in ApprovalIds, NEW record \in ApprovalRecord,
             Grant(id, record)
      PROVE  GateTypeInv'
  <2>1. approvals' \in [ApprovalIds -> ApprovalRecord \cup {None}]
    BY <1>0, <1>1 DEF Grant
  <2>2. Keys' = Keys \cup {id}
    BY <1>0, <1>1, GateAssumption DEF Grant, GateAssumption, Keys
  <2>3. /\ granted' \in Seq(Keys')
        /\ Len(granted') = Cardinality(Keys')
        /\ IsFiniteSet(Keys')
    <3>1. CASE approvals[id] = None
      <4>1. id \notin Keys
        BY <3>1 DEF Keys
      <4>2. IsFiniteSet(Keys') /\ Cardinality(Keys') = Cardinality(Keys) + 1
        BY <1>0, <2>2, <4>1, FS_AddElement
      <4>3. granted' = Append(granted, id)
        BY <1>1, <3>1 DEF Grant
      <4>4. granted \in Seq(Keys') /\ id \in Keys'
        <5>1. \A i \in 1..Len(granted) : granted[i] \in Keys
          BY <1>0, ElementOfSeq
        <5> QED
          BY <1>0, <2>2, <5>1
      <4> QED
        BY <1>0, <4>2, <4>3, <4>4, AppendProperties
    <3>2. CASE approvals[id] # None
      BY <1>0, <1>1, <2>2, <3>2 DEF Grant, Keys
    <3> QED
      BY <3>1, <3>2
  <2> QED
    BY <1>1, <2>1, <2>3 DEF Grant, GateTypeInv, GateTypeOK, Keys
<1>2. ASSUME NEW d \in ApprovalDenial, Deny(d)
      PROVE  GateTypeInv'
  BY <1>2 DEF Deny, GateTypeInv, GateTypeOK, Keys
<1>3. ASSUME NEW req \in ApprovalRequest, Authorize(req)
      PROVE  GateTypeInv'
  <2>1. Selected(req) \in ApprovalIds
    BY <1>3, CheckedRequest DEF Authorize, GateTypeInv, Keys
  <2>2. [approval_id |-> Selected(req), scope |-> req.scope]
          \in [approval_id : ApprovalIds, scope : Scope]
    BY <2>1 DEF ApprovalRequest
  <2> DEFINE entry == [approval_id |-> Selected(req), scope |-> req.scope]
  <2>3. authorized' \in Seq([approval_id : ApprovalIds, scope : Scope])
    <3>1. authorized' = Append(authorized, entry)
      BY <1>3 DEF Authorize
    <3> HIDE DEF entry
    <3>2. entry \in [approval_id : ApprovalIds, scope : Scope]
      BY <2>2 DEF entry
    <3> QED
      BY <3>1, <3>2, AppendProperties DEF GateTypeInv, GateTypeOK
  <2> QED
    BY <1>3, <2>1, <2>3 DEF Authorize, GateTypeInv, GateTypeOK, Keys
<1>4. CASE Tick
  BY <1>4, GateAssumption
     DEF Tick, GateAssumption, GateTypeInv, GateTypeOK, Keys
<1>5. CASE UNCHANGED gateVars
  BY <1>5 DEF gateVars, GateTypeInv, GateTypeOK, Keys
<1> QED
  BY <1>1, <1>2, <1>3, <1>4, <1>5 DEF GateNext

\* The gate's maps and sets always hold what their types say, and the order
\* kept of the approvals names each stored one once.
THEOREM GateTypeCorrect == GateSpec => []GateTypeOK
<1>1. GateSpec => []GateTypeInv
  BY GateTypeInit, GateTypeStep, PTL DEF GateSpec
<1> QED
  BY <1>1, PTL DEF GateTypeInv

-----------------------------------------------------------------------------
(* An approval is used once.                                               *)

\* Whatever was let through is marked as used.
UseIsRemembered ==
  \A i \in DOMAIN authorized : authorized[i].approval_id \in usedApprovalIds

\* authorize refuses an approval that is marked, and marks the one it uses.
LEMMA SingleUseStep ==
  ASSUME GateTypeOK, UseIsRemembered, SingleUse, [GateNext]_gateVars
  PROVE  UseIsRemembered' /\ SingleUse'
<1>1. ASSUME NEW req \in ApprovalRequest, Authorize(req)
      PROVE  UseIsRemembered' /\ SingleUse'
  <2> DEFINE entry == [approval_id |-> Selected(req), scope |-> req.scope]
             n == Len(authorized)
  <2>1. /\ entry.approval_id = Selected(req)
        /\ Selected(req) \notin usedApprovalIds
        /\ usedApprovalIds' = usedApprovalIds \cup {Selected(req)}
        /\ authorized' = Append(authorized, entry)
    BY <1>1, CheckedRequest DEF Authorize
  <2>2. entry \in [approval_id : ApprovalIds, scope : Scope]
    BY <1>1, CheckedRequest DEF Authorize, Keys, ApprovalRequest
  <2> HIDE DEF entry
  <2>3. /\ n \in Nat
        /\ DOMAIN authorized = 1..n /\ DOMAIN authorized' = 1..(n + 1)
        /\ authorized'[n + 1] = entry
        /\ \A i \in 1..n : authorized'[i] = authorized[i]
    BY <2>1, <2>2, AppendProperties, LenProperties DEF GateTypeOK
  <2> HIDE DEF n
  <2>4. UseIsRemembered'
    BY <2>1, <2>3 DEF UseIsRemembered
  <2>5. SingleUse'
    <3> SUFFICES ASSUME NEW i \in 1..(n + 1), NEW j \in 1..(n + 1),
                        authorized'[i].approval_id = authorized'[j].approval_id
                 PROVE  i = j
      BY <2>3 DEF SingleUse
    <3>1. CASE i \in 1..n /\ j \in 1..n
      BY <2>3, <3>1 DEF SingleUse
    <3>2. \A k \in 1..n : authorized'[k].approval_id # entry.approval_id
      BY <2>1, <2>3 DEF UseIsRemembered
    <3> QED
      BY <2>3, <3>1, <3>2
  <2> QED
    BY <2>4, <2>5
<1>2. CASE UNCHANGED <<authorized, usedApprovalIds>>
  BY <1>2 DEF UseIsRemembered, SingleUse
<1> QED
  BY <1>1, <1>2 DEF GateNext, Grant, Deny, Tick, gateVars

\* Nothing that was let through is ever forgotten, nor let through again.
LEMMA UsesStayRemembered == GateSpec => [](UseIsRemembered /\ SingleUse)
<1>1. GateInit => UseIsRemembered /\ SingleUse
  BY DEF GateInit, UseIsRemembered, SingleUse
<1>2. GateTypeOK /\ UseIsRemembered /\ SingleUse /\ [GateNext]_gateVars
        => UseIsRemembered' /\ SingleUse'
  BY SingleUseStep
<1> QED
  BY <1>1, <1>2, GateTypeCorrect, PTL DEF GateSpec

\* However approvals are granted, granted again under the same id, denied or
\* requested, one approval id lets at most one action run.
THEOREM ApprovalIsUsedOnce == GateSpec => []SingleUse
BY UsesStayRemembered, PTL

-----------------------------------------------------------------------------
(* What is let through was approved, and was not denied.                   *)

\* The new entries of a step, if any, are one request that passed the check.
LEMMA NewlyAuthorized ==
  ASSUME GateTypeOK, [GateNext]_gateVars,
         NEW i \in DOMAIN authorized' \ DOMAIN authorized
  PROVE  \E req \in ApprovalRequest :
           /\ CheckAuthorization(req) = "ok"
           /\ authorized'[i].approval_id = Selected(req)
           /\ authorized'[i].scope = req.scope
<1>1. PICK req \in ApprovalRequest : Authorize(req)
  BY DEF GateNext, Grant, Deny, Tick, gateVars
<1> DEFINE entry == [approval_id |-> Selected(req), scope |-> req.scope]
<1>2. authorized' = Append(authorized, entry)
  BY <1>1 DEF Authorize
<1>3. entry \in [approval_id : ApprovalIds, scope : Scope]
  BY <1>1, CheckedRequest DEF Authorize, Keys, ApprovalRequest
<1>4. /\ entry.approval_id = Selected(req) /\ entry.scope = req.scope
  OBVIOUS
<1> HIDE DEF entry
<1>5. authorized'[i] = entry
  BY <1>2, <1>3, AppendProperties, LenProperties DEF GateTypeOK
<1> QED
  BY <1>1, <1>4, <1>5 DEF Authorize

\* Every action let through has an approval on record for exactly that scope,
\* unexpired at that moment, and a verified proof.
THEOREM AuthorizationsAreApproved == GateSpec => AuthorizedWithinApproval
<1> DEFINE A == \A i \in DOMAIN authorized' \ DOMAIN authorized :
       LET auth == authorized'[i]
       IN  /\ approvals[auth.approval_id] # None
           /\ approvals[auth.approval_id].scope = auth.scope
           /\ clock < approvals[auth.approval_id].expires_at
           /\ auth.scope.proof_id \in VerifiedProofs
<1>1. ASSUME GateTypeOK, [GateNext]_gateVars PROVE A
  <2> SUFFICES ASSUME NEW i \in DOMAIN authorized' \ DOMAIN authorized
               PROVE  LET auth == authorized'[i]
                      IN  /\ approvals[auth.approval_id] # None
                          /\ approvals[auth.approval_id].scope = auth.scope
                          /\ clock < approvals[auth.approval_id].expires_at
                          /\ auth.scope.proof_id \in VerifiedProofs
    OBVIOUS
  <2>1. PICK req \in ApprovalRequest :
          /\ CheckAuthorization(req) = "ok"
          /\ authorized'[i].approval_id = Selected(req)
          /\ authorized'[i].scope = req.scope
    BY <1>1, NewlyAuthorized
  <2> DEFINE record == approvals[Selected(req)]
  <2>2. /\ record # None /\ record.scope = req.scope
        /\ ~(record.expires_at <= clock)
        /\ req.scope.proof_id \in VerifiedProofs
    BY <1>1, <2>1, CheckedRequest DEF Keys, isExpired
  <2>3. clock < record.expires_at
    <3>1. record \in ApprovalRecord
      BY <1>1, <2>1, <2>2, CheckedRequest DEF Keys, GateTypeOK
    <3> QED
      BY <1>1, <2>2, <3>1 DEF ApprovalRecord, GateTypeOK
  <2> QED
    BY <2>1, <2>2, <2>3
<1> QED
  BY <1>1, GateTypeCorrect, PTL DEF GateSpec, AuthorizedWithinApproval

\* After a denial that names the scope of an action no approval, older or
\* newer, lifts the denial or lets that action run.
THEOREM DenialsAreFinal == GateSpec => DenialIsFinal
<1> DEFINE A == \A d \in denials :
                  /\ d \in denials'
                  /\ \A i \in DOMAIN authorized' \ DOMAIN authorized :
                       authorized'[i].scope # d
<1>1. ASSUME GateTypeOK, [GateNext]_gateVars PROVE A
  <2>1. denials \subseteq denials'
    BY <1>1 DEF GateNext, Grant, Deny, Authorize, Tick, gateVars
  <2>2. ASSUME NEW d \in denials, NEW i \in DOMAIN authorized' \ DOMAIN authorized
        PROVE  authorized'[i].scope # d
    BY <1>1, <2>2, NewlyAuthorized, CheckedRequest
       DEF IsDenied, matchesApprovalScope
  <2> QED
    BY <2>1, <2>2
<1> QED
  BY <1>1, GateTypeCorrect, PTL DEF GateSpec, DenialIsFinal
-----------------------------------------------------------------------------
(* A good approval does work.                                              *)

\* Grants are for verified proofs only.
GrantsAreVerified ==
  \A id \in ApprovalIds :
    approvals[id] # None => approvals[id].scope.proof_id \in VerifiedProofs

\* grant refuses an approval of a proof that was not verified, and nothing
\* else writes a record.
LEMMA GrantsAreVerifiedStep ==
  ASSUME GateTypeOK, GrantsAreVerified, [GateNext]_gateVars
  PROVE  GrantsAreVerified'
<1>1. ASSUME NEW id \in ApprovalIds, NEW record \in ApprovalRecord,
             Grant(id, record)
      PROVE  GrantsAreVerified'
  BY <1>1 DEF Grant, GrantsAreVerified, GateTypeOK
<1>2. CASE UNCHANGED approvals
  BY <1>2 DEF GrantsAreVerified
<1> QED
  BY <1>1, <1>2 DEF GateNext, Deny, Authorize, Tick, gateVars

\* Every approval on record has its place among the keys.
KeysAreListed == \A id \in Keys : \E i \in DOMAIN granted : granted[i] = id

\* grant lists a new key at the end; nothing takes one off the list.
LEMMA KeysAreListedStep ==
  ASSUME GateTypeOK, KeysAreListed, [GateNext]_gateVars
  PROVE  KeysAreListed'
<1>0. granted \in Seq(Keys)
  BY DEF GateTypeOK, Keys
<1>1. ASSUME NEW id \in ApprovalIds, NEW record \in ApprovalRecord,
             Grant(id, record)
      PROVE  KeysAreListed'
  <2>1. Keys' \subseteq Keys \cup {id}
    BY <1>1 DEF Grant, GateTypeOK, Keys
  <2>2. CASE approvals[id] = None
    <3>1. granted' = Append(granted, id) /\ granted \in Seq(Keys \cup {id})
      <4>1. \A i \in 1..Len(granted) : granted[i] \in Keys
        BY <1>0, ElementOfSeq
      <4> QED
        BY <1>0, <1>1, <2>2, <4>1 DEF Grant
    <3> DEFINE n == Len(granted)
    <3>2. /\ n \in Nat /\ DOMAIN granted = 1..n /\ DOMAIN granted' = 1..(n + 1)
          /\ granted'[n + 1] = id
          /\ \A i \in 1..n : granted'[i] = granted[i]
      BY <3>1, AppendProperties, LenProperties
    <3> HIDE DEF n
    <3> QED
      BY <2>1, <3>2 DEF KeysAreListed
  <2>3. CASE approvals[id] # None
    BY <1>1, <2>3 DEF Grant, GateTypeOK, KeysAreListed, Keys
  <2> QED
    BY <2>2, <2>3
<1>2. CASE UNCHANGED <<approvals, granted>>
  BY <1>2 DEF KeysAreListed, Keys
<1> QED
  BY <1>1, <1>2 DEF GateNext, Deny, Authorize, Tick, gateVars

\* What a request without an id is checked against: the approval with the
\* oldest key of all of its scope.
LEMMA OldestMatch ==
  ASSUME GateTypeOK, NEW scope, NEW j \in DOMAIN granted,
         approvals[granted[j]].scope = scope
  PROVE  \E i \in DOMAIN granted :
           /\ FirstMatch(scope) = granted[i]
           /\ approvals[granted[i]].scope = scope
           /\ granted[i] \in Keys
           /\ i <= j
<1> DEFINE hits == {i \in DOMAIN granted :
                      matchesApprovalScope(approvals[granted[i]].scope, scope)}
           first == CHOOSE i \in hits : \A k \in hits : i <= k
<1>0. granted \in Seq(Keys)
  BY DEF GateTypeOK, Keys
<1>1. j \in hits /\ FirstMatch(scope) = granted[first]
  BY DEF FirstMatch, matchesApprovalScope
<1>2. first \in hits /\ \A k \in hits : first <= k
  <2>1. hits \in SUBSET Nat
    BY <1>0, LenProperties
  <2> HIDE DEF hits
  <2>2. \E i \in hits : \A k \in hits : i <= k
    BY <1>1, <2>1, SetOfNaturalsHasMin
  <2> QED
    BY <2>2
<1>3. first \in DOMAIN granted /\ approvals[granted[first]].scope = scope
  BY <1>2 DEF matchesApprovalScope
<1> HIDE DEF first, hits
<1>4. granted[first] \in Keys
  BY <1>0, <1>3, ElementOfSeq, LenProperties
<1> QED
  BY <1>1, <1>2, <1>3, <1>4

\* An approval that is unused, in time and not denied lets the action run that
\* names it, and the one that names none unless an older approval of the scope
\* was used up or ran out: nothing else ever hides it.
THEOREM GoodApprovalsWork == GateSpec => []GoodApprovalWorks
<1>1. GateInit => GrantsAreVerified /\ KeysAreListed
  BY DEF GateInit, GrantsAreVerified, KeysAreListed, Keys
<1>2. GateTypeOK /\ GrantsAreVerified /\ KeysAreListed => GoodApprovalWorks
  <2> SUFFICES ASSUME GateTypeOK, GrantsAreVerified, KeysAreListed,
                      NEW id \in ApprovalIds \ usedApprovalIds,
                      approvals[id] # None,
                      canExecute(approvals[id].scope.action),
                      ~IsDenied(approvals[id].scope),
                      clock < approvals[id].expires_at
               PROVE  LET scope == approvals[id].scope
                          Check(name) == CheckAuthorization(
                             [approval_id |-> name, scope |-> scope])
                      IN  /\ Check(id) = "ok"
                          /\ \/ Check(None) = "ok"
                             \/ \E i, j \in DOMAIN granted :
                                  /\ i < j /\ granted[j] = id
                                  /\ approvals[granted[i]].scope = scope
                                  /\ \/ granted[i] \in usedApprovalIds
                                     \/ isExpired(approvals[granted[i]].expires_at)
    BY DEF GoodApprovalWorks
  <2> DEFINE scope == approvals[id].scope
             req(name) == [approval_id |-> name, scope |-> scope]
  <2>1. ~isExpired(approvals[id].expires_at)
    <3>1. approvals[id] \in ApprovalRecord
      BY DEF GateTypeOK
    <3> QED
      BY <3>1 DEF isExpired, ApprovalRecord, GateTypeOK
  <2>2. scope.proof_id \in VerifiedProofs
    BY DEF GrantsAreVerified
  <2>3. \A name, a : /\ Selected(req(name)) = a /\ a # None
                     /\ a \notin usedApprovalIds
                     /\ ~isExpired(approvals[a].expires_at)
                     /\ approvals[a].scope = scope
                     => CheckAuthorization(req(name)) = "ok"
    BY <2>2 DEF CheckAuthorization, matchesApprovalScope
  <2>4. CheckAuthorization(req(id)) = "ok"
    <3>1. Selected(req(id)) = id /\ id # None
      BY GateAssumption DEF GateAssumption, Selected
    <3> QED
      BY <2>1, <2>3, <3>1
  <2>5. PICK j \in DOMAIN granted : granted[j] = id
    BY DEF KeysAreListed, Keys
  <2>6. PICK i \in DOMAIN granted :
          /\ FirstMatch(scope) = granted[i]
          /\ approvals[granted[i]].scope = scope
          /\ granted[i] \in Keys
          /\ i <= j
    BY <2>5, OldestMatch
  <2>7. Selected(req(None)) = granted[i] /\ granted[i] # None
    BY <2>6, GateAssumption DEF GateAssumption, Selected, Keys
  <2>8. CASE granted[i] \in usedApprovalIds
               \/ isExpired(approvals[granted[i]].expires_at)
    <3>1. i < j
      <4>1. i # j
        BY <2>1, <2>5, <2>8
      <4>2. i \in Int /\ j \in Int
        BY LenProperties DEF GateTypeOK
      <4> QED
        BY <2>6, <4>1, <4>2
    <3> QED
      BY <2>4, <2>5, <2>6, <2>8, <3>1
  <2>9. CASE /\ granted[i] \notin usedApprovalIds
             /\ ~isExpired(approvals[granted[i]].expires_at)
    BY <2>3, <2>4, <2>6, <2>7, <2>9
  <2> QED
    BY <2>8, <2>9
<1> QED
  BY <1>1, <1>2, GrantsAreVerifiedStep, KeysAreListedStep, GateTypeCorrect, PTL
     DEF GateSpec
=============================================================================
