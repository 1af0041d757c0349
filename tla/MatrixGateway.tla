--------------------------- MODULE MatrixGateway ---------------------------
(***************************************************************************)
(* The Matrix appservice gateway: TransactionHandler behind the HTTP       *)
(* listener of apps/matrix-appservice, and the homeserver that sends it    *)
(* transactions in order, each again and again until a 200 arrives.        *)
(*                                                                         *)
(* TransactionHandler.handle is synchronous, so one request is one step.   *)
(* It may throw in the middle of a transaction: the events before are      *)
(* committed and queued by then, the transaction is not, and the listener  *)
(* sends no answer (under Node's default the rejected promise then ends    *)
(* the process: CrashAndRestart comes next).  All state of the gateway is  *)
(* in memory.  The homeserver and the network are external.                *)
(***************************************************************************)
EXTENDS Naturals, Sequences, SequencesExt

CONSTANTS
  None,
  Transactions,  \* the homeserver's transactions, sequences of events
  MaxInFlight,   \* bound: requests of one transaction under way at once
  MaxCrashes,    \* bound: restarts of the gateway
  QueueStates    \* values runtimeEventQueue.available may have after a start

Txns == DOMAIN Transactions

(***************************************************************************)
(* What becomes of an event that was not processed before:                 *)
(*   accepted   a valid task.created in a mapped room: goes to the queue   *)
(*   rejected   unknown room, unsupported type of com.notyet.agent.* or    *)
(*              invalid content                                            *)
(*   unmappable rejected too, but the mapper makes a runtime event of it   *)
(*              that fails its own schema, which throws: trace_id or       *)
(*              task_id with the right prefix and other bad characters, an *)
(*              event id of that sort, a type outside com.notyet.agent.*   *)
(*   malformed  toMatrixEvent throws: no id to remember                    *)
(***************************************************************************)
Kinds == {"accepted", "rejected", "unmappable", "malformed"}

EventsSent == UNION {{Transactions[t][i] : i \in DOMAIN Transactions[t]} :
                       t \in Txns}
EventIds == {e.id : e \in EventsSent} \ {None}
AcceptedIds == {e.id : e \in {e \in EventsSent : e.kind = "accepted"}}

\* What the homeserver has and what it knows of an event; the bounds.
ASSUME GatewayAssumption ==
  /\ Transactions \in Seq(Seq(EventsSent))
  /\ \A e \in EventsSent : e.kind \in Kinds
  /\ \A e \in EventsSent : e.id = None <=> e.kind = "malformed"
  /\ \A e, f \in EventsSent : e.id = f.id => e.kind = f.kind
  /\ MaxInFlight \in Nat /\ MaxCrashes \in Nat
  /\ QueueStates \subseteq BOOLEAN /\ QueueStates # {}

VARIABLES
  acknowledged,            \* homeserver: transactions 1..acknowledged got 200
  requests,                \* network: copies under way of each transaction
  answers,                 \* network: transactions with a 200 under way
  processedTransactionIds,
  processedEventIds,
  queue,                   \* runtimeEventQueue.events, as event ids
  available,               \* runtimeEventQueue.available
  crashes

network == <<acknowledged, requests, answers>>
memory == <<processedTransactionIds, processedEventIds, queue>>
vars == <<network, memory, available, crashes>>

Init ==
  /\ acknowledged = 0
  /\ requests = [t \in Txns |-> 0]
  /\ answers = {}
  /\ processedTransactionIds = {}
  /\ processedEventIds = {}
  /\ queue = << >>
  /\ available \in QueueStates
  /\ crashes = 0

-----------------------------------------------------------------------------
(* External: the homeserver and the network.                               *)

\* Only the transaction after the last acknowledged one is sent, also while
\* an earlier copy of it is still under way.
Send(t) ==
  /\ t = acknowledged + 1
  /\ requests[t] < MaxInFlight
  /\ requests' = [requests EXCEPT ![t] = @ + 1]
  /\ UNCHANGED <<acknowledged, answers, memory, available, crashes>>

LoseAnswer(t) ==
  /\ t \in answers
  /\ answers' = answers \ {t}
  /\ UNCHANGED <<acknowledged, requests, memory, available, crashes>>

ReceiveOk(t) ==
  /\ t \in answers
  /\ answers' = answers \ {t}
  /\ acknowledged' = IF t > acknowledged THEN t ELSE acknowledged
  /\ UNCHANGED <<requests, memory, available, crashes>>

-----------------------------------------------------------------------------
(* The gateway.                                                            *)

Take(t) == /\ requests[t] > 0
           /\ requests' = [requests EXCEPT ![t] = @ - 1]
           /\ UNCHANGED <<acknowledged, available, crashes>>

Answer200(t) == answers' = answers \cup {t}

\* Mutant: the loop does not ask whether the event was processed before.
HandleEventAgain(m, e) ==
  [ids   |-> m.ids \cup {e.id},
   queue |-> IF e.kind = "accepted" THEN Append(m.queue, e.id) ELSE m.queue]

\* Mutant: new work is put in front of the queue.
HandleEventUnshift(m, e) ==
  IF e.id \in m.ids THEN m
  ELSE [ids   |-> m.ids \cup {e.id},
        queue |-> IF e.kind = "accepted" THEN << e.id >> \o m.queue
                  ELSE m.queue]

\* One event in the loop of handle; m holds processedEventIds and the queue.
HandleEvent(m, e) ==
  IF e.id \in m.ids THEN m
  ELSE [ids   |-> m.ids \cup {e.id},
        queue |-> IF e.kind = "accepted" THEN Append(m.queue, e.id)
                  ELSE m.queue]

\* Mutant: toMatrixEvent lets an event without an id through.
BeforeUnmappable(events) ==
  LET i == SelectInSeq(events, LAMBDA e : e.kind = "unmappable")
  IN  IF i = 0 THEN events ELSE SubSeq(events, 1, i - 1)

\* The events handled before one throws; all of them when none does.
BeforeThrow(events) ==
  LET throws(e) == e.kind \in {"unmappable", "malformed"}
      i == SelectInSeq(events, throws)      \* 0 when there is none
  IN  IF i = 0 THEN events ELSE SubSeq(events, 1, i - 1)

Throws(t) == BeforeThrow(Transactions[t]) # Transactions[t]

\* The loop of handle over these events: what it holds after i of them.
Loop(events) ==
  LET after[i \in 0..Len(events)] ==
        IF i = 0 THEN [ids |-> processedEventIds, queue |-> queue]
        ELSE HandleEvent(after[i - 1], events[i])
  IN  after

Handled(t) == LET events == BeforeThrow(Transactions[t])
              IN  Loop(events)[Len(events)]

RunLoop(t) == /\ processedEventIds' = Handled(t).ids
              /\ queue' = Handled(t).queue

\* The request is answered with 401, or by the listener with 400, 404 or 405
\* when the network mangled it, or gets lost on the way.
RefuseOrLose(t) ==
  /\ Take(t)
  /\ UNCHANGED <<answers, memory>>

\* Mutant: a duplicate is dropped without an answer.
DropDuplicate(t) ==
  /\ t \in processedTransactionIds
  /\ Take(t)
  /\ UNCHANGED <<answers, memory>>

\* 200 duplicate_transaction
AnswerDuplicate(t) ==
  /\ t \in processedTransactionIds
  /\ Take(t)
  /\ Answer200(t)
  /\ UNCHANGED memory

\* 503: nothing is committed.
AnswerUnavailable(t) ==
  /\ t \notin processedTransactionIds
  /\ ~available
  /\ Take(t)
  /\ UNCHANGED <<answers, memory>>

\* 200 ok: the whole transaction went through the loop.
HandleTransaction(t) ==
  /\ t \notin processedTransactionIds
  /\ available
  /\ ~Throws(t)
  /\ Take(t)
  /\ RunLoop(t)
  /\ processedTransactionIds' = processedTransactionIds \cup {t}
  /\ Answer200(t)

\* Mutant: txn_id is committed in a `finally`.
HandleThrowsCommitted(t) ==
  /\ t \notin processedTransactionIds
  /\ available
  /\ Throws(t)
  /\ Take(t)
  /\ RunLoop(t)
  /\ processedTransactionIds' = processedTransactionIds \cup {t}
  /\ UNCHANGED answers

\* An event throws; no answer.
HandleThrows(t) ==
  /\ t \notin processedTransactionIds
  /\ available
  /\ Throws(t)
  /\ Take(t)
  /\ RunLoop(t)
  /\ UNCHANGED <<answers, processedTransactionIds>>

\* The process ends and is started again: everything it kept is gone, and
\* with it the requests it had read. What is on the wire is still there.
CrashAndRestart ==
  /\ crashes < MaxCrashes
  /\ crashes' = crashes + 1
  /\ processedTransactionIds' = {}
  /\ processedEventIds' = {}
  /\ queue' = << >>
  /\ available' \in QueueStates
  /\ UNCHANGED network

Next ==
  \/ \E t \in Txns : \/ Send(t) \/ RefuseOrLose(t)
                     \/ LoseAnswer(t) \/ ReceiveOk(t)
                     \/ AnswerDuplicate(t) \/ AnswerUnavailable(t)
                     \/ HandleTransaction(t) \/ HandleThrows(t)
  \/ CrashAndRestart

Spec == Init /\ [][Next]_vars

(***************************************************************************)
(* The homeserver keeps sending; of what is sent again and again something *)
(* arrives, in both directions; Node answers a request it has read.        *)
(***************************************************************************)
Fairness ==
  \A t \in Txns : /\ WF_vars(Send(t))
                  /\ SF_vars(HandleTransaction(t) \/ HandleThrows(t)
                             \/ AnswerDuplicate(t))
                  /\ SF_vars(ReceiveOk(t))

FairSpec == Spec /\ Fairness

-----------------------------------------------------------------------------
(* Properties.                                                             *)

\* Type invariant of homeserver, network and gateway.
TypeOK ==
  /\ acknowledged \in 0..Len(Transactions)
  /\ requests \in [Txns -> 0..MaxInFlight]
  /\ answers \subseteq Txns
  /\ processedTransactionIds \subseteq Txns
  /\ processedEventIds \subseteq EventIds
  /\ queue \in Seq(EventIds)
  /\ available \in BOOLEAN
  /\ crashes \in 0..MaxCrashes

\* Runtime gets each accepted event once, whatever is sent again, repeated in
\* another transaction or in the same one, or retried after a throw; and what
\* is remembered as processed and accepted did get there.
WorkIsQueuedOnce ==
  /\ IsInjective(queue)
  /\ ToSet(queue) = processedEventIds \cap AcceptedIds

\* A transaction the homeserver will not send again (a 200 arrived or is on
\* its way) was handled to its last event, however often it threw before.
AcknowledgedIsComplete ==
  crashes = 0 =>
    \A t \in (1..acknowledged) \cup answers :
      \A i \in DOMAIN Transactions[t] :
        Transactions[t][i].id \in processedEventIds

\* While the gateway stays up, events reach the queue in the order in which
\* the homeserver has them, retries after a throw and late copies of old
\* requests notwithstanding.
Places == UNION {{<<t, i>> : i \in DOMAIN Transactions[t]} : t \in Txns}
IdAt(p) == Transactions[p[1]][p[2]].id
Earlier(p, q) == p[1] < q[1] \/ (p[1] = q[1] /\ p[2] < q[2])

SentBefore(a, b) ==
  \E p \in Places : /\ IdAt(p) = a
                    /\ \A q \in Places : IdAt(q) = b => Earlier(p, q)

WorkIsInOrder ==
  crashes = 0 =>
    \A i, j \in DOMAIN queue : i < j => SentBefore(queue[i], queue[j])

\* As long as the queue stays available, the homeserver gets its 200 for every
\* transaction before the first one that throws, through lost answers, copies
\* that were handled already and a restart: nobody waits for ever.
CleanUpTo ==
  CHOOSE n \in 0..Len(Transactions) :
    /\ \A t \in 1..n : ~Throws(t)
    /\ n + 1 \in Txns => Throws(n + 1)

CleanPrefixIsAcknowledged ==
  <>[]available => <>(acknowledged = CleanUpTo)

\* Every transaction gets acknowledged in the end.  Where a transaction holds
\* rejected input only, docs/analysis/matrix-appservice-gateway.md promises
\* it: "200 for rejected input means the gateway handled the homeserver
\* transaction and prevents retry loops."
AllAcknowledged == <>(acknowledged = Len(Transactions))
=============================================================================
