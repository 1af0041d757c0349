---------------------------- MODULE TaskJournal ----------------------------
(***************************************************************************)
(* What the task store promises, without commands, results or snapshots:   *)
(* each task has a journal of the states it went through.  A journal opens *)
(* with one state, grows at its end by one legal edge at a time, and is    *)
(* otherwise never rewritten.                                              *)
(***************************************************************************)
EXTENDS Naturals, Sequences

CONSTANTS
  TaskIds,      \* tasks
  StartStates,  \* states a journal may open with
  Edges         \* legal moves, pairs of states

VARIABLE journal

JournalInit == journal = [t \in TaskIds |-> << >>]

Open(t, s) ==
  /\ journal[t] = << >>
  /\ journal' = [journal EXCEPT ![t] = << s >>]

Move(t) ==
  LET path == journal[t]
      next == {e[2] : e \in {e \in Edges : e[1] = path[Len(path)]}}
  IN  /\ path # << >>
      /\ \E s \in next : journal' = [journal EXCEPT ![t] = Append(path, s)]

Forget == journal' = [t \in TaskIds |-> << >>]

JournalNext ==
  \/ \E t \in TaskIds, s \in StartStates : Open(t, s)
  \/ \E t \in TaskIds : Move(t)
  \/ Forget

JournalSpec == JournalInit /\ [][JournalNext]_journal
=============================================================================
