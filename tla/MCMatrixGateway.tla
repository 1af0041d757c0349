-------------------------- MODULE MCMatrixGateway --------------------------
(***************************************************************************)
(* Instances of MatrixGateway for TLC.                                     *)
(***************************************************************************)
EXTENDS MatrixGateway

Event(id, kind) == [id |-> id, kind |-> kind]

Work(id) == Event(id, "accepted")
Junk(id) == Event(id, "rejected")

\* Events repeated within a transaction and across transactions, rejected
\* input between work.
CleanTransactions ==
  << << Work("e1"), Junk("e2"), Work("e1"), Work("e3") >>,
     << Work("e3"), Work("e4") >>,
     << Junk("e2"), Work("e5"), Work("e4") >> >>

\* The same, but the last transaction has an event that throws, with work
\* before and after it.
ThrowingTransactions ==
  << CleanTransactions[1], CleanTransactions[2],
     << Junk("e2"), Work("e5"), Event(None, "malformed"), Work("e6") >> >>

\* Rejected input only.
RejectedTransactions == << << Junk("e1") >>, << Event("e2", "unmappable") >> >>
=============================================================================
