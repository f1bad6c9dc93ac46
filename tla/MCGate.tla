------------------------------- MODULE MCGate -------------------------------
(* One evaluation over two probes, one of them JSON, of a target that may move *)
(* on once, beside a caller who asks the one probe and posts a report too.  A  *)
(* suite is clean, a test of it fails, it exits without having failed a test, *)
(* it has run no test, it is timed out.                                      *)
EXTENDS GateReport

MCExecutions ==
  {x \in [code : {0, 1}, passed : {0, 1}, failed : {0, 1}, timed_out : BOOLEAN] :
     \/ x.timed_out /\ x.code = 1 /\ x.passed = 0 /\ x.failed = 0
     \/ ~x.timed_out /\ x.passed = 1 /\ x.failed <= x.code
     \/ ~x.timed_out /\ x.passed = 0 /\ x.failed = 0 /\ x.code = 0}
=============================================================================
