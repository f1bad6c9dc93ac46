---------------------------- MODULE MCExperiment ----------------------------
(* Two affected probes, one of them hidden, and one control.  One recovered   *)
(* probe more is significant.  MCWorlds has a version of each kind: one faulty *)
(* layer, two of them alone or together, one with a fault outside, alone or   *)
(* together, one the hidden probe does not show, a broken control, a flaky    *)
(* trial.  In those that tell executions apart both servers are called, in    *)
(* the others one server twice.                                              *)
EXTENDS ExperimentRun, TLC

CONSTANTS d1, h1, k1, s1, s2

Probes   == <<d1, h1, k1>>
Cells    == <<"RK", "C", "G", "RP", "RM">>
MCOrder  == [i \in 1..15 |-> <<Cells[((i - 1) \div 3) + 1], Probes[((i - 1) % 3) + 1]>>]
MCSignificant == {c \in (0..2) \X (0..2) : c[1] > c[2]}
MCReproduced  == {c \in (0..1) \X (0..1) : c[1] > c[2]}

World(faults) == [faults |-> faults, mode |-> "any", hidden |-> TRUE, broken |-> {}, flaky |-> {}]
One   == World({"kb"})
Flaky == [One EXCEPT !.flaky = {<<"RP", d1>>}]
MCWorlds ==
  {One, Flaky, World({"prompt", "kb"}),
   [World({"prompt", "kb"}) EXCEPT !.mode = "all"], World({"kb", "outside"}),
   [World({"kb", "outside"}) EXCEPT !.mode = "all"],
   [One EXCEPT !.hidden = FALSE], [One EXCEPT !.broken = {"RM"}]}
MCMaxCalls == [w \in MCWorlds |-> IF w \in {One, Flaky} THEN s1 :> 1 @@ s2 :> 1
                                  ELSE s1 :> 2 @@ s2 :> 0]

ASSUME EnoughAssumption == EnoughProbes
=============================================================================
