------------------------------ MODULE MCParameters ------------------------------
(* Small instances of Parameters for TLC. *)
EXTENDS Parameters, TLC

CONSTANTS sim, p, c1, c2

\* use_sim_time is a boolean, p an integer, odd when its range says so.
Integer(i) == [type |-> "integer", val |-> i]
MCValuesOf == [n \in {sim, p} |-> IF n = sim THEN {Bool(FALSE), Bool(TRUE), Integer(1)}
                                            ELSE {Integer(1), Integer(2)}]
Odd == [from |-> 1, to |-> 3, step |-> 2]
MCDescriptors == {[type |-> "integer", readOnly |-> TRUE, range |-> Odd]}

\* InRange against what a range means: the values from, from + step, ... up to to.
ASSUME InRangeIsMembership ==
  \A from, to \in -3 .. 3, step \in 0 .. 3, value \in -4 .. 4 :
    InRange([from |-> from, to |-> to, step |-> step], value) <=>
      value \in {v \in from .. to : step = 0 \/ \E k \in 0 .. 6 : v = from + k * step}
================================================================================
