------------------------------ MODULE MCComponents ------------------------------
(* Instances of the components for TLC; the smaller constants are in the cfg.      *)
EXTENDS Components

\* Clips of one to four frames in chunks of two, also a frame shorter or longer than announced.
MCJobs ==
  { j \in [stage : {"ai", "rife"}, nominal : {1, 3, 4}, real : {1, 3, 4},
           overlapExtract : BOOLEAN, overlapPack : BOOLEAN, cuda : BOOLEAN] :
      j.stage = "rife" => ~j.overlapPack /\ ~j.cuda }

\* A still, a loop, a clip that is faster than the project, and one that ends before it.
MCMedia ==
  [still |-> [frames |-> 1, rate |-> 1, loop |-> FALSE, animated |-> FALSE],
   loop  |-> [frames |-> 3, rate |-> 1, loop |-> TRUE,  animated |-> TRUE],
   fast  |-> [frames |-> 3, rate |-> 2, loop |-> TRUE,  animated |-> TRUE],
   once  |-> [frames |-> 5, rate |-> 2, loop |-> FALSE, animated |-> TRUE]]

MCSizes == [v1 |-> 2, v2 |-> 1]
================================================================================
