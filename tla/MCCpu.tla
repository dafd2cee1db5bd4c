-------------------------------- MODULE MCCpu --------------------------------
(* Cpu with programs that each use a part of it.                           *)
EXTENDS Cpu

Program(parts, size, slots, bits) ==
  [uses |-> parts, size |-> size, slots |-> slots, bits |-> bits]

AllPrograms ==
  {Program({"alu"}, 1, 1, {}),
   Program({"branch", "push", "stack"}, 2, 2, {}),
   Program({"branch"}, 3, 3, {}),
   Program({"interrupt"}, 3, 1, {0, 4}),
   Program({"interrupt"}, 4, 1, {0, 2, 3}),
   Program({"interrupt", "branch"}, 3, 2, {1})}
=============================================================================
