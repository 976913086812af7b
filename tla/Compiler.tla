------------------------------ MODULE Compiler ------------------------------
(***************************************************************************)
(* The parts of the compiler side by side.  A program is either one of     *)
(* words that compile jumps, or a single number, address, call or          *)
(* instruction, or, on RISC-V, one of stack words for the optimizer.  What *)
(* the optimizer sees of the other two is their code and CSRI, which       *)
(* Other and Arrive give it.                                               *)
(***************************************************************************)
EXTENDS ControlFlow, Optimizer

CompilerInit == Init /\ FlowInit /\ OptimizerInit

Flow == steps = 0 /\ FlowNext /\ UNCHANGED optimizer
Single == steps = 0 /\ words = 0 /\ Next /\ UNCHANGED <<flow, optimizer>>
Stack ==
  /\ RV /\ here = FirstHere /\ out.kind = "none" /\ words = 0
  /\ OptimizerNext
  /\ UNCHANGED <<vars, flow>>

CompilerNext == Flow \/ Single \/ Stack
CompilerSpec == CompilerInit /\ [][CompilerNext]_<<vars, flow, optimizer>>
=============================================================================
