--------------------------------- MODULE Machine ---------------------------------
(***************************************************************************)
(* The compiled program: LLVM's instructions as module Irgen uses them,    *)
(* and the printf and scanf of the C library.  Optimisation, clang and the *)
(* processor are taken to run main as LLVM defines it.                     *)
(***************************************************************************)
EXTENDS Irgen

CONSTANT MaxInstructions   \* bound: the instructions before the program is left alone

ASSUME MachineAssumption == MaxInstructions \in Nat

VARIABLES
  ir,          \* the blocks of main
  at,          \* the next instruction: its block and its place in it
  regs,        \* the values of the instructions that were executed
  memory,      \* what the slots hold that were stored to
  got,         \* how much of the input scanf has read
  output,      \* what printf was given
  poisoned,    \* the operations without a defined result that were met
  outcome,     \* how the program ended, "none" while it runs
  executed     \* the instructions executed, for the bound

machineVars == <<ir, at, regs, memory, got, output, poisoned, outcome, executed>>

Instruction == ir[at[1]].code[at[2]]

Value(operand) ==
  IF operand.kind = "const" THEN operand.number ELSE regs[<<operand.block, operand.index>>]

MachineIdle ==
  /\ ir = <<>> /\ at = <<1, 1>> /\ regs = <<>> /\ memory = <<>> /\ got = 0 /\ output = <<>>
  /\ poisoned = {} /\ outcome = "none" /\ executed = 0

Start(cg) ==
  /\ ir' = cg.blocks
  /\ UNCHANGED <<at, regs, memory, got, output, poisoned, outcome, executed>>

----------------------------------------------------------------------------
Execute(op, next) ==
  /\ outcome = "none" /\ executed < MaxInstructions /\ executed' = executed + 1
  /\ Instruction.op = op
  /\ at' = next
  /\ UNCHANGED ir

Following == <<at[1], at[2] + 1>>

\* The instruction has a value, for those behind it.
Gives(n) == regs' = (at :> n) @@ regs

Put(slot, n) == memory' = (slot :> n) @@ memory

store ==
  /\ Execute("store", Following)
  /\ Put(Instruction.slot, Value(Instruction.value))
  /\ UNCHANGED <<regs, got, output, poisoned, outcome>>

\* A slot that was never stored to has any value.
load ==
  LET slot == Instruction.slot
      held == slot \in DOMAIN memory
  IN  /\ Execute("load", Following)
      /\ \E n \in IF held THEN {memory[slot]} ELSE Arbitrary : Gives(n)
      /\ poisoned' = IF held THEN poisoned ELSE poisoned \cup {slot.name}
      /\ UNCHANGED <<memory, got, output, outcome>>

binary ==
  LET l     == Value(Instruction.left)
      r     == Value(Instruction.right)
      fails == DivisionFails(Instruction.of, l, r)
  IN  /\ Execute("binary", Following)
      /\ poisoned' = IF fails THEN poisoned \cup {"division"} ELSE poisoned
      /\ \/ /\ \E n \in IF fails THEN Arbitrary ELSE {Apply(Instruction.of, l, r)} : Gives(n)
            /\ UNCHANGED outcome
         \/ fails /\ outcome' = "killed" /\ UNCHANGED regs
      /\ UNCHANGED <<memory, got, output>>

unary ==
  /\ Execute("unary", Following)
  /\ Gives(ApplyUnary(Instruction.of, Value(Instruction.operand)))
  /\ UNCHANGED <<memory, got, output, poisoned, outcome>>

\* At the end of the input scanf leaves the slot as it was.
scanf(input) ==
  /\ Execute("scanf", Following)
  /\ Gives(IF got < Len(input) THEN 1 ELSE -1)
  /\ IF got < Len(input)
     THEN /\ Put(Instruction.slot, input[got + 1]) /\ got' = got + 1
          /\ UNCHANGED poisoned
     ELSE poisoned' = poisoned \cup {"input"} /\ UNCHANGED <<memory, got>>
  /\ UNCHANGED <<output, outcome>>

\* printf returns how many characters the number and the line end are.
printf ==
  LET n == Value(Instruction.value)
  IN  /\ Execute("printf", Following)
      /\ output' = Append(output, n)
      /\ Gives(Len(ToString(n)) + 1)
      /\ UNCHANGED <<memory, got, poisoned, outcome>>

br ==
  /\ Execute("br", <<Instruction.target, 1>>)
  /\ UNCHANGED <<regs, memory, got, output, poisoned, outcome>>

condbr ==
  /\ Execute("condbr", <<IF Value(Instruction.condition) # 0 THEN Instruction.then
                         ELSE Instruction.else, 1>>)
  /\ UNCHANGED <<regs, memory, got, output, poisoned, outcome>>

ret ==
  /\ Execute("ret", at) /\ outcome' = "finished"
  /\ UNCHANGED <<regs, memory, got, output, poisoned>>

\* The bound: the program is left alone.
leave ==
  /\ outcome = "none" /\ executed = MaxInstructions /\ outcome' = "cut"
  /\ UNCHANGED <<ir, at, regs, memory, got, output, poisoned, executed>>

MachineNext(input) ==
  \/ store \/ load \/ binary \/ unary \/ scanf(input) \/ printf
  \/ br \/ condbr \/ ret \/ leave
==================================================================================
