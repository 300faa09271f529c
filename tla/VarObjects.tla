----------------------------- MODULE VarObjects -----------------------------
(***************************************************************************)
(* The names the debugger gives to what the front-end watches: the table   *)
(* of registers that llvmIrIterRegs makes of a function                    *)
(* (gdbCmdHandlerLlvmIr.py), file-exec-and-symbols, which loads it         *)
(* (gdbLlvimIr.py), and the commands that use it (gdbLlvimIrCmdVar.py,     *)
(* gdbLlvimIrCmdData.py).                                                  *)
(*                                                                         *)
(* A variable object is named var0, var1, ... by a number, and the number  *)
(* is all that is left of it: below the length of llvmRegs it is taken for *)
(* a register of the server, which has numbered the registers of the       *)
(* simulated function in the same way.                                     *)
(***************************************************************************)
EXTENDS Naturals, Sequences, FiniteSets

CONSTANTS
  Programs,  \* functions: sequences of blocks, which are sequences of results
  Void,      \* the result of an instruction without an integer value
  Exprs,     \* what the front-end watches, the registers' names among it
  Offset,    \* LLVM_IR_SRC_CODELINE_OFFSET
  None,      \* no number
  MaxLoads   \* bound: files loaded in a session

(* The last instruction of a block has no value.                           *)
ASSUME VarAssumption ==
  /\ Programs \subseteq Seq(Seq(Exprs \cup {Void}))
  /\ \A p \in Programs :
       p # <<>> /\ \A b \in 1 .. Len(p) : p[b] # <<>> /\ p[b][Len(p[b])] = Void
  /\ Void \notin Exprs /\ IsFiniteSet(Exprs)
  /\ Offset \in Nat /\ MaxLoads \in Nat
  /\ None \notin Nat

-----------------------------------------------------------------------------
(* llvmIrIterRegs: an instruction is named by its block and its place in   *)
(* it.  LLVM keeps the names in a function apart.                          *)

Instrs(p) == UNION { { <<b, i>> : i \in 1 .. Len(p[b]) } : b \in 1 .. Len(p) }

Result(p, x) == p[x[1]][x[2]]

HasValue(p, x) == Result(p, x) # Void

Registers(p) == { x \in Instrs(p) : HasValue(p, x) }

Before(x, y) == x[1] < y[1] \/ (x[1] = y[1] /\ x[2] < y[2])

(* Mutant of Codeline: instructions without a value do not count.          *)
CodelineOfRegisters(p, x) ==
  Offset + Cardinality({ y \in Registers(p) : Before(y, x) }) + 2 * (x[1] - 1)

(* Between two blocks there is an empty line and a label.                  *)
Codeline(p, x) ==
  Offset + Cardinality({ y \in Instrs(p) : Before(y, x) }) + 2 * (x[1] - 1)

(* Mutant of RegisterIndex: every instruction counts.                      *)
RegisterIndexOfAny(p, x) == 1 + Cardinality({ y \in Instrs(p) : Before(y, x) })

(* Register 0 is the program counter.                                      *)
RegisterIndex(p, x) == 1 + Cardinality({ y \in Registers(p) : Before(y, x) })

InstrCount(p) == Cardinality(Instrs(p))

RegisterCount(p) == Cardinality(Registers(p))

Named(p, e) == { x \in Registers(p) : Result(p, x) = e }

-----------------------------------------------------------------------------
VARIABLES
  target,   \* the function the server simulates
  careful,  \* does the front-end only watch registers, of the function simulated
  remote,   \* state.remote is not None
  llvmRegs, \* the function loaded, which this table is made of; no block when there is none
  tmpVariables,
  tmpVariablesIdCntr,
  alive,    \* FALSE when a command has ended the debugger
  declined, \* history: that was a form of a command that is not implemented
  objects,  \* history: variable objects the front-end has, [expr, number]
  loads,    \* history: files loaded
  orderly   \* history: one was, before anything that is no register was watched

vars == <<target, careful, remote, llvmRegs, tmpVariables, tmpVariablesIdCntr,
          alive, declined, objects, loads, orderly>>

Object == [expr : Exprs, number : Nat]

Counts == { RegisterCount(p) + Cardinality(Exprs) : p \in Programs } \cup {Cardinality(Exprs)}

(* A number is used up by a new expression only.                           *)
VarTypeOK ==
  /\ target \in Programs
  /\ {careful, remote, alive, declined, orderly} \subseteq BOOLEAN
  /\ llvmRegs \in Programs \cup {<<>>}
  /\ tmpVariables \in [Exprs -> Nat \cup {None}]
  /\ \E most \in Counts : tmpVariablesIdCntr \in 0 .. most
  /\ objects \subseteq Object
  /\ loads \in 0 .. MaxLoads

Init ==
  /\ target \in Programs
  /\ careful \in BOOLEAN
  /\ remote = FALSE
  /\ llvmRegs = <<>>
  /\ tmpVariables = [e \in Exprs |-> None]
  /\ tmpVariablesIdCntr = 0
  /\ alive = TRUE
  /\ declined = FALSE
  /\ objects = {}
  /\ loads = 0
  /\ orderly = FALSE

(* The front-end's names, and what it does when it is careful.             *)
Watched == { o.number : o \in objects }

Serving == alive /\ (careful => remote)

-----------------------------------------------------------------------------
TargetSelect ==
  /\ alive /\ ~remote
  /\ remote' = TRUE
  /\ UNCHANGED <<target, careful, llvmRegs, tmpVariables, tmpVariablesIdCntr,
                 alive, declined, objects, loads, orderly>>

(* Mutant of FileExec: the largest register number is one too small.       *)
FileExecFromZero ==
  \E p \in Programs :
    /\ alive /\ loads < MaxLoads
    /\ careful => loads = 0 /\ p = target
    /\ llvmRegs' = p
    /\ tmpVariablesIdCntr' = IF RegisterCount(p) = 0 THEN 0 ELSE RegisterCount(p) - 1
    /\ loads' = loads + 1
    /\ orderly' = (loads = 0 /\ \A e \in Exprs : tmpVariables[e] = None)
    /\ UNCHANGED <<target, careful, remote, tmpVariables, alive, declined, objects>>

(* The counter starts at the largest register number.                      *)
FileExec ==
  \E p \in Programs :
    /\ alive /\ loads < MaxLoads
    /\ careful => loads = 0 /\ p = target
    /\ llvmRegs' = p
    /\ tmpVariablesIdCntr' = RegisterCount(p)
    /\ loads' = loads + 1
    /\ orderly' = (loads = 0 /\ \A e \in Exprs : tmpVariables[e] = None)
    /\ UNCHANGED <<target, careful, remote, tmpVariables, alive, declined, objects>>

(* readRegister: with no remote there is no such method, and a number that *)
(* the server has no register for ends the server, then the debugger.      *)
Readable(n) == remote /\ n <= RegisterCount(target)

CreateRegister(e) ==
  \E x \in Named(llvmRegs, e) :
    LET n == RegisterIndex(llvmRegs, x)
    IN  /\ alive' = Readable(n)
        /\ objects' = IF Readable(n) THEN objects \cup {[expr |-> e, number |-> n]} ELSE objects
        /\ UNCHANGED <<tmpVariables, tmpVariablesIdCntr>>

(* Mutant of CreateTemporary: a name already given counts again.           *)
CreateTemporaryAgain(e) ==
  LET n == IF tmpVariables[e] = None THEN tmpVariablesIdCntr ELSE tmpVariables[e]
  IN  /\ Named(llvmRegs, e) = {} /\ ~careful
      /\ tmpVariables' = [tmpVariables EXCEPT ![e] = n]
      /\ tmpVariablesIdCntr' = tmpVariablesIdCntr + 1
      /\ objects' = objects \cup {[expr |-> e, number |-> n]}
      /\ UNCHANGED alive

(* What is no register gets a number for good, and no value.               *)
CreateTemporary(e) ==
  /\ Named(llvmRegs, e) = {} /\ ~careful
  /\ \/ /\ tmpVariables[e] # None
        /\ objects' = objects \cup {[expr |-> e, number |-> tmpVariables[e]]}
        /\ UNCHANGED <<tmpVariables, tmpVariablesIdCntr>>
     \/ /\ tmpVariables[e] = None
        /\ objects' = objects \cup {[expr |-> e, number |-> tmpVariablesIdCntr]}
        /\ tmpVariables' = [tmpVariables EXCEPT ![e] = tmpVariablesIdCntr]
        /\ tmpVariablesIdCntr' = tmpVariablesIdCntr + 1
  /\ UNCHANGED alive

VarCreate ==
  /\ Serving
  /\ \E e \in Exprs : CreateRegister(e) \/ CreateTemporary(e)
  /\ UNCHANGED <<target, careful, remote, llvmRegs, declined, loads, orderly>>

(* The assertion of var-delete.  The number stays in tmpVariables.         *)
Deletable(n) == 0 < n /\ n < InstrCount(llvmRegs)

VarDelete ==
  /\ Serving
  /\ \E n \in Watched :
       /\ alive' = Deletable(n)
       /\ objects' = { o \in objects : o.number # n }
  /\ UNCHANGED <<target, careful, remote, llvmRegs, tmpVariables, tmpVariablesIdCntr,
                 declined, loads, orderly>>

(* A number of no instruction has no value.                                *)
VarUpdate ==
  /\ Serving
  /\ \E n \in Watched : alive' = (n < InstrCount(llvmRegs) => Readable(n))
  /\ UNCHANGED <<target, careful, remote, llvmRegs, tmpVariables, tmpVariablesIdCntr,
                 declined, objects, loads, orderly>>

(* data-list-register-values reads all.                                    *)
ListRegisterValues ==
  /\ Serving
  /\ alive' = (Registers(llvmRegs) # {} => Readable(RegisterCount(llvmRegs)))
  /\ UNCHANGED <<target, careful, remote, llvmRegs, tmpVariables, tmpVariablesIdCntr,
                 declined, objects, loads, orderly>>

(* var-update of "*", and data-evaluate-expression with an option before   *)
(* the expression, whatever is watched.  (Without one the quotes around    *)
(* the expression keep it from being any register's name, and the answer   *)
(* is an error.)                                                           *)
NotImplemented ==
  /\ alive
  /\ alive' = FALSE
  /\ declined' = TRUE
  /\ UNCHANGED <<target, careful, remote, llvmRegs, tmpVariables, tmpVariablesIdCntr,
                 objects, loads, orderly>>

Next ==
  \/ TargetSelect
  \/ FileExec
  \/ VarCreate
  \/ VarDelete
  \/ VarUpdate
  \/ ListRegisterValues
  \/ NotImplemented

Spec == Init /\ [][Next]_vars

-----------------------------------------------------------------------------
(* Two instructions never have one code line: a code line, or eight times  *)
(* it, names an instruction in breakpoints, stop reports and               *)
(* symbol-list-lines.                                                      *)
OneLineEach ==
  \A x, y \in Instrs(llvmRegs) :
    Codeline(llvmRegs, x) = Codeline(llvmRegs, y) => x = y

(* In a session that loads one file before it watches anything else, the   *)
(* objects of two expressions have one number only if it is the last       *)
(* register's, which the first temporary gets too: everything else that    *)
(* is watched stays apart, through deletions and repeated creations.       *)
SharedNames ==
  orderly =>
    \A o1, o2 \in objects :
      o1.number = o2.number => o1.expr = o2.expr \/ o1.number = RegisterCount(llvmRegs)

(* A front-end that only watches registers of the function simulated, and  *)
(* connects first, loses the debugger through nothing but the two commands *)
(* of NotImplemented, which raise NotImplementedError: debugger and server *)
(* number the registers alike, and every register's number passes the      *)
(* assertion of var-delete because a function ends in an instruction       *)
(* without value.                                                          *)
CarefulAlive == careful /\ ~alive => declined

(* "assert regIndex > 0 and regIndex < len(state.llvmRegs)", of every name *)
(* that var-create has given out.                                          *)
NamesDeletable == orderly => \A n \in Watched : Deletable(n)

=============================================================================
