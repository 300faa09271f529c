-------------------------- MODULE VarObjects_proofs --------------------------
(***************************************************************************)
(* Theorems about VarObjects: the numbers given to registers and code      *)
(* lines keep them apart in every function, and with that the names of     *)
(* variable objects are as good as SharedNames and CarefulAlive say.       *)
(***************************************************************************)
EXTENDS VarObjects, FiniteSetTheorems, TLAPS

-----------------------------------------------------------------------------
(* Every table is finite, and Before is a strict order of it.              *)

Loaded == Programs \cup {<<>>}

LEMMA Shape ==
  ASSUME NEW p \in Loaded
  PROVE  /\ Len(p) \in Nat
         /\ \A b \in 1 .. Len(p) : Len(p[b]) \in Nat
BY VarAssumption DEF Loaded

LEMMA InstrPlace ==
  ASSUME NEW p \in Loaded, NEW x \in Instrs(p)
  PROVE  /\ x = <<x[1], x[2]>>
         /\ x[1] \in 1 .. Len(p) /\ x[2] \in 1 .. Len(p[x[1]])
         /\ x[1] \in Nat /\ x[2] \in Nat /\ x[1] >= 1
         /\ Len(p) \in Nat
<1>1. PICK b \in 1 .. Len(p) : \E i \in 1 .. Len(p[b]) : x = <<b, i>>
  BY DEF Instrs
<1> QED
  BY <1>1, Shape

LEMMA InstrsFinite ==
  ASSUME NEW p \in Loaded
  PROVE  IsFiniteSet(Instrs(p))
<1> DEFINE Block(b) == { <<b, i>> : i \in 1 .. Len(p[b]) }
           Blocks == { Block(b) : b \in 1 .. Len(p) }
<1>1. ASSUME NEW b \in 1 .. Len(p)
      PROVE  IsFiniteSet(Block(b))
  <2> DEFINE f == [i \in 1 .. Len(p[b]) |-> <<b, i>>]
  <2>1. f \in Surjection(1 .. Len(p[b]), Block(b))
    BY DEF Surjection
  <2>2. IsFiniteSet(1 .. Len(p[b]))
    <3>1. 1 \in Int /\ Len(p[b]) \in Int
      BY Shape
    <3> QED
      BY <3>1, FS_Interval
  <2> HIDE DEF f
  <2> QED
    BY <2>1, <2>2, FS_Surjection
<1>2. IsFiniteSet(Blocks)
  <2> DEFINE f == [b \in 1 .. Len(p) |-> Block(b)]
  <2>1. f \in Surjection(1 .. Len(p), Blocks)
    BY DEF Surjection
  <2>2. IsFiniteSet(1 .. Len(p))
    BY Shape, FS_Interval
  <2> QED
    BY <2>1, <2>2, FS_Surjection
<1>3. \A T \in Blocks : IsFiniteSet(T)
  BY <1>1
<1>4. Instrs(p) = UNION Blocks
  BY DEF Instrs
<1> HIDE DEF Blocks
<1> QED
  BY <1>2, <1>3, <1>4, FS_UNION

LEMMA BeforeOrders ==
  ASSUME NEW p \in Loaded, NEW x \in Instrs(p), NEW y \in Instrs(p)
  PROVE  /\ x # y => Before(x, y) \/ Before(y, x)
         /\ ~Before(x, x)
         /\ Before(x, y) => x[1] <= y[1]
         /\ \A z \in Instrs(p) : Before(z, x) /\ Before(x, y) => Before(z, y)
<1>1. \A z \in Instrs(p) : z = <<z[1], z[2]>> /\ z[1] \in Nat /\ z[2] \in Nat
  BY InstrPlace
<1> QED
  BY <1>1 DEF Before

(* Of two members of a set in this order, the later one has more before it.*)
LEMMA BeforeCounts ==
  ASSUME NEW p \in Loaded, NEW S \in SUBSET Instrs(p),
         NEW x \in S, NEW y \in S, Before(x, y)
  PROVE  LET ahead(z) == { w \in S : Before(w, z) }
         IN  /\ Cardinality(ahead(x)) \in Nat /\ Cardinality(ahead(y)) \in Nat
             /\ Cardinality(ahead(x)) < Cardinality(ahead(y))
<1> DEFINE ahead(z) == { w \in S : Before(w, z) }
<1>1. IsFiniteSet(S)
  BY InstrsFinite, FS_Subset
<1>2. IsFiniteSet(ahead(x)) /\ IsFiniteSet(ahead(y))
  <2>1. ahead(x) \in SUBSET S /\ ahead(y) \in SUBSET S
    OBVIOUS
  <2> QED
    BY <1>1, <2>1, FS_Subset
<1>3. x \notin ahead(x) /\ ahead(x) \cup {x} \in SUBSET ahead(y)
  BY BeforeOrders
<1>4. Cardinality(ahead(x) \cup {x}) = Cardinality(ahead(x)) + 1
  <2> HIDE DEF ahead
  <2> QED
    BY <1>2, <1>3, FS_AddElement
<1>5. Cardinality(ahead(x) \cup {x}) <= Cardinality(ahead(y))
  <2> HIDE DEF ahead
  <2> QED
    BY <1>2, <1>3, FS_Subset
<1>6. Cardinality(ahead(x)) \in Nat /\ Cardinality(ahead(y)) \in Nat
  <2> HIDE DEF ahead
  <2> QED
    BY <1>2, FS_CardinalityType
<1> QED
  BY <1>4, <1>5, <1>6

-----------------------------------------------------------------------------
(* What the two numberings are worth, for every function.                  *)

(* llvmIrIterRegs: two instructions never have one code line.              *)
LEMMA CodelineApart ==
  ASSUME NEW p \in Loaded, NEW x \in Instrs(p), NEW y \in Instrs(p),
         Codeline(p, x) = Codeline(p, y)
  PROVE  x = y
<1>1. ASSUME NEW v \in Instrs(p), NEW w \in Instrs(p), Before(v, w)
      PROVE  Codeline(p, v) < Codeline(p, w)
  <2> DEFINE ahead(z) == { u \in Instrs(p) : Before(u, z) }
  <2>1. /\ Cardinality(ahead(v)) \in Nat /\ Cardinality(ahead(w)) \in Nat
        /\ Cardinality(ahead(v)) < Cardinality(ahead(w))
    BY <1>1, BeforeCounts
  <2>2. v[1] \in Nat /\ w[1] \in Nat /\ v[1] <= w[1]
    BY <1>1, BeforeOrders, InstrPlace
  <2>3. /\ Codeline(p, v) = Offset + Cardinality(ahead(v)) + 2 * (v[1] - 1)
        /\ Codeline(p, w) = Offset + Cardinality(ahead(w)) + 2 * (w[1] - 1)
    BY DEF Codeline
  <2> HIDE DEF ahead
  <2> QED
    BY <2>1, <2>2, <2>3, VarAssumption
<1>2. \A z \in Instrs(p) : Codeline(p, z) \in Int
  <2> SUFFICES ASSUME NEW z \in Instrs(p) PROVE Codeline(p, z) \in Int
    OBVIOUS
  <2> DEFINE ahead == { u \in Instrs(p) : Before(u, z) }
  <2>1. Cardinality(ahead) \in Nat
    BY InstrsFinite, FS_Subset, FS_CardinalityType
  <2>2. Codeline(p, z) = Offset + Cardinality(ahead) + 2 * (z[1] - 1)
    BY DEF Codeline
  <2> HIDE DEF ahead
  <2> QED
    BY <2>1, <2>2, InstrPlace, VarAssumption
<1> QED
  BY <1>1, <1>2, BeforeOrders

LEMMA RegistersFinite ==
  ASSUME NEW p \in Loaded
  PROVE  /\ Registers(p) \in SUBSET Instrs(p)
         /\ IsFiniteSet(Registers(p))
         /\ RegisterCount(p) \in Nat /\ InstrCount(p) \in Nat
<1>1. Registers(p) \in SUBSET Instrs(p)
  BY DEF Registers
<1> QED
  BY <1>1, InstrsFinite, FS_Subset, FS_CardinalityType DEF RegisterCount, InstrCount

(* Two registers never have one number, and the numbers end with the count.*)
LEMMA RegisterApart ==
  ASSUME NEW p \in Loaded, NEW x \in Registers(p), NEW y \in Registers(p),
         RegisterIndex(p, x) = RegisterIndex(p, y)
  PROVE  x = y
<1>1. ASSUME NEW v \in Registers(p), NEW w \in Registers(p), Before(v, w)
      PROVE  RegisterIndex(p, v) # RegisterIndex(p, w)
  <2> DEFINE ahead(z) == { u \in Registers(p) : Before(u, z) }
  <2>1. /\ Cardinality(ahead(v)) \in Nat /\ Cardinality(ahead(w)) \in Nat
        /\ Cardinality(ahead(v)) < Cardinality(ahead(w))
    BY <1>1, BeforeCounts, RegistersFinite
  <2>2. /\ RegisterIndex(p, v) = 1 + Cardinality(ahead(v))
        /\ RegisterIndex(p, w) = 1 + Cardinality(ahead(w))
    BY DEF RegisterIndex
  <2> HIDE DEF ahead
  <2> QED
    BY <2>1, <2>2
<1> QED
  BY <1>1, BeforeOrders, RegistersFinite

LEMMA RegisterRange ==
  ASSUME NEW p \in Loaded, NEW x \in Registers(p)
  PROVE  /\ RegisterIndex(p, x) \in Nat
         /\ 1 <= RegisterIndex(p, x) /\ RegisterIndex(p, x) <= RegisterCount(p)
<1> DEFINE ahead == { u \in Registers(p) : Before(u, x) }
<1>1. ahead \in SUBSET (Registers(p) \ {x})
  BY BeforeOrders, RegistersFinite
<1>2. /\ IsFiniteSet(Registers(p) \ {x})
      /\ Cardinality(Registers(p) \ {x}) = RegisterCount(p) - 1
  BY RegistersFinite, FS_RemoveElement DEF RegisterCount
<1>3. IsFiniteSet(ahead) /\ Cardinality(ahead) <= RegisterCount(p) - 1
  BY <1>1, <1>2, FS_Subset
<1>4. Cardinality(ahead) \in Nat
  BY <1>3, FS_CardinalityType
<1>5. RegisterIndex(p, x) = 1 + Cardinality(ahead)
  BY DEF RegisterIndex
<1> HIDE DEF ahead
<1> QED
  BY <1>3, <1>4, <1>5, RegistersFinite

(* The assertion of var-delete counts the instructions, of which a function*)
(* has more than registers.                                                *)
LEMMA MoreInstrs ==
  ASSUME NEW p \in Programs
  PROVE  RegisterCount(p) < InstrCount(p)
<1> DEFINE x == <<1, Len(p[1])>>
<1>0. p \in Loaded
  BY DEF Loaded
<1>1. p # <<>> /\ p \in Seq(Seq(Exprs \cup {Void}))
  BY VarAssumption
<1>2. Len(p) \in Nat /\ Len(p) # 0
  BY <1>1
<1>3. 1 \in 1 .. Len(p)
  BY <1>2
<1>4. p[1] \in Seq(Exprs \cup {Void}) /\ p[1] # <<>> /\ p[1][Len(p[1])] = Void
  BY <1>1, <1>3, VarAssumption
<1>5. Len(p[1]) \in 1 .. Len(p[1])
  BY <1>4
<1>6. x \in Instrs(p) /\ x \notin Registers(p)
  BY <1>3, <1>4, <1>5 DEF Instrs, Registers, HasValue, Result
<1>7. Registers(p) \in SUBSET Instrs(p) /\ Registers(p) # Instrs(p)
  BY <1>0, <1>6, RegistersFinite
<1> QED
  BY <1>0, <1>7, RegistersFinite, InstrsFinite, FS_Subset DEF RegisterCount, InstrCount

LEMMA NothingNamed ==
  \A e \in Exprs : Named(<<>>, e) = {}
BY DEF Named, Registers, Instrs

LEMMA NoRegisters == Registers(<<>>) = {} /\ RegisterCount(<<>>) = 0
<1>1. Registers(<<>>) = {}
  BY DEF Registers, Instrs
<1> QED
  BY <1>1, FS_EmptySet DEF RegisterCount

-----------------------------------------------------------------------------
(* The inductive invariants.  The counter is bounded because every number  *)
(* it gives takes an expression out of Unnamed.                            *)

VarTypes ==
  /\ target \in Programs
  /\ careful \in BOOLEAN /\ remote \in BOOLEAN /\ alive \in BOOLEAN
  /\ declined \in BOOLEAN /\ orderly \in BOOLEAN
  /\ llvmRegs \in Loaded
  /\ tmpVariables \in [Exprs -> Nat \cup {None}]
  /\ tmpVariablesIdCntr \in Nat
  /\ objects \subseteq Object
  /\ loads \in 0 .. MaxLoads

Unnamed == { e \in Exprs : tmpVariables[e] = None }

Numbered == \E most \in Counts : tmpVariablesIdCntr + Cardinality(Unnamed) <= most

OfRegister(o) == \E x \in Named(llvmRegs, o.expr) : o.number = RegisterIndex(llvmRegs, x)

(* Before the first file there are only temporaries; in an orderly session *)
(* their numbers start where the registers' end.                           *)
Unloaded ==
  loads = 0 =>
    /\ llvmRegs = <<>> /\ ~orderly
    /\ \A o \in objects : tmpVariables[o.expr] = o.number

Temporaries ==
  orderly =>
    /\ RegisterCount(llvmRegs) <= tmpVariablesIdCntr
    /\ \A e \in Exprs : tmpVariables[e] # None =>
         RegisterCount(llvmRegs) <= tmpVariables[e] /\ tmpVariables[e] < tmpVariablesIdCntr
    /\ \A e1, e2 \in Exprs :
         tmpVariables[e1] # None /\ tmpVariables[e1] = tmpVariables[e2] => e1 = e2

Numbers ==
  orderly => \A o \in objects : OfRegister(o) \/ tmpVariables[o.expr] = o.number

OfTarget ==
  careful =>
    /\ alive \/ declined
    /\ llvmRegs \in {<<>>, target}
    /\ loads = 0 => llvmRegs = <<>>
    /\ \A o \in objects : 1 <= o.number /\ o.number <= RegisterCount(llvmRegs)

-----------------------------------------------------------------------------
LEMMA InitInvariants ==
  ASSUME Init
  PROVE  VarTypes /\ Numbered /\ Unloaded /\ Temporaries /\ Numbers /\ OfTarget
<1>1. VarTypes
  <2>1. llvmRegs \in Loaded /\ tmpVariables \in [Exprs -> Nat \cup {None}]
    BY DEF Init, Loaded
  <2>2. loads \in 0 .. MaxLoads
    BY VarAssumption DEF Init
  <2> QED
    BY <2>1, <2>2, Zenon DEF Init, VarTypes
<1>2. Numbered
  <2>1. Unnamed = Exprs
    BY DEF Init, Unnamed
  <2>2. Cardinality(Exprs) \in Nat
    BY VarAssumption, FS_CardinalityType
  <2>3. tmpVariablesIdCntr + Cardinality(Unnamed) <= Cardinality(Exprs)
    BY <2>1, <2>2 DEF Init
  <2> QED
    BY <2>3 DEF Numbered, Counts
<1>3. Unloaded /\ Temporaries /\ Numbers /\ OfTarget
  BY DEF Init, Unloaded, Temporaries, Numbers, OfTarget
<1> QED
  BY <1>1, <1>2, <1>3

(* What var-create does to the numbers, in its three cases.                *)
LEMMA VarCreateCases ==
  ASSUME VarTypes, VarCreate
  PROVE  \E e \in Exprs :
           \/ \E x \in Named(llvmRegs, e) :
                /\ x \in Registers(llvmRegs) /\ Result(llvmRegs, x) = e
                /\ alive' = Readable(RegisterIndex(llvmRegs, x))
                /\ objects' \in {objects,
                     objects \cup {[expr |-> e, number |-> RegisterIndex(llvmRegs, x)]}}
                /\ UNCHANGED <<tmpVariables, tmpVariablesIdCntr>>
           \/ /\ ~careful /\ alive' = alive
              /\ tmpVariables[e] \in Nat
              /\ objects' = objects \cup {[expr |-> e, number |-> tmpVariables[e]]}
              /\ UNCHANGED <<tmpVariables, tmpVariablesIdCntr>>
           \/ /\ ~careful /\ alive' = alive
              /\ tmpVariables[e] = None
              /\ objects' = objects \cup {[expr |-> e, number |-> tmpVariablesIdCntr]}
              /\ tmpVariables' = [tmpVariables EXCEPT ![e] = tmpVariablesIdCntr]
              /\ tmpVariablesIdCntr' = tmpVariablesIdCntr + 1
<1>1. PICK e \in Exprs : CreateRegister(e) \/ CreateTemporary(e)
  BY DEF VarCreate
<1>2. CASE CreateRegister(e)
  BY <1>2 DEF CreateRegister, Named
<1>3. CASE CreateTemporary(e)
  BY <1>3 DEF CreateTemporary, VarTypes
<1> QED
  BY <1>1, <1>2, <1>3

LEMMA ReadableType ==
  ASSUME VarTypes, NEW n \in Nat
  PROVE  Readable(n) \in BOOLEAN
BY DEF VarTypes, Readable

LEMMA StepTypes ==
  ASSUME VarTypes, [Next]_vars
  PROVE  VarTypes'
<1>1. CASE UNCHANGED vars
  BY <1>1 DEF vars, VarTypes
<1>2. CASE TargetSelect
  BY <1>2 DEF TargetSelect, VarTypes
<1>3. CASE FileExec
  <2>1. PICK p \in Programs :
          /\ llvmRegs' = p /\ tmpVariablesIdCntr' = RegisterCount(p)
          /\ loads < MaxLoads /\ loads' = loads + 1
          /\ orderly' = (loads = 0 /\ \A e \in Exprs : tmpVariables[e] = None)
          /\ UNCHANGED <<target, careful, remote, tmpVariables, alive, declined, objects>>
    BY <1>3 DEF FileExec
  <2>2. p \in Loaded
    BY DEF Loaded
  <2>3. RegisterCount(p) \in Nat
    BY <2>2, RegistersFinite
  <2> QED
    BY <2>1, <2>2, <2>3, VarAssumption DEF VarTypes
<1>4. CASE VarCreate
  <2>1. UNCHANGED <<target, careful, remote, llvmRegs, declined, loads, orderly>>
    BY <1>4 DEF VarCreate
  <2>2. llvmRegs \in Loaded /\ \A x \in Registers(llvmRegs) : RegisterIndex(llvmRegs, x) \in Nat
    BY RegisterRange DEF VarTypes
  <2>3. /\ alive' \in BOOLEAN /\ objects' \subseteq Object
        /\ tmpVariables' \in [Exprs -> Nat \cup {None}] /\ tmpVariablesIdCntr' \in Nat
    BY <1>4, <2>2, VarCreateCases, ReadableType DEF VarTypes, Object
  <2> QED
    BY <2>1, <2>3 DEF VarTypes
<1>5. CASE VarDelete
  <2>1. PICK n \in Watched :
          alive' = Deletable(n) /\ objects' = { o \in objects : o.number # n }
    BY <1>5 DEF VarDelete
  <2>2. alive' \in BOOLEAN /\ objects' \subseteq Object
    BY <2>1 DEF Deletable, VarTypes
  <2> QED
    BY <1>5, <2>2 DEF VarDelete, VarTypes
<1>6. CASE VarUpdate
  <2>1. PICK n \in Watched : alive' = (n < InstrCount(llvmRegs) => Readable(n))
    BY <1>6 DEF VarUpdate
  <2>2. alive' \in BOOLEAN
    BY <2>1
  <2> QED
    BY <1>6, <2>2 DEF VarUpdate, VarTypes
<1>7. CASE ListRegisterValues
  BY <1>7 DEF ListRegisterValues, VarTypes
<1>8. CASE NotImplemented
  BY <1>8 DEF NotImplemented, VarTypes
<1> QED
  BY <1>1, <1>2, <1>3, <1>4, <1>5, <1>6, <1>7, <1>8 DEF Next

LEMMA CountsAreNumbers == \A n \in Counts : n \in Nat
<1>1. Cardinality(Exprs) \in Nat
  BY VarAssumption, FS_CardinalityType
<1>2. \A p \in Programs : RegisterCount(p) \in Nat
  BY RegistersFinite DEF Loaded
<1> QED
  BY <1>1, <1>2 DEF Counts

(* A fresh number is paid for by one expression less without one.          *)
LEMMA StepNumbered ==
  ASSUME VarTypes, Numbered, [Next]_vars
  PROVE  Numbered'
<1>0. /\ IsFiniteSet(Unnamed) /\ Cardinality(Unnamed) \in Nat
      /\ Cardinality(Unnamed) <= Cardinality(Exprs) /\ Cardinality(Exprs) \in Nat
  BY VarAssumption, FS_Subset, FS_CardinalityType DEF Unnamed
<1>1. CASE UNCHANGED <<tmpVariables, tmpVariablesIdCntr>>
  BY <1>1 DEF Numbered, Unnamed
<1>2. CASE FileExec
  <2>1. PICK p \in Programs : tmpVariablesIdCntr' = RegisterCount(p)
    BY <1>2 DEF FileExec
  <2>2. Unnamed' = Unnamed
    BY <1>2 DEF FileExec, Unnamed
  <2>3. RegisterCount(p) \in Nat
    BY RegistersFinite DEF Loaded
  <2>4. RegisterCount(p) + Cardinality(Unnamed) <= RegisterCount(p) + Cardinality(Exprs)
    BY <1>0, <2>3
  <2>5. RegisterCount(p) + Cardinality(Exprs) \in Counts
    BY DEF Counts
  <2> QED
    BY <2>1, <2>2, <2>4, <2>5 DEF Numbered
<1>3. CASE VarCreate
  <2>1. PICK e \in Exprs :
          \/ UNCHANGED <<tmpVariables, tmpVariablesIdCntr>>
          \/ /\ tmpVariables[e] = None
             /\ tmpVariables' = [tmpVariables EXCEPT ![e] = tmpVariablesIdCntr]
             /\ tmpVariablesIdCntr' = tmpVariablesIdCntr + 1
    BY <1>3, VarCreateCases
  <2>2. CASE UNCHANGED <<tmpVariables, tmpVariablesIdCntr>>
    BY <1>1, <2>2
  <2>3. CASE /\ tmpVariables[e] = None
             /\ tmpVariables' = [tmpVariables EXCEPT ![e] = tmpVariablesIdCntr]
             /\ tmpVariablesIdCntr' = tmpVariablesIdCntr + 1
    <3>1. e \in Unnamed /\ Unnamed' = Unnamed \ {e}
      BY <2>3, VarAssumption DEF Unnamed, VarTypes
    <3>2. Cardinality(Unnamed') = Cardinality(Unnamed) - 1
      BY <1>0, <3>1, FS_RemoveElement
    <3>3. PICK most \in Counts : tmpVariablesIdCntr + Cardinality(Unnamed) <= most
      BY DEF Numbered
    <3>4. tmpVariablesIdCntr' + Cardinality(Unnamed') = tmpVariablesIdCntr + Cardinality(Unnamed)
      BY <1>0, <2>3, <3>2 DEF VarTypes
    <3>5. Counts' = Counts
      BY DEF Counts
    <3> QED
      BY <3>3, <3>4, <3>5 DEF Numbered
  <2> QED
    BY <2>1, <2>2, <2>3
<1>4. CASE TargetSelect \/ VarDelete \/ VarUpdate \/ ListRegisterValues \/ NotImplemented
  BY <1>1, <1>4 DEF TargetSelect, VarDelete, VarUpdate, ListRegisterValues, NotImplemented
<1> QED
  BY <1>1, <1>2, <1>3, <1>4 DEF Next, vars

LEMMA StepUnloaded ==
  ASSUME VarTypes, Unloaded, [Next]_vars
  PROVE  Unloaded'
<1>1. CASE FileExec
  BY <1>1 DEF FileExec, VarTypes, Unloaded
<1>2. CASE VarCreate
  <2>1. UNCHANGED <<llvmRegs, loads, orderly>>
    BY <1>2 DEF VarCreate
  <2>2. SUFFICES ASSUME loads = 0
                 PROVE  \A o \in objects' : tmpVariables'[o.expr] = o.number
    BY <2>1 DEF Unloaded
  <2>3. \A e \in Exprs : Named(llvmRegs, e) = {}
    BY <2>2, NothingNamed DEF Unloaded
  <2>4. PICK e \in Exprs :
          \/ /\ objects' = objects \cup {[expr |-> e, number |-> tmpVariables[e]]}
             /\ UNCHANGED tmpVariables
          \/ /\ tmpVariables[e] = None
             /\ objects' = objects \cup {[expr |-> e, number |-> tmpVariablesIdCntr]}
             /\ tmpVariables' = [tmpVariables EXCEPT ![e] = tmpVariablesIdCntr]
    BY <1>2, <2>3, VarCreateCases
  <2>5. \A o \in objects : /\ tmpVariables[o.expr] = o.number
                           /\ o.expr \in Exprs /\ o.number # None
    BY <2>2, VarAssumption DEF Unloaded, VarTypes, Object
  <2>6. tmpVariables \in [Exprs -> Nat \cup {None}]
    BY DEF VarTypes
  <2>7. CASE UNCHANGED tmpVariables
             /\ objects' = objects \cup {[expr |-> e, number |-> tmpVariables[e]]}
    BY <2>5, <2>7
  <2>8. CASE /\ tmpVariables[e] = None
             /\ objects' = objects \cup {[expr |-> e, number |-> tmpVariablesIdCntr]}
             /\ tmpVariables' = [tmpVariables EXCEPT ![e] = tmpVariablesIdCntr]
    BY <2>5, <2>6, <2>8
  <2> QED
    BY <2>4, <2>7, <2>8
<1>3. CASE UNCHANGED <<llvmRegs, loads, orderly, tmpVariables>> /\ objects' \subseteq objects
  BY <1>3 DEF Unloaded
<1>4. CASE TargetSelect \/ VarDelete \/ VarUpdate \/ ListRegisterValues \/ NotImplemented
           \/ UNCHANGED vars
  BY <1>3, <1>4
  DEF TargetSelect, VarDelete, VarUpdate, ListRegisterValues, NotImplemented, vars
<1> QED
  BY <1>1, <1>2, <1>4 DEF Next

LEMMA StepTemporaries ==
  ASSUME VarTypes, Temporaries, [Next]_vars
  PROVE  Temporaries'
<1>0. tmpVariables \in [Exprs -> Nat \cup {None}] /\ tmpVariablesIdCntr \in Nat
      /\ RegisterCount(llvmRegs) \in Nat
  BY RegistersFinite DEF VarTypes
<1>1. CASE FileExec
  <2>1. PICK p \in Programs :
          /\ llvmRegs' = p /\ tmpVariablesIdCntr' = RegisterCount(p)
          /\ orderly' = (loads = 0 /\ \A e \in Exprs : tmpVariables[e] = None)
          /\ tmpVariables' = tmpVariables
    BY <1>1 DEF FileExec
  <2>2. RegisterCount(p) \in Nat
    BY RegistersFinite DEF Loaded
  <2>3. ASSUME orderly'
        PROVE  \A e \in Exprs : tmpVariables'[e] = None
    BY <2>1, <2>3
  <2> QED
    BY <2>1, <2>2, <2>3 DEF Temporaries
<1>2. CASE UNCHANGED <<llvmRegs, orderly, tmpVariables, tmpVariablesIdCntr>>
  BY <1>2 DEF Temporaries
<1>3. CASE VarCreate
  <2>1. UNCHANGED <<llvmRegs, orderly>>
    BY <1>3 DEF VarCreate
  <2>2. PICK e \in Exprs :
          \/ UNCHANGED <<tmpVariables, tmpVariablesIdCntr>>
          \/ /\ tmpVariables[e] = None
             /\ tmpVariables' = [tmpVariables EXCEPT ![e] = tmpVariablesIdCntr]
             /\ tmpVariablesIdCntr' = tmpVariablesIdCntr + 1
    BY <1>3, VarCreateCases
  <2>3. CASE /\ tmpVariables[e] = None
             /\ tmpVariables' = [tmpVariables EXCEPT ![e] = tmpVariablesIdCntr]
             /\ tmpVariablesIdCntr' = tmpVariablesIdCntr + 1
    <3>1. SUFFICES ASSUME orderly PROVE Temporaries'
      BY <2>1 DEF Temporaries
    <3>2. tmpVariables'[e] = tmpVariablesIdCntr
      BY <1>0, <2>3
    <3>3. \A d \in Exprs \ {e} : tmpVariables'[d] = tmpVariables[d]
      BY <1>0, <2>3
    <3>4. \A d \in Exprs \ {e} : tmpVariables[d] # None =>
            /\ tmpVariables[d] \in Nat
            /\ RegisterCount(llvmRegs) <= tmpVariables[d]
            /\ tmpVariables[d] < tmpVariablesIdCntr
      BY <1>0, <3>1 DEF Temporaries
    <3>5. \A d1, d2 \in Exprs : tmpVariables[d1] # None /\ tmpVariables[d1] = tmpVariables[d2]
            => d1 = d2
      BY <3>1 DEF Temporaries
    <3>6. RegisterCount(llvmRegs) <= tmpVariablesIdCntr
      BY <3>1 DEF Temporaries
    <3>7. \A d \in Exprs : tmpVariables'[d] # None =>
            RegisterCount(llvmRegs) <= tmpVariables'[d] /\ tmpVariables'[d] < tmpVariablesIdCntr'
      <4> SUFFICES ASSUME NEW d \in Exprs, tmpVariables'[d] # None
                   PROVE  /\ RegisterCount(llvmRegs) <= tmpVariables'[d]
                          /\ tmpVariables'[d] < tmpVariablesIdCntr'
        OBVIOUS
      <4>1. CASE d = e
        BY <1>0, <2>3, <3>2, <3>6, <4>1
      <4>2. CASE d # e
        <5>1. /\ tmpVariables'[d] = tmpVariables[d] /\ tmpVariables[d] \in Nat
              /\ RegisterCount(llvmRegs) <= tmpVariables[d]
              /\ tmpVariables[d] < tmpVariablesIdCntr
          BY <3>3, <3>4, <4>2
        <5> QED
          BY <1>0, <2>3, <5>1
      <4> QED
        BY <4>1, <4>2
    <3>8. \A d1, d2 \in Exprs :
            tmpVariables'[d1] # None /\ tmpVariables'[d1] = tmpVariables'[d2] => d1 = d2
      <4> SUFFICES ASSUME NEW d1 \in Exprs, NEW d2 \in Exprs, d1 # d2,
                          tmpVariables'[d1] # None, tmpVariables'[d1] = tmpVariables'[d2]
                   PROVE  FALSE
        OBVIOUS
      <4>1. CASE d1 = e \/ d2 = e
        <5>1. PICK d \in Exprs \ {e} : tmpVariables'[d] = tmpVariablesIdCntr
          BY <3>2, <4>1
        <5>2. tmpVariables[d] = tmpVariablesIdCntr /\ tmpVariables[d] # None
          BY <1>0, <3>3, <5>1, VarAssumption
        <5> QED
          BY <1>0, <3>4, <5>2
      <4>2. CASE d1 # e /\ d2 # e
        BY <3>3, <3>5, <4>2
      <4> QED
        BY <4>1, <4>2
    <3>9. RegisterCount(llvmRegs) <= tmpVariablesIdCntr'
      BY <1>0, <2>3, <3>6
    <3>10. RegisterCount(llvmRegs') = RegisterCount(llvmRegs)
      BY <2>1
    <3> QED
      BY <3>7, <3>8, <3>9, <3>10 DEF Temporaries
  <2> QED
    BY <1>2, <2>1, <2>2, <2>3
<1>4. CASE TargetSelect \/ VarDelete \/ VarUpdate \/ ListRegisterValues \/ NotImplemented
           \/ UNCHANGED vars
  BY <1>2, <1>4
  DEF TargetSelect, VarDelete, VarUpdate, ListRegisterValues, NotImplemented, vars
<1> QED
  BY <1>1, <1>3, <1>4 DEF Next

LEMMA StepNumbers ==
  ASSUME VarTypes, Unloaded, Temporaries, Numbers, [Next]_vars
  PROVE  Numbers'
<1>0. tmpVariables \in [Exprs -> Nat \cup {None}] /\ objects \subseteq Object
  BY DEF VarTypes
<1>1. CASE FileExec
  <2>1. PICK p \in Programs :
          /\ orderly' = (loads = 0 /\ \A e \in Exprs : tmpVariables[e] = None)
          /\ objects' = objects
    BY <1>1 DEF FileExec
  <2>2. ASSUME orderly' PROVE objects = {}
    <3>1. \A o \in objects : o.expr \in Exprs /\ o.number \in Nat
      BY <1>0 DEF Object
    <3>2. \A o \in objects : tmpVariables[o.expr] = o.number
      BY <2>1, <2>2 DEF Unloaded
    <3> QED
      BY <2>1, <2>2, <3>1, <3>2, VarAssumption
  <2> QED
    BY <2>1, <2>2 DEF Numbers
<1>2. CASE UNCHANGED <<llvmRegs, orderly, tmpVariables>> /\ objects' \subseteq objects
  BY <1>2 DEF Numbers, OfRegister
<1>3. CASE VarCreate
  <2>1. UNCHANGED <<llvmRegs, orderly>>
    BY <1>3 DEF VarCreate
  <2>2. SUFFICES ASSUME orderly, NEW o \in objects'
                 PROVE  OfRegister(o) \/ tmpVariables'[o.expr] = o.number
    BY <2>1 DEF Numbers, OfRegister
  <2>3. \A q \in objects : /\ OfRegister(q) \/ tmpVariables[q.expr] = q.number
                           /\ q.expr \in Exprs /\ q.number \in Nat
    BY <1>0, <2>2 DEF Numbers, Object
  <2>4. PICK e \in Exprs :
           \/ \E x \in Named(llvmRegs, e) :
                /\ objects' \in {objects,
                     objects \cup {[expr |-> e, number |-> RegisterIndex(llvmRegs, x)]}}
                /\ UNCHANGED tmpVariables
           \/ /\ objects' = objects \cup {[expr |-> e, number |-> tmpVariables[e]]}
              /\ UNCHANGED tmpVariables
           \/ /\ tmpVariables[e] = None
              /\ objects' = objects \cup {[expr |-> e, number |-> tmpVariablesIdCntr]}
              /\ tmpVariables' = [tmpVariables EXCEPT ![e] = tmpVariablesIdCntr]
    BY <1>3, VarCreateCases
  <2>5. CASE \E x \in Named(llvmRegs, e) :
                /\ objects' \in {objects,
                     objects \cup {[expr |-> e, number |-> RegisterIndex(llvmRegs, x)]}}
                /\ UNCHANGED tmpVariables
    BY <2>2, <2>3, <2>5 DEF OfRegister
  <2>6. CASE /\ objects' = objects \cup {[expr |-> e, number |-> tmpVariables[e]]}
             /\ UNCHANGED tmpVariables
    BY <2>2, <2>3, <2>6
  <2>7. CASE /\ tmpVariables[e] = None
             /\ objects' = objects \cup {[expr |-> e, number |-> tmpVariablesIdCntr]}
             /\ tmpVariables' = [tmpVariables EXCEPT ![e] = tmpVariablesIdCntr]
    <3>1. CASE o \in objects
      <4>1. tmpVariables[o.expr] = o.number => o.expr # e
        BY <2>3, <2>7, <3>1, VarAssumption
      <4>2. o.expr # e => tmpVariables'[o.expr] = tmpVariables[o.expr]
        BY <1>0, <2>3, <2>7, <3>1
      <4> QED
        BY <2>3, <3>1, <4>1, <4>2
    <3>2. CASE o = [expr |-> e, number |-> tmpVariablesIdCntr]
      BY <1>0, <2>7, <3>2
    <3> QED
      BY <2>2, <2>7, <3>1, <3>2
  <2> QED
    BY <2>4, <2>5, <2>6, <2>7
<1>4. CASE TargetSelect \/ VarDelete \/ VarUpdate \/ ListRegisterValues \/ NotImplemented
           \/ UNCHANGED vars
  BY <1>2, <1>4
  DEF TargetSelect, VarDelete, VarUpdate, ListRegisterValues, NotImplemented, vars
<1> QED
  BY <1>1, <1>3, <1>4 DEF Next

(* The numbers a careful front-end holds are those of target's registers.  *)
LEMMA StepOfTarget ==
  ASSUME VarTypes, OfTarget, [Next]_vars
  PROVE  OfTarget'
<1>0. SUFFICES ASSUME careful, careful', alive PROVE OfTarget'
  <2>1. careful' = careful
    BY DEF Next, TargetSelect, FileExec, VarCreate, VarDelete, VarUpdate,
           ListRegisterValues, NotImplemented, vars
  <2>2. ~alive => UNCHANGED vars
    BY DEF Next, TargetSelect, FileExec, VarCreate, VarDelete, VarUpdate,
           ListRegisterValues, NotImplemented, Serving
  <2>3. UNCHANGED vars => OfTarget'
    BY DEF OfTarget, vars
  <2> QED
    BY <2>1, <2>2, <2>3 DEF OfTarget
<1>1. /\ llvmRegs \in {<<>>, target} /\ (loads = 0 => llvmRegs = <<>>)
      /\ target \in Programs /\ loads \in Nat
      /\ objects \subseteq Object
      /\ \A o \in objects : 1 <= o.number /\ o.number <= RegisterCount(llvmRegs)
  BY <1>0, VarAssumption DEF OfTarget, VarTypes
<1>2. \A n \in Watched :
        /\ llvmRegs = target
        /\ n \in Nat /\ 1 <= n /\ n <= RegisterCount(target) /\ RegisterCount(target) \in Nat
        /\ RegisterCount(target) < InstrCount(target) /\ InstrCount(target) \in Nat
  <2> SUFFICES ASSUME NEW o \in objects
               PROVE  /\ llvmRegs = target
                      /\ o.number \in Nat /\ 1 <= o.number /\ o.number <= RegisterCount(target)
                      /\ RegisterCount(target) \in Nat
                      /\ RegisterCount(target) < InstrCount(target)
                      /\ InstrCount(target) \in Nat
    BY DEF Watched
  <2>1. o.number \in Nat /\ 1 <= o.number /\ o.number <= RegisterCount(llvmRegs)
    BY <1>1 DEF Object
  <2>2. llvmRegs # <<>>
    BY <2>1, NoRegisters
  <2>3. target \in Loaded
    BY <1>1 DEF Loaded
  <2> QED
    BY <1>1, <2>1, <2>2, <2>3, MoreInstrs, RegistersFinite
<1>3. CASE FileExec
  <2>1. loads = 0 /\ llvmRegs = <<>>
    BY <1>0, <1>1, <1>3 DEF FileExec
  <2>2. objects = {}
    <3>1. \A o \in objects : o.number \in Nat /\ 1 <= o.number /\ o.number <= 0
      BY <1>1, <2>1, NoRegisters DEF Object
    <3> QED
      BY <3>1
  <2>3. /\ llvmRegs' = target /\ target' = target /\ alive' = alive
        /\ objects' = objects /\ loads' = loads + 1
    BY <1>0, <1>3 DEF FileExec
  <2> QED
    BY <1>0, <1>1, <2>2, <2>3 DEF OfTarget
<1>4. CASE VarCreate
  <2>1. UNCHANGED <<target, llvmRegs, loads>> /\ remote
    BY <1>0, <1>4 DEF VarCreate, Serving
  <2>2. PICK e \in Exprs : \E x \in Named(llvmRegs, e) :
          /\ x \in Registers(llvmRegs)
          /\ alive' = Readable(RegisterIndex(llvmRegs, x))
          /\ objects' \in {objects,
               objects \cup {[expr |-> e, number |-> RegisterIndex(llvmRegs, x)]}}
    BY <1>0, <1>4, VarCreateCases
  <2>3. PICK x \in Registers(llvmRegs) :
          /\ alive' = Readable(RegisterIndex(llvmRegs, x))
          /\ objects' \in {objects,
               objects \cup {[expr |-> e, number |-> RegisterIndex(llvmRegs, x)]}}
    BY <2>2
  <2>4. llvmRegs = target /\ llvmRegs \in Loaded
    BY <1>1, <2>3, NoRegisters DEF Loaded
  <2>5. /\ RegisterIndex(llvmRegs, x) \in Nat
        /\ 1 <= RegisterIndex(llvmRegs, x)
        /\ RegisterIndex(llvmRegs, x) <= RegisterCount(llvmRegs)
    BY <2>3, <2>4, RegisterRange
  <2>6. alive'
    BY <2>1, <2>3, <2>4, <2>5 DEF Readable
  <2>7. \A o \in objects' : 1 <= o.number /\ o.number <= RegisterCount(llvmRegs)
    BY <1>1, <2>3, <2>5
  <2> QED
    BY <1>1, <2>1, <2>6, <2>7 DEF OfTarget
<1>5. CASE VarDelete
  <2>1. PICK n \in Watched :
          alive' = Deletable(n) /\ objects' = { o \in objects : o.number # n }
    BY <1>5 DEF VarDelete
  <2>2. Deletable(n)
    BY <1>2 DEF Deletable
  <2>3. alive'
    BY <2>1, <2>2
  <2> QED
    BY <1>1, <1>5, <2>1, <2>3 DEF VarDelete, OfTarget
<1>6. CASE VarUpdate
  <2>1. PICK n \in Watched : alive' = (n < InstrCount(llvmRegs) => Readable(n))
    BY <1>6 DEF VarUpdate
  <2>2. remote
    BY <1>0, <1>6 DEF VarUpdate, Serving
  <2>3. alive'
    BY <1>2, <2>1, <2>2 DEF Readable
  <2> QED
    BY <1>1, <1>6, <2>3 DEF VarUpdate, OfTarget
<1>7. CASE ListRegisterValues
  <2>1. remote
    BY <1>0, <1>7 DEF ListRegisterValues, Serving
  <2>2. Registers(llvmRegs) # {} => Readable(RegisterCount(llvmRegs))
    <3>1. target \in Loaded
      BY <1>1 DEF Loaded
    <3> QED
      BY <1>1, <2>1, <3>1, NoRegisters, RegistersFinite DEF Readable
  <2> QED
    BY <1>1, <1>7, <2>2 DEF ListRegisterValues, OfTarget
<1>8. CASE TargetSelect \/ NotImplemented \/ UNCHANGED vars
  BY <1>0, <1>1, <1>8 DEF TargetSelect, NotImplemented, vars, OfTarget
<1> QED
  BY <1>3, <1>4, <1>5, <1>6, <1>7, <1>8 DEF Next

VarIInv == VarTypes /\ Numbered /\ Unloaded /\ Temporaries /\ Numbers /\ OfTarget

LEMMA VarInvariant == Spec => []VarIInv
<1>1. Init => VarIInv
  BY InitInvariants DEF VarIInv
<1>2. VarIInv /\ [Next]_vars => VarIInv'
  BY StepTypes, StepNumbered, StepUnloaded, StepTemporaries, StepNumbers, StepOfTarget
  DEF VarIInv
<1> QED
  BY <1>1, <1>2, PTL DEF Spec

-----------------------------------------------------------------------------
(* The state has its types, and the counter of temporary variables never   *)
(* passes the registers of a function and the expressions watched, because *)
(* an expression that has a number keeps it.                               *)
THEOREM VarTypeCorrect == Spec => []VarTypeOK
<1>1. VarIInv => VarTypeOK
  <2> SUFFICES ASSUME VarIInv PROVE VarTypeOK
    OBVIOUS
  <2>1. VarTypes /\ Numbered
    BY DEF VarIInv
  <2>2. PICK most \in Counts : tmpVariablesIdCntr + Cardinality(Unnamed) <= most
    BY <2>1 DEF Numbered
  <2>3. Cardinality(Unnamed) \in Nat
    BY VarAssumption, FS_Subset, FS_CardinalityType DEF Unnamed
  <2>4. tmpVariablesIdCntr \in 0 .. most
    BY <2>1, <2>2, <2>3, CountsAreNumbers DEF VarTypes
  <2> QED
    BY <2>1, <2>4 DEF VarTypes, VarTypeOK, Loaded
<1> QED
  BY <1>1, VarInvariant, PTL

(* llvmIrIterRegs numbers the lines of every function apart, whatever its  *)
(* blocks hold.                                                            *)
THEOREM LinesApart == Spec => []OneLineEach
<1>1. VarIInv => OneLineEach
  BY CodelineApart DEF VarIInv, VarTypes, OneLineEach
<1> QED
  BY <1>1, VarInvariant, PTL

(* In an orderly session names of variable objects are shared by the last  *)
(* register and the first temporary only.                                  *)
THEOREM NamesApart == Spec => []SharedNames
<1>1. VarIInv => SharedNames
  <2> SUFFICES ASSUME VarIInv, orderly, NEW o1 \in objects, NEW o2 \in objects,
                      o1.number = o2.number, o1.number # RegisterCount(llvmRegs)
               PROVE  o1.expr = o2.expr
    BY DEF SharedNames
  <2>1. /\ llvmRegs \in Loaded /\ RegisterCount(llvmRegs) \in Nat
        /\ o1.expr \in Exprs /\ o2.expr \in Exprs /\ o1.number \in Nat /\ o2.number \in Nat
    BY RegistersFinite DEF VarIInv, VarTypes, Object
  <2>2. ASSUME NEW o \in {o1, o2}, OfRegister(o)
        PROVE  o.number < RegisterCount(llvmRegs)
    BY <2>1, <2>2, RegisterRange DEF OfRegister, Named
  <2>3. ASSUME NEW o \in {o1, o2}, ~OfRegister(o)
        PROVE  /\ tmpVariables[o.expr] = o.number
               /\ RegisterCount(llvmRegs) < o.number
    BY <2>1, <2>3, VarAssumption DEF VarIInv, Numbers, Temporaries
  <2>4. CASE OfRegister(o1) /\ OfRegister(o2)
    BY <2>1, <2>4, RegisterApart DEF OfRegister, Named
  <2>5. CASE ~OfRegister(o1) /\ ~OfRegister(o2)
    BY <2>1, <2>3, <2>5, VarAssumption DEF VarIInv, Temporaries
  <2>6. OfRegister(o1) <=> OfRegister(o2)
    BY <2>1, <2>2, <2>3
  <2> QED
    BY <2>4, <2>5, <2>6
<1> QED
  BY <1>1, VarInvariant, PTL

(* No command on the registers of the function simulated ends the debugger *)
(* of a front-end that has connected before, but var-update of "*" and     *)
(* data-evaluate-expression with an option, which are not implemented.     *)
THEOREM CarefulSurvives == Spec => []CarefulAlive
<1>1. VarIInv => CarefulAlive
  BY DEF VarIInv, OfTarget, CarefulAlive
<1> QED
  BY <1>1, VarInvariant, PTL

=============================================================================
