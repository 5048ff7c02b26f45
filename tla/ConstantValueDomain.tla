-------------------------- MODULE ConstantValueDomain --------------------------
(***************************************************************************)
(* Which registers and memory words hold a constant, or point into a known *)
(* global, whenever a program point is reached.  Spill slots that nothing  *)
(* may alias keep their value when a store goes to an unknown address.     *)
(*                                                                         *)
(* Numbers have two halves of HalfWord values each; memory is read and     *)
(* written in words.                                                       *)
(***************************************************************************)
EXTENDS MachineProgram

CONSTANTS HalfWord,     \* number of values of half a word
          Global,       \* Global[g]: [addr, last, initial], the addresses of g
          StaticValue,  \* the values at the addresses of the constant pool
          InitialSp     \* the stack pointer at the start

ASSUME ValueAssumption ==
  /\ HalfWord \in Nat \ {0}
  /\ InitialSp \in 0 .. HalfWord * HalfWord - 1
  /\ \A g \in DOMAIN Global : Global[g].addr <= Global[g].last

SP == 13
LR == 14
PC == 15
CalleeSaved == 4 .. 13 \ {12}
Wrapped(v) == v % (HalfWord * HalfWord)
Low(v) == v % HalfWord
High(v) == (v \div HalfWord) * HalfWord

-----------------------------------------------------------------------------
(* Elements: partial functions, bottom where the program point is unreachable *)

Nothing == <<>>
Kept(m, xs) == [x \in xs |-> m[x]] @@ Nothing
Knows(m, x) == x \in DOMAIN m
Without(m, xs) == Kept(m, DOMAIN m \ xs)
With(m, x, v) == (x :> v) @@ m
Agreeing(m, n) == Kept(m, {x \in DOMAIN m \cap DOMAIN n : m[x] = n[x]})
Includes(m, n) == DOMAIN n \subseteq DOMAIN m /\ \A x \in DOMAIN n : m[x] = n[x]

\* What is known of x in one map is what is known of y in another.
Copied(m, x, n, y) == IF Knows(n, y) THEN With(m, x, n[y]) ELSE Without(m, {x})

TopElement == [bot |-> FALSE, reg |-> Nothing, mem |-> Nothing, regSym |-> Nothing,
               memSym |-> Nothing, aliasfree |-> {}]
Bottom == [TopElement EXCEPT !.bot = TRUE]
StartElement ==
  LET initialised == {g \in DOMAIN Global : Global[g].initial # None}
  IN  [TopElement EXCEPT
         !.reg = With(Nothing, SP, InitialSp),
         !.mem = [a \in {Global[g].addr : g \in initialised} |->
                    Global[CHOOSE g \in initialised : Global[g].addr = a].initial]]

\* Mutant: what one side knows is kept.
JoinElementsEither(d, e) ==
  CASE e.bot -> d
    [] d.bot -> e
    [] OTHER -> [d EXCEPT !.mem = Agreeing(d.mem, e.mem), !.aliasfree = @ \cap e.aliasfree]

JoinElements(d, e) ==
  CASE e.bot -> d
    [] d.bot -> e
    [] OTHER -> [bot |-> FALSE, reg |-> Agreeing(d.reg, e.reg), mem |-> Agreeing(d.mem, e.mem),
                 regSym |-> Agreeing(d.regSym, e.regSym), memSym |-> Agreeing(d.memSym, e.memSym),
                 aliasfree |-> d.aliasfree \cap e.aliasfree]

LessEqual(d, e) ==
  \/ d.bot
  \/ /\ ~e.bot
     /\ Includes(d.reg, e.reg) /\ Includes(d.regSym, e.regSym)
     /\ Includes(d.mem, e.mem) /\ Includes(d.memSym, e.memSym)
     /\ e.aliasfree \subseteq d.aliasfree

-----------------------------------------------------------------------------
(* Data addresses: one address, somewhere in a global, or anywhere *)

At(a) == [at |-> Wrapped(a), global |-> None]
Within(g) == [at |-> -1, global |-> g]
Anywhere == [at |-> -1, global |-> None]
IsPrecise(addr) == addr.at # -1

\* extractGlobalDatastructure(): the memory operand names a global, or nothing.
FromMemoryOperand(in) == IF in.memop = None THEN Anywhere ELSE Within(in.memop)

\* Without its base register, an access is resolved by the symbol in it.
FromSymbol(d, in) ==
  IF Knows(d.regSym, in.base) THEN Within(d.regSym[in.base]) ELSE FromMemoryOperand(in)

\* Loads and stores of a register, by addressing mode.
Immediate(d, in) ==
  IF Knows(d.reg, in.base) THEN At(d.reg[in.base] + in.imm) ELSE FromSymbol(d, in)
PostIndexed(d, in) ==
  IF Knows(d.reg, in.base) THEN At(d.reg[in.base]) ELSE FromSymbol(d, in)
RegisterOffset(d, in) ==
  IF {in.base, in.offset} \subseteq DOMAIN d.reg
  THEN LET shifted == d.reg[in.offset] * 2 ^ in.shift
       IN  At(d.reg[in.base] + IF in.subtract THEN -shifted ELSE shifted)
  ELSE FromSymbol(d, in)

\* Loads and stores of several registers, of two words each for doubles.
Words(in) == Len(in.regs) * in.width
FirstWord(d, in) ==
  CASE in.submode = "ia" -> d.reg[in.base]
    [] in.submode = "ib" -> d.reg[in.base] + 4
    [] in.submode = "da" -> d.reg[in.base] - 4 * Words(in) + 4
    [] in.submode = "db" -> d.reg[in.base] - 4 * Words(in)
Multiple(d, in, pos) ==
  IF Knows(d.reg, in.base) THEN At(FirstWord(d, in) + 4 * pos) ELSE Anywhere

\* The address of the access at position pos of an instruction.
DataAccessAddress(d, in, pos) ==
  CASE in.mode = "pool" -> At(in.imm)
    [] in.mode = "imm" -> Immediate(d, in)
    [] in.mode = "post" -> PostIndexed(d, in)
    [] in.mode = "reg" -> RegisterOffset(d, in)
    [] in.mode = "multiple" -> Multiple(d, in, pos)
    [] OTHER -> Anywhere

\* getNumOfDataAccesses()
NumOfDataAccesses(in) ==
  CASE in.mode = "multiple" -> Words(in)
    [] in.mode = "none" -> 0
    [] OTHER -> 1

-----------------------------------------------------------------------------
(* Stores *)

\* The register src is stored at a.
StoreValue(d, in, a, src) ==
  [d EXCEPT
     !.mem = Copied(@, a, d.reg, src), !.memSym = Copied(@, a, d.regSym, src),
     !.aliasfree = CASE ~Knows(d.reg, src) /\ ~Knows(d.regSym, src) -> @ \ {a}
                     [] in.spill -> @ \cup {a}
                     [] OTHER -> @]

StoreUnknownValue(d, a) ==
  [d EXCEPT !.mem = Without(@, {a}), !.memSym = Without(@, {a}), !.aliasfree = @ \ {a}]

\* Somewhere in addr.
StoreUnknownAddress(d, addr) ==
  LET hit == {a \in DOMAIN d.mem \cup DOMAIN d.memSym :
                /\ addr.global # None => a \in Global[addr.global].addr .. Global[addr.global].last
                /\ a \notin d.aliasfree}
  IN  [d EXCEPT !.mem = Without(@, hit), !.memSym = Without(@, hit)]

StoreSomething(d, addr) ==
  IF IsPrecise(addr) THEN StoreUnknownValue(d, addr.at) ELSE StoreUnknownAddress(d, addr)

-----------------------------------------------------------------------------
(* Transfer functions, one for every group of opcodes *)

Set(d, r, v) == [d EXCEPT !.reg = With(@, r, Wrapped(v)), !.regSym = Without(@, {r})]
Forget(d, rs) == [d EXCEPT !.reg = Without(@, rs), !.regSym = Without(@, rs)]
ForgetSymbol(d, r) == [d EXCEPT !.regSym = Without(@, {r})]

\* A known base register moves by n.
MoveBase(d, r, n) == IF Knows(d.reg, r) THEN [d EXCEPT !.reg[r] = Wrapped(@ + n)] ELSE d

\* The halves of a constant or of a global's address, the lower one first; with
\* the upper one the register points into the global.
MoveHalf(d, in) ==
  CASE in.op = "movw" -> Set(d, in.dst, Low(in.imm))
    [] in.op = "movw_global" -> Set(d, in.dst, Low(Global[in.global].addr))
    [] in.op = "movt" ->
         IF Knows(d.reg, in.dst) THEN Set(d, in.dst, Low(in.imm) * HalfWord + d.reg[in.dst])
         ELSE ForgetSymbol(d, in.dst)
    [] in.op = "movt_global" ->
         LET e == IF Knows(d.reg, in.dst)
                  THEN Set(d, in.dst, High(Global[in.global].addr) + d.reg[in.dst]) ELSE d
         IN  [e EXCEPT !.regSym = With(@, in.dst, in.global)]

Move(d, in) ==
  CASE in.op = "mov" -> Set(d, in.dst, in.imm)
    [] in.op = "mvn" -> Set(d, in.dst, -in.imm - 1)
    [] in.op = "lea" -> Set(d, in.dst, in.imm)
    [] in.op = "movr" -> [d EXCEPT !.reg = Copied(@, in.dst, d.reg, in.src),
                                   !.regSym = Copied(@, in.dst, d.regSym, in.src)]

\* A pointer stays in its data structure when a constant is added.
ComputeImmediate(d, in) ==
  LET n == IF in.op = "sub" THEN -in.imm ELSE in.imm
      e == [d EXCEPT !.regSym = Copied(@, in.dst, d.regSym, in.src)]
  IN  IF Knows(d.reg, in.src) THEN [e EXCEPT !.reg = With(@, in.dst, Wrapped(d.reg[in.src] + n))]
      ELSE [e EXCEPT !.reg = Without(@, {in.dst})]

\* The lower bits of the operand are cleared: it is aligned to in.imm.
Compute(d, in) ==
  IF ~({in.src, in.offset} \subseteq DOMAIN d.reg) THEN Forget(d, {in.dst})
  ELSE CASE in.op = "addrr" -> Set(d, in.dst, d.reg[in.src] + d.reg[in.offset])
         [] in.op = "addrsi" -> Set(d, in.dst, d.reg[in.src] + d.reg[in.offset] * 2 ^ in.shift)
         [] in.op = "bic" -> Set(d, in.dst, (d.reg[in.src] \div in.imm) * in.imm)

\* From the constant pool: without a value there, the old one is kept.
LoadConstant(d, in) ==
  LET e == ForgetSymbol(d, in.dst)
      f == IF Knows(StaticValue, in.imm) THEN Set(e, in.dst, StaticValue[in.imm]) ELSE e
  IN  IF in.global = None THEN f ELSE [f EXCEPT !.regSym = With(@, in.dst, in.global)]

LoadWord(d, in) ==
  LET e == ForgetSymbol(d, in.dst)
      addr == DataAccessAddress(e, in, 0)
      f == [e EXCEPT !.regSym = Copied(@, in.dst, e.memSym, addr.at)]
  IN  CASE Knows(StaticValue, addr.at) -> Set(d, in.dst, StaticValue[addr.at])
        [] Knows(d.mem, addr.at) -> [f EXCEPT !.reg = With(@, in.dst, d.mem[addr.at])]
        [] OTHER -> [f EXCEPT !.reg = Without(@, {in.dst})]

\* Pre- and post-indexed loads forget the destination and move the base; the
\* symbol of the base is kept.
LoadIndexed(d, in) == Forget(MoveBase(d, in.base, in.imm), {in.dst})

StoreWord(d, in) ==
  LET addr == DataAccessAddress(d, in, 0)
  IN  IF IsPrecise(addr) THEN StoreValue(d, in, addr.at, in.src) ELSE StoreUnknownAddress(d, addr)

StorePreIndexed(d, in) ==
  ForgetSymbol(MoveBase(StoreSomething(d, DataAccessAddress(d, in, 0)), in.base, in.imm), in.base)

\* Registers are saved and the base, the stack pointer, is moved.
PushWord(d, in, n) ==
  LET addr == DataAccessAddress(d, in, n - 1)
  IN  IF IsPrecise(addr) THEN StoreValue(d, in, addr.at, in.regs[n]) ELSE StoreUnknownAddress(d, addr)
Push(d, in) ==
  LET saved == FoldLeft(LAMBDA e, n : PushWord(e, in, n), d, [n \in DOMAIN in.regs |-> n])
  IN  ForgetSymbol(MoveBase(saved, in.base, -4 * Len(in.regs)), in.base)

\* Registers are restored, but by a return none is looked at.
PopWord(d, in, n) ==
  LET addr == DataAccessAddress(d, in, n - 1)
  IN  [d EXCEPT !.reg = Copied(@, in.regs[n], d.mem, addr.at),
                !.regSym = Copied(@, in.regs[n], d.memSym, addr.at)]
Pop(d, in) ==
  LET restored == IF in.op = "ldmia_ret" THEN d
                  ELSE FoldLeft(LAMBDA e, n : PopWord(e, in, n), d, [n \in DOMAIN in.regs |-> n])
  IN  ForgetSymbol(MoveBase(restored, in.base, 4 * Len(in.regs)), in.base)

\* Multiples of floating-point registers only move the base.
MoveFloats(d, in) ==
  ForgetSymbol(MoveBase(d, in.base, IF in.op = "vpush" THEN -4 * Words(in) ELSE 4 * Words(in)),
               in.base)

\* Any other instruction: the accessed words and defined registers are unknown.
Default(d, in) ==
  LET addrs == [pos \in 1 .. NumOfDataAccesses(in) |-> DataAccessAddress(d, in, pos - 1)]
  IN  Forget(IF in.stores THEN FoldLeft(StoreSomething, d, addrs) ELSE d, in.defs)

Effect(d, in) ==
  CASE in.op \in {"mov", "mvn", "lea", "movr"} -> Move(d, in)
    [] in.op \in {"movw", "movw_global", "movt", "movt_global"} -> MoveHalf(d, in)
    [] in.op \in {"sub", "add"} -> ComputeImmediate(d, in)
    [] in.op \in {"addrr", "addrsi", "bic"} -> Compute(d, in)
    [] in.op = "ldr" -> LoadWord(d, in)
    [] in.op = "ldr_pool" -> LoadConstant(d, in)
    [] in.op \in {"ldr_pre", "ldr_post"} -> LoadIndexed(d, in)
    [] in.op = "str" -> StoreWord(d, in)
    [] in.op = "str_pre" -> StorePreIndexed(d, in)
    [] in.op = "stmdb_upd" -> Push(d, in)
    [] in.op \in {"ldmia_upd", "ldmia_ret"} -> Pop(d, in)
    [] in.op \in {"vpush", "vpop"} -> MoveFloats(d, in)
    [] in.op = "bl" -> Forget(d, {LR})
    [] OTHER -> Default(d, in)

\* A predicated instruction may have no effect.
EffectOrNone(d, effect, i) == IF IsPredicated(i) THEN JoinElements(effect, d) ELSE effect
Transfer(d, i) == IF d.bot THEN d ELSE EffectOrNone(d, Effect(d, Instr[i]), i)

Override(m, n, xs) == Kept(n, DOMAIN n \cap xs) @@ m

\* Callee-saved registers and the caller's spill slots are what they were.
HandleCallingConvention(d, pre) ==
  IF d.bot THEN d
  ELSE [d EXCEPT !.reg = Override(@, pre.reg, CalleeSaved),
                 !.regSym = Override(@, pre.regSym, CalleeSaved),
                 !.mem = Override(@, pre.mem, pre.aliasfree),
                 !.memSym = Override(@, pre.memSym, pre.aliasfree),
                 !.aliasfree = pre.aliasfree]

\* transferCall(): what holds after the call, and at the start of the callee.
AfterCall(pre, calleeOut) == IF pre.bot THEN Bottom ELSE HandleCallingConvention(calleeOut, pre)
=============================================================================
