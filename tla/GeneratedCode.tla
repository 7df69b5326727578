----------------------------- MODULE GeneratedCode -----------------------------
(***************************************************************************)
(* The probes that write machine code into an ExecutableBuffer, seal it    *)
(* and call it: branch_structures.cpp, rob.cpp, instruction_fetch.cpp.     *)
(*                                                                         *)
(* An instruction is its operation, its length and its displacement as     *)
(* encoded; a byte of the buffer is a byte of one instruction, so that a   *)
(* later store over part of an earlier one leaves no instruction there.    *)
(***************************************************************************)
EXTENDS Integers, Sequences, FiniteSets

CONSTANTS Cases  \* [probe, arch, count, width]: what is generated

Spacings == {4, 8, 16, 32, 64}

\* rob.cpp is for x86 alone; the no-ops have the lengths of `encodings'.
IsCase(c) ==
  /\ c.arch \in {"x86_64", "aarch64"} /\ c.count \in Nat
  /\ \/ c.probe \in {"jumps", "branches"} /\ c.width \in Spacings
     \/ c.probe \in {"returns", "targets"}
     \/ c.probe = "rob" /\ c.arch = "x86_64"
     \/ c.probe = "fetch" /\ c.width \in IF c.arch = "x86_64" THEN {1, 4, 8} ELSE {4}

ASSUME CasesAssumption == \A c \in Cases : IsCase(c)

VARIABLES
  case,       \* the code a run generates
  stage,      \* "new", "emit", "sealed", "failed"
  mem,        \* the bytes of the buffer
  emitted,    \* stores made so far
  entries,    \* offsets that the kernel calls
  called,     \* those it has called
  ip,         \* offset of the next instruction, or Caller
  stack,      \* what the generated code has pushed
  link,       \* aarch64: where ret goes
  zero,       \* the zero flag
  ran         \* history: the operations executed, in order

codeVars == <<case, stage, mem, emitted, entries, called, ip, stack, link, zero, ran>>
cpu == <<ip, stack, link, zero, ran>>

Caller == -1
X86(c) == c.arch = "x86_64"
Signed8(n) == ((n + 128) % 256) - 128
PowerSizes(first, last) == {n \in first .. last : \E k \in 0 .. last : n = first * 2 ^ k}

--------------------------------------------------------------------------------
(* The instructions. *)

Ins(op, len) == [op |-> op, len |-> len, to |-> 0]
Ret(c) == Ins("ret", IF X86(c) THEN 1 ELSE 4)
Nop(len) == Ins("nop", len)

\* eb, 74 with a byte; b, b.eq with words.
Jump(c) ==
  [op |-> IF c.probe = "branches" THEN "jump if zero" ELSE "jump",
   len |-> IF X86(c) THEN 2 ELSE 4,
   to |-> IF X86(c) THEN Signed8(c.width - 2) ELSE c.width \div 4]

Call(c) == [op |-> "call", len |-> IF X86(c) THEN 5 ELSE 4, to |-> IF X86(c) THEN 1 ELSE 3]

\* A displacement counts from the end of the instruction, or words from its start.
Target(c, at, i) == IF X86(c) THEN at + i.len + i.to ELSE at + 4 * i.to

--------------------------------------------------------------------------------
(* What each probe writes: stores [at, what] in their order. *)

Put(at, i) == [at |-> at, what |-> i]

\* Mutant: the flag that the conditional branches test is not set.
Prefix_None(c) == <<>>
Prefix(c) == IF c.probe = "branches" THEN <<Ins("clear", IF X86(c) THEN 2 ELSE 4)>> ELSE <<>>
PrefixBytes(c) ==
  IF c.probe = "branches" THEN IF X86(c) THEN 2 ELSE 4 ELSE 0

Jumps(c) ==
  [i \in DOMAIN Prefix(c) |-> Put(0, Prefix(c)[i])]
  \o [i \in 1 .. c.count |-> Put(PrefixBytes(c) + (i - 1) * c.width, Jump(c))]
  \o <<Put(PrefixBytes(c) + c.count * c.width, Ret(c))>>

ReturnSlot(c) == IF X86(c) THEN 6 ELSE 16
Frame(c, at) ==
  IF X86(c) THEN <<Put(at, Call(c)), Put(at + 5, Ret(c))>>
  ELSE <<Put(at, Ins("save", 4)), Put(at + 4, Call(c)),
         Put(at + 8, Ins("restore", 4)), Put(at + 12, Ret(c))>>
Returns(c) ==
  LET n == Len(Frame(c, 0))
  IN  [k \in 1 .. c.count * n |->
         Frame(c, ((k - 1) \div n) * ReturnSlot(c))[1 + ((k - 1) % n)]]
      \o <<Put(c.count * ReturnSlot(c), Ret(c))>>

TargetSlot == 16
Targets(c) == [i \in 1 .. c.count |-> Put((i - 1) * TargetSlot, Ret(c))]

\* One instruction right behind the other: `offset' after each of them.
Packed(instructions) ==
  LET offset[k \in 0 .. Len(instructions)] ==
        IF k = 0 THEN 0 ELSE offset[k - 1] + instructions[k].len
  IN  [k \in DOMAIN instructions |-> Put(offset[k - 1], instructions[k])]
Trial(c) == Packed(
  [i \in 1 .. 4 |-> Ins("clear", 3)] \o [i \in 1 .. 2 |-> Ins("clear", 2)] \o <<Ins("load", 3)>>
  \o [i \in 1 .. c.count |-> Ins("add", 4)]
  \o <<Ins("load", 3)>> \o [i \in 1 .. 7 |-> Ins("xor", 3)] \o <<Ret(c)>>)

Body(c) == c.count - (c.count % c.width)
Fetch(c) ==
  [i \in 1 .. Body(c) \div c.width |-> Put((i - 1) * c.width, Nop(c.width))]
  \o <<Put(Body(c), Ret(c))>>

Stores(c) ==
  CASE c.probe \in {"jumps", "branches"} -> Jumps(c)
    [] c.probe = "returns" -> Returns(c)
    [] c.probe = "targets" -> Targets(c)
    [] c.probe = "rob" -> Trial(c)
    [] c.probe = "fetch" -> Fetch(c)

\* Mutant: no room for the last instruction.
Room_NoReturn(c) == Stores(c)[Len(Stores(c))].at

\* The bytes asked of the ExecutableBuffer.
Room(c) ==
  CASE c.probe \in {"jumps", "branches"} -> PrefixBytes(c) + c.count * c.width + 4
    [] c.probe = "returns" -> c.count * ReturnSlot(c) + Ret(c).len
    [] c.probe = "targets" -> c.count * TargetSlot
    [] c.probe = "rob" -> 128 + 4 * c.count
    [] c.probe = "fetch" -> Body(c) + Ret(c).len

Hole == [what |-> Ins("zero", 1), byte |-> 0]

\* The no-ops laid down before the rest; the aarch64 branch code leaves out the
\* last word.
Fresh(c) ==
  LET len == IF X86(c) THEN 1 ELSE 4
      end == IF c.probe \in {"jumps", "branches"} /\ ~X86(c) THEN Room(c) - 4 ELSE Room(c)
  IN  [a \in 0 .. Room(c) - 1 |->
         IF c.probe \in {"jumps", "branches", "targets"} /\ a < end
         THEN [what |-> Nop(len), byte |-> a % len] ELSE Hole]

--------------------------------------------------------------------------------
CodeInit ==
  /\ case \in Cases
  /\ stage = "new" /\ mem = <<>> /\ emitted = 0 /\ entries = {} /\ called = {}
  /\ ip = Caller /\ stack = <<>> /\ link = Caller /\ zero \in BOOLEAN /\ ran = <<>>

\* mmap; or it fails, and the probe's handler has the rest.
MapBuffer ==
  /\ stage = "new"
  /\ \/ stage' = "emit" /\ mem' = Fresh(case)
     \/ stage' = "failed" /\ UNCHANGED mem
  /\ UNCHANGED <<case, emitted, entries, called, cpu>>

\* One store; nothing in the code stops it at the end of the buffer.
Emit ==
  /\ stage = "emit" /\ emitted < Len(Stores(case))
  /\ emitted' = emitted + 1
  /\ LET s == Stores(case)[emitted'] IN
     mem' = [a \in DOMAIN mem \cup s.at .. s.at + s.what.len - 1 |->
       IF a \in s.at .. s.at + s.what.len - 1
       THEN [what |-> s.what, byte |-> a - s.at] ELSE mem[a]]
  /\ UNCHANGED <<case, stage, entries, called, cpu>>

\* mprotect takes the right to write away and gives the right to execute.
Seal ==
  /\ stage = "emit" /\ emitted = Len(Stores(case))
  /\ \/ stage' = "failed" /\ UNCHANGED entries
     \/ /\ stage' = "sealed"
        /\ IF case.probe = "targets"
           THEN \E n \in PowerSizes(1, case.count) :
                  entries' = {i * TargetSlot : i \in 0 .. n - 1}
           ELSE entries' = {0}
  /\ UNCHANGED <<case, mem, emitted, called, cpu>>

\* The kernel calls the entries in a shuffled order.
Enter(e) ==
  /\ stage = "sealed" /\ ip = Caller /\ e \in entries \ called
  /\ called' = called \cup {e}
  /\ ip' = e
  /\ IF X86(case) THEN stack' = <<Caller>> /\ UNCHANGED link
     ELSE link' = Caller /\ UNCHANGED stack
  /\ UNCHANGED <<case, stage, mem, emitted, entries, zero, ran>>

\* A whole instruction starts at a.
Intact(a) ==
  /\ a \in DOMAIN mem /\ mem[a] # Hole
  /\ \A k \in 0 .. mem[a].what.len - 1 :
       a + k \in DOMAIN mem /\ mem[a + k] = [what |-> mem[a].what, byte |-> k]

Goes(c, i) ==
  CASE i.op \in {"jump", "call"} \/ (i.op = "jump if zero" /\ zero) -> Target(c, ip, i)
    [] i.op = "ret" -> IF X86(c) THEN Head(stack) ELSE link
    [] OTHER -> ip + i.len

Execute ==
  /\ ip # Caller /\ Intact(ip)
  /\ LET i == mem[ip].what
         next == ip + i.len
     IN  /\ ip' = Goes(case, i)
         /\ stack' = CASE i.op = "call" /\ X86(case) -> <<next>> \o stack
                       [] i.op = "save" -> <<link>> \o stack
                       [] i.op = "restore" \/ (i.op = "ret" /\ X86(case)) -> Tail(stack)
                       [] OTHER -> stack
         /\ link' = CASE i.op = "call" /\ ~X86(case) -> next
                      [] i.op = "restore" -> Head(stack)
                      [] OTHER -> link
         /\ zero' = (zero \/ i.op = "clear")
         /\ ran' = Append(ran, IF i.op = "jump if zero" /\ ~zero THEN "not taken" ELSE i.op)
  /\ UNCHANGED <<case, stage, mem, emitted, entries, called>>

Over ==
  /\ stage = "failed" \/ (stage = "sealed" /\ ip = Caller /\ called = entries)
  /\ UNCHANGED codeVars

CodeNext == MapBuffer \/ Emit \/ Seal \/ (\E e \in entries : Enter(e)) \/ Execute \/ Over

CodeSpec == CodeInit /\ [][CodeNext]_codeVars

--------------------------------------------------------------------------------
Times(op) == Cardinality({k \in DOMAIN ran : ran[k] = op})

\* No store of a probe lies outside the buffer it has asked for, whatever the
\* spacing, the count and the architecture, and the processor only ever comes
\* upon whole instructions of the sealed buffer: no jump or return lands
\* between two of them or in bytes that were never written.
StaysInCode ==
  /\ stage \in {"emit", "sealed"} => DOMAIN mem = 0 .. Room(case) - 1
  /\ ip # Caller => stage = "sealed" /\ Intact(ip)

\* When the kernel is done it has executed what its figures are divided by: as
\* many taken branches as branch_count, depth + 1 returns and an even stack, a
\* return per indirect call, filler + 7 instructions before the second load, a
\* no-op per instruction of the body.
RunsWhatIsCounted ==
  stage = "sealed" /\ ip = Caller /\ called = entries =>
    /\ stack = <<>>
    /\ CASE case.probe \in {"jumps", "branches"} -> Times(Jump(case).op) = case.count
         [] case.probe = "returns" -> Times("ret") = case.count + 1
         [] case.probe = "targets" -> Times("ret") = Cardinality(entries)
         [] case.probe = "rob" ->
              /\ Times("add") = case.count
              /\ {k \in DOMAIN ran : ran[k] = "load"} = {7, case.count + 8}
         [] case.probe = "fetch" -> Times("nop") = Body(case) \div case.width
================================================================================
