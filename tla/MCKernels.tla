------------------------------- MODULE MCKernels -------------------------------
(***************************************************************************)
(* Two kernels that are built in memory and then walked through: the       *)
(* pointer chase and the generated code.  They share nothing, so that a    *)
(* behaviour is one or the other.                                          *)
(***************************************************************************)
EXTENDS PointerChase, GeneratedCode

Generated(probes, archs, counts, widths) ==
  [probe : probes, arch : archs, count : counts, width : widths]
Archs == {"x86_64", "aarch64"}

\* The narrowest and the widest spacing, the lengths of the no-ops in use, and
\* footprints of a few instructions; rob.cpp is for x86 alone.
MCCases ==
  Generated({"jumps", "branches"}, Archs, {1, 4}, {4, 64})
  \cup Generated({"returns"}, Archs, {1, 4}, {0})
  \cup Generated({"targets"}, Archs, {4}, {0})
  \cup Generated({"rob"}, {"x86_64"}, {0, 8}, {0})
  \cup Generated({"fetch"}, {"x86_64"}, {16, 32}, {1, 4, 8})
  \cup Generated({"fetch"}, {"aarch64"}, {16, 32}, {4})

NoCase == [probe |-> "none", arch |-> "none", count |-> 0, width |-> 0]

NoChase ==
  /\ kind = "none" /\ order = <<>> /\ built = 0 /\ cell = <<>>
  /\ current = 0 /\ steps = 0 /\ visited = {}
NoCode ==
  /\ case = NoCase /\ stage = "new" /\ mem = <<>> /\ emitted = 0 /\ entries = {}
  /\ called = {} /\ ip = Caller /\ stack = <<>> /\ link = Caller /\ zero = FALSE /\ ran = <<>>

KernelsInit == (Init /\ NoCode) \/ (CodeInit /\ NoChase)

KernelsNext ==
  \/ kind \in Kinds /\ Next /\ UNCHANGED codeVars
  \/ kind \notin Kinds /\ CodeNext /\ UNCHANGED vars

KernelsSpec == KernelsInit /\ [][KernelsNext]_<<vars, codeVars>>

================================================================================
