------------------------------ MODULE ProcArgs ------------------------------
(***************************************************************************)
(* cmdline of macos.rs: the arguments and the environment of a process, as *)
(* KERN_PROCARGS2 lays them out: argc, the path of the executable, padding,*)
(* the arguments, the environment.                                         *)
(*                                                                         *)
(* A cell of the buffer is a NUL or a whole run of other bytes, so a       *)
(* string takes two cells, an empty one a single one.                      *)
(*                                                                         *)
(* Operators marked "fault" are plausible bugs of the definition below     *)
(* them; the specification does not use them.                              *)
(***************************************************************************)
EXTENDS Integers, Sequences, SequencesExt

CONSTANTS
  SmallCap, ArgMax,   \* the two buffer sizes tried, in cells
  Padding,            \* NULs after the path of the executable
  Pairs               \* the strings that have a "="

ASSUME ProcArgsAssumption == {SmallCap, ArgMax, Padding} \subseteq Nat /\ "" \notin Pairs

Nul == "NUL"

Cells(s) == IF s = "" THEN <<Nul>> ELSE <<s, Nul>>

\* The strings one after the other.
Flat(strings) ==
  LET flat[n \in 0..Len(strings)] == IF n = 0 THEN <<>> ELSE flat[n - 1] \o Cells(strings[n])
  IN  flat[Len(strings)]

\* What the kernel has of a process.
Layout(p) ==
  [count |-> Len(p.argv),
   cells |-> Cells("path") \o [i \in 1..Padding |-> Nul] \o Flat(p.argv \o p.environ)]

\* sysctl fails for a process of another user, and if the buffer is too small.
Sysctl(p, cap) == IF p.mine /\ Len(Layout(p).cells) < cap THEN {Layout(p)} ELSE {}

\* split at NUL: one NUL ends a chunk and opens the next.
Split(chunks, cell) ==
  IF cell = Nul THEN Append(chunks, "") ELSE [chunks EXCEPT ![Len(chunks)] = cell]

Chunks(cells) ==
  LET split[n \in 0..Len(cells)] == IF n = 0 THEN <<"">> ELSE Split(split[n - 1], cells[n])
  IN  split[Len(cells)]

Add(kept, string) == IF string \in Pairs THEN Append(kept, string) ELSE kept

\* The strings that are pairs, in their order.
PairsOf(strings) ==
  LET kept[n \in 0..Len(strings)] == IF n = 0 THEN <<>> ELSE Add(kept[n - 1], strings[n])
  IN  kept[Len(strings)]

\* fault: the padding is taken to be a single NUL
ParseProcargsTight(buf) ==
  LET chunks == Chunks(SubSeq(buf.cells, SelectInSeq(buf.cells, LAMBDA c : c = Nul) + 2, Len(buf.cells)))
      count  == IF buf.count < Len(chunks) THEN buf.count ELSE Len(chunks)
  IN  [argv |-> SubSeq(chunks, 1, count),
       env |-> PairsOf(SubSeq(chunks, count + 1, Len(chunks)))]

\* parse_procargs: past the path and all the NULs after it.
ParseProcargs(buf) ==
  LET end    == SelectInSeq(buf.cells, LAMBDA c : c = Nul)
      rest   == SubSeq(buf.cells, end, Len(buf.cells))
      skip   == SelectInSeq(rest, LAMBDA c : c # Nul)
      chunks == Chunks(IF skip = 0 THEN <<>> ELSE SubSeq(rest, skip, Len(rest)))
      count  == IF buf.count < Len(chunks) THEN buf.count ELSE Len(chunks)
  IN  [argv |-> SubSeq(chunks, 1, count),
       env |-> PairsOf(SubSeq(chunks, count + 1, Len(chunks)))]

\* A small buffer first, then the largest.
Cmdline(p) ==
  LET small == Sysctl(p, SmallCap)
  IN  {ParseProcargs(b) : b \in IF small # {} THEN small ELSE Sysctl(p, ArgMax)}
=============================================================================
