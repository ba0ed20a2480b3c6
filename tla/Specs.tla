------------------------------- MODULE Specs --------------------------------
(***************************************************************************)
(* What the user types for ports, targets and menu numbers, and what the   *)
(* parsers of cli.rs and main.rs make of it.                               *)
(*                                                                         *)
(* A text is the sequence of its parts between commas, a part the sequence *)
(* of its fields between hyphens.  A field is a number or, as a negative   *)
(* one, text that is no number.  Spaces around parts and fields are gone.  *)
(*                                                                         *)
(* Operators marked "fault" are plausible bugs of the definition below     *)
(* them; the specification does not use them.                              *)
(***************************************************************************)
EXTENDS Integers, Sequences, SequencesExt

CONSTANTS
  MaxPort,   \* the largest u16
  MaxPid     \* the largest i32

Junk  == -1          \* letters, a sign, two hyphens
Blank == -2          \* nothing at all
Empty == <<Blank>>   \* the part of "" and of ",,"

Part == Seq(Int) \ {<<>>}
Text == Seq(Part)

ASSUME SpecsAssumption == MaxPort \in Nat /\ MaxPid \in Nat
-----------------------------------------------------------------------------
(***************************************************************************)
(* split_once('-'): what follows the first hyphen is one field, and no     *)
(* number if it has a hyphen of its own.                                   *)
(***************************************************************************)
Bounds(part) ==
  IF Len(part) = 1 THEN <<part[1], part[1]>>
  ELSE <<part[1], IF Len(part) = 2 THEN part[2] ELSE Junk>>

Failure == [ok |-> FALSE, out |-> {}]

\* Number::from_str: a sign but no more digits than the type holds.
Parses(bounds, max) == bounds[1] \in 0..max /\ bounds[2] \in 0..max

\* fault: a part that does not parse is passed over
LenientPortPart(result, part) ==
  LET b == Bounds(part)
  IN  IF Parses(b, MaxPort) /\ b[1] <= b[2] THEN [result EXCEPT !.out = @ \cup {b}] ELSE result

\* One round of the loop of parse_port_spec.
PortPart(result, part) ==
  LET b == Bounds(part)
  IN  IF ~result.ok \/ part = Empty THEN result
      ELSE IF Parses(b, MaxPort) /\ b[1] <= b[2] THEN [result EXCEPT !.out = @ \cup {b}]
      ELSE Failure

ParsePortSpec(text) ==
  LET parsed == FoldLeft(PortPart, [ok |-> TRUE, out |-> {}], text)
  IN  IF parsed.out = {} THEN Failure ELSE parsed

(***************************************************************************)
(* Target::parse of [pid, part]; pid tells that the text has the prefix    *)
(* "pid:" or "@".  One port is a range of one.                             *)
(***************************************************************************)
ParseTarget(t) ==
  LET b == Bounds(t.part)
  IN  IF t.pid
      THEN IF Len(t.part) = 1 /\ t.part[1] \in 2..MaxPid
           THEN [type |-> "pid", lo |-> t.part[1], hi |-> t.part[1]]
           ELSE [type |-> "error", lo |-> 0, hi |-> 0]
      ELSE IF Parses(b, MaxPort) /\ b[1] <= b[2]
           THEN [type |-> "ports", lo |-> b[1], hi |-> b[2]]
           ELSE [type |-> "error", lo |-> 0, hi |-> 0]

\* fault: the numbers of the menu taken for indices
IndexPartFromZero(result, part, len) ==
  LET b == Bounds(part)
  IN  IF ~result.ok \/ part = Empty THEN result
      ELSE IF b[1] <= 0 \/ b[2] < b[1] \/ b[2] > len THEN Failure
      ELSE [result EXCEPT !.out = @ \cup {i \in b[1]..b[2] : i < len}]

\* One round of the loop of parse_index_spec: indices from 0.
IndexPart(result, part, len) ==
  LET b == Bounds(part)
  IN  IF ~result.ok \/ part = Empty THEN result
      ELSE IF b[1] <= 0 \/ b[2] < b[1] \/ b[2] > len THEN Failure
      ELSE [result EXCEPT !.out = @ \cup (b[1] - 1)..(b[2] - 1)]

ParseIndexSpec(text, len) ==
  FoldLeft(LAMBDA r, part : IndexPart(r, part, len), [ok |-> TRUE, out |-> {}], text)
-----------------------------------------------------------------------------
(***************************************************************************)
(* What a reader takes a text for, whatever the parsers do.                *)
(***************************************************************************)
Well(part, lo, hi) ==
  /\ Len(part) \in {1, 2}
  /\ lo <= part[1] /\ part[1] <= part[Len(part)] /\ part[Len(part)] <= hi

\* Every part that is not empty is a number or a range, within the bounds.
WellFormed(text, lo, hi) == \A i \in DOMAIN text : text[i] = Empty \/ Well(text[i], lo, hi)

Covers(text, n) ==
  \E i \in DOMAIN text : text[i] # Empty /\ text[i][1] <= n /\ n <= text[i][Len(text[i])]
=============================================================================
