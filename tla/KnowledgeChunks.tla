--------------------------- MODULE KnowledgeChunks ---------------------------
(***************************************************************************)
(* chunkKnowledgeText: the text a stage extracted is normalized, keeping   *)
(* for each unit the place it came from, and cut into overlapping chunks,  *)
(* which search and the assistant's citations point into.  One step is one *)
(* turn of either loop.  A unit is a UTF-16 code unit: what matters of it  *)
(* is whether it is blank, and which half of a surrogate pair it is.       *)
(*                                                                         *)
(* Offsets count from 0 as in the code: unit i is the element i + 1 of a   *)
(* sequence, and a range ends before its second offset.                    *)
(***************************************************************************)
EXTENDS Integers, Sequences

CONSTANTS
    Sources,    \* the texts, sequences of Units
    Maximum,    \* maximumCharacters
    Overlap     \* overlapCharacters

VARIABLES
    source,     \* the text as it was extracted
    index,      \* the next offset normalizeWithSourceMap looks at
    text,       \* what it has: units with the range of source they stand for
    phase,      \* "reading", "cutting" or "done"
    start,      \* where the next chunk begins in text
    chunks      \* the ranges of text cut so far

vars == <<source, index, text, phase, start, chunks>>

Blanks == {"space", "cr", "lf", "nul"}
Units == Blanks \cup {"letter", "high", "low"}

(* The stage takes the defaults, 800 and 120; the code accepts any overlap
   smaller than the maximum, and no maximum smaller than 32. *)
ASSUME ChunkAssumption ==
    /\ Sources \subseteq Seq(Units)
    /\ Maximum \in Nat /\ Maximum >= 2
    /\ Overlap \in Nat /\ Overlap <= Maximum \div 2

TypeOK ==
    /\ source \in Seq(Units)
    /\ index \in 0 .. Len(source)
    /\ text \in Seq([unit : Units, from : Nat, to : Nat])
    /\ phase \in {"reading", "cutting", "done"}
    /\ start \in 0 .. Len(text)
    /\ chunks \in Seq([from : Nat, to : Nat])

Init ==
    /\ source \in Sources
    /\ index = 0 /\ text = << >>
    /\ phase = "reading"
    /\ start = 0 /\ chunks = << >>

-----------------------------------------------------------------------------
(* normalizeWithSourceMap *)
Unit(i) == source[i + 1]
IsCrLf(i) == Unit(i) = "cr" /\ i + 1 < Len(source) /\ Unit(i + 1) = "lf"
After(i) == i + (IF IsCrLf(i) THEN 2 ELSE 1)
EndsInSpace == text # << >> /\ text[Len(text)].unit = "space"

Widened(end) == [text EXCEPT ![Len(text)].to = end]

(* Blanks become one space, and none at the beginning. *)
Read ==
    /\ phase = "reading" /\ index < Len(source)
    /\ index' = After(index)
    /\ \/ /\ Unit(index) \notin Blanks
          /\ text' = Append(text, [unit |-> Unit(index), from |-> index, to |-> After(index)])
       \/ /\ Unit(index) \in Blanks /\ text = << >>
          /\ UNCHANGED text
       \/ /\ Unit(index) \in Blanks /\ EndsInSpace
          /\ text' = Widened(After(index))
       \/ /\ Unit(index) \in Blanks /\ text # << >> /\ ~EndsInSpace
          /\ text' = Append(text, [unit |-> "space", from |-> index, to |-> After(index)])
    /\ UNCHANGED <<source, phase, start, chunks>>

(* Nor at the end. *)
Normalize ==
    /\ phase = "reading" /\ index = Len(source)
    /\ text' = IF EndsInSpace THEN SubSeq(text, 1, Len(text) - 1) ELSE text
    /\ phase' = "cutting"
    /\ UNCHANGED <<source, index, start, chunks>>

-----------------------------------------------------------------------------
Size == Len(text)
Kind(p) == text[p + 1].unit
Spaces == {p \in 0 .. Size - 1 : Kind(p) = "space"}

Furthest(from) == IF from + Maximum < Size THEN from + Maximum ELSE Size

(* The spaces beyond the middle, where a chunk from here may end. *)
WordEnds(from) ==
    {p \in Spaces : p <= Furthest(from) /\ p > from + (Furthest(from) - from) \div 2}

SplitsPair(p) == Kind(p - 1) = "high" /\ Kind(p) = "low"

(* Mutant of CutAt: a pair is not looked for. *)
CutAnywhere(from, end) == end = Furthest(from)

CutAt(from, end) ==
    end = IF SplitsPair(Furthest(from)) THEN Furthest(from) - 1 ELSE Furthest(from)

(* safeBoundary: the chunk from here ends at end. *)
EndsAt(from, end) ==
    \/ Furthest(from) = Size /\ end = Size
    \/ /\ Furthest(from) < Size
       /\ end \in WordEnds(from) /\ \A p \in WordEnds(from) : p <= end
    \/ Furthest(from) < Size /\ WordEnds(from) = {} /\ CutAt(from, end)

(* The spaces within the overlap, after which the next chunk may begin. *)
WordStarts(from, end) ==
    {p \in Spaces : p > from /\ p >= end - Overlap /\ p < end}

(* nextChunkStart *)
ContinuesAt(from, end, next) ==
    \/ end = Size /\ next = Size
    \/ /\ end < Size
       /\ next - 1 \in WordStarts(from, end) /\ \A p \in WordStarts(from, end) : p >= next - 1
    \/ end < Size /\ WordStarts(from, end) = {} /\ next = end

Cut ==
    /\ phase = "cutting" /\ start < Size
    /\ \E end \in 0 .. Size, next \in 0 .. Size :
        /\ EndsAt(start, end) /\ ContinuesAt(start, end, next)
        /\ chunks' = Append(chunks, [from |-> start, to |-> end])
        /\ start' = next
    /\ UNCHANGED <<source, index, text, phase>>

Finish ==
    /\ phase = "cutting" /\ start = Size
    /\ phase' = "done"
    /\ UNCHANGED <<source, index, text, start, chunks>>

Next == Read \/ Normalize \/ Cut \/ Finish

Spec == Init /\ [][Next]_vars

-----------------------------------------------------------------------------
(* What a citation shows is what was read: the units of the text stand, in
   their order and without a gap, for the source, a space for blanks only. *)
CitationsAreExact ==
    \A i \in 1 .. Len(text) :
        /\ text[i].from < text[i].to /\ text[i].to <= Len(source)
        /\ i < Len(text) => text[i].to = text[i + 1].from
        /\ IF text[i].unit = "space"
           THEN \A p \in text[i].from .. text[i].to - 1 : Unit(p) \in Blanks
           ELSE text[i].to = text[i].from + 1 /\ Unit(text[i].from) = text[i].unit

(* Chunks cover the text without a gap, none is empty or too long, and each
   reaches beyond the one before it. *)
ChunksCover ==
    /\ chunks # << >> => chunks[1].from = 0
    /\ \A i \in 1 .. Len(chunks) :
        /\ chunks[i].from < chunks[i].to /\ chunks[i].to <= Size
        /\ chunks[i].to - chunks[i].from <= Maximum
        /\ i < Len(chunks) => /\ chunks[i].from < chunks[i + 1].from
                              /\ chunks[i + 1].from <= chunks[i].to
                              /\ chunks[i].to < chunks[i + 1].to
    /\ phase = "done" /\ text # << >> => chunks # << >> /\ chunks[Len(chunks)].to = Size

(* No chunk begins or ends between the halves of a surrogate pair. *)
PairsAreWhole ==
    \A i \in 1 .. Len(chunks) :
        \A p \in {chunks[i].from, chunks[i].to} : p > 0 /\ p < Size => ~SplitsPair(p)

(* A word is cut only if it fills the second half of a chunk. *)
WordsAreWhole ==
    \A i \in 1 .. Len(chunks) :
        LET c == chunks[i] IN
        c.to < Size /\ Kind(c.to) # "space"
            => \A p \in Spaces : p < c.to => p <= c.from + Maximum \div 2

ChunksHold == CitationsAreExact /\ ChunksCover /\ PairsAreWhole /\ WordsAreWhole
=============================================================================
