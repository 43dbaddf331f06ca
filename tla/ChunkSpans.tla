----------------------------- MODULE ChunkSpans -----------------------------
(***************************************************************************)
(* Cutting a text into chunks (chunker.rs, chunk_syntax).  The text is     *)
(* read line by line; a chunk is a half-open range of its bytes.  Pass 1   *)
(* cuts between lines, pass 2 splits what has become too long between      *)
(* characters.                                                             *)
(***************************************************************************)
EXTENDS Integers, Sequences, FiniteSets, FiniteSetsExt

CONSTANTS
  Lines,      \* the lines a text is made of
  MaxLines,   \* bound: the lines of a text
  Targets     \* chunk_target_bytes

Widest == 4   \* bytes of a character, in UTF-8

LineKinds == {"plain", "blank", "heading", "decl"}

(* A line has the offsets of its characters; no character is wider than    *)
(* Widest, and no line is empty.                                           *)
IsLine(line) ==
  /\ line.kind \in LineKinds
  /\ line.bytes \in Nat \ {0}
  /\ line.chars \subseteq 0 .. line.bytes - 1 /\ 0 \in line.chars
  /\ \A o \in 0 .. line.bytes - 1 : \E c \in line.chars : c <= o /\ o < c + Widest

ASSUME ChunksAssumption ==
  /\ \A line \in Lines : IsLine(line)
  /\ MaxLines \in Nat
  /\ Targets \subseteq Nat

VARIABLES
  cutting,    \* the call: its target and syntax, and the pass it is in
  text,       \* what has been read: its length, and where its characters
              \* and its declarations start
  open,       \* chunk_start, last_soft, last_decl
  soft,       \* soft_spans
  reached,    \* the soft span that pass 2 is at
  piece,      \* piece_start
  spans       \* the chunks

chunkVars == <<cutting, text, open, soft, reached, piece, spans>>

None == -1

Span(from, to) == [start |-> from, end |-> to]

ChunksInit ==
  /\ cutting \in [pass : {"lines"}, target : {Max({1, asked}) : asked \in Targets},
                  code : BOOLEAN]
  /\ text = [length |-> 0, chars |-> {}, decls |-> {}, lines |-> 0]
  /\ open = [start |-> 0, soft |-> None, decl |-> None]
  /\ soft = <<>> /\ spans = <<>>
  /\ reached = 1 /\ piece = None

-----------------------------------------------------------------------------
(* Pass 1.                                                                 *)

TakeLine(line) ==
  /\ cutting.pass = "lines" /\ text.lines < MaxLines
  /\ text' = [length |-> text.length + line.bytes,
              chars |-> text.chars \cup {text.length + c : c \in line.chars},
              decls |-> text.decls \cup (IF line.kind = "decl" THEN {text.length} ELSE {}),
              lines |-> text.lines + 1]
  /\ UNCHANGED <<cutting, reached, piece, spans>>

CutAt(at) ==
  /\ soft' = Append(soft, Span(open.start, at))
  /\ open' = [start |-> at, soft |-> None, decl |-> None]

(* A line starts inside the chunk when it is not the chunk's first.        *)
Inside == text.length > open.start

Declares(line) == cutting.code /\ line.kind = "decl" /\ Inside

HoldsEnough == text.length - open.start >= cutting.target \div 4

(* In code, a declaration cuts at once when the chunk holds a quarter of   *)
(* the target.                                                             *)
CutAtDeclaration(line) ==
  /\ TakeLine(line)
  /\ Declares(line) /\ HoldsEnough
  /\ CutAt(text.length)

(* The boundaries a line leaves: before a heading, after a blank line,     *)
(* before a declaration.                                                   *)
Noted(line) ==
  [open EXCEPT
     !.soft = IF line.kind = "blank" THEN text.length + line.bytes
              ELSE IF line.kind = "heading" /\ Inside THEN text.length ELSE @,
     !.decl = IF Declares(line) THEN text.length ELSE @]

(* The declaration, once half the target lies before it, or else the soft  *)
(* boundary; None or the chunk's own start is no cut.                      *)
CutOf(noted) ==
  IF noted.decl > noted.start /\ noted.decl - noted.start >= cutting.target \div 2
  THEN noted.decl ELSE noted.soft

(* Any other line is taken into the chunk, which is cut when it has        *)
(* reached the target and has a boundary.                                  *)
ReadLine(line) ==
  /\ TakeLine(line)
  /\ ~ (Declares(line) /\ HoldsEnough)
  /\ LET noted == Noted(line)
         full == text.length + line.bytes - open.start >= cutting.target
     IN  IF full /\ CutOf(noted) > open.start THEN CutAt(CutOf(noted))
         ELSE open' = noted /\ UNCHANGED soft

(* What is left is a span too.                                             *)
EndOfText ==
  /\ cutting.pass = "lines"
  /\ cutting' = [cutting EXCEPT !.pass = "characters"]
  /\ soft' = IF open.start < text.length
             THEN Append(soft, Span(open.start, text.length)) ELSE soft
  /\ UNCHANGED <<text, open, reached, piece, spans>>

-----------------------------------------------------------------------------
(* Pass 2.                                                                 *)

Splitting == cutting.pass = "characters" /\ reached <= Len(soft)

IsLong(span) == span.end - span.start > 2 * cutting.target

NextSpan == reached' = reached + 1 /\ piece' = None

KeepSpan ==
  /\ Splitting /\ piece = None /\ ~ IsLong(soft[reached])
  /\ spans' = Append(spans, soft[reached])
  /\ NextSpan
  /\ UNCHANGED <<cutting, text, open, soft>>

BeginSplit ==
  /\ Splitting /\ piece = None /\ IsLong(soft[reached])
  /\ piece' = soft[reached].start
  /\ UNCHANGED <<cutting, text, open, soft, reached, spans>>

(* Seeded fault: a long span is cut at the byte, not at a character. *)
BytesBeyond(span) == {b \in 0 .. text.length : piece + cutting.target <= b /\ b < span.end}

(* The characters of a span that are a target or more into the piece.      *)
Beyond(span) == {c \in text.chars : piece + cutting.target <= c /\ c < span.end}

SplitPiece ==
  /\ Splitting /\ piece # None
  /\ Beyond(soft[reached]) # {}
  /\ piece' = Min(Beyond(soft[reached]))
  /\ spans' = Append(spans, Span(piece, piece'))
  /\ UNCHANGED <<cutting, text, open, soft, reached>>

LastPiece ==
  /\ Splitting /\ piece # None
  /\ Beyond(soft[reached]) = {}
  /\ spans' = IF piece < soft[reached].end
              THEN Append(spans, Span(piece, soft[reached].end)) ELSE spans
  /\ NextSpan
  /\ UNCHANGED <<cutting, text, open, soft>>

ChunksEnd ==
  /\ cutting.pass = "characters" /\ reached > Len(soft)
  /\ cutting' = [cutting EXCEPT !.pass = "done"]
  /\ UNCHANGED <<text, open, soft, reached, piece, spans>>

-----------------------------------------------------------------------------
ChunksNext ==
  \/ \E line \in Lines : CutAtDeclaration(line) \/ ReadLine(line)
  \/ EndOfText
  \/ KeepSpan \/ BeginSplit \/ SplitPiece \/ LastPiece
  \/ ChunksEnd

ChunksSpec == ChunksInit /\ [][ChunksNext]_chunkVars

-----------------------------------------------------------------------------
(* The chunks of a text cover it without gap or overlap, start at          *)
(* characters and stay within twice the target, or a target and one        *)
(* character.  In code no declaration is left behind inside a soft span    *)
(* that already held a quarter of the target (chunk_syntax).               *)
ChunksTileTheText ==
  /\ \A k \in DOMAIN spans :
       /\ spans[k].start = IF k = 1 THEN 0 ELSE spans[k - 1].end
       /\ spans[k].start < spans[k].end
       /\ spans[k].start \in text.chars
       /\ spans[k].end - spans[k].start
            <= Max({2 * cutting.target, cutting.target - 1 + Widest})
  /\ cutting.pass = "done" =>
       text.length = IF spans = <<>> THEN 0 ELSE spans[Len(spans)].end
  /\ cutting.code =>
       \A k \in DOMAIN soft, d \in text.decls :
         soft[k].start < d /\ d < soft[k].end => d - soft[k].start < cutting.target \div 4

=============================================================================
