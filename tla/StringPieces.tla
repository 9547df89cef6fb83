----------------------------- MODULE StringPieces -----------------------------
(***************************************************************************)
(* StringPiece (include/StringPiece.h): a pointer into memory that belongs *)
(* to somebody else, and a length.  Two pieces of the same memory, which   *)
(* may overlap, are set, cut at both ends and compared.                    *)
(*                                                                         *)
(* Nobody checks the n of remove_prefix and remove_suffix; the caller      *)
(* removes no more than there is.  NULL is the first address: with length  *)
(* 0 nothing is read through it.                                           *)
(***************************************************************************)
EXTENDS Integers, SequencesExt

CONSTANTS
  Size,   \* the bytes of the memory, the last one is '\0'
  Bytes   \* the values of a byte, as memcmp orders them

Terminator == 0

ASSUME StringPiecesAssumption ==
  /\ Size \in Nat \ {0}
  /\ Bytes \subseteq Nat
  /\ Terminator \in Bytes

VARIABLES
  chars,   \* the bytes the pieces point into
  piece,   \* the StringPiece at work: ptr_ and length_
  other,   \* the one it is compared with
  text     \* history: what piece stands for, as a string of its own

pieceVars == <<chars, piece, other, text>>

Pieces == {p \in [ptr : 0 .. Size, length : 0 .. Size] :
             p.ptr + p.length <= Size}

(* as_string(), CopyToString(): string(data(), size()) *)
as_string(p) == SubSeq(chars, p.ptr + 1, p.ptr + p.length)

(* strlen *)
StrLen(ptr) ==
  (CHOOSE i \in (ptr + 1) .. Size :
     /\ chars[i] = Terminator
     /\ \A k \in (ptr + 1) .. (i - 1) : chars[k] # Terminator) - ptr - 1

(* StringPiece() *)
NoPiece == [ptr |-> 0, length |-> 0]

PieceInit ==
  /\ chars \in {Append(m, Terminator) : m \in [1 .. (Size - 1) -> Bytes]}
  /\ piece = NoPiece /\ text = <<>>
  /\ other \in Pieces

(* StringPiece(offset, len), set(buffer, len) and, for a string, its data  *)
(* and size: a Nul in between is a byte like any other.                    *)
set(p) ==
  /\ piece' = p
  /\ text' = as_string(p)
  /\ UNCHANGED <<chars, other>>

(* StringPiece(str), set(str): up to the first Nul. *)
SetCString(ptr) == set([ptr |-> ptr, length |-> StrLen(ptr)])

clear == set(NoPiece)

\* Variant: the length stays.
PrefixGoneOnly(n) == [piece EXCEPT !.ptr = @ + n]

WithoutPrefix(n) == [ptr |-> piece.ptr + n, length |-> piece.length - n]

remove_prefix(n) ==
  /\ n <= piece.length
  /\ piece' = WithoutPrefix(n)
  /\ text' = SubSeq(text, n + 1, Len(text))
  /\ UNCHANGED <<chars, other>>

remove_suffix(n) ==
  /\ n <= piece.length
  /\ piece' = [piece EXCEPT !.length = @ - n]
  /\ text' = SubSeq(text, 1, Len(text) - n)
  /\ UNCHANGED <<chars, other>>

NextUse ==
  \/ \E p \in Pieces : set(p)
  \/ \E ptr \in 0 .. (Size - 1) : SetCString(ptr)
  \/ clear
  \/ \E n \in 1 .. Size : remove_prefix(n) \/ remove_suffix(n)

PieceSpec == PieceInit /\ [][NextUse]_pieceVars

-----------------------------------------------------------------------------
(* The comparisons *)

Shorter(p, q) == IF p.length < q.length THEN p.length ELSE q.length

(* memcmp(p.ptr_, q.ptr_, n): by the first byte that differs. *)
memcmp(p, q, n) ==
  LET Byte(r, i) == chars[r.ptr + i]
      Differ == {i \in 1 .. n : Byte(p, i) # Byte(q, i)}
  IN  IF Differ = {} THEN 0 ELSE Byte(p, Min(Differ)) - Byte(q, Min(Differ))

Equal(p, q) == p.length = q.length /\ memcmp(p, q, p.length) = 0

\* Variant: a prefix counts as equal.
compareBytes(p, q) == memcmp(p, q, Shorter(p, q))

compare(p, q) ==
  LET r == memcmp(p, q, Shorter(p, q))
  IN  CASE r # 0                               -> r
        [] r = 0 /\ p.length < q.length        -> -1
        [] r = 0 /\ p.length > q.length        -> 1
        [] r = 0 /\ p.length = q.length        -> 0

(* a cmp b, where cmp is the set of the signs a - b may have. *)
Holds(a, cmp, b) ==
  (IF a < b THEN "-" ELSE IF a = b THEN "0" ELSE "+") \in cmp

(* STRINGPIECE_BINARY_PREDICATE(cmp, auxcmp) *)
Predicate(p, q, cmp, auxcmp) ==
  LET r == memcmp(p, q, Shorter(p, q))
  IN  Holds(r, auxcmp, 0) \/ (r = 0 /\ Holds(p.length, cmp, q.length))

(* Does p start with q? *)
starts_with(p, q) == p.length >= q.length /\ memcmp(p, q, q.length) = 0

-----------------------------------------------------------------------------
(* s comes before t in a dictionary. *)
Before(s, t) ==
  \E k \in 0 .. Len(s) :
    /\ k <= Len(t) /\ SubSeq(s, 1, k) = SubSeq(t, 1, k)
    /\ k < Len(t)
    /\ k < Len(s) => s[k + 1] < t[k + 1]

(***************************************************************************)
(* All the comparisons of two pieces are the one order of the dictionary   *)
(* on the strings they show, whether they overlap, are empty or hold a     *)
(* Nul: so == and compare() = 0 are the same, and a container may sort     *)
(* with any of them.                                                       *)
(***************************************************************************)
ComparesTexts ==
  LET s == as_string(piece)
      t == as_string(other)
  IN  /\ Equal(piece, other) <=> s = t
      /\ compare(piece, other) < 0 <=> Before(s, t)
      /\ compare(piece, other) > 0 <=> Before(t, s)
      /\ Predicate(piece, other, {"-"}, {"-"}) <=> Before(s, t)
      /\ Predicate(piece, other, {"-", "0"}, {"-"}) <=> ~Before(t, s)
      /\ Predicate(piece, other, {"0", "+"}, {"+"}) <=> ~Before(s, t)
      /\ Predicate(piece, other, {"+"}, {"+"}) <=> Before(t, s)
      /\ starts_with(piece, other) <=> IsPrefix(t, s)

(***************************************************************************)
(* After any cuts at both ends, the piece shows what a string of its own   *)
(* would, and still lies within the memory it was set to.                  *)
(***************************************************************************)
ShowsWhatIsLeft == piece \in Pieces /\ as_string(piece) = text

=============================================================================
