--------------------------- MODULE StringFormats ---------------------------
(***************************************************************************)
(* How an NSString keeps its characters, and what the formats have to      *)
(* agree on.  A string is stored in one of three formats, ASCII, UTF-16 of *)
(* 15 bit and UTF-32, or packed into a tagged pointer of five or seven bit *)
(* per character; which one depends on the text and on the initializer, so *)
(* that the same text lives in objects of many classes.  They have to be   *)
(* equal, to hash alike and to answer the same lengths.                    *)
(*                                                                         *)
(* A character is its code point.  The limits of the formats are           *)
(* constants.  Since UTF-16 is stored without surrogates, the units of a   *)
(* string are its characters in every format.  Tagged pointers are on.     *)
(***************************************************************************)
EXTENDS Integers, SequencesExt

CONSTANTS Char5,      \* the characters that have a code of five bit
          Char5Max,   \* mulle_char5_get_maxlength()
          Char7Max,   \* mulle_char7_get_maxlength()
          TinyMax,    \* the values of uint8_t _length
          Window,     \* the characters that are hashed
          Chunk       \* the characters in the buffers of hasPrefix, hasSuffix

Mark == 65279         \* U+FEFF, the byte order mark

(* Code points but zero, which ends a C string, and the surrogates.        *)
IsCodePoint(c) == c \in Nat \ {0} /\ c =< 1114111 /\ c \notin 55296..57343

IsText(t) == t \in Seq(Nat) /\ \A i \in DOMAIN t : IsCodePoint(t[i])

ASSUME LimitsAreOrdered == /\ Char7Max \in Nat /\ Char5Max \in Nat
                           /\ TinyMax \in Nat \ {0}
                           /\ Window \in Nat /\ Chunk \in Nat \ {0}
                           /\ Char7Max =< Char5Max /\ Char5Max =< Window

ASSUME Char5IsASCII == Char5 \subseteq 1..127

-----------------------------------------------------------------------------
(* What mulle-utf says of a text.                                          *)

IsAscii(t) == \A i \in DOMAIN t : t[i] < 128
IsUTF15(t) == \A i \in DOMAIN t : t[i] < 32768
IsChar5(t) == \A i \in DOMAIN t : t[i] \in Char5

(* From info.start on: a byte order mark at the start is skipped.          *)
Body(t) == IF t # <<>> /\ Head(t) = Mark THEN Tail(t) ELSE t

UTF8Bytes(c) ==
    LET Continued(k) == 128 + ((c \div k) % 64)
    IN  IF c < 128        THEN <<c>>
        ELSE IF c < 2048  THEN <<192 + (c \div 64), Continued(1)>>
        ELSE IF c < 65536 THEN <<224 + (c \div 4096), Continued(64), Continued(1)>>
        ELSE <<240 + (c \div 262144), Continued(4096), Continued(64), Continued(1)>>

ToUTF8(t) == FlattenSeq([i \in DOMAIN t |-> UTF8Bytes(t[i])])

-----------------------------------------------------------------------------
(* Objects.  length is the ivar _length, which a tagged pointer lacks.     *)

Tagged  == {"Char7", "Char5"}
ASCII   == {"Constant", "TinyASCII", "GenericASCII", "ReferencingASCII", "Cheating"}
Classes == Tagged \cup ASCII \cup {"UTF16", "UTF32", "Mutable"}

Object(c, t, n) == [class |-> c, units |-> t, length |-> n]

Empty     == Object("Constant", <<>>, 0)
UTF16(t)  == Object("UTF16", t, Len(t))
UTF32(t)  == Object("UTF32", t, Len(t))

(* The tiny class keeps length - 1 in a byte.                              *)
NewASCII(t) == IF Len(t) =< TinyMax
               THEN Object("TinyASCII", t, (Len(t) - 1) % TinyMax)
               ELSE Object("GenericASCII", t, Len(t))

Length(s) == CASE s.class = "TinyASCII" -> s.length + 1
               [] s.class \in Tagged    -> Len(s.units)
               [] OTHER                 -> s.length

FitsPointer(t) == /\ IsAscii(t)
                  /\ \/ Len(t) =< Char7Max
                     \/ IsChar5(t) /\ Len(t) =< Char5Max

Char7String(t) == Object("Char7", t, 0)
Char5String(t) == Object("Char5", t, 0)
Packed(t) == IF Len(t) =< Char7Max THEN Char7String(t) ELSE Char5String(t)

-----------------------------------------------------------------------------
(* The initializers of the class cluster.                                  *)

NewString(t) ==
    LET b == Body(t)
    IN  IF t = <<>> THEN Empty
        ELSE IF FitsPointer(b) THEN Packed(b)
        ELSE IF IsAscii(b)     THEN NewASCII(b)
        ELSE IF IsUTF15(b)     THEN UTF16(b)
        ELSE UTF32(b)

(* These keep the caller's characters, or share them with their owner.     *)
InitWithUTF8CharactersNoCopy(t) ==
    LET b == Body(t)
    IN  IF b = <<>>        THEN Empty
        ELSE IF IsAscii(b) THEN Object("ReferencingASCII", b, Len(b))
        ELSE IF IsUTF15(b) THEN UTF16(b)
        ELSE UTF32(b)

InitWithCharactersNoCopy(t) ==
    LET b == Body(t)
    IN  IF b = <<>>   THEN Empty
        ELSE IF b # t THEN NewString(t)
        ELSE UTF32(b)

\* Slip: all that has no surrogates is stored as UTF-16.
InitWithUTF16CharactersOfPlane0(t) ==
    LET b == Body(t)
    IN  IF FitsPointer(b)                           THEN Packed(b)
        ELSE IF \A i \in DOMAIN b : b[i] < 65536    THEN UTF16(b)
        ELSE InitWithCharactersNoCopy(b)

(* UTF-16 is never stored as ASCII, and what has surrogates as UTF-32.     *)
InitWithUTF16Characters(t) ==
    LET b == Body(t)
    IN  IF FitsPointer(b)  THEN Packed(b)
        ELSE IF IsUTF15(b) THEN UTF16(b)
        ELSE InitWithCharactersNoCopy(b)

(* An object on the stack for characters that are known to be ASCII.  It   *)
(* aborts when it is retained: the only way to keep it is a copy.          *)
Cheating(t) == Object("Cheating", t, Len(t))

(* A mutable string that holds its text in several pieces, and its copy.   *)
Mutable(t) == Object("Mutable", t, Len(t))

ImmutableCopy(s) == IF s.class = "Cheating"        THEN NewASCII(s.units)
                    ELSE IF s.class # "Mutable"    THEN s
                    ELSE IF s.length = 0           THEN Empty
                    ELSE IF FitsPointer(s.units)   THEN Packed(s.units)
                    ELSE UTF32(s.units)

(* _mulleNewSubstringFrom...Data: packed if it fits, or shared.            *)
Part(s, t) == IF t = <<>>            THEN Empty
              ELSE IF FitsPointer(t) THEN Packed(t)
              ELSE IF s.class \in ASCII
              THEN Object("ReferencingASCII", t, Len(t))
              ELSE Object(s.class, t, Len(t))

(* n characters from an offset in the string.                              *)
SubstringWithRange(s, offset, n) ==
    LET c == IF s.class = "Mutable" THEN ImmutableCopy(s) ELSE s
        t == SubSeq(c.units, offset + 1, offset + n)
    IN  IF c.class \in Tagged THEN [c EXCEPT !.units = t]
        ELSE IF n = Length(c) THEN c
        ELSE Part(c, t)

-----------------------------------------------------------------------------
(* Hash and comparison.                                                    *)

(* The last characters of a long string are hashed.                        *)
HashRange(n) == IF n > Window
                THEN [location |-> n - Window, length |-> Window]
                ELSE [location |-> 0, length |-> n]

(* FNV-1a folds one unit after the other into the hash, so a hash stands   *)
(* for the sequence of the units that went into it.                        *)
HashOfRange(units, range) ==
    SubSeq(units, range.location + 1, range.location + range.length)

HashOfUnits(units, n) == HashOfRange(units, HashRange(n))

\* Slip: a mutable string is hashed from its start.
HashOfStart(s) == IF s.class = "Mutable"
                  THEN SubSeq(s.units, 1, HashRange(Length(s)).length)
                  ELSE HashOfUnits(s.units, Length(s))

(* The tagged pointer classes hash all of their characters.                *)
Hash(s) == IF s.class \in Tagged THEN s.units
                                 ELSE HashOfUnits(s.units, Length(s))

Smaller(m, n) == IF m < n THEN m ELSE n

\* Slip: the rest after the last full chunk is not compared.
StartsWithChunks(s, p, n) ==
    \A k \in 0..((n \div Chunk) - 1) :
        SubSeq(s.units, k * Chunk + 1, (k + 1) * Chunk)
          = SubSeq(p.units, k * Chunk + 1, (k + 1) * Chunk)

(* hasPrefix: n characters are compared chunk by chunk.                    *)
StartsWith(s, p, n) ==
    \A k \in 0..((n - 1) \div Chunk) :
        LET last == Smaller((k + 1) * Chunk, n)
        IN  SubSeq(s.units, k * Chunk + 1, last)
              = SubSeq(p.units, k * Chunk + 1, last)

HasPrefix(s, p) == Length(s) >= Length(p) /\ StartsWith(s, p, Length(p))

(* The buffer for the suffix holds one chunk: hasSuffix copies all of the  *)
(* suffix to it, and with a longer one anything may happen.                *)
HasSuffix(s, p) ==
    IF Length(s) < Length(p)  THEN {FALSE}
    ELSE IF Length(p) > Chunk THEN BOOLEAN
    ELSE {SubSeq(s.units, Length(s) - Length(p) + 1, Length(s)) = p.units}

(* A tagged string compares its characters with the UTF-8 of the other.    *)
IsEqualToString(s, p) ==
    /\ Length(s) = Length(p)
    /\ IF s.class \in Tagged
       THEN \A i \in 1..Length(s) : ToUTF8(p.units)[i] = s.units[i]
       ELSE StartsWith(s, p, Length(s))

-----------------------------------------------------------------------------
(* The format a string is kept in suits its text: NSString.h promises      *)
(* ASCII of 7 bit, UTF-16 of 15 bit without surrogates, and UTF-32 for     *)
(* everything else; the accessors of each class rely on it unchecked, and  *)
(* on a length that fits the class.                                        *)
Stored(s) == /\ s \in [class : Classes, units : Seq(Nat), length : Nat]
             /\ IsText(s.units)
             /\ Length(s) = Len(s.units)
             /\ s.class \in ASCII \cup Tagged => IsAscii(s.units)
             /\ s.class = "UTF16" => IsUTF15(s.units)
             /\ s.class = "Char7" => Len(s.units) =< Char7Max
             /\ s.class = "Char5" => IsChar5(s.units) /\ Len(s.units) =< Char5Max

=============================================================================
