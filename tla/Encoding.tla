------------------------------ MODULE Encoding ------------------------------
(***************************************************************************)
(* NSString+NSData: a client makes a string by one of the initializers,    *)
(* exports it to bytes in some encoding with some options, or into a       *)
(* buffer that may be too small, and makes a string of the bytes again; or *)
(* it makes a second string and compares the two.                          *)
(*                                                                         *)
(* Bytes are numbers of 0..255, and the machine is little endian.          *)
(***************************************************************************)
EXTENDS StringFormats

CONSTANTS Texts,      \* the texts strings are made of
          Rooms       \* the sizes of the client's buffers

ASSUME TextsAreTexts == \A t \in Texts : IsText(t)
ASSUME RoomsAreSizes == Rooms \subseteq Nat

VARIABLES string,     \* the string that is exported, or None
          other,      \* the string that was made of the bytes, or Rejected
          data        \* the exported bytes, or NoData

vars == <<string, other, data>>

None     == [class |-> "None"]
Rejected == [class |-> "Rejected"]
NoData   == [state |-> "none"]

Wide16    == {"UTF16", "UTF16LE", "UTF16BE"}
Wide32    == {"UTF32", "UTF32LE", "UTF32BE"}
Encodings == {"ASCII", "ISO1", "UTF8"} \cup Wide16 \cup Wide32
BigEnd    == {"UTF16BE", "UTF32BE"}

Options == SUBSET {"BOM", "BOMIfNeeded", "TerminateWithZero"}
Default == {"BOMIfNeeded"}

-----------------------------------------------------------------------------
(* What mulle-utf converts, and what it rejects.                           *)

(* The surrogates: the first of a pair has the high bits.                  *)
High == 55296..56319
Low  == 56320..57343
HighBits(u)  == u - 55296
Paired(v, u) == 65536 + (v * 1024) + (u - 56320)

UTF16Units(c) == IF c < 65536
                 THEN <<c>>
                 ELSE <<55296 + ((c - 65536) \div 1024), 56320 + ((c - 65536) % 1024)>>

ToUTF16(t) == FlattenSeq([i \in DOMAIN t |-> UTF16Units(t[i])])

(* A decoder: the text so far, the units that are still due, and the bits  *)
(* of those that came; due is -1 after a malformed unit.                   *)
Start     == [text |-> <<>>, due |-> 0, bits |-> 0]
Broken(d) == [d EXCEPT !.due = -1]
Lead(d, n, v)  == [d EXCEPT !.due = n, !.bits = v]
Follow(d, v) == IF d.due = 1 THEN [text |-> Append(d.text, v), due |-> 0, bits |-> 0]
                             ELSE [d EXCEPT !.due = @ - 1, !.bits = v]

UTF8Step(d, b) ==
    CASE d.due = 0 /\ b < 128         -> [d EXCEPT !.text = Append(@, b)]
      [] d.due = 0 /\ b \in 192..223  -> Lead(d, 1, b - 192)
      [] d.due = 0 /\ b \in 224..239  -> Lead(d, 2, b - 224)
      [] d.due = 0 /\ b \in 240..247  -> Lead(d, 3, b - 240)
      [] d.due > 0 /\ b \in 128..191  -> Follow(d, (d.bits * 64) + (b - 128))
      [] OTHER                        -> Broken(d)

UTF16Step(d, u) ==
    CASE d.due = 0 /\ u \notin High \cup Low -> [d EXCEPT !.text = Append(@, u)]
      [] d.due = 0 /\ u \in High             -> Lead(d, 1, HighBits(u))
      [] d.due = 1 /\ u \in Low              -> Follow(d, Paired(d.bits, u))
      [] OTHER                               -> Broken(d)

FromUTF8(bytes) ==
    LET d[i \in 0..Len(bytes)] == IF i = 0 THEN Start ELSE UTF8Step(d[i - 1], bytes[i])
    IN  d[Len(bytes)]
FromUTF16(units) ==
    LET d[i \in 0..Len(units)] == IF i = 0 THEN Start ELSE UTF16Step(d[i - 1], units[i])
    IN  d[Len(units)]
FromISO1(bytes)  == [text |-> bytes, due |-> 0]
FromUTF32(units) == [text |-> units, due |-> 0]

-----------------------------------------------------------------------------
(* Units of z bytes in memory.  Exporting to, and importing from, the      *)
(* other byte order swaps all units.                                       *)

SwapUnits(bytes, z) ==
    [i \in 1..((Len(bytes) \div z) * z) |->
        LET unit == (i - 1) \div z IN bytes[(2 * unit * z) + z + 1 - i]]

ByteOf(u, k) == IF k = 0 THEN u % 256
                ELSE IF k = 1 THEN (u \div 256) % 256
                ELSE IF k = 2 THEN (u \div 65536) % 256
                ELSE 0

ToBytes(units, z) ==
    [i \in 1..(Len(units) * z) |-> ByteOf(units[((i - 1) \div z) + 1], (i - 1) % z)]

ToUnits(bytes, z) ==
    [i \in 1..(Len(bytes) \div z) |->
        IF z = 2 THEN bytes[2*i - 1] + (256 * bytes[2*i])
        ELSE bytes[4*i - 3] + (256 * bytes[4*i - 2]) + (65536 * bytes[4*i - 1])]

Ordered(bytes, z, e) == IF e \in BigEnd THEN SwapUnits(bytes, z) ELSE bytes

-----------------------------------------------------------------------------
(* Export.  A result is the bytes, or refused by an exception.             *)

Bytes(b) == [state |-> "bytes", bytes |-> b]
Refused  == [state |-> "refused"]

Zero(options)   == IF "TerminateWithZero" \in options THEN <<0>> ELSE <<>>
Wanted(options) == {"BOM", "BOMIfNeeded"} \cap options # {}

\* Slip: the length in bytes is not compared.
ASCIIDataUnchecked(s, options) ==
    Bytes([i \in DOMAIN s.units |-> s.units[i] % 128] \o Zero(options))

(* Only if the UTF-8 is no longer than the string it is ASCII.             *)
ASCIIData(s, options) ==
    IF Len(ToUTF8(s.units)) = Length(s)
    THEN Bytes(ToUTF8(s.units) \o Zero(options))
    ELSE Refused

UTF8Data(s, options) ==
    (IF "BOM" \in options THEN <<239, 187, 188>> ELSE <<>>)
        \o ToUTF8(s.units) \o Zero(options)

(* ISO Latin 1 comes from the UTF-8, its byte order mark included.         *)
ISO1Data(s, options) ==
    LET t == FromUTF8(UTF8Data(s, options)).text
    IN  IF t \in Seq(0..255) THEN Bytes(t) ELSE Refused

MarkUnit(options) == IF Wanted(options) THEN <<Mark>> ELSE <<>>

UTF16Data(s, options, e) ==
    LET units == MarkUnit(options) \o ToUTF16(Body(s.units)) \o Zero(options)
    IN  Bytes(Ordered(ToBytes(units, 2), 2, e))

UTF32Data(s, options, e) ==
    LET units == MarkUnit(options) \o s.units \o Zero(options)
    IN  Bytes(Ordered(ToBytes(units, 4), 4, e))

Exported(s, e, options) ==
    IF e = "ASCII"        THEN ASCIIData(s, options)
    ELSE IF e = "ISO1"    THEN ISO1Data(s, options)
    ELSE IF e = "UTF8"    THEN Bytes(UTF8Data(s, options))
    ELSE IF e \in Wide16  THEN UTF16Data(s, options, e)
    ELSE UTF32Data(s, options, e)

CanBeConverted(e) == e \notin {"ASCII", "ISO1"}

\* Slip: two bytes for each character, surrogates forgotten.
LengthOfCharacters(s, e) ==
    CASE e = "UTF8"                             -> Len(ToUTF8(s.units))
      [] e = "ASCII" /\ IsAscii(Body(s.units)) -> Length(s)
      [] e = "UTF16"                            -> 2 * Length(s)
      [] e = "UTF32"                            -> 4 * Length(s)
      [] OTHER                                  -> 0

(* The classes of ASCII and those that store wide units know the length    *)
(* without a conversion; 0 says that it is not known.                      *)
LengthOfBytes(s, e) ==
    LET body == Body(s.units)
    IN  IF s.class \in ASCII
        THEN CASE e \in {"ASCII", "UTF8"} -> Length(s)
               [] e = "UTF16"             -> 2 * Length(s)
               [] e = "UTF32"             -> 4 * Length(s)
               [] OTHER                   -> 0
        ELSE IF s.class = "UTF16" /\ e = "UTF16"            THEN 2 * Length(s)
        ELSE IF s.class \in {"UTF16", "UTF32"} /\ e = "UTF32" THEN 4 * Length(s)
        ELSE CASE e = "UTF8"  -> Len(ToUTF8(s.units))
               [] e = "ASCII" -> IF IsAscii(body) THEN Len(body) ELSE 0
               [] e = "UTF16" -> 2 * Len(ToUTF16(body))
               [] e = "UTF32" -> 4 * Len(body)
               [] OTHER       -> 0

-----------------------------------------------------------------------------
(* Import: malformed units, surrogates and code points past the last one   *)
(* are rejected with an exception.                                         *)

Decoded(d)      == IF d.due = 0 /\ IsText(d.text)
                   THEN NewString(d.text) ELSE Rejected
DecodedUTF16(d) == IF d.due = 0 /\ IsText(d.text)
                   THEN InitWithUTF16Characters(d.text) ELSE Rejected

\* Slip: both byte orders are imported as they are.
ImportedUnswapped(bytes, e) ==
    IF bytes = <<>>                  THEN Empty
    ELSE IF e = "ISO1"               THEN Decoded(FromISO1(bytes))
    ELSE IF e \in {"ASCII", "UTF8"}  THEN Decoded(FromUTF8(bytes))
    ELSE IF e \in Wide16             THEN DecodedUTF16(FromUTF16(ToUnits(bytes, 2)))
    ELSE Decoded(FromUTF32(ToUnits(Ordered(bytes, 4, e), 4)))

Imported(bytes, e) ==
    IF bytes = <<>>                  THEN Empty
    ELSE IF e = "ISO1"               THEN Decoded(FromISO1(bytes))
    ELSE IF e \in {"ASCII", "UTF8"}  THEN Decoded(FromUTF8(bytes))
    ELSE IF e \in Wide16             THEN DecodedUTF16(FromUTF16(ToUnits(Ordered(bytes, 2, e), 2)))
    ELSE Decoded(FromUTF32(ToUnits(Ordered(bytes, 4, e), 4)))

(* What NSData takes for a byte order mark.                                *)
ByteOrderMark(bytes) ==
    CASE IsPrefix(<<239, 187, 191>>, bytes) -> "UTF8"
      [] IsPrefix(<<254, 255>>, bytes)      -> "UTF16BE"
      [] IsPrefix(<<255, 254>>, bytes)      -> "UTF16LE"
      [] OTHER                              -> "None"

-----------------------------------------------------------------------------
(* The client.                                                             *)

Init == string = None /\ other = None /\ data = NoData

(* A first string is made, and perhaps a second one to compare it with.    *)
Appear(s) == /\ data = NoData
             /\ \/ string = None /\ string' = s /\ UNCHANGED other
                \/ string # None /\ other = None /\ other' = s /\ UNCHANGED string
             /\ UNCHANGED data

InitWithCharacters(t)       == Appear(NewString(t))
InitWithUTF8NoCopy(t)       == Appear(InitWithUTF8CharactersNoCopy(t))
InitNoCopy(t)               == Appear(InitWithCharactersNoCopy(t))
InitWithUTF16(t)            == t # <<>> /\ Appear(InitWithUTF16Characters(t))
AppendPieces(t)             == Appear(Mutable(t))
CheatingInit(t)             == IsAscii(t) /\ Appear(Cheating(t))

Unused == string # None /\ other = None /\ data = NoData

(* The client goes on with a copy or a part of its string.  There are no   *)
(* ASCII strings without characters to make the copy of a cheating one.    *)
Copy == /\ Unused
        /\ string.class = "Cheating" => Length(string) > 0
        /\ string' = ImmutableCopy(string)
        /\ UNCHANGED <<other, data>>

(* An empty mutable string has no substrings, see MutableString, and a     *)
(* cheating string none that shares its characters.                        *)
Ranges(s) == {r \in [location : 0..Length(s), length : 0..Length(s)] :
                 /\ r.location + r.length =< Length(s)
                 /\ s.class = "Mutable" => Length(s) > 0
                 /\ s.class = "Cheating" /\ r.length # Length(s) =>
                        SubstringWithRange(s, r.location, r.length).class \in Tagged \cup {"Constant"}}

Substring == /\ Unused
             /\ \E r \in Ranges(string) :
                    string' = SubstringWithRange(string, r.location, r.length)
             /\ UNCHANGED <<other, data>>

Export(source, e, options, result) ==
    data' = [state |-> result.state, source |-> source, encoding |-> e,
             options |-> options, whole |-> TRUE,
             bytes |-> IF result.state = "bytes" THEN result.bytes ELSE <<>>]

DataUsingEncoding(e, options) ==
    /\ Unused
    /\ Export(string, e, options, Exported(string, e, options))
    /\ UNCHANGED <<string, other>>

(* Bytes that are too many for the buffer are left off, wherever this cuts *)
(* a character in two.                                                     *)
GetBytes(e, room, r) ==
    LET s == IF r.length # Length(string)
             THEN SubstringWithRange(string, r.location, r.length) ELSE string
        result == Exported(s, e, Default)
    IN  /\ Unused
        /\ r.length # 0
        /\ IF result.state = "bytes" /\ Len(result.bytes) > room
           THEN data' = [state |-> "bytes", source |-> s, encoding |-> e,
                         options |-> Default, whole |-> FALSE,
                         bytes |-> SubSeq(result.bytes, 1, room)]
           ELSE Export(s, e, Default, result)
        /\ UNCHANGED <<string, other>>

(* The bytes are imported in the encoding of the export; a zero at the end *)
(* is not a part of the text.                                              *)
InitWithData ==
    /\ data # NoData /\ data.state = "bytes" /\ other = None
    /\ "TerminateWithZero" \notin data.options
    /\ other' = Imported(data.bytes, data.encoding)
    /\ UNCHANGED <<string, data>>

(* The autorelease pool takes all.                                         *)
Release == /\ string # None
           /\ string' = None /\ other' = None /\ data' = NoData

Next == \/ \E t \in Texts : \/ InitWithCharacters(t)
                           \/ InitWithUTF8NoCopy(t)
                           \/ InitNoCopy(t)
                           \/ InitWithUTF16(t)
                           \/ AppendPieces(t)
                           \/ CheatingInit(t)
        \/ Copy
        \/ Substring
        \/ \E e \in Encodings, options \in Options : DataUsingEncoding(e, options)
        \/ /\ Unused
           /\ \E e \in Encodings, room \in Rooms, r \in Ranges(string) : GetBytes(e, room, r)
        \/ InitWithData
        \/ Release

Spec == Init /\ [][Next]_vars

-----------------------------------------------------------------------------
(* Properties.                                                             *)

(* Types, and every string's format and length fit its text: the accessors *)
(* and hashes of the classes rely on 7 and 15 bit without a check.         *)
TypeOK == /\ string = None \/ Stored(string)
          /\ other \in {None, Rejected} \/ Stored(other)
          /\ \/ data = NoData
             \/ /\ data.state \in {"bytes", "refused"}
                /\ data.bytes \in Seq(0..255)
                /\ data.encoding \in Encodings
                /\ Stored(data.source)

BothStrings == string # None /\ other \notin {None, Rejected}

(* Strings are equal if and only if they have the same characters, in      *)
(* whatever classes, chunks and from whichever side they are compared;     *)
(* prefixes and, as far as the buffer allows, suffixes likewise.           *)
ComparisonsAreExact ==
    BothStrings =>
        /\ IsEqualToString(string, other) <=> string.units = other.units
        /\ IsEqualToString(other, string) <=> string.units = other.units
        /\ HasPrefix(string, other) <=> IsPrefix(other.units, string.units)
        /\ Length(other) =< Chunk =>
               HasSuffix(string, other) = {IsSuffix(other.units, string.units)}

(* What is equal hashes alike, or a string is not found again under an     *)
(* equal key of another class.                                             *)
EqualStringsHashAlike ==
    BothStrings /\ IsEqualToString(string, other) => Hash(string) = Hash(other)

Marks(t)    == Cardinality({i \in DOMAIN t : \A j \in 1..i : t[j] = Mark})
Unmarked(t) == SubSeq(t, Marks(t) + 1, Len(t))

Marked(e, options) == e = "UTF8" /\ "BOM" \in options

(* What is exported can be imported: the text comes back, except that byte *)
(* order marks of its own at the start may get lost.  Of bytes that were   *)
(* cut off comes a start of the text, or they are rejected.  (The mark of  *)
(* UTF-8 is another matter, see MarksAreRead.)                             *)
RoundTrips ==
    data # NoData /\ other # None /\ ~Marked(data.encoding, data.options) =>
        LET text == data.source.units
        IN  IF data.whole
            THEN /\ other # Rejected
                 /\ Unmarked(other.units) = Unmarked(text)
                 /\ Marks(other.units) =< Marks(text)
            ELSE \/ other = Rejected
                 \/ IsPrefix(Unmarked(other.units), Unmarked(text))

Fits(t, e) == CASE e = "ASCII" -> IsAscii(t)
                [] e = "ISO1"  -> \A i \in DOMAIN t : t[i] < 256
                [] OTHER       -> TRUE

(* An export that would lose characters is refused, as NSStringEncoding.h  *)
(* says; one that would not succeeds (but ISO Latin 1 has no mark), and so *)
(* does what -canBeConvertedToEncoding: allows.                            *)
ExportRefusesLoss ==
    data # NoData =>
        /\ data.state = "bytes" => Fits(data.source.units, data.encoding)
        /\ data.state = "refused" =>
               /\ ~CanBeConverted(data.encoding)
               /\ \/ ~Fits(data.source.units, data.encoding)
                  \/ data.encoding = "ISO1" /\ "BOM" \in data.options

(* A byte order mark at the start is not counted for ASCII, although with  *)
(* it the export is refused, and by a mutable string not for UTF-32, where *)
(* it is exported.                                                         *)
MarkIsMissed(s, e) ==
    /\ Body(s.units) # s.units
    /\ \/ e = "ASCII" /\ IsAscii(Body(s.units))
       \/ e = "UTF32" /\ s.class = "Mutable"

(* -lengthOfBytesUsingEncoding: announces as many bytes as an export       *)
(* without options has, by whichever way a class computes it, or 0 if it   *)
(* does not know or cannot convert; but of a string whose mark is missed   *)
(* the bytes of the text behind the mark.                                  *)
LengthsAgree ==
    data # NoData /\ data.options = {} =>
        LET s == data.source
            e == data.encoding
        IN  LengthOfBytes(s, e) =
                IF MarkIsMissed(s, e)
                THEN (IF e = "ASCII" THEN 1 ELSE 4) * Len(Body(s.units))
                ELSE IF e \in {"ASCII", "UTF8", "UTF16", "UTF32"}
                THEN Len(data.bytes) ELSE 0

(* NSStringEncoding.h offers a byte order mark "also for UTF8", the bytes  *)
(* EF BB BF as a test says: it has to be what -_byteOrderMark recognizes.  *)
MarksAreRead ==
    data # NoData /\ data.state = "bytes" /\ data.whole =>
        (Marked(data.encoding, data.options) =>
            ByteOrderMark(data.bytes) = "UTF8")

=============================================================================
