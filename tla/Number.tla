------------------------------- MODULE Number -------------------------------
(***************************************************************************)
(* NSNumber on a 64 bit platform: which class an initializer chooses for a *)
(* value, and whether numbers of different classes compare, equal and hash *)
(* like the values they were made with.                                    *)
(*                                                                         *)
(* A real is an integer multiple of 1/One; an integer of a C type is just  *)
(* that.  The widths of the types are scaled down, in the same order.      *)
(***************************************************************************)
EXTENDS Integers

CONSTANTS One,           \* units in 1.0
          Max,           \* [signed integer type -> its largest value]
          Bits,          \* [floating point type -> bits of its mantissa]
          Infinity, NaN, \* in units, above all others
          MaxTagged,     \* largest integer in a tagged pointer
          TaggedDoubles, \* doubles that fit into a tagged pointer
          Given,         \* [type -> values the client makes numbers with]
          None           \* no number

Signed   == {"char", "short", "int", "long"}
Unsigned == [uchar |-> "char", ushort |-> "short", uint |-> "int", ulong |-> "long"]
FP       == {"float", "double", "long double"}
Type     == Signed \cup DOMAIN Unsigned \cup FP \cup {"BOOL"}

Int32Max  == Max["int"]
Int64Max  == Max["long"]
UInt32Max == 2 * Int32Max + 1

VARIABLES tps,  \* the runtime has tagged pointers
          a, b  \* two numbers, or None
vars == <<tps, a, b>>

(* A number: the type and the real it was made with, its class and value,  *)
(* which is in units in the classes for floating point.                    *)
IntClass == {"Bool", "TaggedInteger", "Int32", "Int64", "UInt32", "UInt64"}
FPClass  == {"TaggedFloat", "Float", "TaggedDouble", "Double", "LongDouble"}
Instance == [type : Type, given : Int, class : IntClass \cup FPClass, value : Int]

Init == tps \in BOOLEAN /\ a = None /\ b = None

-----------------------------------------------------------------------------
(* Conversions of C.                                                       *)

Abs(x) == IF x < 0 THEN -x ELSE x

Pow2[n \in Nat] == IF n = 0 THEN 1 ELSE 2 * Pow2[n - 1]

(* The multiple of u next to x, an even one if x is in the middle.         *)
Nearest(x, u) ==
    LET q    == x \div u
        rest == 2 * (x % u)
    IN  u * (IF rest > u \/ (rest = u /\ q % 2 = 1) THEN q + 1 ELSE q)

(* The bits at the end of x that a mantissa of so many bits has no room    *)
(* for, if there are any.                                                  *)
Excess(x, bits) ==
    CHOOSE k \in 1..x : Pow2[bits + k - 1] <= x /\ x < Pow2[bits + k]

(* To the nearest real with that many bits, ties to even.                  *)
Rounded(x, bits) ==
    IF Abs(x) \in {Infinity, NaN} \/ Abs(x) < Pow2[bits] THEN x
    ELSE LET n == Nearest(Abs(x), Pow2[Excess(Abs(x), bits)])
         IN  IF x < 0 THEN -n ELSE n

(* To an integer type, by taking bits off.                                 *)
Wrapped(t, i) ==
    IF t \in Signed THEN ((i + Max[t] + 1) % (2 * Max[t] + 2)) - (Max[t] + 1)
                    ELSE i % (2 * Max[Unsigned[t]] + 2)

(* A real to a long, which is undefined if it does not fit: some           *)
(* processors saturate, some answer the smallest.                          *)
ToLong(x) == LET i == IF x < 0 THEN -((-x) \div One) ELSE x \div One IN
             IF i \in (-Int64Max - 1)..Int64Max THEN {i}
             ELSE {-(Int64Max + 1), Int64Max}

(* The values of a type.                                                   *)
Fits(t, v) ==
    IF t = "BOOL"                  THEN v \in {0, 1}
    ELSE IF t \in Signed           THEN v \in (-Max[t] - 1)..Max[t]
    ELSE IF t \in DOMAIN Unsigned  THEN v \in 0..(2 * Max[Unsigned[t]] + 1)
    ELSE v \in -Infinity..Infinity \cup {NaN} /\ Rounded(v, Bits[t]) = v

(* The widths are those of a platform of 64 bits as far as it matters: a   *)
(* double has not room for each long, a long double for each unsigned one. *)
(* What is rounded past the largest real becomes infinite.                 *)
ASSUME WidthsGrow ==
    /\ One \in Nat /\ \E j \in 0..One : One = Pow2[j]
    /\ Max \in [Signed -> Nat]
    /\ \A t \in Signed : \E w \in 1..(Max[t] + 1) : Max[t] + 1 = Pow2[w]
    /\ Max["char"] < Max["short"] /\ Max["short"] < Int32Max
    /\ MaxTagged \in Nat /\ UInt32Max <= MaxTagged /\ MaxTagged < Int64Max
    /\ Bits \in [FP -> Nat \ {0}]
    /\ Bits["float"] <= Bits["double"] /\ Bits["double"] <= Bits["long double"]
    /\ Pow2[Bits["double"]] <= Int64Max
    /\ 2 * (Int64Max + 1) <= Pow2[Bits["long double"]]
    /\ Infinity \in Nat /\ NaN \in Nat
    /\ \E e \in 0..Infinity : Infinity = Pow2[e]
    /\ 4 * One * Int64Max < Infinity /\ Infinity < NaN
ASSUME GivenAreTyped == /\ DOMAIN Given = Type
                        /\ \A t \in Type : \A v \in Given[t] : Fits(t, v)
ASSUME NoneIsNoNumber == None \notin Instance

-----------------------------------------------------------------------------
(* The initializers: class and value.                                      *)

Object(class, v) == [class |-> class, value |-> v]
Tagged(i)        == tps /\ i \in (-MaxTagged - 1)..MaxTagged

InitWithBOOL(i)  == Object("Bool", IF i = 0 THEN 0 ELSE 1)
InitWithInt32(i) == Object(IF Tagged(i) THEN "TaggedInteger" ELSE "Int32", i)

\* Slip: an unsigned value never gets into a tagged pointer.
InitWithUInt32Untagged(i) == Object("UInt32", i)

InitWithUInt32(i) == Object(IF Tagged(i) THEN "TaggedInteger" ELSE "UInt32", i)

\* Slip: a value is cut to 32 bits.
InitWithSignedInt32(i) == InitWithInt32(Wrapped("int", i))

InitWithSigned(i) == IF i \in (-Int32Max - 1)..Int32Max THEN InitWithInt32(i)
                                                        ELSE Object("Int64", i)

InitWithUnsigned(t, i) ==
    IF i <= Max[Unsigned[t]] THEN InitWithSigned(i)
    ELSE IF i <= UInt32Max THEN InitWithUInt32(i)
    ELSE Object("UInt64", i)

Concrete(t, x) ==
    Object(CASE t = "float"  -> IF tps THEN "TaggedFloat" ELSE "Float"
             [] t = "double" -> IF tps /\ x \in TaggedDoubles THEN "TaggedDouble"
                                                              ELSE "Double"
             [] OTHER        -> "LongDouble",
           x)

\* Slip: a floating point number stays one.
InitWithFPAsIs(t, x) == {Concrete(t, x)}

(* An integer value gets the class of an integer.                          *)
InitWithFP(t, x) ==
    IF -(Int64Max + 1) * One <= x /\ x <= Rounded(Int64Max * One, Bits[t])
    THEN {IF Rounded(l * One, Bits[t]) = x THEN InitWithSigned(l) ELSE Concrete(t, x)
            : l \in ToLong(x)}
    ELSE {Concrete(t, x)}

(* initWithBytes:objCType:                                                 *)
New(t, v) == CASE t = "BOOL"            -> {InitWithBOOL(v)}
               [] t \in Signed          -> {InitWithSigned(v)}
               [] t \in DOMAIN Unsigned -> {InitWithUnsigned(t, v)}
               [] t \in FP              -> InitWithFP(t, v)

-----------------------------------------------------------------------------
(* What a number answers.                                                  *)

ObjCType(n) == CASE n.class = "Bool"                           -> "BOOL"
                 [] n.class = "Int32"                          -> "int"
                 [] n.class \in {"TaggedInteger", "Int64"}     -> "long"
                 [] n.class = "UInt32"                         -> "uint"
                 [] n.class = "UInt64"                         -> "ulong"
                 [] n.class \in {"TaggedFloat", "Float"}       -> "float"
                 [] n.class \in {"TaggedDouble", "Double"}     -> "double"
                 [] n.class = "LongDouble"                     -> "long double"

Real(n)            == IF n.class \in IntClass THEN n.value * One ELSE n.value
DoubleValue(n)     == Rounded(Real(n), Bits["double"])
LongDoubleValue(n) == Rounded(Real(n), Bits["long double"])
LongLongValue(n)   == Wrapped("long", n.value)

(* -charValue, ..., -unsignedLongLongValue of an integer class, and        *)
(* -floatValue, ..., -longDoubleValue of all.                              *)
ValueAs(t, n) == IF t = "BOOL" THEN IF n.value = 0 THEN 0 ELSE 1
                 ELSE IF t \in FP THEN Rounded(Real(n), Bits[t])
                 ELSE Wrapped(t, n.value)

\* Slip: the unsigned classes inherit the generic method.
GenericSuperquadValue(n) == LongLongValue(n)
SuperquadValue(n) == n.value

-----------------------------------------------------------------------------
(* Comparison.                                                             *)

Ordered(x, y) == IF x = y THEN "same" ELSE IF x < y THEN "ascending" ELSE "descending"

Simplified(t) == CASE t \in {"BOOL", "char", "short", "int", "uchar", "ushort"} -> "int"
                   [] t \in {"uint", "long"}                                  -> "long"
                   [] t = "ulong"                                             -> "superquad"
                   [] t = "float"                                             -> "double"
                   [] OTHER                                                   -> t

Kind(n) == Simplified(ObjCType(n))

(* NaN is between the negative reals and the others.                       *)
CompareDoubles(x, y) ==
    IF x = NaN THEN IF y = NaN THEN "same"
                    ELSE IF y >= 0 THEN "ascending" ELSE "descending"
    ELSE IF y = NaN THEN IF x >= 0 THEN "descending" ELSE "ascending"
    ELSE Ordered(x, y)

(* The long double branch looks at the NaN in place of the other number:   *)
(* no comparison with NaN holds.                                           *)
CompareLongDoubles(x, y) ==
    IF x = NaN THEN IF y = NaN THEN "same" ELSE "descending"
    ELSE IF y = NaN THEN IF x >= 0 THEN "descending" ELSE "ascending"
    ELSE Ordered(x, y)

(* The types of both choose, but a float or double as the receiver         *)
(* compares doubles, also with a long double number.                       *)
AsDoubles(m, n) == \/ Kind(m) = "double"
                   \/ Kind(n) = "double" /\ Kind(m) # "long double"

Compare(m, n) ==
    LET kinds == {Kind(m), Kind(n)} IN
    CASE AsDoubles(m, n)         -> CompareDoubles(DoubleValue(m), DoubleValue(n))
      [] "long double" \in kinds /\ ~AsDoubles(m, n)
                                 -> CompareLongDoubles(LongDoubleValue(m), LongDoubleValue(n))
      [] "superquad" \in kinds /\ kinds \cap FP = {}
                                 -> Ordered(SuperquadValue(m), SuperquadValue(n))
      [] kinds = {"int"}         -> Ordered(Wrapped("int", m.value), Wrapped("int", n.value))
      [] OTHER                   -> Ordered(LongLongValue(m), LongLongValue(n))

\* Slip: all integers are compared as long long.
IsEqualTypeOfSigned(n) == IF n.class \in IntClass THEN "long long" ELSE "long double"

(* __mulleIsEqualType                                                      *)
IsEqualType(n) == IF n.class = "UInt64" THEN "default"
                  ELSE IF n.class \in IntClass THEN "long long"
                  ELSE "long double"

(* A value in a tagged pointer is its own address.                         *)
Identical(m, n) == /\ m.class \in {"TaggedInteger", "TaggedFloat", "TaggedDouble"}
                   /\ m.class = n.class /\ m.value = n.value

IsEqual(m, n) ==
    IF Identical(m, n) THEN TRUE
    ELSE IF "default" \notin {IsEqualType(m), IsEqualType(n)}
    THEN /\ IsEqualType(m) = IsEqualType(n)
         /\ IF IsEqualType(m) = "long long" THEN LongLongValue(m) = LongLongValue(n)
            ELSE LongDoubleValue(m) = LongDoubleValue(n) /\ LongDoubleValue(m) # NaN
    ELSE Compare(n, m) = "same"

(* The key that is hashed: the 64 bits of an integer, also of one in a     *)
(* class for floating point, or the value.  The 32 bit classes hash 64     *)
(* bits from an ivar of 32: the rest is anything.                          *)
FPHash(t, x) ==
    {IF Rounded(l * One, Bits[t]) = x THEN <<"integer", Wrapped("ulong", l)>> ELSE <<t, x>>
        : l \in ToLong(x)}

Hash(n) == CASE n.class \in {"Bool", "TaggedInteger", "Int64", "UInt64"} ->
                    {<<"integer", Wrapped("ulong", n.value)>>}
             [] n.class \in {"Int32", "UInt32"} ->
                    {<<"integer", Wrapped("uint", n.value) + rest * (UInt32Max + 1)>>
                        : rest \in {0, 1}}
             [] OTHER -> FPHash(ObjCType(n), n.value)

-----------------------------------------------------------------------------
(* Coding.  The tagged floating point numbers put their value into an      *)
(* NSInteger, whose bits are then written as those of a float or double.   *)

BitsOfLong(i) == IF i = 0 THEN 0 ELSE IF i > 0 THEN 1 ELSE NaN

Encoded(n) == IF n.class \in {"TaggedFloat", "TaggedDouble"}
              THEN {BitsOfLong(l) : l \in ToLong(n.value)}
              ELSE {n.value}

-----------------------------------------------------------------------------
(* A client makes two numbers, or one and its copy through a coder.        *)

RealOf(t, v) == IF t \in FP THEN v ELSE v * One
Made(t, v)   == {[type |-> t, given |-> RealOf(t, v), class |-> o.class, value |-> o.value]
                    : o \in New(t, v)}

MakeFirst(t, v)  == a = None /\ a' \in Made(t, v) /\ UNCHANGED <<tps, b>>
MakeSecond(t, v) == a # None /\ b = None /\ b' \in Made(t, v) /\ UNCHANGED <<tps, a>>

Recode == /\ a # None /\ b = None
          /\ \E v \in Encoded(a) : b' \in Made(ObjCType(a), v)
          /\ UNCHANGED <<tps, a>>

Release == a # None /\ a' = None /\ b' = None /\ UNCHANGED tps

Next == \/ \E t \in Type : \E v \in Given[t] : MakeFirst(t, v) \/ MakeSecond(t, v)
        \/ Recode
        \/ Release

Spec == Init /\ [][Next]_vars

-----------------------------------------------------------------------------
(* The class of a number tells its range: an integer that fits into a long *)
(* is never in a class for floating point or large unsigned numbers, which *)
(* is why -isEqualToNumber: answers NO for numbers of different kinds.     *)
Canonical(n) ==
    CASE n.class = "Bool"          -> n.value \in {0, 1}
      [] n.class = "TaggedInteger" -> Tagged(n.value) /\ n.value <= UInt32Max
      [] n.class = "Int32"         -> n.value \in (-Int32Max - 1)..Int32Max
      [] n.class = "UInt32"        -> n.value \in (Max["char"] + 1)..UInt32Max
      [] n.class = "Int64"         -> /\ n.value \in (-Int64Max - 1)..Int64Max
                                      /\ n.value \notin (-Int32Max - 1)..Int32Max
      [] n.class = "UInt64"        -> n.value \in (Int64Max + 1)..(2 * Int64Max + 1)
      [] OTHER -> ~(n.value \in (-Int64Max - 1) * One .. Int64Max * One /\ n.value % One = 0)

Numbers == {a, b} \ {None}
TypeOK  == tps \in BOOLEAN /\ \A n \in Numbers : n \in Instance /\ Canonical(n)

(* Whatever class was chosen, a number gives back what it was made with.   *)
RoundTrips ==
    \A n \in Numbers : n.given # NaN => RealOf(n.type, ValueAs(n.type, n)) = n.given

(* A float or double of 2^63 or more, next to a number that becomes the    *)
(* same when it is rounded to a double.                                    *)
Blurs(m, n)   == /\ m.type \in {"float", "double"} /\ m.given > Int64Max * One
                 /\ Rounded(n.given, Bits["double"]) = m.given
Blurred(m, n) == Blurs(m, n) \/ Blurs(n, m)

(* A float or double that a long double number becomes when it is rounded. *)
Meets(m, n) == /\ Kind(m) = "double" /\ Kind(n) = "long double"
               /\ Rounded(n.given, Bits["double"]) = m.given

(* Numbers of all classes compare like the reals they were made with, and  *)
(* the other way around if they change sides.  The one exception is made   *)
(* by -compare: of a float or double: a long double number is rounded for  *)
(* it, and is the same if it meets the receiver, however it differs; from  *)
(* its own side it is not.  Comparing a NaN in a long double number is     *)
(* left out.                                                               *)
Reverse == [same |-> "same", ascending |-> "descending", descending |-> "ascending"]

ComparisonIsOrder ==
    \A m, n \in Numbers :
        \/ NaN \in {m.given, n.given} /\ "LongDouble" \in {m.class, n.class}
        \/ /\ ~Meets(m, n) /\ ~Meets(n, m) => Compare(n, m) = Reverse[Compare(m, n)]
           /\ NaN \notin {m.given, n.given} /\ ~Blurred(m, n)
                 => Compare(m, n) = IF Meets(m, n) THEN "same"
                                                   ELSE Ordered(m.given, n.given)

(* -compare: is an order: whoever is asked, the other answers the reverse. *)
(* This does not hold for a double and a long double number it meets.      *)
ComparisonIsSymmetric ==
    \A m, n \in Numbers :
        NaN \notin {m.given, n.given} => Compare(n, m) = Reverse[Compare(m, n)]

(* Two numbers are equal if and only if the reals are.                     *)
EqualityIsExact ==
    \A m, n \in Numbers :
        /\ IsEqual(m, n) = IsEqual(n, m)
        /\ NaN \notin {m.given, n.given} /\ ~Blurred(m, n)
              => (IsEqual(m, n) <=> m.given = n.given)

(* Equal integers hash alike, and equal numbers of one floating point      *)
(* type, in a build with tagged pointers.                                  *)
EqualNumbersHashAlike ==
    \A m, n \in Numbers :
        /\ tps /\ IsEqual(m, n)
        /\ ObjCType(m) = ObjCType(n) \/ {m.class, n.class} \subseteq IntClass
        => Hash(m) = Hash(n)

(* "numberWithInt: and numberWithDouble: differ" is a failure of the test  *)
(* of -hash: an integer hashes alike, however the number was made.  This   *)
(* does not hold from 2^63 on, where a double keeps a class of its own.    *)
IntegersHashAlike ==
    \A m, n \in Numbers :
        /\ tps /\ IsEqual(m, n)
        /\ m.type \notin FP /\ m.given = n.given
        => Hash(m) = Hash(n)

(* "NSCoding conformance for persistence": a number that went through a    *)
(* coder is the one that was encoded.                                      *)
CodedNumbersSurvive ==
    [][Recode /\ a.given # NaN => b'.given = Real(a)]_vars

=============================================================================
