------------------------------ MODULE MCNumber ------------------------------
(* Number for TLC: char, short, int and long have 2, 3, 4 and 6 bits.      *)
(* float, double and long double have mantissas of 2, 4 and 6 bits: like   *)
(* those of the platform, a float holds not all ints, a double all ints    *)
(* but not all longs, a long double all longs and unsigned longs.          *)
EXTENDS Number

MCMax  == [char |-> 1, short |-> 3, int |-> 7, long |-> 31]
MCBits == [t \in FP |-> CASE t = "float" -> 2 [] t = "double" -> 4 [] OTHER -> 6]

(* Every value of the integer types.                                       *)
AllOf(t) == IF t = "BOOL" THEN {0, 1}
            ELSE IF t \in Signed THEN (-Max[t] - 1)..Max[t]
            ELSE 0..(2 * Max[Unsigned[t]] + 1)

(* Fractions, numbers about the limits of long and unsigned long, and some *)
(* that become infinite when a long double is rounded to a double.         *)
Reals == -8..8 \cup {-i : i \in 112..144} \cup 112..144 \cup 240..288
         \cup {20, 30, 66, -66, 8064, -8064, Infinity, -Infinity, NaN}

MCGiven == [t \in Type |-> IF t \in FP THEN {x \in Reals : Rounded(x, Bits[t]) = x}
                                       ELSE AllOf(t)]
MCTaggedDoubles == {x \in Reals : x % 8 # 3}

=============================================================================
