------------------------------- MODULE Values -------------------------------
(***************************************************************************)
(* What the virtual machine computes with values, vm/vm.h: the conversions    *)
(* between the types and the operators on them.                             *)
(*                                                                         *)
(* A real number is a multiple of 1/2 here, and its value counts the halves: *)
(* the programs that are run form no others, and none with more digits than   *)
(* the conversion to text prints.  Integers keep their 64 bits where that is   *)
(* what an operation is about; the sums and products of the programs are       *)
(* small.                                                                  *)
(***************************************************************************)
EXTENDS Objects, TLC

Half(h) == [ty |-> "REAL", val |-> h]
Text(s) == [ty |-> "STR", val |-> s]

AbsOf(n) == IF n < 0 THEN - n ELSE n

\* The / and % of the language round towards zero.
Quot(x, y) == IF (x < 0) = (y < 0) THEN AbsOf(x) \div AbsOf(y) ELSE - (AbsOf(x) \div AbsOf(y))
Rem(x, y)  == x - y * Quot(x, y)

-----------------------------------------------------------------------------
(* OpCast. *)

Digit == ("0" :> 0) @@ ("1" :> 1) @@ ("2" :> 2) @@ ("3" :> 3) @@ ("4" :> 4) @@
         ("5" :> 5) @@ ("6" :> 6) @@ ("7" :> 7) @@ ("8" :> 8) @@ ("9" :> 9)

\* istringstream >> of a whole number without blanks in front: the digits up to
\* the first other character, and 0 if there is none.
TextToInt(s) ==
    LET char(i)  == SubSeq(s, i, i)
        isNum(i) == i <= Len(s) /\ char(i) \in DOMAIN Digit
        signed   == Len(s) > 0 /\ char(1) \in {"+", "-"}
        first    == IF signed THEN 2 ELSE 1
        end      == CHOOSE i \in first .. Len(s) + 1 :
                        ~ isNum(i) /\ \A j \in first .. i - 1 : isNum(j)
        value[i \in first - 1 .. end - 1] ==
            IF i < first THEN 0 ELSE 10 * value[i - 1] + Digit[char(i)]
    IN  IF signed /\ char(1) = "-" THEN - value[end - 1] ELSE value[end - 1]

\* ostream << of a real number
HalvesToText(h) ==
    (IF h < 0 THEN "-" ELSE "") \o ToString(AbsOf(h) \div 2) \o IF h % 2 = 0 THEN "" ELSE ".5"

ToInt(o) == CASE o.ty = "INT"  -> o.val
              [] o.ty = "REAL" -> Quot(o.val, 2)
              [] o.ty = "STR"  -> TextToInt(o.val)
\* The programs make no real number of a text with a fraction.
ToReal(o) == CASE o.ty = "INT"  -> 2 * o.val
               [] o.ty = "REAL" -> o.val
               [] o.ty = "STR"  -> 2 * TextToInt(o.val)
ToText(o) == CASE o.ty = "INT"  -> ToString(o.val)
               [] o.ty = "REAL" -> HalvesToText(o.val)
               [] o.ty = "STR"  -> o.val

\* A value as one of the given type.
OpCast(o, ty) ==
    CASE ty = "INT" -> Int64(ToInt(o)) [] ty = "REAL" -> Half(ToReal(o)) [] ty = "STR" -> Text(ToText(o))

-----------------------------------------------------------------------------
(* OpArithmetic: integers have no power, strings only a sum; the result of    *)
(* the other operators is the zero or empty value.                          *)

\* A quotient that is a whole number of halves.
Exactly(x, y) == CHOOSE q \in - AbsOf(x) .. AbsOf(x) : q * y = x

\* pow with a whole exponent that is not negative
HalvesPow(x, y) ==
    LET power[n \in 0 .. y \div 2] == IF n = 0 THEN 2 ELSE Exactly(power[n - 1] * x, 2)
    IN  power[Exactly(y, 2)]

IntArithmetic(op, x, y) ==
    CASE op = "ADD" -> x + y
      [] op = "SUB" -> x - y
      [] op = "MUL" -> x * y
      [] op = "DIV" -> Quot(x, y)
      [] op = "MOD" -> Rem(x, y)
      [] op = "POW" -> 0

RealArithmetic(op, x, y) ==
    CASE op = "ADD" -> x + y
      [] op = "SUB" -> x - y
      [] op = "MUL" -> Exactly(x * y, 2)
      [] op = "DIV" -> Exactly(2 * x, y)
      [] op = "MOD" -> Rem(x, y)
      [] op = "POW" -> HalvesPow(x, y)

\* Both values have the same type.
Arithmetic(op, v, w) ==
    CASE v.ty = "INT"  -> Int64(IntArithmetic(op, v.val, w.val))
      [] v.ty = "REAL" -> Half(RealArithmetic(op, v.val, w.val))
      [] v.ty = "STR"  -> Text(IF op = "ADD" THEN v.val \o w.val ELSE "")

\* Integer division by zero, which ends the process.
Divides0(op, v, w) == op \in {"DIV", "MOD"} /\ v.ty = "INT" /\ w.val = 0

-----------------------------------------------------------------------------
(* OpComparison: two real numbers are equal if they are not further apart     *)
(* than m_eps; of strings nothing but equality is known, and all else false.  *)

\* A comparison of numbers that are equal within eps.
Compare(op, x, y, eps) ==
    CASE op = "GT"   -> x > y
      [] op = "LT"   -> x < y
      [] op = "GEQU" -> x >= y
      [] op = "LEQU" -> x <= y
      [] op = "EQU"  -> AbsOf(x - y) <= eps
      [] op = "NEQU" -> AbsOf(x - y) > eps

Comparison(op, v, w, eps) ==
    CASE v.ty = "INT"  -> Compare(op, v.val, w.val, 0)
      [] v.ty = "REAL" -> Compare(op, v.val, w.val, eps)
      [] v.ty = "STR"  -> (op = "EQU" /\ v.val = w.val) \/ (op = "NEQU" /\ v.val # w.val)

-----------------------------------------------------------------------------
(* OpBinary, on the 64 bits of the two's complement; bit 0 is the lowest.      *)

IntBits == 8 * m_intsize
Bits == 0 .. IntBits - 1

BitsOf(x) ==
    LET shifted[k \in Bits] == IF k = 0 THEN x ELSE shifted[k - 1] \div 2
    IN  [k \in Bits |-> shifted[k] % 2]

\* From the sign downwards.
IntOf(bits) ==
    LET top == IntBits - 1
        value[k \in Bits] == IF k = 0 THEN - bits[top] ELSE 2 * value[k - 1] + bits[top - k]
    IN  value[top]

\* The bits of x, and y.
BinaryBits(op, bit, y) ==
    LET other == BitsOf(y)
    IN  CASE op = "BINAND" -> [k \in Bits |-> bit[k] * other[k]]
          [] op = "BINOR"  -> [k \in Bits |-> IF bit[k] + other[k] = 0 THEN 0 ELSE 1]
          [] op = "BINXOR" -> [k \in Bits |-> (bit[k] + other[k]) % 2]
          [] op = "SHL"    -> [k \in Bits |-> IF k < y THEN 0 ELSE bit[k - y]]
          [] op = "SHR"    -> [k \in Bits |-> bit[IF k + y < IntBits THEN k + y ELSE IntBits - 1]]
          [] op = "ROTL"   -> [k \in Bits |-> bit[(k - y) % IntBits]]
          [] op = "ROTR"   -> [k \in Bits |-> bit[(k + y) % IntBits]]

Binary(op, x, y) == IntOf(BinaryBits(op, BitsOf(x), y))

\* A shift that is not defined.
ShiftsTooFar(op, y) == op \in {"SHL", "SHR"} /\ y \notin Bits
=============================================================================
