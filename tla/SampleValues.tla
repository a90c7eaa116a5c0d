---------------------------- MODULE SampleValues ----------------------------
(***************************************************************************)
(* What the codec and the format converters do to single samples           *)
(* (image/encode/strenc.c, image/decode/strdec.c, JXRGlueLib/              *)
(* JXRGluePFC.c).  Integers are the values of their C type.  A float is    *)
(* the record of the fields of its 32 bits: sign, exponent, mantissa; a    *)
(* half is its 16 bits as an integer.                                      *)
(***************************************************************************)
EXTENDS Integers, Sequences, FiniteSetsExt

Least(a, b)    == IF a < b THEN a ELSE b
Greatest(a, b) == IF a < b THEN b ELSE a
Abs(v)         == IF v < 0 THEN -v ELSE v

-----------------------------------------------------------------------------
(* Colour transforms, on <<r, g, b>> and <<c, m, y, k>>: >> is the         *)
(* arithmetic shift, \div here.                                            *)

CC(p) == LET b == p[3] - p[1]
             r == p[1] + ((b + 1) \div 2) - p[2]
         IN  <<r, p[2] + (r \div 2), b>>

ICC(p) == LET g == p[2] - (p[1] \div 2)
              r == p[1] - (((p[3] + 1) \div 2) - g)
          IN  <<r, g, p[3] + r>>

CC_CMYK(p) == LET y == p[3] - p[1]
                  c == p[1] + ((y + 1) \div 2) - p[2]
                  m == p[2] + (c \div 2) - p[4]
              IN  <<c, m, y, p[4] + ((m + 1) \div 2)>>

ICC_CMYK(p) == LET k == p[4] - ((p[2] + 1) \div 2)
                   m == p[2] - ((p[1] \div 2) - k)
                   c == p[1] - (((p[3] + 1) \div 2) - m)
               IN  <<c, m, p[3] + c, k>>

CLIP(lo, v, hi) == Least(Greatest(lo, v), hi)
CLIP8(v)   == CLIP(0, v, 255)
CLIP16(v)  == CLIP(-32768, v, 32767)
CLIPU16(v) == CLIP(0, v, 65535)

-----------------------------------------------------------------------------
(* Halves and shared exponents inside the codec.                           *)

\* The sign bit becomes the sign.
forwardHalf(h)  == IF h >= 32768 THEN -(h % 32768) ELSE h
backwardHalf(h) == IF h < 0 THEN (-(h % 32768)) % 65536 ELSE h % 32768

\* Shifts the mantissa up until its top bit is set or the exponent is used up; the first bit
\* shifted in is a one.
forwardRGBE(v, e) ==
    LET steps(k) == IF k = 0 THEN v ELSE v * 2 ^ k + 2 ^ (k - 1)
        most == Least(e - 1, 8)
        k == Min({j \in 0 .. most : j = most \/ steps(j) >= 128})
    IN  IF e = 0 THEN 0
        ELSE IF e - 1 - k = 0 THEN steps(k) ELSE (steps(k) % 128) + (e - k) * 128

inverseConvert(v) ==
    IF v <= 0 THEN [v |-> 0, e |-> 0]
    ELSE IF v \div 128 > 1 THEN [v |-> (v % 128) + 128, e |-> (v \div 128) % 256] ELSE [v |-> v % 256, e |-> 1]

\* The samples take the largest of the three exponents, rounded to the nearest.
inverseConvertRGBE(p) ==
    LET part == [i \in 1 .. 3 |-> inverseConvert(p[i])]
        e    == Max({part[i].e : i \in 1 .. 3})
        At(i) == IF e > part[i].e THEN (part[i].v * 2 + 1) \div 2 ^ (e - part[i].e + 1) ELSE part[i].v
    IN  <<At(1), At(2), At(3), e>>

-----------------------------------------------------------------------------
(* Floats: s sign, e biased exponent, m the 23 bits of the mantissa.  The  *)
(* arithmetic below is exact on the values that have no rounding, which    *)
(* the inputs keep to.                                                     *)

Float(s, e, m) == [s |-> s, e |-> e, m |-> m]
Zero == Float(0, 0, 0)

IsZero(f)  == f.e = 0 /\ f.m = 0
IsNaN(f)   == f.e = 255 /\ f.m # 0
Smaller(f, g) == f.e < g.e \/ (f.e = g.e /\ f.m < g.m)        \* of the magnitudes
Positive(f) == f.s = 0 /\ ~IsZero(f)
One == Float(0, 127, 0)

\* i * 2^k and the integer part of f * 2^k + half.
Bits(n) == Max({b \in 0 .. 31 : b = 0 \/ 2 ^ (b - 1) <= n})
FloatOf(i, k) ==
    IF i = 0 THEN Zero
    ELSE LET a == Abs(i)
             b == Bits(a)
         IN  Float(IF i < 0 THEN 1 ELSE 0, 126 + b + k,
                   (IF b <= 24 THEN a * 2 ^ (24 - b) ELSE a \div 2 ^ (b - 24)) - 2 ^ 23)

\* Twice the magnitude of f * 2^k, without its fraction.
TwiceScaled(f, k) ==
    LET m  == f.m + 2 ^ 23
        sh == f.e - 150 + k + 1
    IN  IF f.e = 0 \/ sh < -24 THEN 0 ELSE IF sh >= 0 THEN m * 2 ^ sh ELSE m \div 2 ^ (-sh)

Truncated(f, k) == TwiceScaled(f, k) \div 2

\* (I32) (f * 2^k + 0.5F): truncation is towards zero, which loses one of every negative integer.
RoundedUp(f, k) == IF f.s = 0 THEN (TwiceScaled(f, k) + 1) \div 2 ELSE -(Greatest(TwiceScaled(f, k) - 1, 0) \div 2)

\* float-32 to an integer with c for the bias of its exponent and lm bits of mantissa, and back.
float2pixel(f, c, lm) ==
    LET m0 == IF f.e = 0 THEN f.m ELSE f.m + 2 ^ 23
        e1 == Greatest(f.e, 1) - 127 + c
        m1 == IF e1 < 1 THEN m0 \div 2 ^ Least(1 - e1, 30) ELSE m0
        e2 == IF e1 > 1 THEN e1 ELSE IF m1 < 2 ^ 23 THEN 0 ELSE 1
        h  == e2 * 2 ^ lm + ((m1 % 2 ^ 23) + 2 ^ (22 - lm)) \div 2 ^ (23 - lm)
    IN  IF IsZero(f) THEN 0 ELSE IF f.s = 1 THEN -h ELSE h

pixel2float(h, c, lm) ==
    LET a  == Abs(h)
        e0 == a \div 2 ^ lm
        m0 == (a % 2 ^ lm) + (IF e0 = 0 THEN 0 ELSE 2 ^ lm)
        e1 == Greatest(e0, 1) + 127 - c
        k  == Min({j \in 0 .. e1 - 1 : j = e1 - 1 \/ m0 = 0 \/ j > lm \/ m0 * 2 ^ j >= 2 ^ lm})
        m1 == m0 * 2 ^ k
    IN  Float(IF h < 0 THEN 1 ELSE 0, IF m1 < 2 ^ lm THEN 0 ELSE e1 - k, (m1 % 2 ^ lm) * 2 ^ (23 - lm))

-----------------------------------------------------------------------------
(* The format converters' own conversions.                                 *)

\* Mutant of Convert_Half_To_Float: the difference of the biases is one too small.
Convert_Half_Unbiased(h) ==
    LET s == h \div 32768
        e == (h \div 1024) % 32
    IN  IF e = 0 THEN Float(s, 0, 0) ELSE Float(s, e + 111, (h % 1024) * 8192)

Convert_Half_To_Float(h) ==
    LET s == h \div 32768
        e == (h \div 1024) % 32
        m == h % 1024
    IN  CASE e = 0  -> Float(s, 0, 0)
          [] e = 31 -> Float(s, 255, m * 8192)
          [] OTHER  -> Float(s, e + 112, m * 8192)

HLF_MAX == Float(0, 142, 1023 * 8192)
HLF_MIN == Float(0, 113, 0)

\* Slip of the code: the sign of a NaN becomes the top bit of the mantissa's low half.
Convert_Float_To_Half(f) ==
    CASE IsNaN(f)            -> 32767 + ((f.m % 65536) \div 32768) * 32768
      [] Smaller(HLF_MAX, f) -> 31743 + f.s * 32768
      [] Smaller(f, HLF_MIN) -> f.s * 32768
      [] OTHER               -> f.s * 32768 + (f.e - 112) * 1024 + f.m \div 8192

\* Linear samples to 8 bits.  The curve between 0 and 1 is left symbolic.
Curved(f, curve) == CASE ~Positive(f) -> 0 [] Smaller(f, One) -> [curve |-> curve, of |-> f] [] OTHER -> 255
Convert_Float_To_U8(f)      == Curved(f, "sRGB")
Convert_AlphaFloat_To_U8(f) == Curved(f, "linear")

\* f / alpha, of which only the comparison with 0 and 1 is worked out.
Convert_PFloat_To_U8(f, alpha) ==
    CASE IsZero(alpha) \/ IsZero(f) \/ f.s # alpha.s -> 0
      [] Smaller(f, alpha)                           -> [curve |-> "sRGB", of |-> f, over |-> alpha]
      [] OTHER                                       -> 255

\* A shared exponent: byte * 2^(e - 136), and back with the exponent of the largest of the three.
RGBE_Float(v, e) == IF e = 0 THEN Zero ELSE FloatOf(v, e - 136)

Float_RGBE(p) ==
    LET c(i) == IF Positive(p[i]) THEN p[i] ELSE Zero
        e    == Max({c(i).e : i \in 1 .. 3}) - 126
    IN  IF e < -106 THEN <<0, 0, 0, 0>>
        ELSE <<Truncated(c(1), 8 - e), Truncated(c(2), 8 - e), Truncated(c(3), 8 - e), e + 128>>

\* 0xFF or 0 for a bit, exchanged by the image's bBlackWhite.
Gray8(v, n, bBlackWhite) == IF ((v \div 2 ^ (7 - n)) % 2 # 0) # bBlackWhite THEN 255 ELSE 0

\* Premultiplied 8-bit samples.
Unmultiplied8(v, a) == IF a = 0 THEN v ELSE Least((v * 255) \div a, 255)

=============================================================================
