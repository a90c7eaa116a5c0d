--------------------------- MODULE FormatConverters ---------------------------
(***************************************************************************)
(* The converters between pixel formats (JXRGlueLib/JXRGluePFC.c).  Every  *)
(* converter works in place: lines of source samples become lines of       *)
(* destination samples in the same bytes, unit by unit.                    *)
(*                                                                         *)
(* The buffer pb is a function from byte numbers to bytes, each one of the *)
(* n bytes of a term: a sample of the source, or what was made of others.  *)
(* What is read across bytes of different terms is Torn.                   *)
(***************************************************************************)
EXTENDS SampleValues, SequencesExt

Term(via, args) == <<via, args>>
Torn == Term("torn", <<>>)
Byte(t, k, n) == [of |-> t, at |-> k, n |-> n]

\* The sample of n bytes at byte `at'.
TermAt(pb, at, n) ==
    LET t == pb[at].of IN IF \A k \in 0 .. n - 1 : pb[at + k] = Byte(t, k, n) THEN t ELSE Torn

PutTerm(pb, at, n, t) == [b \in DOMAIN pb |-> IF b \in at .. at + n - 1 THEN Byte(t, b - at, n) ELSE pb[b]]

-----------------------------------------------------------------------------
(* A converter is a sequence of sweeps.  A sweep has the direction of its  *)
(* loop over the units of a line; the units to a pixel (0: a unit is eight *)
(* pixels); su samples of sn bytes of a unit become du samples of dn       *)
(* bytes.  It reads the samples `first' of a unit into locals, then makes  *)
(* its moves in order.                                                     *)

Sweep(up, sn, su, dn, du, first, moves) ==
    <<[up |-> up, per |-> 1, sn |-> sn, su |-> su, dn |-> dn, du |-> du, first |-> first, moves |-> moves]>>

PerPixel(per, c) == <<[c[1] EXCEPT !.per = per]>>

\* d := via(s[1], s[2], ...)
Mv(d, s, via) == [to |-> d, of |-> s, via |-> via]

\* Sample by sample, per of them to a pixel.
Each(up, per, sn, dn, via) == PerPixel(per, Sweep(up, sn, 1, dn, 1, {}, <<Mv(0, <<0>>, via)>>))

Same(n, via)   == [i \in 1 .. n |-> Mv(i - 1, <<i - 1>>, via)]
All(n)         == 0 .. n - 1
Blank(d)       == <<Mv(d, <<>>, "zero")>>
Swapped(via)   == <<Mv(0, <<2>>, via), Mv(1, <<1>>, via), Mv(2, <<0>>, via)>>
Together(n, s, via) == [i \in 1 .. n |-> Mv(i - 1, s, via[i])]

Forward  == TRUE
Backward == FALSE

UnitsOf(s, width) == IF s.per = 0 THEN (width + 7) \div 8 ELSE s.per * width

\* Unit u of the line that starts at byte `line'.
Made(via, args) == IF via = "copy" THEN args[1] ELSE Term(via, args)

ConvertUnit(pb, s, line, u, width) ==
    LET From(i)  == line + (s.su * u + i) * s.sn
        early    == [i \in s.first |-> TermAt(pb, From(i), s.sn)]
        Reaches(m) == s.per # 0 \/ s.du * u + m.to < width
        after[n \in 0 .. Len(s.moves)] ==
            IF n = 0 THEN pb
            ELSE LET m    == s.moves[n]
                     args == [k \in DOMAIN m.of |-> IF m.of[k] \in s.first THEN early[m.of[k]] ELSE TermAt(after[n - 1], From(m.of[k]), s.sn)]
                 IN  IF Reaches(m) THEN PutTerm(after[n - 1], line + (s.du * u + m.to) * s.dn, s.dn, Made(m.via, args)) ELSE after[n - 1]
    IN  after[Len(s.moves)]

-----------------------------------------------------------------------------
(* 8-bit samples: order and gray.                                          *)

\* Mutant of RGB24_BGR24: red and blue exchanged without a local.
RGB24_BGR24_Direct         == Sweep(Forward, 1, 3, 1, 3, {}, <<Mv(0, <<2>>, "copy"), Mv(2, <<0>>, "copy")>>)

RGB24_BGR24                == Sweep(Forward, 1, 3, 1, 3, {0}, <<Mv(0, <<2>>, "copy"), Mv(2, <<0>>, "copy")>>)

BGR24_RGB24                == RGB24_BGR24
RGB24_BGR32                == Sweep(Backward, 1, 3, 1, 4, {0}, Swapped("copy"))
RGB24_RGB32                == Sweep(Backward, 1, 3, 1, 4, {}, Same(3, "copy"))
BGR32_RGB24                == Sweep(Forward, 1, 4, 1, 3, {0}, Swapped("copy"))
RGB24_Gray8                == Sweep(Forward, 1, 3, 1, 1, All(3), <<Mv(0, <<0, 1, 2>>, "gray")>>)
Gray8_RGB24                == Sweep(Backward, 1, 1, 1, 3, {0}, [i \in 1 .. 3 |-> Mv(i - 1, <<0>>, "copy")])
Gray8_BGR24                == Gray8_RGB24
BGR24_BGR32                == Sweep(Backward, 1, 3, 1, 4, {}, Same(3, "copy") \o Blank(3))
BGR32_BGR24                == Sweep(Forward, 1, 4, 1, 3, {}, Same(3, "copy"))
RGBA32_BGRA32              == Sweep(Forward, 1, 4, 1, 4, {0}, <<Mv(0, <<2>>, "copy"), Mv(2, <<0>>, "copy")>>)
BGRA32_RGBA32              == RGBA32_BGRA32

\* Two sweeps, one after the other.
BGR24_Gray8                == BGR24_RGB24 \o RGB24_Gray8

-----------------------------------------------------------------------------
(* Fixed point (13 or 24 bits of fraction), float, half.                   *)

RGBA128Fixed_RGBA128Float  == Each(Forward, 4, 4, 4, "fixed24_float")
RGBA128Float_RGBA128Fixed  == Each(Forward, 4, 4, 4, "float_fixed24")
RGB96Fixed_RGB96Float      == Each(Forward, 3, 4, 4, "fixed24_float")
RGB96Float_RGB96Fixed      == Each(Forward, 3, 4, 4, "float_fixed24")
Gray32Fixed_Gray32Float    == Each(Forward, 1, 4, 4, "fixed24_float")
Gray32Float_Gray32Fixed    == Each(Forward, 1, 4, 4, "float_fixed24")
RGB128Fixed_RGB96Float     == Sweep(Forward, 4, 4, 4, 3, {}, Same(3, "fixed24_float"))
RGB96Float_RGB128Fixed     == Sweep(Backward, 4, 3, 4, 4, {}, Same(3, "float_fixed24") \o Blank(3))
RGB96Float_RGB128Float     == Sweep(Backward, 4, 3, 4, 4, {}, Same(3, "copy") \o Blank(3))
RGB128Float_RGB96Float     == Sweep(Forward, 4, 4, 4, 3, {}, Same(3, "copy"))
RGB48Half_RGB64Half        == Sweep(Backward, 2, 3, 2, 4, {}, Same(3, "copy") \o Blank(3))
RGB64Half_RGB48Half        == Sweep(Forward, 2, 4, 2, 3, {}, Same(3, "copy"))
Gray16Fixed_Gray32Float    == Each(Backward, 1, 2, 4, "fixed13_float")
Gray32Float_Gray16Fixed    == Each(Forward, 1, 4, 2, "float_fixed13")
RGB48Fixed_RGB96Float      == Each(Backward, 3, 2, 4, "fixed13_float")
RGB96Float_RGB48Fixed      == Each(Forward, 3, 4, 2, "float_fixed13")
RGB64Fixed_RGB96Float      == Sweep(Backward, 2, 4, 4, 3, {}, Same(3, "fixed13_float"))
RGB96Float_RGB64Fixed      == Sweep(Forward, 4, 3, 2, 4, {}, Same(3, "float_fixed13") \o Blank(3))
RGBA64Fixed_RGBA128Float   == Each(Backward, 4, 2, 4, "fixed13_float")
RGBA128Float_RGBA64Fixed   == Each(Forward, 4, 4, 2, "float_fixed13")
RGBA64Half_RGBA128Float    == Each(Backward, 4, 2, 4, "half_float")
RGBA128Float_RGBA64Half    == Each(Forward, 4, 4, 2, "float_half")
RGB64Half_RGB96Float       == Sweep(Backward, 2, 4, 4, 3, {}, Same(3, "half_float"))
RGB96Float_RGB64Half       == Sweep(Forward, 4, 3, 2, 4, {}, Same(3, "float_half") \o Blank(3))
RGB48Half_RGB96Float       == Each(Backward, 3, 2, 4, "half_float")
RGB96Float_RGB48Half       == Each(Forward, 3, 4, 2, "float_half")
Gray16Half_Gray32Float     == Each(Backward, 1, 2, 4, "half_float")
Gray32Float_Gray16Half     == Each(Forward, 1, 4, 2, "float_half")

-----------------------------------------------------------------------------
(* Packed words and shared exponents.                                      *)

RGBE_RGB96Float            == Sweep(Backward, 1, 4, 4, 3, {3}, [i \in 1 .. 3 |-> Mv(i - 1, <<i - 1, 3>>, "rgbe_float")])
RGB96Float_RGBE            == Sweep(Forward, 4, 3, 1, 4, All(3), Together(4, <<0, 1, 2>>, <<"rgbe_r", "rgbe_g", "rgbe_b", "rgbe_e">>))
RGB555_RGB24               == Sweep(Backward, 2, 1, 1, 3, {0}, Together(3, <<0>>, <<"r555", "g555", "b555">>))
RGB24_RGB555               == Sweep(Forward, 1, 3, 2, 1, All(3), <<Mv(0, <<0, 1, 2>>, "rgb555")>>)
RGB565_RGB24               == Sweep(Backward, 2, 1, 1, 3, {0}, Together(3, <<0>>, <<"r565", "g565", "b555">>))
RGB24_RGB565               == Sweep(Forward, 1, 3, 2, 1, All(3), <<Mv(0, <<0, 1, 2>>, "rgb565")>>)
RGB101010_RGB48            == Sweep(Backward, 4, 1, 2, 3, {0}, Together(3, <<0>>, <<"r10", "g10", "b10">>))
RGB48_RGB101010            == Sweep(Forward, 2, 3, 4, 1, All(3), <<Mv(0, <<0, 1, 2>>, "rgb10")>>)

-----------------------------------------------------------------------------
(* To 8 bits.                                                              *)

\* Bits to bytes: a unit is a byte of eight pixels.
BlackWhite_Gray8           == PerPixel(0, Sweep(Backward, 1, 1, 1, 8, {0}, Together(8, <<0>>, <<"b0", "b1", "b2", "b3", "b4", "b5", "b6", "b7">>)))
Gray16_Gray8               == Each(Forward, 1, 2, 1, "high8")
RGB48_RGB24                == Sweep(Forward, 2, 3, 1, 3, All(3), Same(3, "high8"))
RGBA64_RGBA32              == Sweep(Forward, 2, 4, 1, 4, All(4), Same(4, "high8"))
RGBA64_RGB32               == Sweep(Forward, 2, 4, 1, 4, All(3), Same(3, "high8") \o Blank(3))
Gray32Float_Gray8          == Each(Forward, 1, 4, 1, "float_u8")
RGB96Float_RGB24           == Sweep(Forward, 4, 3, 1, 3, All(3), Same(3, "float_u8"))
RGB128Float_RGB24          == Sweep(Forward, 4, 4, 1, 3, All(3), Same(3, "float_u8"))
RGBA128Float_RGBA32        == Sweep(Forward, 4, 4, 1, 4, All(4), Append(Same(3, "float_u8"), Mv(3, <<3>>, "alpha_u8")))
RGBA128Float_RGB32         == Sweep(Forward, 4, 4, 1, 4, All(3), Same(3, "float_u8") \o Blank(3))
PRGBA128Float_RGBA32       == Sweep(Forward, 4, 4, 1, 4, All(4), Append([i \in 1 .. 3 |-> Mv(i - 1, <<i - 1, 3>>, "pfloat_u8")], Mv(3, <<3>>, "alpha_u8")))
PRGBA128Float_RGB32        == RGBA128Float_RGB32
PRGBA64_RGBA32             == RGBA64_RGBA32
PRGBA64_RGB32              == RGBA64_RGB32
PRGBA32_RGBA32             == Sweep(Forward, 1, 4, 1, 4, All(4), Append([i \in 1 .. 3 |-> Mv(i - 1, <<i - 1, 3>>, "unmultiply")], Mv(3, <<3>>, "copy")))
PRGBA32_RGB32              == Sweep(Forward, 1, 4, 1, 4, All(3), Same(3, "copy") \o Blank(3))
PBGRA32_RGBA32             == Sweep(Forward, 1, 4, 1, 4, All(4), Append([i \in 1 .. 3 |-> Mv(i - 1, <<3 - i, 3>>, "unmultiply")], Mv(3, <<3>>, "copy")))
PBGRA32_RGB32              == Sweep(Forward, 1, 4, 1, 4, All(3), Swapped("copy") \o Blank(3))
Gray16Fixed_Gray8          == Each(Forward, 1, 2, 1, "fixed13_u8")
Gray32Fixed_Gray8          == Each(Forward, 1, 4, 1, "fixed24_u8")
RGB48Fixed_RGB24           == Sweep(Forward, 2, 3, 1, 3, {}, Same(3, "fixed13_u8"))
RGB64Fixed_RGB24           == Sweep(Forward, 2, 4, 1, 3, {}, Same(3, "fixed13_u8"))
RGB96Fixed_RGB24           == Sweep(Forward, 4, 3, 1, 3, {}, Same(3, "fixed24_u8"))
RGB128Fixed_RGB24          == Sweep(Forward, 4, 4, 1, 3, {}, Same(3, "fixed24_u8"))
RGBA64Fixed_RGBA32         == Sweep(Forward, 2, 4, 1, 4, {}, Append(Same(3, "fixed13_u8"), Mv(3, <<3>>, "fixed13_alpha")))
RGBA64Fixed_RGB32          == Sweep(Forward, 2, 4, 1, 4, {}, Same(3, "fixed13_u8") \o Blank(3))
RGBA128Fixed_RGBA32        == Sweep(Forward, 4, 4, 1, 4, {}, Append(Same(3, "fixed24_u8"), Mv(3, <<3>>, "fixed24_alpha")))
RGBA128Fixed_RGB32         == Sweep(Forward, 4, 4, 1, 4, {}, Same(3, "fixed24_u8") \o Blank(3))
Gray16Half_Gray8           == Each(Forward, 1, 2, 1, "half_u8")
RGB48Half_RGB24            == Sweep(Forward, 2, 3, 1, 3, All(3), Same(3, "half_u8"))
RGB64Half_RGB24            == Sweep(Forward, 2, 4, 1, 3, All(3), Same(3, "half_u8"))
RGBA64Half_RGBA32          == Sweep(Forward, 2, 4, 1, 4, All(4), Append(Same(3, "half_u8"), Mv(3, <<3>>, "half_alpha")))
RGBA64Half_RGB32           == Sweep(Forward, 2, 4, 1, 4, All(3), Same(3, "half_u8") \o Blank(3))
RGB101010_RGB24            == Sweep(Forward, 4, 1, 1, 3, {0}, Together(3, <<0>>, <<"r10_8", "g10_8", "b10_8">>))
RGBE_RGB24                 == Sweep(Forward, 1, 4, 1, 3, {3}, [i \in 1 .. 3 |-> Mv(i - 1, <<i - 1, 3>>, "rgbe_u8")])

-----------------------------------------------------------------------------
(* What the moves do to the values of samples.                             *)

\* 555, 565 and 101010: words of three fields, red in the highest bits.
Field(v, i, n) == (v \div 2 ^ i) % 2 ^ n
Gray(r, g, b)  == r \div 4 + g \div 2 + b \div 8 + 16
To555(a) == (a[1] \div 8) * 1024 + (a[2] \div 8) * 32 + a[3] \div 8
To565(a) == (a[1] \div 8) * 2048 + (a[2] \div 4) * 32 + a[3] \div 8
To10(a)  == [r |-> a[1] \div 64, g |-> a[2] \div 64, b |-> a[3] \div 64]

Value(via, a, bBlackWhite) ==
    CASE via = "zero"          -> 0
      [] via = "gray"          -> Gray(a[1], a[2], a[3])
      [] via = "fixed24_float" -> FloatOf(a[1], -24)
      [] via = "float_fixed24" -> RoundedUp(a[1], 24)
      [] via = "fixed13_float" -> FloatOf(a[1], -13)
      [] via = "float_fixed13" -> RoundedUp(a[1], 13)
      [] via = "half_float"    -> Convert_Half_To_Float(a[1])
      [] via = "float_half"    -> Convert_Float_To_Half(a[1])
      [] via = "rgbe_float"    -> RGBE_Float(a[1], a[2])
      [] via = "rgbe_r"        -> Float_RGBE(a)[1]
      [] via = "rgbe_g"        -> Float_RGBE(a)[2]
      [] via = "rgbe_b"        -> Float_RGBE(a)[3]
      [] via = "rgbe_e"        -> Float_RGBE(a)[4]
      [] via = "r555"          -> Field(a[1], 10, 5) * 8
      [] via = "g555"          -> Field(a[1], 5, 5) * 8
      [] via = "b555"          -> Field(a[1], 0, 5) * 8
      [] via = "r565"          -> Field(a[1], 11, 5) * 8
      [] via = "g565"          -> Field(a[1], 5, 6) * 4
      [] via = "rgb555"        -> To555(a)
      [] via = "rgb565"        -> To565(a)
      [] via = "r10"           -> a[1].r * 64
      [] via = "g10"           -> a[1].g * 64
      [] via = "b10"           -> a[1].b * 64
      [] via = "rgb10"         -> To10(a)
      [] via = "r10_8"         -> a[1].r \div 4
      [] via = "g10_8"         -> a[1].g \div 4
      [] via = "b10_8"         -> a[1].b \div 4
      [] via = "high8"         -> a[1] \div 256
      [] via = "float_u8"      -> Convert_Float_To_U8(a[1])
      [] via = "alpha_u8"      -> Convert_AlphaFloat_To_U8(a[1])
      [] via = "pfloat_u8"     -> Convert_PFloat_To_U8(a[1], a[2])
      [] via = "unmultiply"    -> Unmultiplied8(a[1], a[2])
      [] via = "fixed13_u8"    -> Convert_Float_To_U8(FloatOf(a[1], -13))
      [] via = "fixed13_alpha" -> Convert_AlphaFloat_To_U8(FloatOf(a[1], -13))
      [] via = "fixed24_u8"    -> Convert_Float_To_U8(FloatOf(a[1], -24))
      [] via = "fixed24_alpha" -> Convert_AlphaFloat_To_U8(FloatOf(a[1], -24))
      [] via = "half_u8"       -> Convert_Float_To_U8(Convert_Half_To_Float(a[1]))
      [] via = "half_alpha"    -> Convert_AlphaFloat_To_U8(Convert_Half_To_Float(a[1]))
      [] via = "rgbe_u8"       -> Convert_Float_To_U8(RGBE_Float(a[1], a[2]))
      [] OTHER -> LET n == CHOOSE n \in 0 .. 7 : via = <<"b0", "b1", "b2", "b3", "b4", "b5", "b6", "b7">>[n + 1]
                  IN  Gray8(a[1], n, bBlackWhite)

-----------------------------------------------------------------------------
(* The pixel formats of the glue library, the choice of a converter from   *)
(* one to another, and PKImageEncode_WriteSource, which decodes an image,  *)
(* converts it where it is and encodes it (JXRGlueLib/JXRGlue.c).  A       *)
(* format has its GUID's name.                                             *)

Info(name, cChannel, cfColorFormat, bdBitDepth, cbitUnit, grBit) ==
    [name |-> name, cChannel |-> cChannel, cfColorFormat |-> cfColorFormat, bdBitDepth |-> bdBitDepth,
     cbitUnit |-> cbitUnit, grBit |-> grBit]

Gray1(name, bd, bits)           == Info(name, 1, "Y_ONLY", bd, bits, {})
RGB3(name, bd, bits, grBit)     == Info(name, 3, "CF_RGB", bd, bits, grBit)
RGB4(name, bd, bits, grBit)     == Info(name, 4, "CF_RGB", bd, bits, {"HasAlpha"} \cup grBit)
CMYKs(name, n, bd, bits, grBit) == Info(name, n, "CMYK", bd, bits, grBit)

\* The formats a converter knows, CMYK and YUV.  (Those of n channels are in no conversion.)
pixelInfo ==
    << Info("DontCare", 1, "Y_ONLY", "BD_8", 8, {}),
       Gray1("BlackWhite", "BD_1", 1), Gray1("8bppGray", "BD_8", 8), Gray1("16bppGray", "BD_16", 16),
       Gray1("16bppGrayFixedPoint", "BD_16S", 16), Gray1("16bppGrayHalf", "BD_16F", 16),
       Gray1("32bppGrayFixedPoint", "BD_32S", 32), Gray1("32bppGrayFloat", "BD_32F", 32),
       RGB3("24bppRGB", "BD_8", 24, {}), RGB3("24bppBGR", "BD_8", 24, {"BGR"}),
       RGB3("32bppRGB", "BD_8", 32, {}), RGB3("32bppBGR", "BD_8", 32, {"BGR"}),
       RGB3("48bppRGB", "BD_16", 48, {}), RGB3("48bppRGBFixedPoint", "BD_16S", 48, {}), RGB3("48bppRGBHalf", "BD_16F", 48, {}),
       RGB3("64bppRGBFixedPoint", "BD_16S", 64, {}), RGB3("64bppRGBHalf", "BD_16F", 64, {}),
       RGB3("96bppRGBFixedPoint", "BD_32S", 96, {}), RGB3("96bppRGBFloat", "BD_32F", 96, {}),
       RGB3("128bppRGBFixedPoint", "BD_32S", 128, {}), RGB3("128bppRGBFloat", "BD_32F", 128, {}),
       RGB4("32bppBGRA", "BD_8", 32, {"BGR"}), RGB4("32bppRGBA", "BD_8", 32, {}), RGB4("64bppRGBA", "BD_16", 64, {}),
       RGB4("64bppRGBAFixedPoint", "BD_16S", 64, {}), RGB4("64bppRGBAHalf", "BD_16F", 64, {}),
       RGB4("128bppRGBAFixedPoint", "BD_32S", 128, {}), RGB4("128bppRGBAFloat", "BD_32F", 128, {}),
       RGB4("32bppPBGRA", "BD_8", 32, {"PreMul", "BGR"}), RGB4("32bppPRGBA", "BD_8", 32, {"PreMul"}),
       RGB4("64bppPRGBA", "BD_16", 64, {"PreMul"}), RGB4("128bppPRGBAFloat", "BD_32F", 128, {"PreMul"}),
       RGB3("16bppRGB555", "BD_5", 16, {}), RGB3("16bppRGB565", "BD_565", 16, {}), RGB3("32bppRGB101010", "BD_10", 32, {}),
       CMYKs("32bppCMYK", 4, "BD_8", 32, {}), CMYKs("40bppCMYKAlpha", 5, "BD_8", 40, {"HasAlpha"}),
       CMYKs("64bppCMYK", 4, "BD_16", 64, {}), CMYKs("80bppCMYKAlpha", 5, "BD_16", 80, {"HasAlpha"}),
       Info("32bppRGBE", 4, "CF_RGBE", "BD_8", 32, {}), Info("12bppYUV420", 3, "YUV_420", "BD_8", 48, {}),
       Info("16bppYUV422", 3, "YUV_422", "BD_8", 32, {}), Info("24bppYUV444", 3, "YUV_444", "BD_8", 24, {}) >>

PixelFormatLookup(name) == SelectSeq(pixelInfo, LAMBDA i : i.name = name)[1]

-----------------------------------------------------------------------------
(* The converters there are, and the pairs that need none.                 *)

Conv(from, to, c) == [from |-> from, to |-> to, convert |-> c]

s_pcInfo == <<
    Conv("24bppRGB", "24bppBGR", RGB24_BGR24),
    Conv("24bppBGR", "24bppRGB", BGR24_RGB24),
    Conv("24bppRGB", "32bppRGB", RGB24_RGB32),
    Conv("24bppRGB", "32bppBGR", RGB24_BGR32),
    Conv("32bppBGR", "24bppRGB", BGR32_RGB24),
    Conv("24bppRGB", "8bppGray", RGB24_Gray8),
    Conv("8bppGray", "24bppRGB", Gray8_RGB24),
    Conv("24bppBGR", "8bppGray", BGR24_Gray8),
    Conv("8bppGray", "24bppBGR", Gray8_BGR24),
    Conv("128bppRGBAFixedPoint", "128bppRGBAFloat", RGBA128Fixed_RGBA128Float),
    Conv("128bppRGBAFloat", "128bppRGBAFixedPoint", RGBA128Float_RGBA128Fixed),
    Conv("96bppRGBFixedPoint", "96bppRGBFloat", RGB96Fixed_RGB96Float),
    Conv("96bppRGBFloat", "96bppRGBFixedPoint", RGB96Float_RGB96Fixed),
    Conv("96bppRGBFloat", "128bppRGBFloat", RGB96Float_RGB128Float),
    Conv("128bppRGBFloat", "96bppRGBFloat", RGB128Float_RGB96Float),
    Conv("96bppRGBFixedPoint", "128bppRGBFixedPoint", RGB96Float_RGB128Float),
    Conv("128bppRGBFixedPoint", "96bppRGBFixedPoint", RGB128Float_RGB96Float),
    Conv("64bppRGBHalf", "48bppRGBHalf", RGB64Half_RGB48Half),
    Conv("48bppRGBHalf", "64bppRGBHalf", RGB48Half_RGB64Half),
    Conv("64bppRGBFixedPoint", "48bppRGBFixedPoint", RGB64Half_RGB48Half),
    Conv("48bppRGBFixedPoint", "64bppRGBFixedPoint", RGB48Half_RGB64Half),
    Conv("32bppBGR", "24bppBGR", BGR32_BGR24),
    Conv("24bppBGR", "32bppBGR", BGR24_BGR32),
    Conv("96bppRGBFloat", "128bppRGBFixedPoint", RGB96Float_RGB128Fixed),
    Conv("128bppRGBFixedPoint", "96bppRGBFloat", RGB128Fixed_RGB96Float),
    Conv("32bppGrayFixedPoint", "32bppGrayFloat", Gray32Fixed_Gray32Float),
    Conv("32bppGrayFloat", "32bppGrayFixedPoint", Gray32Float_Gray32Fixed),
    Conv("16bppGrayFixedPoint", "32bppGrayFloat", Gray16Fixed_Gray32Float),
    Conv("32bppGrayFloat", "16bppGrayFixedPoint", Gray32Float_Gray16Fixed),
    Conv("48bppRGBFixedPoint", "96bppRGBFloat", RGB48Fixed_RGB96Float),
    Conv("96bppRGBFloat", "48bppRGBFixedPoint", RGB96Float_RGB48Fixed),
    Conv("64bppRGBFixedPoint", "96bppRGBFloat", RGB64Fixed_RGB96Float),
    Conv("96bppRGBFloat", "64bppRGBFixedPoint", RGB96Float_RGB64Fixed),
    Conv("64bppRGBAFixedPoint", "128bppRGBAFloat", RGBA64Fixed_RGBA128Float),
    Conv("128bppRGBAFloat", "64bppRGBAFixedPoint", RGBA128Float_RGBA64Fixed),
    Conv("32bppRGBE", "96bppRGBFloat", RGBE_RGB96Float),
    Conv("96bppRGBFloat", "32bppRGBE", RGB96Float_RGBE),
    Conv("64bppRGBAHalf", "128bppRGBAFloat", RGBA64Half_RGBA128Float),
    Conv("128bppRGBAFloat", "64bppRGBAHalf", RGBA128Float_RGBA64Half),
    Conv("64bppRGBHalf", "96bppRGBFloat", RGB64Half_RGB96Float),
    Conv("96bppRGBFloat", "64bppRGBHalf", RGB96Float_RGB64Half),
    Conv("48bppRGBHalf", "96bppRGBFloat", RGB48Half_RGB96Float),
    Conv("96bppRGBFloat", "48bppRGBHalf", RGB96Float_RGB48Half),
    Conv("16bppGrayHalf", "32bppGrayFloat", Gray16Half_Gray32Float),
    Conv("32bppGrayFloat", "16bppGrayHalf", Gray32Float_Gray16Half),
    Conv("16bppRGB555", "24bppRGB", RGB555_RGB24),
    Conv("24bppRGB", "16bppRGB555", RGB24_RGB555),
    Conv("16bppRGB565", "24bppRGB", RGB565_RGB24),
    Conv("24bppRGB", "16bppRGB565", RGB24_RGB565),
    Conv("32bppRGB101010", "48bppRGB", RGB101010_RGB48),
    Conv("48bppRGB", "32bppRGB101010", RGB48_RGB101010),
    Conv("32bppRGBA", "32bppBGRA", RGBA32_BGRA32),
    Conv("32bppBGRA", "32bppRGBA", BGRA32_RGBA32),
    Conv("32bppPRGBA", "32bppPBGRA", RGBA32_BGRA32),
    Conv("32bppPBGRA", "32bppPRGBA", BGRA32_RGBA32),
    Conv("64bppPRGBA", "32bppRGBA", PRGBA64_RGBA32),
    Conv("64bppPRGBA", "32bppRGB", PRGBA64_RGB32),
    Conv("32bppPRGBA", "32bppRGBA", PRGBA32_RGBA32),
    Conv("32bppPBGRA", "32bppRGBA", PBGRA32_RGBA32),
    Conv("32bppPRGBA", "32bppRGB", PRGBA32_RGB32),
    Conv("32bppPBGRA", "32bppRGB", PBGRA32_RGB32),
    Conv("BlackWhite", "8bppGray", BlackWhite_Gray8),
    Conv("16bppGray", "8bppGray", Gray16_Gray8),
    Conv("48bppRGB", "24bppRGB", RGB48_RGB24),
    Conv("64bppRGBA", "32bppRGBA", RGBA64_RGBA32),
    Conv("64bppRGBA", "32bppRGB", RGBA64_RGB32),
    Conv("32bppGrayFloat", "8bppGray", Gray32Float_Gray8),
    Conv("96bppRGBFloat", "24bppRGB", RGB96Float_RGB24),
    Conv("128bppRGBFloat", "24bppRGB", RGB128Float_RGB24),
    Conv("128bppRGBAFloat", "32bppRGBA", RGBA128Float_RGBA32),
    Conv("128bppRGBAFloat", "32bppRGB", RGBA128Float_RGB32),
    Conv("128bppPRGBAFloat", "32bppRGBA", PRGBA128Float_RGBA32),
    Conv("128bppPRGBAFloat", "32bppRGB", PRGBA128Float_RGB32),
    Conv("16bppGrayFixedPoint", "8bppGray", Gray16Fixed_Gray8),
    Conv("32bppGrayFixedPoint", "8bppGray", Gray32Fixed_Gray8),
    Conv("48bppRGBFixedPoint", "24bppRGB", RGB48Fixed_RGB24),
    Conv("64bppRGBFixedPoint", "24bppRGB", RGB64Fixed_RGB24),
    Conv("96bppRGBFixedPoint", "24bppRGB", RGB96Fixed_RGB24),
    Conv("128bppRGBFixedPoint", "24bppRGB", RGB128Fixed_RGB24),
    Conv("64bppRGBAFixedPoint", "32bppRGBA", RGBA64Fixed_RGBA32),
    Conv("64bppRGBAFixedPoint", "32bppRGB", RGBA64Fixed_RGB32),
    Conv("128bppRGBAFixedPoint", "32bppRGBA", RGBA128Fixed_RGBA32),
    Conv("128bppRGBAFixedPoint", "32bppRGB", RGBA128Fixed_RGB32),
    Conv("16bppGrayHalf", "8bppGray", Gray16Half_Gray8),
    Conv("48bppRGBHalf", "24bppRGB", RGB48Half_RGB24),
    Conv("64bppRGBHalf", "24bppRGB", RGB64Half_RGB24),
    Conv("64bppRGBAHalf", "32bppRGBA", RGBA64Half_RGBA32),
    Conv("64bppRGBAHalf", "32bppRGB", RGBA64Half_RGB32),
    Conv("32bppRGB101010", "24bppRGB", RGB101010_RGB24),
    Conv("32bppRGBE", "24bppRGB", RGBE_RGB24) >>

s_pcInfo2 == { <<"128bppRGBFloat", "128bppRGBAFloat">>, <<"DontCare", "16bppRGB555">>, <<"DontCare", "16bppRGB565">>,
               <<"DontCare", "32bppBGRA">>, <<"32bppBGRA", "32bppBGR">>, <<"32bppBGR", "32bppBGRA">> }

\* PKFormatConverter_EnumConversions: the target of the iIndex-th converter from a format.
EnumConversions(from, iIndex) ==
    LET found == SelectSeq(s_pcInfo, LAMBDA c : c.from = from)
    IN  IF iIndex < Len(found) THEN found[iIndex + 1].to ELSE "DontCare"

\* The extension of the file written exchanges red and blue of some formats.
Substituted(ext, to) ==
    CASE ext = ".bmp" /\ to = "24bppRGB"                -> "24bppBGR"
      [] ext \in {".tif", ".tiff"} /\ to = "32bppBGRA"  -> "32bppRGBA"
      [] ext \in {".tif", ".tiff"} /\ to = "32bppPBGRA" -> "32bppPRGBA"
      [] OTHER                                          -> to

\* The format is reported as it was asked for, not as substituted.
InitializeConvert(from, ext, asked) ==
    LET to    == Substituted(ext, asked)
        found == SelectSeq(s_pcInfo, LAMBDA c : c.from = from /\ c.to = to)
        Converter(ok, c) == [ok |-> ok, enPixelFormat |-> asked, convert |-> c]
    IN  CASE from = to                  -> Converter(TRUE, <<>>)
          [] found # <<>>               -> Converter(TRUE, found[1].convert)
          [] <<from, to>> \in s_pcInfo2 -> Converter(TRUE, <<>>)
          [] OTHER                      -> Converter(FALSE, <<>>)

-----------------------------------------------------------------------------
(* PKImageEncode_WriteSource: a buffer whose lines have room for both      *)
(* formats.                                                                *)

LineBytes(f, width) ==
    LET i == PixelFormatLookup(f)
        n == IF i.bdBitDepth = "BD_1" THEN (i.cbitUnit * width + 7) \div 8 ELSE ((i.cbitUnit + 7) \div 8) * width
    IN  IF f \in {"12bppYUV420", "16bppYUV422"} THEN n \div 2 ELSE n

cbStride(from, to, width) == Greatest(LineBytes(from, width), LineBytes(to, width))

=============================================================================
