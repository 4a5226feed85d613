---------------------------- MODULE ValuesProofs ----------------------------
(***************************************************************************)
(* Proofs about the values that expressions are made of, the registers of  *)
(* the focused thread and the convenience variables, for every width of a  *)
(* long, every list of names and every sequence of commands.               *)
(***************************************************************************)
EXTENDS Registers, ConvVars, SequenceTheorems, FiniteSetTheorems, WellFoundedInduction, TLAPS

----------------------------------------------------------------------------
(* Arithmetic.                                                             *)

\* The digits of a number in base h.
LEMMA Digits ==
    ASSUME NEW h \in Nat, h > 0, NEW k \in Int, NEW r \in 0 .. h - 1
    PROVE  (k * h + r) % h = r /\ (k * h + r) \div h = k
<1> DEFINE n == k * h + r
           q == n \div h
           m == n % h
<1>1. n \in Int /\ q \in Int /\ m \in 0 .. h - 1 /\ n = h * q + m
    OBVIOUS
<1>2. (k - q) * h = m - r
    BY <1>1
<1>3. m - r < h /\ m - r > -h
    BY <1>1
<1>4. k = q
    <2> HIDE DEF n, q, m
    <2>1. CASE k > q
        <3>1. k - q >= 1
            BY <1>1, <2>1
        <3>2. (k - q) * h >= h
            BY <1>1, <3>1
        <3> QED
            BY <1>1, <1>2, <1>3, <3>2
    <2>2. CASE k < q
        <3>1. q - k >= 1
            BY <1>1, <2>2
        <3>2. (q - k) * h >= h
            BY <1>1, <3>1
        <3>3. (k - q) * h = -((q - k) * h)
            BY <1>1
        <3> QED
            BY <1>1, <1>2, <1>3, <3>2, <3>3
    <2> QED
        BY <1>1, <2>1, <2>2
<1>5. m = r
    BY <1>1, <1>2, <1>4
<1> QED
    BY <1>4, <1>5

\* The rest of a number that is less than h is the number.
LEMMA Small ==
    ASSUME NEW h \in Nat, NEW r \in 0 .. h - 1
    PROVE  r % h = r
OBVIOUS


\* The powers of two of a long and an int.
LEMMA Powers ==
    /\ Half \in Nat /\ Half > 1 /\ Half \div 2 \in Nat /\ Half \div 2 > 0
    /\ Half = (Half \div 2) + (Half \div 2)
    /\ Whole = Half * Half /\ Whole \in Nat /\ Whole \div 2 \in Nat
    /\ Whole = (Whole \div 2) + (Whole \div 2)
    /\ Half <= Whole \div 2
    /\ LONG_MAX = (Whole \div 2) - 1 /\ LONG_MIN = -(Whole \div 2)
<1>1. PICK h \in Nat : h = Half
    BY PowerAssumption
<1>2. PICK g \in Nat : g = h \div 2
    BY <1>1
<1>3. h > 1 /\ h = g + g /\ g > 0
    <2>1. h % 2 = 0 /\ h > 1
        BY <1>1, PowerAssumption
    <2> QED
        BY <1>2, <2>1
<1>4. PICK l \in Nat : l = g * h
    OBVIOUS
<1>5. h * h = l + l
    <2>1. (g + g) * h = g * h + g * h
        OBVIOUS
    <2> QED
        BY <1>3, <1>4, <2>1
<1>6. l >= h
    <2>1. g - 1 \in Nat /\ g = (g - 1) + 1
        BY <1>3
    <2>2. ((g - 1) + 1) * h = (g - 1) * h + h
        BY <2>1
    <2>3. (g - 1) * h >= 0
        BY <2>1
    <2> QED
        BY <1>4, <2>1, <2>2, <2>3
<1>7. PICK w : w = Whole
    OBVIOUS
<1>8. PICK p : p = 2 ^ (Bits - 1)
    OBVIOUS
<1>9. w = h * h /\ p = l
    BY <1>1, <1>2, <1>4, <1>7, <1>8, PowerAssumption
<1>10. w \in Nat /\ w \div 2 = l
    BY <1>5, <1>9
<1>11. LONG_MAX = l - 1 /\ LONG_MIN = -l
    BY <1>8, <1>9 DEF LONG_MAX, LONG_MIN
<1> QED
    BY <1>1, <1>2, <1>3, <1>5, <1>6, <1>7, <1>9, <1>10, <1>11

\* strtol gives a long, and the number itself where it is one.
LEMMA StrtolIs ==
    ASSUME NEW n \in Int
    PROVE  /\ strtol(n) \in Int
           /\ LONG_MIN <= strtol(n) /\ strtol(n) <= LONG_MAX
           /\ 0 <= n => 0 <= strtol(n)
           /\ LONG_MIN <= n /\ n <= LONG_MAX => strtol(n) = n
<1>1. LONG_MAX \in Int /\ LONG_MIN \in Int /\ LONG_MIN <= 0 /\ 0 <= LONG_MAX
    BY Powers
<1> QED
    BY <1>1 DEF strtol

\* A number that an int holds is read back as it is.
LEMMA IntsAreRead ==
    ASSUME NEW n \in 0 .. Half - 1
    PROVE  strtol(n) = n
<1>1. LONG_MIN <= n /\ n <= LONG_MAX /\ n \in Int
    BY Powers
<1> QED
    BY <1>1, StrtolIs

----------------------------------------------------------------------------
(* Writing a register.                                                     *)

\* The low half of a number.
LEMMA LowHalf ==
    ASSUME NEW n \in 0 .. Half - 1
    PROVE  /\ Extended(n, Half) \in 0 .. Ones /\ Extended(n, Half) % Half = n
           /\ \A x \in 0 .. Ones : /\ (x \div Half) * Half + n \in 0 .. Ones
                                   /\ ((x \div Half) * Half + n) % Half = n
<1>1. PICK h \in Nat : h = Half
    BY Powers
<1>2. PICK w \in Nat : w = Whole
    BY Powers
<1>3. h > 1 /\ w = h * h /\ n \in 0 .. h - 1
    BY <1>1, <1>2, Powers
<1>4. n % h = n
    BY <1>3, Small
<1>5. n + w - h = (h - 1) * h + n
    BY <1>3
<1>6. ((h - 1) * h + n) % h = n
    <2>1. h - 1 \in Int /\ h > 0
        BY <1>3
    <2> QED
        BY <1>3, <2>1, Digits
<1>7. h <= w
    <2>1. h - 1 \in Nat /\ (h - 1) * h \in Nat /\ h * h = (h - 1) * h + h
        BY <1>3
    <2> QED
        BY <1>3, <2>1
<1>8. Extended(n, Half) \in {n, n + w - h}
    BY <1>1, <1>2 DEF Extended
<1>9. Ones = w - 1
    BY <1>2 DEF Ones
<1>10. Extended(n, Half) \in 0 .. Ones /\ Extended(n, Half) % h = n
    <2>1. CASE Extended(n, Half) = n
        BY <1>3, <1>4, <1>7, <1>9, <2>1
    <2>2. CASE Extended(n, Half) = n + w - h
        <3>1. (n + w - h) % h = n
            BY <1>5, <1>6
        <3>2. n + w - h \in 0 .. w - 1
            BY <1>3, <1>7
        <3> QED
            BY <1>9, <2>2, <3>1, <3>2
    <2> QED
        BY <1>8, <2>1, <2>2
<1>11. ASSUME NEW x \in 0 .. Ones
       PROVE  (x \div h) * h + n \in 0 .. Ones /\ ((x \div h) * h + n) % h = n
    <2>1. PICK k \in Nat : k = x \div h
        <3>1. x \in Nat /\ h \in Nat /\ h > 0
            BY <1>3, <1>9, <1>11
        <3>2. x \div h \in Nat
            BY <3>1
        <3> QED
            BY <3>2
    <2>2. k < h
        <3>1. x \in Nat /\ x < h * h
            BY <1>3, <1>9, <1>11
        <3>2. h * k <= x
            BY <1>3, <2>1, <3>1
        <3>3. ASSUME k >= h
              PROVE  FALSE
            <4>1. h * k >= h * h
                BY <1>3, <3>3
            <4>2. h * k \in Nat /\ h * h \in Nat
                OBVIOUS
            <4> QED
                BY <3>1, <3>2, <4>1, <4>2
        <3> QED
            BY <3>3
    <2>3. k * h + n <= (h - 1) * h + n
        <3>1. k <= h - 1 /\ h - 1 \in Nat
            BY <1>3, <2>2
        <3>2. k * h <= (h - 1) * h
            BY <1>3, <3>1
        <3> QED
            BY <1>3, <3>1, <3>2
    <2>4. (h - 1) * h + n = w - h + n /\ k * h \in Nat
        BY <1>3, <1>5
    <2>5. k * h + n \in 0 .. w - 1
        BY <1>3, <1>7, <2>3, <2>4
    <2>6. (k * h + n) % h = n
        BY <1>3, Digits
    <2> QED
        BY <1>9, <2>1, <2>5, <2>6
<1> QED
    BY <1>1, <1>10, <1>11

\* The values that are stored for a number: a long, an int, the bits of a
\* double and of a float.
LEMMA NumbersStored ==
    ASSUME NEW v \in Int
    PROVE  /\ strtol(v) % Whole \in 0 .. Ones
           /\ v >= 0 => strtol(strtol(v) % Whole) = strtol(v)
           /\ strtol(v) % Half \in 0 .. Half - 1
           /\ FloatBits(v, Half) \in 0 .. Half - 1
           /\ FloatBits(v, Whole) \in 0 .. Whole - 1
           /\ v >= 0 => strtol(FloatBits(v, Whole)) = FloatBits(v, Whole)
<1>1. PICK t \in Int : t = strtol(v)
    BY StrtolIs
<1>2. PICK h \in Nat, g \in Nat : h = Half /\ g = h \div 2 /\ h = g + g /\ g > 0 /\ h > 0
    BY Powers
<1>3. PICK w \in Nat, l \in Nat : w = Whole /\ l = w \div 2 /\ w = l + l /\ l > 0 /\ w > 0
    BY Powers
<1>4. Ones = w - 1 /\ LONG_MAX = l - 1 /\ LONG_MIN = -l
    BY <1>3, Powers DEF Ones
<1>5. t % w \in 0 .. w - 1 /\ t % h \in 0 .. h - 1
    BY <1>2, <1>3
<1>6. v >= 0 => strtol(t % w) = t
    <2>1. SUFFICES ASSUME v >= 0
                   PROVE  strtol(t % w) = t
        OBVIOUS
    <2>2. t \in 0 .. w - 1 /\ LONG_MIN <= t /\ t <= LONG_MAX
        BY <1>1, <1>3, <1>4, <2>1, StrtolIs
    <2>3. t % w = t
        BY <1>3, <2>2, Small
    <2> QED
        BY <1>1, <2>2, <2>3, StrtolIs
<1>7. PICK a \in Nat : a = Abs(v)
    BY DEF Abs
<1>8. a % g \in 0 .. g - 1 /\ a % l \in 0 .. l - 1
    BY <1>2, <1>3
<1>9. FloatBits(v, Half) \in {a % g, (a % g) + g}
    BY <1>2, <1>7, <1>8 DEF FloatBits
<1>10. /\ FloatBits(v, Whole) \in {a % l, (a % l) + l}
       /\ v >= 0 => FloatBits(v, Whole) = a % l
    BY <1>3, <1>7, <1>8 DEF FloatBits
<1>11. FloatBits(v, Half) \in 0 .. h - 1 /\ FloatBits(v, Whole) \in 0 .. w - 1
    BY <1>2, <1>3, <1>8, <1>9, <1>10
<1>12. v >= 0 => strtol(FloatBits(v, Whole)) = FloatBits(v, Whole)
    <2>1. a % l \in Int /\ LONG_MIN <= a % l /\ a % l <= LONG_MAX
        BY <1>3, <1>4, <1>8
    <2>2. strtol(a % l) = a % l
        BY <2>1, StrtolIs
    <2> QED
        BY <1>10, <2>2
<1> QED
    BY <1>1, <1>2, <1>3, <1>4, <1>5, <1>6, <1>11, <1>12

\* A float and a double in a vector register.
LEMMA VectorHolds ==
    /\ \A n \in 0 .. Half - 1 :
            /\ Vector(n, Half) \in (0 .. Ones) \X (0 .. Ones)
            /\ Vector(n, Half)[1] % Half = n
    /\ \A n \in 0 .. Whole - 1 :
            /\ Vector(n, Whole) \in (0 .. Ones) \X (0 .. Ones)
            /\ Vector(n, Whole)[1] = n
<1>1. Whole \in Nat /\ Whole > 0 /\ Ones = Whole - 1 /\ 0 \in 0 .. Ones /\ Ones \in 0 .. Ones
    BY Powers DEF Ones
<1>2. ASSUME NEW n, NEW width, Extended(n, width) \in 0 .. Ones
      PROVE  /\ Vector(n, width) \in (0 .. Ones) \X (0 .. Ones)
             /\ Vector(n, width)[1] = Extended(n, width)
    <2>1. PICK e \in 0 .. Ones : e = Extended(n, width)
        BY <1>2
    <2>2. PICK z \in 0 .. Ones : z = IF n >= width \div 2 THEN Ones ELSE 0
        BY <1>1
    <2>3. Vector(n, width) = <<e, z>>
        BY <2>1, <2>2 DEF Vector
    <2> QED
        BY <2>1, <2>3
<1>3. ASSUME NEW n \in 0 .. Whole - 1
      PROVE  Extended(n, Whole) = n /\ n \in 0 .. Ones
    BY <1>1 DEF Extended
<1> QED
    BY <1>2, <1>3, LowHalf

\* Four bytes in a vector register.
LEMMA BytesStored ==
    ASSUME NEW b1 \in 0 .. Half - 1, NEW b2 \in 0 .. Half - 1
    PROVE  /\ b2 * Half + b1 \in 0 .. Ones
           /\ (b2 * Half + b1) % Half = b1 /\ (b2 * Half + b1) \div Half = b2
<1>1. PICK h \in Nat : h = Half
    BY Powers
<1>2. h > 0 /\ Ones = h * h - 1 /\ b2 \in 0 .. h - 1 /\ b1 \in 0 .. h - 1
    BY <1>1, Powers DEF Ones
<1>3. b2 * h <= (h - 1) * h
    BY <1>2
<1>4. (h - 1) * h = h * h - h /\ b2 * h \in Nat /\ h * h \in Nat
    BY <1>2
<1>5. b2 * h + b1 \in 0 .. Ones
    BY <1>2, <1>3, <1>4
<1>6. (b2 * h + b1) % h = b1 /\ (b2 * h + b1) \div h = b2
    BY <1>2, Digits
<1> QED
    BY <1>1, <1>5, <1>6

\* The bytes that are taken of those typed.
LEMMA BytesTaken ==
    ASSUME NEW b \in Seq(0 .. Half - 1), b # <<>>
    PROVE  /\ \A i \in 1 .. 4 : ByteAt(b, 4 - i) \in 0 .. Half - 1
           /\ Len(b) = 4 => \A i \in 1 .. 4 : ByteAt(b, 4 - i) = b[i]
<1>1. Len(b) \in Nat /\ Len(b) > 0
    BY EmptySeq
<1>2. \A j \in 1 .. Len(b) : b[j] \in 0 .. Half - 1
    BY ElementOfSeq
<1>3. ASSUME NEW i \in 1 .. 4
      PROVE  ByteAt(b, 4 - i) \in 0 .. Half - 1 /\ (Len(b) = 4 => ByteAt(b, 4 - i) = b[i])
    <2>1. PICK n \in Nat : n = Len(b)
        BY <1>1
    <2>2. CASE 4 - i < n
        <3>1. ByteAt(b, 4 - i) = b[n - (4 - i)] /\ n - (4 - i) \in 1 .. n
            BY <2>1, <2>2 DEF ByteAt
        <3>2. n = 4 => n - (4 - i) = i
            OBVIOUS
        <3> QED
            BY <1>2, <2>1, <3>1, <3>2
    <2>3. CASE ~ 4 - i < n
        <3>1. ByteAt(b, 4 - i) = b[1]
            BY <2>1, <2>3 DEF ByteAt
        <3>2. n > 0
            BY <1>1, <2>1
        <3>3. 1 \in 1 .. n /\ n # 4
            BY <2>3, <3>2
        <3> QED
            BY <1>2, <2>1, <3>1, <3>3
    <2> QED
        BY <2>2, <2>3
<1> QED
    BY <1>3

\* What a register write that is not refused must leave in the copy: the part
\* the register lives in is the only one that changed, and the register shows
\* what was written wherever `register view' can print it.
Stored(r, val, s) ==
    /\ s \in States
    /\ \A f \in {"x0", "pc", "fpsr", "v0"} : f # File[r] => s[f] = cache[f]
    /\ Len(MustShow(r, val)) <= 1
    /\ MustShow(r, val) # <<>> => <<regtol(s, r)>> = MustShow(r, val)

\* A sequence of one element.
LEMMA Alone ==
    ASSUME NEW x
    PROVE  Len(<<x>>) <= 1 /\ <<x>> # <<>>
OBVIOUS

\* A sequence of four.
LEMMA Four ==
    ASSUME NEW S, NEW a \in S, NEW b \in S, NEW c \in S, NEW d \in S
    PROVE  <<a, b, c, d>> \in Seq(S)
OBVIOUS

\* One part of the copy changes.
LEMMA OnePart ==
    ASSUME cache \in States
    PROVE  /\ \A x \in 0 .. Ones : [cache EXCEPT !.x0 = x] \in States
           /\ \A x \in 0 .. Ones : [cache EXCEPT !.pc = x] \in States
           /\ \A x \in 0 .. Half - 1 : [cache EXCEPT !.fpsr = x] \in States
           /\ \A x \in (0 .. Ones) \X (0 .. Ones) : [cache EXCEPT !.v0 = x] \in States
BY DEF States

\* A general register or the program counter.
LEMMA StoresLong ==
    ASSUME cache \in States, NEW val, val.v \in Int
    PROVE  /\ Stored("x0", val, [cache EXCEPT !.x0 = strtol(val.v) % Whole])
           /\ Stored("pc", val, [cache EXCEPT !.pc = strtol(val.v) % Whole])
<1>1. PICK v \in Int : v = val.v
    OBVIOUS
<1>2. PICK x \in 0 .. Ones : x = strtol(v) % Whole
    BY NumbersStored
<1>3. v >= 0 => strtol(x) = strtol(v)
    BY <1>2, NumbersStored
<1>4. ASSUME NEW r \in {"x0", "pc"}, NEW s \in States, s[r] = x, \A f \in {"x0", "pc", "fpsr", "v0"} : f # r => s[f] = cache[f]
      PROVE  Stored(r, val, s)
    <2>1. MustShow(r, val) = IF v >= 0 THEN <<strtol(v)>> ELSE <<>>
        BY <1>1 DEF MustShow
    <2>2. regtol(s, r) = strtol(x)
        BY <1>4 DEF regtol, regtoa
    <2>3. File[r] = r
        BY DEF File, RegNames
    <2>4. Len(MustShow(r, val)) <= 1
        BY <2>1
    <2>5. MustShow(r, val) # <<>> => <<regtol(s, r)>> = MustShow(r, val)
        BY <1>3, <2>1, <2>2
    <2> QED
        BY <1>4, <2>3, <2>4, <2>5 DEF Stored
<1>5. Stored("x0", val, [cache EXCEPT !.x0 = x])
    <2>1. [cache EXCEPT !.x0 = x] \in States
        BY OnePart
    <2>2. [cache EXCEPT !.x0 = x]["x0"] = x
        BY DEF States
    <2>3. \A f \in {"x0", "pc", "fpsr", "v0"} : f # "x0" => [cache EXCEPT !.x0 = x][f] = cache[f]
        BY DEF States
    <2> QED
        BY <1>4, <2>1, <2>2, <2>3
<1>6. Stored("pc", val, [cache EXCEPT !.pc = x])
    <2>1. [cache EXCEPT !.pc = x] \in States
        BY OnePart
    <2>2. [cache EXCEPT !.pc = x]["pc"] = x
        BY DEF States
    <2>3. \A f \in {"x0", "pc", "fpsr", "v0"} : f # "pc" => [cache EXCEPT !.pc = x][f] = cache[f]
        BY DEF States
    <2> QED
        BY <1>4, <2>1, <2>2, <2>3
<1> QED
    BY <1>1, <1>2, <1>5, <1>6

\* The status register and the low half of a general register.
LEMMA StoresInt ==
    ASSUME cache \in States, NEW val, val.v \in Int
    PROVE  /\ Stored("fpsr", val, [cache EXCEPT !.fpsr = strtol(val.v) % Half])
           /\ Stored("w0", val, [cache EXCEPT !.x0 =
                IF strtol(val.v) % Half >= Half \div 2 THEN Extended(strtol(val.v) % Half, Half)
                ELSE (cache.x0 \div Half) * Half + (strtol(val.v) % Half)])
<1>1. PICK n \in 0 .. Half - 1 : n = strtol(val.v) % Half
    BY NumbersStored
<1>2. strtol(n) = n
    BY IntsAreRead
<1>3. PICK x : x = IF n >= Half \div 2 THEN Extended(n, Half) ELSE (cache.x0 \div Half) * Half + n
    OBVIOUS
<1>4. x \in 0 .. Ones /\ x % Half = n
    <2>1. cache.x0 \in 0 .. Ones
        BY DEF States
    <2>2. (cache.x0 \div Half) * Half + n \in 0 .. Ones /\ ((cache.x0 \div Half) * Half + n) % Half = n
        BY <2>1, LowHalf
    <2>3. Extended(n, Half) \in 0 .. Ones /\ Extended(n, Half) % Half = n
        BY LowHalf
    <2> QED
        BY <1>3, <2>2, <2>3
<1>5. Stored("fpsr", val, [cache EXCEPT !.fpsr = n])
    <2>1. PICK s : s = [cache EXCEPT !.fpsr = n]
        OBVIOUS
    <2>2. s \in States
        BY <2>1, OnePart
    <2>3. s.fpsr = n
        BY <2>1 DEF States
    <2>4. \A f \in {"x0", "pc", "fpsr", "v0"} : f # "fpsr" => s[f] = cache[f]
        BY <2>1 DEF States
    <2>5. MustShow("fpsr", val) = <<n>>
        BY <1>1 DEF MustShow
    <2>6. regtol(s, "fpsr") = n
        BY <1>2, <2>3 DEF regtol, regtoa
    <2>7. File["fpsr"] = "fpsr"
        BY DEF File, RegNames
    <2>8. Len(MustShow("fpsr", val)) <= 1 /\ <<regtol(s, "fpsr")>> = MustShow("fpsr", val)
        BY <2>5, <2>6, Alone
    <2>9. Stored("fpsr", val, s)
        BY <2>2, <2>4, <2>7, <2>8 DEF Stored
    <2> QED
        BY <2>1, <2>9
<1>6. Stored("w0", val, [cache EXCEPT !.x0 = x])
    <2>1. PICK s : s = [cache EXCEPT !.x0 = x]
        OBVIOUS
    <2>2. s \in States
        BY <1>4, <2>1, OnePart
    <2>3. s.x0 = x
        BY <2>1 DEF States
    <2>4. \A f \in {"x0", "pc", "fpsr", "v0"} : f # "x0" => s[f] = cache[f]
        BY <2>1 DEF States
    <2>5. MustShow("w0", val) = <<n>>
        BY <1>1 DEF MustShow
    <2>6. regtol(s, "w0") = n
        BY <1>2, <1>4, <2>3 DEF regtol, regtoa
    <2>7. File["w0"] = "x0"
        BY DEF File, RegNames
    <2>8. Len(MustShow("w0", val)) <= 1 /\ <<regtol(s, "w0")>> = MustShow("w0", val)
        BY <2>5, <2>6, Alone
    <2>9. Stored("w0", val, s)
        BY <2>2, <2>4, <2>7, <2>8 DEF Stored
    <2> QED
        BY <2>1, <2>9
<1>7. x = IF strtol(val.v) % Half >= Half \div 2 THEN Extended(strtol(val.v) % Half, Half)
          ELSE (cache.x0 \div Half) * Half + (strtol(val.v) % Half)
    BY <1>1, <1>3, Zenon
<1> QED
    BY <1>1, <1>5, <1>6, <1>7, Zenon

\* A float and a double.
LEMMA StoresFloat ==
    ASSUME cache \in States, NEW val, val.v \in Int
    PROVE  /\ Stored("s0", val, [cache EXCEPT !.v0 = Vector(FloatBits(val.v, Half), Half)])
           /\ Stored("d0", val, [cache EXCEPT !.v0 = Vector(FloatBits(val.v, Whole), Whole)])
<1>1. PICK v \in Int : v = val.v
    OBVIOUS
<1>2. ASSUME NEW r \in {"s0", "d0"}, NEW x \in (0 .. Ones) \X (0 .. Ones), Len(MustShow(r, val)) <= 1,
             NEW n, regtoa([cache EXCEPT !.v0 = x], r) = n,
             MustShow(r, val) # <<>> => <<strtol(n)>> = MustShow(r, val)
      PROVE  Stored(r, val, [cache EXCEPT !.v0 = x])
    <2>1. PICK s : s = [cache EXCEPT !.v0 = x]
        OBVIOUS
    <2>2. s \in States
        BY <2>1, OnePart
    <2>3. \A f \in {"x0", "pc", "fpsr", "v0"} : f # "v0" => s[f] = cache[f]
        BY <2>1 DEF States
    <2>4. File[r] = "v0"
        BY DEF File, RegNames
    <2>5. regtol(s, r) = strtol(n)
        BY <1>2, <2>1 DEF regtol
    <2>6. Stored(r, val, s)
        BY <1>2, <2>2, <2>3, <2>4, <2>5 DEF Stored
    <2> QED
        BY <2>1, <2>6
<1>3. Stored("s0", val, [cache EXCEPT !.v0 = Vector(FloatBits(v, Half), Half)])
    <2>1. PICK n \in 0 .. Half - 1 : n = FloatBits(v, Half)
        BY NumbersStored
    <2>2. PICK x \in (0 .. Ones) \X (0 .. Ones) : x = Vector(n, Half) /\ x[1] % Half = n
        BY VectorHolds
    <2>3. regtoa([cache EXCEPT !.v0 = x], "s0") = n
        <3>1. [cache EXCEPT !.v0 = x].v0 = x
            BY DEF States
        <3> QED
            BY <2>2, <3>1 DEF regtoa
    <2>4. strtol(n) = n
        BY IntsAreRead
    <2>5. MustShow("s0", val) = <<n>>
        BY <1>1, <2>1 DEF MustShow
    <2>6. Len(MustShow("s0", val)) <= 1 /\ <<strtol(n)>> = MustShow("s0", val)
        BY <2>4, <2>5, Alone
    <2>7. Stored("s0", val, [cache EXCEPT !.v0 = x])
        BY <1>2, <2>3, <2>6
    <2> QED
        BY <2>1, <2>2, <2>7
<1>4. Stored("d0", val, [cache EXCEPT !.v0 = Vector(FloatBits(v, Whole), Whole)])
    <2>1. PICK n \in 0 .. Whole - 1 : n = FloatBits(v, Whole)
        BY NumbersStored
    <2>2. PICK x \in (0 .. Ones) \X (0 .. Ones) : x = Vector(n, Whole) /\ x[1] = n
        BY VectorHolds
    <2>3. regtoa([cache EXCEPT !.v0 = x], "d0") = n
        <3>1. [cache EXCEPT !.v0 = x].v0 = x
            BY DEF States
        <3> QED
            BY <2>2, <3>1 DEF regtoa
    <2>4. v >= 0 => strtol(n) = n
        BY <2>1, NumbersStored
    <2>5. MustShow("d0", val) = IF v >= 0 THEN <<n>> ELSE <<>>
        BY <1>1, <2>1 DEF MustShow
    <2>6. Len(MustShow("d0", val)) <= 1 /\ (MustShow("d0", val) # <<>> => <<strtol(n)>> = MustShow("d0", val))
        <3>1. CASE v >= 0
            BY <2>4, <2>5, <3>1, Alone
        <3>2. CASE ~(v >= 0)
            BY <2>5, <3>2
        <3> QED
            BY <3>1, <3>2
    <2>7. Stored("d0", val, [cache EXCEPT !.v0 = x])
        BY <1>2, <2>3, <2>6
    <2> QED
        BY <2>1, <2>2, <2>7
<1> QED
    BY <1>1, <1>3, <1>4

\* The bytes of a vector.
LEMMA StoresBytes ==
    ASSUME cache \in States, NEW val, val.b \in Seq(0 .. Half - 1), val.b # <<>>,
           NEW bytes, bytes = [i \in 1 .. 4 |-> ByteAt(val.b, 4 - i)]
    PROVE  Stored("q0", val, [cache EXCEPT !.v0 = <<bytes[2] * Half + bytes[1], bytes[4] * Half + bytes[3]>>])
<1>1. PICK b \in Seq(0 .. Half - 1) : b = val.b
    OBVIOUS
<1>2. \A i \in 1 .. 4 : bytes[i] \in 0 .. Half - 1
    BY BytesTaken
<1>3. Len(b) = 4 => \A i \in 1 .. 4 : bytes[i] = b[i]
    BY <1>1, BytesTaken
<1>4. PICK b1 \in 0 .. Half - 1, b2 \in 0 .. Half - 1, b3 \in 0 .. Half - 1, b4 \in 0 .. Half - 1 :
            b1 = bytes[1] /\ b2 = bytes[2] /\ b3 = bytes[3] /\ b4 = bytes[4]
    BY <1>2
<1>5. PICK x \in 0 .. Ones, y \in 0 .. Ones :
            /\ x = b2 * Half + b1 /\ x % Half = b1 /\ x \div Half = b2
            /\ y = b4 * Half + b3 /\ y % Half = b3 /\ y \div Half = b4
    <2>1. /\ b2 * Half + b1 \in 0 .. Ones
          /\ (b2 * Half + b1) % Half = b1 /\ (b2 * Half + b1) \div Half = b2
        BY BytesStored
    <2>2. /\ b4 * Half + b3 \in 0 .. Ones
          /\ (b4 * Half + b3) % Half = b3 /\ (b4 * Half + b3) \div Half = b4
        BY BytesStored
    <2> QED
        BY <2>1, <2>2, Zenon
<1>6. PICK s : s = [cache EXCEPT !.v0 = <<x, y>>]
    OBVIOUS
<1>7. s \in States
    BY <1>6, OnePart
<1>8. s.v0 = <<x, y>>
    BY <1>6 DEF States
<1>9. \A f \in {"x0", "pc", "fpsr", "v0"} : f # "v0" => s[f] = cache[f]
    BY <1>6 DEF States
<1>10. File["q0"] = "v0"
    BY DEF File, RegNames
<1>11. regtol(s, "q0") = <<b1, b2, b3, b4>>
    <2>1. regtol(s, "q0") = regtoa(s, "q0")
        BY DEF regtol
    <2>2. regtoa(s, "q0") = <<s.v0[1] % Half, s.v0[1] \div Half, s.v0[2] % Half, s.v0[2] \div Half>>
        BY DEF regtoa
    <2>3. s.v0[1] = x /\ s.v0[2] = y
        BY <1>8
    <2> QED
        BY <1>5, <2>1, <2>2, <2>3
<1>12. MustShow("q0", val) = IF Len(b) = 4 THEN <<b>> ELSE <<>>
    BY <1>1 DEF MustShow
<1>13. Len(b) = 4 => b = <<b1, b2, b3, b4>>
    <2>1. SUFFICES ASSUME Len(b) = 4
                   PROVE  b = <<b1, b2, b3, b4>>
        OBVIOUS
    <2>2. b[1] = b1 /\ b[2] = b2 /\ b[3] = b3 /\ b[4] = b4
        BY <1>3, <1>4, <2>1
    <2>3. PICK c \in Seq(0 .. Half - 1) : c = <<b1, b2, b3, b4>>
        BY Four
    <2>4. Len(c) = 4 /\ c[1] = b1 /\ c[2] = b2 /\ c[3] = b3 /\ c[4] = b4
        BY <2>3
    <2>5. \A i \in 1 .. 4 : b[i] = c[i]
        BY <2>2, <2>4
    <2> QED
        BY <2>1, <2>3, <2>4, <2>5, SeqEqual
<1>14. Len(MustShow("q0", val)) <= 1 /\ (MustShow("q0", val) # <<>> => <<regtol(s, "q0")>> = MustShow("q0", val))
    <2>1. CASE Len(b) = 4
        BY <1>11, <1>12, <1>13, <2>1, Alone
    <2>2. CASE Len(b) # 4
        BY <1>12, <2>2
    <2> QED
        BY <2>1, <2>2
<1>15. Stored("q0", val, s)
    BY <1>7, <1>9, <1>10, <1>14 DEF Stored
<1> QED
    BY <1>4, <1>5, <1>6, <1>15

\* A write that is not refused stores what was typed.
LEMMA SetregStores ==
    ASSUME cache \in States, NEW name, NEW val \in WriteValues, setreg(name, val).ok
    PROVE  /\ Registers[name] \in RegNames
           /\ Stored(Registers[name], val, setreg(name, val).s)
<1>1. val.v \in Int /\ val.b \in Seq(0 .. Half - 1)
    BY WriteAssumption
<1>2. PICK r : r = Registers[name]
    OBVIOUS
<1>3. PICK bytes : bytes = [i \in 1 .. 4 |-> ByteAt(val.b, 4 - i)]
    OBVIOUS
<1> DEFINE x == IF strtol(val.v) % Half >= Half \div 2 THEN Extended(strtol(val.v) % Half, Half)
                ELSE (cache.x0 \div Half) * Half + (strtol(val.v) % Half)
           w == <<bytes[2] * Half + bytes[1], bytes[4] * Half + bytes[3]>>
<1>4. \/ r = "x0" /\ setreg(name, val).s = [cache EXCEPT !.x0 = strtol(val.v) % Whole]
      \/ r = "pc" /\ setreg(name, val).s = [cache EXCEPT !.pc = strtol(val.v) % Whole]
      \/ r = "fpsr" /\ setreg(name, val).s = [cache EXCEPT !.fpsr = strtol(val.v) % Half]
      \/ r = "w0" /\ setreg(name, val).s = [cache EXCEPT !.x0 = x]
      \/ r = "d0" /\ setreg(name, val).s = [cache EXCEPT !.v0 = Vector(FloatBits(val.v, Whole), Whole)]
      \/ r = "s0" /\ setreg(name, val).s = [cache EXCEPT !.v0 = Vector(FloatBits(val.v, Half), Half)]
      \/ r = "q0" /\ val.b # <<>> /\ setreg(name, val).s = [cache EXCEPT !.v0 = w]
    BY <1>2, <1>3, ZenonT(60) DEF setreg
<1>5. Stored(r, val, setreg(name, val).s)
    <2>1. CASE r = "x0" /\ setreg(name, val).s = [cache EXCEPT !.x0 = strtol(val.v) % Whole]
        BY <1>1, <2>1, StoresLong
    <2>2. CASE r = "pc" /\ setreg(name, val).s = [cache EXCEPT !.pc = strtol(val.v) % Whole]
        BY <1>1, <2>2, StoresLong
    <2>3. CASE r = "fpsr" /\ setreg(name, val).s = [cache EXCEPT !.fpsr = strtol(val.v) % Half]
        BY <1>1, <2>3, StoresInt
    <2>4. CASE r = "w0" /\ setreg(name, val).s = [cache EXCEPT !.x0 = x]
        BY <1>1, <2>4, StoresInt
    <2>5. CASE r = "d0" /\ setreg(name, val).s = [cache EXCEPT !.v0 = Vector(FloatBits(val.v, Whole), Whole)]
        BY <1>1, <2>5, StoresFloat
    <2>6. CASE r = "s0" /\ setreg(name, val).s = [cache EXCEPT !.v0 = Vector(FloatBits(val.v, Half), Half)]
        BY <1>1, <2>6, StoresFloat
    <2>7. CASE r = "q0" /\ val.b # <<>> /\ setreg(name, val).s = [cache EXCEPT !.v0 = w]
        BY <1>1, <1>3, <2>7, StoresBytes
    <2> QED
        BY <1>4, <2>1, <2>2, <2>3, <2>4, <2>5, <2>6, <2>7
<1>6. r \in RegNames
    BY <1>4 DEF RegNames
<1> QED
    BY <1>2, <1>5, <1>6

----------------------------------------------------------------------------
(* The registers.                                                          *)

\* What keeps ViewShowsWritten: while a written register must still be shown,
\* and while the thread has not run, the copy is the thread's state, so that
\* storing all of it back undoes nothing; a detach forgets what was written.
CopyIsCurrent ==
    /\ ~ran => cache = hw
    /\ \A r \in RegNames : written[r] # <<>> => attached /\ cache = hw

RegistersInv == RegistersTypeOK /\ CopyIsCurrent /\ ViewShowsWritten

\* What is shown of a register is read from the part it lives in.
LEMMA ViewOfPart ==
    ASSUME NEW s, NEW t, NEW r \in RegNames, s[File[r]] = t[File[r]]
    PROVE  regtol(s, r) = regtol(t, r)
<1>1. CASE r \in {"x0", "w0"}
    <2>1. s.x0 = t.x0
        BY <1>1 DEF File
    <2> QED
        BY <1>1, <2>1 DEF regtol, regtoa
<1>2. CASE r \in {"q0", "d0", "s0"}
    <2>1. s.v0 = t.v0
        BY <1>2 DEF File
    <2> QED
        BY <1>2, <2>1 DEF regtol, regtoa
<1>3. CASE r \in {"pc", "fpsr"}
    <2>1. s[r] = t[r]
        BY <1>3 DEF File
    <2> QED
        BY <1>3, <2>1 DEF regtol, regtoa
<1> QED
    BY <1>1, <1>2, <1>3 DEF RegNames

\* Fetching one half of the copy or both.
LEMMA Fetches ==
    ASSUME hw \in States, cache \in States
    PROVE  /\ get_thread_state(cache) \in States
           /\ get_neon_state(get_thread_state(cache)) = hw
           /\ cache = hw => get_thread_state(cache) = hw
BY DEF States, get_thread_state, get_neon_state

\* RegistersInv holds at first.
LEMMA RegistersStart == RegistersInit => RegistersInv
<1> SUFFICES ASSUME RegistersInit
             PROVE  RegistersInv
    OBVIOUS
<1>1. hw \in States
    <2>1. (CHOOSE s \in Runs : TRUE) \in Runs
        BY RunsAssumption
    <2> QED
        BY <2>1, RunsAssumption DEF RegistersInit
<1>2. cache = hw /\ \A r \in RegNames : written[r] = <<>> /\ Len(written[r]) <= 1
    BY DEF RegistersInit
<1>3. DOMAIN written = RegNames /\ attached \in BOOLEAN /\ ran \in BOOLEAN
    BY DEF RegistersInit
<1>4. RegistersTypeOK
    BY <1>1, <1>2, <1>3 DEF RegistersTypeOK
<1> QED
    BY <1>2, <1>4 DEF RegistersInv, CopyIsCurrent, ViewShowsWritten

\* Where the copy and the thread are left as a fetch leaves them, what must be
\* shown stays shown.
LEMMA FetchKeeps ==
    ASSUME RegistersInv, UNCHANGED <<attached, hw, written>>, ran' \in BOOLEAN,
           cache' \in States, ~ran' => cache' = hw, cache = hw => cache' = hw
    PROVE  RegistersInv'
<1>1. RegistersTypeOK'
    BY DEF RegistersInv, RegistersTypeOK
<1>2. ViewShowsWritten'
    BY DEF RegistersInv, ViewShowsWritten, regtol, regtoa
<1>3. CopyIsCurrent'
    BY DEF RegistersInv, CopyIsCurrent
<1> QED
    BY <1>1, <1>2, <1>3 DEF RegistersInv

\* Where nothing must be shown any more.
LEMMA ForgettingKeeps ==
    ASSUME RegistersInv, written' = [r \in RegNames |-> <<>>], attached' \in BOOLEAN, ran' \in BOOLEAN,
           hw' \in States, cache' \in States, ~ran' => cache' = hw'
    PROVE  RegistersInv'
<1>1. DOMAIN written' = RegNames /\ \A r \in RegNames : written'[r] = <<>> /\ Len(written'[r]) <= 1
    OBVIOUS
<1>2. RegistersTypeOK'
    BY <1>1 DEF RegistersTypeOK
<1> QED
    BY <1>1, <1>2 DEF RegistersInv, CopyIsCurrent, ViewShowsWritten

\* A register write.
LEMMA WriteKeeps ==
    ASSUME RegistersInv, NEW name \in WriteNames, NEW val \in WriteValues, cmdfunc_register_write(name, val)
    PROVE  /\ RegistersInv'
           /\ \/ UNCHANGED hw
              \/ /\ \E r \in RegNames : \A f \in {"x0", "pc", "fpsr", "v0"} : f # File[r] => hw'[f] = cache[f]
                 /\ hw' \in States
<1>1. RegistersTypeOK /\ hw \in States /\ cache \in States
    BY DEF RegistersInv, RegistersTypeOK
<1>2. attached /\ UNCHANGED <<attached, ran>>
    BY DEF cmdfunc_register_write
<1>3. CASE ~setreg(name, val).ok
    <2>1. UNCHANGED <<cache, hw, written>>
        BY <1>3 DEF cmdfunc_register_write
    <2>2. ~ran => cache = hw
        BY DEF RegistersInv, CopyIsCurrent
    <2>3. ran' \in BOOLEAN
        BY <1>1, <1>2 DEF RegistersTypeOK
    <2>4. RegistersInv'
        BY <1>1, <1>2, <2>1, <2>2, <2>3, FetchKeeps
    <2> QED
        BY <2>1, <2>4
<1>4. CASE setreg(name, val).ok
    <2>1. PICK r \in RegNames, s \in States : r = Registers[name] /\ s = setreg(name, val).s /\ Stored(r, val, s)
        BY <1>1, <1>4, SetregStores DEF Stored
    <2>2. /\ cache' = s /\ hw' = s
          /\ written' = [q \in RegNames |->
                IF q = r THEN MustShow(q, val) ELSE IF File[q] = File[r] THEN <<>> ELSE written[q]]
        BY <1>4, <2>1 DEF cmdfunc_register_write, StoreBack
    <2>3. s \in States
        BY <2>1 DEF Stored
    <2>4. \A f \in {"x0", "pc", "fpsr", "v0"} : f # File[r] => s[f] = cache[f]
        BY <2>1 DEF Stored
    <2>5. ASSUME NEW q \in RegNames
          PROVE  Len(written'[q]) <= 1 /\ (written'[q] # <<>> => <<regtol(s, q)>> = written'[q])
        <3>1. CASE q = r
            BY <2>1, <2>2, <3>1 DEF Stored
        <3>2. CASE q # r /\ File[q] = File[r]
            <4>1. written'[q] = <<>>
                BY <2>2, <3>2
            <4> QED
                BY <4>1
        <3>3. CASE q # r /\ File[q] # File[r]
            <4>1. written'[q] = written[q]
                BY <2>2, <3>3
            <4>2. Len(written[q]) <= 1
                BY <1>1 DEF RegistersTypeOK
            <4>3. written[q] # <<>> => cache = hw /\ <<regtol(hw, q)>> = written[q]
                BY DEF RegistersInv, CopyIsCurrent, ViewShowsWritten
            <4>4. File[q] \in {"x0", "pc", "fpsr", "v0"}
                BY DEF File, RegNames
            <4>5. s[File[q]] = cache[File[q]]
                BY <2>4, <3>3, <4>4
            <4>6. regtol(s, q) = regtol(cache, q)
                BY <4>5, ViewOfPart
            <4> QED
                BY <4>1, <4>2, <4>3, <4>6
        <3> QED
            BY <3>1, <3>2, <3>3
    <2>6. RegistersTypeOK'
        <3>1. DOMAIN written' = RegNames
            BY <2>2
        <3> QED
            BY <1>1, <1>2, <2>2, <2>3, <2>5, <3>1 DEF RegistersTypeOK
    <2>7. ViewShowsWritten'
        <3>1. \A q \in RegNames : written'[q] # <<>> => <<regtol(hw', q)>> = written'[q]
            BY <2>2, <2>5
        <3> QED
            BY <3>1 DEF ViewShowsWritten, regtol, regtoa
    <2>8. CopyIsCurrent'
        BY <1>2, <2>2 DEF CopyIsCurrent
    <2> QED
        BY <2>2, <2>3, <2>4, <2>6, <2>7, <2>8 DEF RegistersInv
<1> QED
    BY <1>3, <1>4

\* Every step keeps RegistersInv.
LEMMA RegistersStep ==
    ASSUME RegistersInv, [RegistersNext]_registers
    PROVE  RegistersInv'
<1>1. /\ hw \in States /\ cache \in States /\ attached \in BOOLEAN /\ ran \in BOOLEAN
      /\ ~ran => cache = hw
    BY DEF RegistersInv, RegistersTypeOK, CopyIsCurrent
<1>2. CASE UNCHANGED registers
    BY <1>1, <1>2, FetchKeeps DEF registers
<1>3. ASSUME NEW x \in WriteNames, NEW val \in WriteValues, cmdfunc_register_write(x, val)
      PROVE  RegistersInv'
    BY <1>3, WriteKeeps
<1>4. CASE cmdfunc_register_view \/ ops_threadupdate
    <2>1. cache' = hw /\ ran' = FALSE /\ UNCHANGED <<attached, hw, written>>
        BY <1>1, <1>4, Fetches DEF cmdfunc_register_view, ops_threadupdate, update_all_thread_states
    <2> QED
        BY <1>1, <2>1, FetchKeeps
<1>5. CASE cmdfunc_register_view_all \/ handle_exception
    <2>1. cache' = get_thread_state(cache) /\ UNCHANGED <<attached, hw, ran, written>>
        BY <1>5 DEF cmdfunc_register_view_all, handle_exception
    <2>2. cache' \in States /\ (cache = hw => cache' = hw)
        BY <1>1, <2>1, Fetches
    <2> QED
        BY <1>1, <2>1, <2>2, FetchKeeps
<1>6. ASSUME NEW s \in Runs, ThreadRuns(s)
      PROVE  RegistersInv'
    BY <1>1, <1>6, RunsAssumption, ForgettingKeeps DEF ThreadRuns
<1>7. ASSUME NEW s \in Runs, cmdfunc_attach(s)
      PROVE  RegistersInv'
    <2>1. \A r \in RegNames : written[r] = <<>>
        BY <1>7 DEF cmdfunc_attach, RegistersInv, CopyIsCurrent
    <2>2. /\ attached' \in BOOLEAN /\ ran' \in BOOLEAN /\ hw' \in States
          /\ cache' = hw' /\ written' = written
        BY <1>7, RunsAssumption DEF cmdfunc_attach
    <2>3. RegistersTypeOK'
        BY <2>2 DEF RegistersInv, RegistersTypeOK
    <2> QED
        BY <2>1, <2>2, <2>3 DEF RegistersInv, CopyIsCurrent, ViewShowsWritten
<1>8. CASE ops_detach
    BY <1>1, <1>8, ForgettingKeeps DEF ops_detach
<1> QED
    BY <1>2, <1>3, <1>4, <1>5, <1>6, <1>7, <1>8 DEF RegistersNext

\* RegistersInv is an invariant of every sequence of register commands, fetches
\* and runs of the thread.
THEOREM RegistersInductive == RegistersSpec => []RegistersInv
<1>1. RegistersInit => RegistersInv
    BY RegistersStart
<1>2. RegistersInv /\ [RegistersNext]_registers => RegistersInv'
    BY RegistersStep
<1> QED
    BY <1>1, <1>2, PTL DEF RegistersSpec

\* A register shows what was written to it until the thread runs, it is let
\* go, or a register that overlaps it is written: setreg's conversions and the
\* whole-copy store of cmdfunc_register_write lose nothing of it.
THEOREM WrittenIsShown == RegistersSpec => []ViewShowsWritten
<1>1. RegistersInv => ViewShowsWritten
    BY DEF RegistersInv
<1> QED
    BY <1>1, RegistersInductive, PTL

\* A write changes one part of the registers of a thread that has not run
\* since its state was fetched, although it stores all of them.
THEOREM OthersAreKept == RegistersSpec => WriteKeepsOthers
<1> DEFINE Kept == attached /\ ~ran /\ ~ran' => Cardinality({f \in DOMAIN hw : hw[f] # hw'[f]}) <= 1
<1>1. RegistersInv /\ [RegistersNext]_registers => [Kept]_registers
    <2> SUFFICES ASSUME RegistersInv, RegistersNext, attached, ~ran, ~ran'
                 PROVE  Cardinality({f \in DOMAIN hw : hw[f] # hw'[f]}) <= 1
        OBVIOUS
    <2>1. hw \in States /\ cache = hw /\ DOMAIN hw = {"x0", "pc", "fpsr", "v0"}
        BY DEF RegistersInv, RegistersTypeOK, CopyIsCurrent, States
    <2>2. \E g : {f \in DOMAIN hw : hw[f] # hw'[f]} \subseteq {g}
        <3>1. ASSUME NEW x \in WriteNames, NEW val \in WriteValues, cmdfunc_register_write(x, val)
              PROVE  \E g : {f \in DOMAIN hw : hw[f] # hw'[f]} \subseteq {g}
            <4>1. CASE UNCHANGED hw
                BY <4>1
            <4>2. CASE \E r \in RegNames : \A f \in {"x0", "pc", "fpsr", "v0"} : f # File[r] => hw'[f] = cache[f]
                BY <2>1, <4>2
            <4> QED
                BY <3>1, <4>1, <4>2, WriteKeeps
        <3>2. CASE \/ cmdfunc_register_view \/ cmdfunc_register_view_all
                   \/ handle_exception \/ ops_threadupdate \/ ops_detach
            <4>1. UNCHANGED hw
                BY <3>2 DEF cmdfunc_register_view, cmdfunc_register_view_all, handle_exception, ops_threadupdate, ops_detach
            <4> QED
                BY <4>1
        <3>3. ~ \E s \in Runs : ThreadRuns(s) \/ cmdfunc_attach(s)
            BY DEF ThreadRuns, cmdfunc_attach
        <3> QED
            BY <3>1, <3>2, <3>3 DEF RegistersNext
    <2>3. PICK g : {f \in DOMAIN hw : hw[f] # hw'[f]} \subseteq {g}
        BY <2>2
    <2>4. IsFiniteSet({g}) /\ Cardinality({g}) = 1
        BY FS_Singleton
    <2>5. Cardinality({f \in DOMAIN hw : hw[f] # hw'[f]}) <= Cardinality({g})
        BY <2>3, <2>4, FS_Subset
    <2> QED
        BY <2>4, <2>5
<1> QED
    BY <1>1, RegistersInductive, PTL DEF RegistersSpec, WriteKeepsOthers

----------------------------------------------------------------------------
(* The convenience variables.                                              *)

\* A set of naturals that is not empty has a least element.
LEMMA LeastNat ==
    ASSUME NEW S, S \subseteq Nat, S # {}
    PROVE  \E i \in S : \A j \in S : i <= j
<1> DEFINE R == OpToRel(<, Nat)
<1>1. IsWellFoundedOn(R, Nat)
    BY NatLessThanWellFounded DEF OpToRel
<1>2. PICK i \in S : \A j \in S : <<j, i>> \notin R
    <2> HIDE DEF R
    <2> QED
        BY <1>1, WFMin
<1>3. \A j \in S : ~(j < i)
    BY <1>2 DEF OpToRel
<1> QED
    BY <1>3

\* What lookup_convvar finds: the place of an entry with the name, one that was
\* freed only if its text is still held; 0 when there is none.
LEMMA LookupIs ==
    ASSUME vars \in Seq(Entries), NEW x \in Names \ bad_names, NEW held \in BOOLEAN
    PROVE  \/ /\ lookup_convvar(x, held) = 0
              /\ \A i \in DOMAIN vars : vars[i].name = x => vars[i].freed /\ ~held
           \/ /\ lookup_convvar(x, held) \in DOMAIN vars
              /\ vars[lookup_convvar(x, held)].name = x
              /\ vars[lookup_convvar(x, held)].freed => held
<1>1. DOMAIN vars = 1 .. Len(vars) /\ Len(vars) \in Nat
    BY LenProperties
<1> DEFINE At == {i \in DOMAIN vars : vars[i].name = x /\ (vars[i].freed => held)}
<1>2. At \subseteq Nat
    BY <1>1
<1>3. ~invalid_name(x)
    BY DEF invalid_name
<1>4. CASE At = {}
    <2>1. lookup_convvar(x, held) = 0
        BY <1>4 DEF lookup_convvar
    <2>2. \A i \in DOMAIN vars : vars[i].name = x => vars[i].freed /\ ~held
        BY <1>4
    <2> QED
        BY <2>1, <2>2
<1>5. CASE At # {}
    <2>1. lookup_convvar(x, held) = CHOOSE i \in At : \A j \in At : i <= j
        BY <1>3, <1>5 DEF lookup_convvar
    <2>2. \E i \in At : \A j \in At : i <= j
        <3> HIDE DEF At
        <3> QED
            BY <1>2, <1>5, LeastNat
    <2>3. lookup_convvar(x, held) \in At
        <3> HIDE DEF At
        <3> QED
            BY <2>1, <2>2
    <2> QED
        BY <2>3
<1> QED
    BY <1>4, <1>5

\* When nothing is found, all entries with the name were freed.
LEMMA NotFound ==
    ASSUME vars \in Seq(Entries), NEW x \in Names \ bad_names, NEW held \in BOOLEAN,
           lookup_convvar(x, held) = 0
    PROVE  \A i \in DOMAIN vars : vars[i].name = x => vars[i].freed
<1>1. 0 \notin DOMAIN vars
    BY LenProperties
<1>2. ~(lookup_convvar(x, held) \in DOMAIN vars)
    BY <1>1
<1>3. \A i \in DOMAIN vars : vars[i].name = x => vars[i].freed /\ ~held
    BY <1>2, LookupIs, Zenon
<1> QED
    BY <1>3, Zenon

\* An entry that is given a new kind and a text.
Updated(var, text, e) ==
    /\ e \in Entries
    /\ e.name = var.name
    /\ var.freed => e.freed
    /\ ~Fails(text) => (e.freed => var.freed) /\ convvar_strval(e) = Meaning(text)

LEMMA UpdateIs ==
    ASSUME NEW var \in Entries, NEW text \in Texts, var.kind = determine_kind(text)
    PROVE  Updated(var, text, update_convvar(var, text))
<1>1. PICK n \in Longs, t \in TextKinds : text = [t |-> t, v |-> n]
    BY DEF Texts
<1>2. text.t = t /\ text.v = n
    BY <1>1
<1>3. PICK e : e = update_convvar(var, text)
    OBVIOUS
<1>4. CASE t = "empty"
    <2>1. e = [var EXCEPT !.state = "void"]
        BY <1>2, <1>3, <1>4 DEF update_convvar, determine_kind
    <2>2. e \in Entries /\ e.name = var.name /\ e.freed = var.freed /\ e.state = "void"
        BY <2>1 DEF Entries
    <2>3. convvar_strval(e) = Void /\ Meaning(text) = Void
        BY <1>2, <1>4, <2>2 DEF convvar_strval, Meaning
    <2> QED
        BY <1>3, <2>2, <2>3 DEF Updated
<1>5. CASE t \in {"int", "badint", "dbl", "baddbl"}
    <2>1. var.kind = (IF t \in {"int", "badint"} THEN "int" ELSE "dbl") /\ var.kind \in {"int", "dbl"}
        BY <1>2, <1>5 DEF determine_kind
    <2>2. PICK d \in Data : d = [t |-> var.kind, v |-> n]
        BY <2>1 DEF Data
    <2>3. CASE Fails(text)
        <3>1. e = [var EXCEPT !.data = d, !.freed = TRUE, !.state = var.state]
            BY <1>2, <1>3, <1>5, <2>1, <2>2, <2>3 DEF update_convvar, Entries
        <3>2. e \in Entries /\ e.name = var.name /\ e.freed
            BY <3>1 DEF Entries
        <3> QED
            BY <1>3, <2>3, <3>2 DEF Updated
    <2>4. CASE ~Fails(text)
        <3>1. e = [var EXCEPT !.data = d, !.freed = var.freed, !.state = "nonvoid"]
            BY <1>2, <1>3, <1>5, <2>1, <2>2, <2>4 DEF update_convvar, Entries
        <3>2. /\ e \in Entries /\ e.name = var.name /\ e.freed = var.freed
              /\ e.state = "nonvoid" /\ e.data = d /\ e.kind = var.kind
            BY <3>1 DEF Entries
        <3>3. t \in {"int", "dbl"} /\ t = var.kind
            BY <1>2, <1>5, <2>1, <2>4 DEF Fails
        <3>4. convvar_strval(e) = [t |-> t, v |-> n]
            BY <2>2, <3>2, <3>3 DEF convvar_strval
        <3>5. Meaning(text) = text
            BY <1>2, <3>3 DEF Meaning
        <3> QED
            BY <1>1, <1>3, <3>2, <3>4, <3>5 DEF Updated
    <2> QED
        BY <2>3, <2>4
<1>6. CASE t = "str"
    <2>1. var.kind = "str"
        BY <1>2, <1>6 DEF determine_kind
    <2>2. PICK d \in Data : d = [t |-> "ptr", v |-> n]
        BY DEF Data
    <2>3. e = [var EXCEPT !.data = d, !.state = "nonvoid"]
        BY <1>2, <1>3, <1>6, <2>1, <2>2 DEF update_convvar
    <2>4. /\ e \in Entries /\ e.name = var.name /\ e.freed = var.freed
          /\ e.state = "nonvoid" /\ e.data = d /\ e.kind = "str"
        BY <2>1, <2>3 DEF Entries
    <2>5. convvar_strval(e) = [t |-> "str", v |-> n]
        BY <2>2, <2>4 DEF convvar_strval
    <2>6. Meaning(text) = text
        BY <1>2, <1>6 DEF Meaning
    <2> QED
        BY <1>1, <1>3, <1>6, <2>4, <2>5, <2>6 DEF Updated
<1>7. CASE t = "dots"
    <2>1. var.kind = "none" /\ Fails(text)
        BY <1>2, <1>7 DEF determine_kind, Fails
    <2>2. e = [var EXCEPT !.state = "nonvoid"]
        BY <1>2, <1>3, <1>7, <2>1 DEF update_convvar
    <2>3. e \in Entries /\ e.name = var.name /\ e.freed = var.freed
        BY <2>2 DEF Entries
    <2> QED
        BY <1>3, <2>1, <2>3 DEF Updated
<1> QED
    BY <1>4, <1>5, <1>6, <1>7 DEF TextKinds

\* What keeps VariablesShowWhatWasSet: a name has one entry that was not freed,
\* so that a set reaches the one that is shown; a name that was ever set
\* successfully is in the list, so that `variable unset' finds it; and every
\* entry shows what its name was set to, unless a failed set spoilt it.
NoTwins ==
    \A i, j \in DOMAIN vars : vars[i].name = vars[j].name /\ ~vars[i].freed /\ ~vars[j].freed => i = j

Listed ==
    \A x \in Names \ bad_names : want[x] # Absent => \E i \in DOMAIN vars : vars[i].name = x

WasFreed(x) == \E j \in DOMAIN vars : vars[j].name = x /\ vars[j].freed

EntriesShow ==
    \A i \in DOMAIN vars :
        \/ want[vars[i].name] = Spoilt
        \/ WasFreed(vars[i].name)
        \/ convvar_strval(vars[i]) = want[vars[i].name]

ConvVarsInv == ConvVarsTypeOK /\ NoTwins /\ Listed /\ EntriesShow

\* The words for nothing at all are no value of an entry.
LEMMA NeverAbsent ==
    ASSUME NEW e
    PROVE  convvar_strval(e) # Absent
<1>1. convvar_strval(e).t \in {"void", "str", "dbl", "int"}
    BY DEF convvar_strval, Void
<1>2. Absent.t = "absent"
    BY DEF Absent
<1> QED
    BY <1>1, <1>2

\* The marks of the history are what a name may hold.
LEMMA Marks == Void \in Shown /\ Absent \in Shown /\ Spoilt \in Shown /\ Absent # Spoilt /\ Absent # Void
<1>1. 0 \in Longs
    BY Powers DEF Longs
<1>2. Absent.t = "absent" /\ Spoilt.t = "spoilt" /\ Void.t = "void"
    BY DEF Absent, Spoilt, Void
<1>3. Void \in Shown /\ Absent \in Shown /\ Spoilt \in Shown
    BY <1>1 DEF Void, Absent, Spoilt, Shown
<1> QED
    BY <1>2, <1>3

\* The entries of the list have names that are no register's.
LEMMA EntryNames ==
    ASSUME vars \in Seq(Entries), NEW i \in DOMAIN vars
    PROVE  vars[i] \in Entries /\ vars[i].name \in Names \ bad_names
<1>1. vars[i] \in Entries
    BY ElementOfSeq, LenProperties
<1> QED
    BY <1>1 DEF Entries

\* A set that leaves the list as it is.
LEMMA SameKeeps ==
    ASSUME ConvVarsInv, NEW x \in Names \ bad_names, NEW w \in Shown,
           UNCHANGED vars, want' = [want EXCEPT ![x] = w],
           \A i \in DOMAIN vars : vars[i].name = x => vars[i].freed,
           w # Absent => want[x] # Absent
    PROVE  ConvVarsInv'
<1>1. ConvVarsTypeOK /\ NoTwins /\ Listed /\ EntriesShow
    BY DEF ConvVarsInv
<1>2. want \in [Names -> Shown] /\ vars \in Seq(Entries)
    BY <1>1 DEF ConvVarsTypeOK
<1>3. want'[x] = w /\ \A y \in Names : y # x => want'[y] = want[y]
    BY <1>2
<1>4. ConvVarsTypeOK'
    BY <1>2 DEF ConvVarsTypeOK
<1>5. NoTwins'
    BY <1>1 DEF NoTwins
<1>6. Listed'
    BY <1>1, <1>3 DEF Listed
<1>7. EntriesShow'
    <2> SUFFICES ASSUME NEW i \in DOMAIN vars
                 PROVE  \/ want'[vars[i].name] = Spoilt
                        \/ \E j \in DOMAIN vars : vars[j].name = vars[i].name /\ vars[j].freed
                        \/ convvar_strval(vars[i]) = want'[vars[i].name]
        BY DEF EntriesShow, WasFreed, convvar_strval
    <2>1. vars[i].name \in Names
        BY <1>2, EntryNames
    <2>2. CASE vars[i].name = x
        BY <2>2
    <2>3. CASE vars[i].name # x
        BY <1>1, <1>3, <2>1, <2>3 DEF EntriesShow, WasFreed
    <2> QED
        BY <2>2, <2>3
<1> QED
    BY <1>4, <1>5, <1>6, <1>7 DEF ConvVarsInv

\* A set that puts a new entry at the end of the list.
LEMMA AppendKeeps ==
    ASSUME ConvVarsInv, NEW x \in Names \ bad_names, NEW w \in Shown, NEW e \in Entries,
           e.name = x, ~e.freed, convvar_strval(e) = w,
           vars' = Append(vars, e), want' = [want EXCEPT ![x] = w],
           \A i \in DOMAIN vars : vars[i].name = x => vars[i].freed
    PROVE  ConvVarsInv'
<1>1. ConvVarsTypeOK /\ NoTwins /\ Listed /\ EntriesShow
    BY DEF ConvVarsInv
<1>2. want \in [Names -> Shown] /\ vars \in Seq(Entries)
    BY <1>1 DEF ConvVarsTypeOK
<1>3. want'[x] = w /\ \A y \in Names : y # x => want'[y] = want[y]
    BY <1>2
<1>4. PICK n \in Nat : n = Len(vars)
    BY <1>2, LenProperties
<1>5. /\ vars' \in Seq(Entries) /\ DOMAIN vars = 1 .. n /\ DOMAIN vars' = 1 .. n + 1
      /\ vars'[n + 1] = e /\ \A i \in 1 .. n : vars'[i] = vars[i]
    BY <1>2, <1>4, AppendProperties, LenProperties
<1>6. DOMAIN vars' = DOMAIN vars \cup {n + 1}
    BY <1>5
<1>7. ConvVarsTypeOK'
    BY <1>2, <1>5 DEF ConvVarsTypeOK
<1>8. NoTwins'
    <2> SUFFICES ASSUME NEW i \in DOMAIN vars', NEW j \in DOMAIN vars', vars'[i].name = vars'[j].name,
                        ~vars'[i].freed, ~vars'[j].freed
                 PROVE  i = j
        BY DEF NoTwins
    <2>1. CASE i \in 1 .. n /\ j \in 1 .. n
        BY <1>1, <1>5, <2>1 DEF NoTwins
    <2>2. CASE i = n + 1 \/ j = n + 1
        BY <1>5, <1>6, <2>2
    <2> QED
        BY <1>5, <1>6, <2>1, <2>2
<1>9. Listed'
    <2> SUFFICES ASSUME NEW y \in Names \ bad_names, want'[y] # Absent
                 PROVE  \E i \in DOMAIN vars' : vars'[i].name = y
        BY DEF Listed
    <2>1. CASE y = x
        BY <1>5, <1>6, <2>1
    <2>2. CASE y # x
        BY <1>1, <1>3, <1>5, <1>6, <2>2 DEF Listed
    <2> QED
        BY <2>1, <2>2
<1>10. EntriesShow'
    <2> SUFFICES ASSUME NEW i \in DOMAIN vars'
                 PROVE  \/ want'[vars'[i].name] = Spoilt
                        \/ \E j \in DOMAIN vars' : vars'[j].name = vars'[i].name /\ vars'[j].freed
                        \/ convvar_strval(vars'[i]) = want'[vars'[i].name]
        BY DEF EntriesShow, WasFreed, convvar_strval
    <2>1. CASE i = n + 1
        BY <1>3, <1>5, <2>1
    <2>2. CASE i \in 1 .. n
        <3>1. vars[i].name \in Names /\ vars'[i] = vars[i]
            BY <1>2, <1>5, <2>2, EntryNames
        <3>2. CASE vars[i].name = x
            BY <1>5, <1>6, <2>2, <3>1, <3>2
        <3>3. CASE vars[i].name # x
            <4>1. \/ want[vars[i].name] = Spoilt
                  \/ \E j \in DOMAIN vars : vars[j].name = vars[i].name /\ vars[j].freed
                  \/ convvar_strval(vars[i]) = want[vars[i].name]
                BY <1>1, <1>5, <2>2 DEF EntriesShow, WasFreed
            <4> QED
                BY <1>3, <1>5, <1>6, <3>1, <3>3, <4>1
        <3> QED
            BY <3>2, <3>3
    <2> QED
        BY <1>5, <1>6, <2>1, <2>2
<1> QED
    BY <1>7, <1>8, <1>9, <1>10 DEF ConvVarsInv

\* A set or an unset that changes an entry of the list.
LEMMA ChangeKeeps ==
    ASSUME ConvVarsInv, NEW x \in Names \ bad_names, NEW w \in Shown, NEW e \in Entries,
           NEW i \in DOMAIN vars, vars[i].name = x, e.name = x, vars[i].freed => e.freed,
           vars' = [vars EXCEPT ![i] = e], want' = [want EXCEPT ![x] = w],
           w = Spoilt \/ WasFreed(x) \/ e.freed \/ convvar_strval(e) = w
    PROVE  ConvVarsInv'
<1>1. ConvVarsTypeOK /\ NoTwins /\ Listed /\ EntriesShow
    BY DEF ConvVarsInv
<1>2. want \in [Names -> Shown] /\ vars \in Seq(Entries)
    BY <1>1 DEF ConvVarsTypeOK
<1>3. want'[x] = w /\ \A y \in Names : y # x => want'[y] = want[y]
    BY <1>2
<1>4. /\ vars' \in Seq(Entries) /\ DOMAIN vars' = DOMAIN vars
      /\ vars'[i] = e /\ \A j \in DOMAIN vars : j # i => vars'[j] = vars[j]
    BY <1>2, ExceptSeq, LenProperties
<1>5. \A j \in DOMAIN vars : vars'[j].name = vars[j].name /\ (vars[j].freed => vars'[j].freed)
    BY <1>4
<1>6. ConvVarsTypeOK'
    BY <1>2, <1>4 DEF ConvVarsTypeOK
<1>7. NoTwins'
    BY <1>1, <1>4, <1>5 DEF NoTwins
<1>8. Listed'
    <2> SUFFICES ASSUME NEW y \in Names \ bad_names, want'[y] # Absent
                 PROVE  \E j \in DOMAIN vars' : vars'[j].name = y
        BY DEF Listed
    <2>1. CASE y = x
        BY <1>4, <1>5, <2>1
    <2>2. CASE y # x
        BY <1>1, <1>3, <1>4, <1>5, <2>2 DEF Listed
    <2> QED
        BY <2>1, <2>2
<1>9. ASSUME NEW y, WasFreed(y)
      PROVE  \E k \in DOMAIN vars' : vars'[k].name = y /\ vars'[k].freed
    BY <1>4, <1>5, <1>9 DEF WasFreed
<1>10. EntriesShow'
    <2> SUFFICES ASSUME NEW j \in DOMAIN vars
                 PROVE  \/ want'[vars'[j].name] = Spoilt
                        \/ \E k \in DOMAIN vars' : vars'[k].name = vars'[j].name /\ vars'[k].freed
                        \/ convvar_strval(vars'[j]) = want'[vars'[j].name]
        BY <1>4 DEF EntriesShow, WasFreed, convvar_strval
    <2>1. CASE j = i
        BY <1>3, <1>4, <1>9, <2>1
    <2>2. CASE j # i /\ vars[j].name = x
        <3>1. vars[i].freed \/ vars[j].freed
            BY <1>1, <2>2 DEF NoTwins
        <3> QED
            BY <1>4, <1>5, <2>2, <3>1
    <2>3. CASE j # i /\ vars[j].name # x
        <3>1. vars[j].name \in Names /\ vars'[j] = vars[j]
            BY <1>2, <1>4, <2>3, EntryNames
        <3>2. \/ want[vars[j].name] = Spoilt
              \/ WasFreed(vars[j].name)
              \/ convvar_strval(vars[j]) = want[vars[j].name]
            BY <1>1 DEF EntriesShow
        <3> QED
            BY <1>3, <1>9, <2>3, <3>1, <3>2
    <2> QED
        BY <2>1, <2>2, <2>3
<1> QED
    BY <1>6, <1>7, <1>8, <1>10 DEF ConvVarsInv

\* A name of a register is never set.
LEMMA BadNamesKeep ==
    ASSUME ConvVarsInv, NEW x \in bad_names,
           UNCHANGED vars, want' = [want EXCEPT ![x] = want[x]]
    PROVE  ConvVarsInv'
<1>1. want' = want
    BY ConvVarsAssumption DEF ConvVarsInv, ConvVarsTypeOK
<1> QED
    BY <1>1 DEF ConvVarsInv, ConvVarsTypeOK, NoTwins, Listed, EntriesShow, WasFreed, convvar_strval

\* `variable set', `evaluate' and the debugger's own sets.
LEMMA SetKeeps ==
    ASSUME ConvVarsInv, NEW x \in Names, NEW text \in Texts, NEW held \in BOOLEAN, Set(x, text, held)
    PROVE  ConvVarsInv'
<1>1. vars \in Seq(Entries) /\ want \in [Names -> Shown]
    BY DEF ConvVarsInv, ConvVarsTypeOK
<1>2. vars' = set_convvar(x, text, held) /\ want' = [want EXCEPT ![x] = Wanted(x, text)]
    BY DEF Set
<1>3. CASE x \in bad_names
    <2>1. vars' = vars /\ Wanted(x, text) = want[x]
        BY <1>2, <1>3 DEF set_convvar, Wanted, invalid_name
    <2> QED
        BY <1>2, <1>3, <2>1, BadNamesKeep
<1>4. CASE x \notin bad_names
    <2>1. PICK w : w = Wanted(x, text)
        OBVIOUS
    <2>2. w = IF Fails(text) THEN (IF want[x] = Absent THEN Absent ELSE Spoilt) ELSE Meaning(text)
        BY <1>4, <2>1 DEF Wanted, invalid_name
    <2>3. Meaning(text) \in Shown \/ Fails(text)
        BY Marks DEF Meaning, Texts, TextKinds, Shown, Fails
    <2>4. w \in Shown
        BY <2>2, <2>3, Marks
    <2>5. want' = [want EXCEPT ![x] = w]
        BY <1>2, <2>1
    <2>6. PICK i : i = lookup_convvar(x, held)
        OBVIOUS
    <2>7. CASE i = 0
        <3>1. vars' = create_convvar(x, text)
            BY <1>2, <1>4, <2>6, <2>7 DEF set_convvar, invalid_name
        <3>2. lookup_convvar(x, held) = 0 /\ x \in Names \ bad_names
            BY <1>4, <2>6, <2>7
        <3>3. \A j \in DOMAIN vars : vars[j].name = x => vars[j].freed
            BY <1>1, <3>2, NotFound, Zenon
        <3>4. CASE Fails(text)
            <4>1. vars' = vars
                BY <3>1, <3>4 DEF create_convvar
            <4>2. w # Absent => want[x] # Absent
                BY <2>2, <3>4
            <4> QED
                BY <1>4, <2>4, <2>5, <3>3, <4>1, <4>2, SameKeeps
        <3>5. CASE ~Fails(text)
            <4>1. PICK new : new = [name |-> x, kind |-> determine_kind(text), data |-> [t |-> "junk", v |-> 0],
                                    freed |-> FALSE, state |-> IF determine_kind(text) = "void" THEN "void" ELSE "nonvoid"]
                OBVIOUS
            <4>2. determine_kind(text) \in Kinds /\ [t |-> "junk", v |-> 0] \in Data
                <5>1. 0 \in Longs
                    BY Powers DEF Longs
                <5> QED
                    BY <5>1 DEF determine_kind, Kinds, Data
            <4>3. new \in Entries /\ new.kind = determine_kind(text) /\ new.name = x /\ ~new.freed
                BY <1>4, <4>1, <4>2 DEF Entries
            <4>4. PICK e : e = update_convvar(new, text)
                OBVIOUS
            <4>5. vars' = Append(vars, e)
                BY <3>1, <3>5, <4>1, <4>4 DEF create_convvar
            <4>6. Updated(new, text, e)
                BY <4>3, <4>4, UpdateIs
            <4>7. e \in Entries /\ e.name = x /\ ~e.freed /\ convvar_strval(e) = Meaning(text)
                BY <3>5, <4>3, <4>6 DEF Updated
            <4>8. w = Meaning(text)
                BY <2>2, <3>5
            <4> QED
                BY <1>4, <2>4, <2>5, <3>3, <4>5, <4>7, <4>8, AppendKeeps
        <3> QED
            BY <3>4, <3>5
    <2>8. CASE i # 0
        <3>1. i \in DOMAIN vars /\ vars[i].name = x
            BY <1>1, <1>4, <2>6, <2>8, LookupIs
        <3>2. PICK var : var = [vars[i] EXCEPT !.kind = determine_kind(text)]
            OBVIOUS
        <3>3. vars[i] \in Entries
            BY <1>1, <3>1, EntryNames
        <3>4. /\ var \in Entries /\ var.kind = determine_kind(text) /\ var.name = x
              /\ var.freed = vars[i].freed
            <4>1. determine_kind(text) \in Kinds
                BY DEF determine_kind, Kinds
            <4> QED
                BY <3>1, <3>2, <3>3, <4>1 DEF Entries
        <3>5. PICK e : e = update_convvar(var, text)
            OBVIOUS
        <3>6. vars' = [vars EXCEPT ![i] = e]
            BY <1>2, <1>4, <2>6, <2>8, <3>2, <3>5 DEF set_convvar, invalid_name
        <3>7. Updated(var, text, e)
            BY <3>4, <3>5, UpdateIs
        <3>8. e \in Entries /\ e.name = x /\ (vars[i].freed => e.freed)
            BY <3>4, <3>7 DEF Updated
        <3>9. w = Spoilt \/ WasFreed(x) \/ e.freed \/ convvar_strval(e) = w
            <4>1. CASE ~Fails(text)
                BY <2>2, <3>7, <4>1 DEF Updated
            <4>2. CASE Fails(text) /\ want[x] # Absent
                BY <2>2, <4>2
            <4>3. CASE want[x] = Absent
                <5>1. want[x] = Spoilt \/ WasFreed(x) \/ convvar_strval(vars[i]) = want[x]
                    BY <3>1 DEF ConvVarsInv, EntriesShow
                <5> QED
                    BY <4>3, <5>1, NeverAbsent, Marks
            <4> QED
                BY <4>1, <4>2, <4>3
        <3> QED
            BY <1>4, <2>4, <2>5, <3>1, <3>6, <3>8, <3>9, ChangeKeeps
    <2> QED
        BY <2>7, <2>8
<1> QED
    BY <1>3, <1>4

\* `variable unset'.
LEMMA UnsetKeeps ==
    ASSUME ConvVarsInv, NEW x \in Names, cmdfunc_variable_unset(x)
    PROVE  ConvVarsInv'
<1>1. vars \in Seq(Entries) /\ want \in [Names -> Shown]
    BY DEF ConvVarsInv, ConvVarsTypeOK
<1>2. PICK held \in BOOLEAN : vars' = void_convvar(x, held)
    BY DEF cmdfunc_variable_unset
<1>3. want' = [want EXCEPT ![x] = IF x \in bad_names \/ want[x] = Absent THEN want[x] ELSE Void]
    BY <1>1 DEF cmdfunc_variable_unset, invalid_name
<1>4. CASE x \in bad_names
    <2>1. vars' = vars
        BY <1>2, <1>4 DEF void_convvar, lookup_convvar, invalid_name
    <2> QED
        BY <1>3, <1>4, <2>1, BadNamesKeep
<1>5. CASE x \notin bad_names
    <2>1. PICK w : w = IF want[x] = Absent THEN want[x] ELSE Void
        OBVIOUS
    <2>2. want' = [want EXCEPT ![x] = w] /\ w \in Shown
        BY <1>1, <1>3, <1>5, <2>1, Marks
    <2>3. PICK i : i = lookup_convvar(x, held)
        OBVIOUS
    <2>4. CASE i = 0
        <3>1. vars' = vars
            BY <1>2, <2>3, <2>4 DEF void_convvar
        <3>2. lookup_convvar(x, held) = 0 /\ x \in Names \ bad_names
            BY <1>5, <2>3, <2>4
        <3>3. \A j \in DOMAIN vars : vars[j].name = x => vars[j].freed
            BY <1>1, <3>2, NotFound, Zenon
        <3>4. w # Absent => want[x] # Absent
            BY <2>1
        <3> QED
            BY <1>5, <2>2, <3>1, <3>3, <3>4, SameKeeps
    <2>5. CASE i # 0
        <3>1. i \in DOMAIN vars /\ vars[i].name = x
            BY <1>1, <1>5, <2>3, <2>5, LookupIs
        <3>2. vars[i] \in Entries
            BY <1>1, <3>1, EntryNames
        <3>3. PICK e : e = [vars[i] EXCEPT !.state = "void"]
            OBVIOUS
        <3>4. vars' = [vars EXCEPT ![i] = e]
            BY <1>1, <1>2, <2>3, <2>5, <3>1, <3>3 DEF void_convvar
        <3>5. e \in Entries /\ e.name = x /\ e.freed = vars[i].freed /\ e.state = "void"
            BY <3>1, <3>2, <3>3 DEF Entries
        <3>6. convvar_strval(e) = Void
            BY <3>5 DEF convvar_strval
        <3>7. w = Spoilt \/ WasFreed(x) \/ e.freed \/ convvar_strval(e) = w
            <4>1. CASE want[x] # Absent
                BY <2>1, <3>6, <4>1
            <4>2. CASE want[x] = Absent
                <5>1. want[x] = Spoilt \/ WasFreed(x) \/ convvar_strval(vars[i]) = want[x]
                    BY <3>1 DEF ConvVarsInv, EntriesShow
                <5> QED
                    BY <4>2, <5>1, NeverAbsent, Marks
            <4> QED
                BY <4>1, <4>2
        <3> QED
            BY <1>5, <2>2, <3>1, <3>4, <3>5, <3>7, ChangeKeeps
    <2> QED
        BY <2>4, <2>5
<1> QED
    BY <1>4, <1>5

\* ConvVarsInv holds at first: the debugger's own variables are void.
LEMMA ConvVarsStart == ConvVarsInit => ConvVarsInv
<1> SUFFICES ASSUME ConvVarsInit
             PROVE  ConvVarsInv
    OBVIOUS
<1>1. Own \in Seq(Names \ bad_names) /\ \A i, j \in DOMAIN Own : Own[i] = Own[j] => i = j
    BY OwnAssumption
<1>2. DOMAIN Own = 1 .. Len(Own) /\ Len(Own) \in Nat /\ \A i \in DOMAIN Own : Own[i] \in Names \ bad_names
    BY <1>1, ElementOfSeq, LenProperties
<1> DEFINE E(x) == [name |-> x, kind |-> "void", state |-> "void", freed |-> FALSE, data |-> [t |-> "junk", v |-> 0]]
<1>3. \A x \in Names \ bad_names : E(x) \in Entries /\ E(x).name = x /\ ~E(x).freed /\ convvar_strval(E(x)) = Void
    <2>1. 0 \in Longs
        BY Powers DEF Longs
    <2>2. ASSUME NEW x \in Names \ bad_names
          PROVE  E(x) \in Entries /\ E(x).name = x /\ ~E(x).freed /\ E(x).state = "void"
        BY <2>1 DEF Entries, Kinds, Data
    <2> QED
        BY <2>2 DEF convvar_strval
<1>4. vars = [i \in 1 .. Len(Own) |-> E(Own[i])]
    BY <1>2 DEF ConvVarsInit
<1>5. want = [x \in Names |-> IF x \in ToSet(Own) THEN Void ELSE Absent]
    BY DEF ConvVarsInit
<1> HIDE DEF E
<1>6. DOMAIN vars = DOMAIN Own /\ \A i \in DOMAIN vars : vars[i] = E(Own[i])
    BY <1>2, <1>4
<1>7. vars \in Seq(Entries)
    <2>1. vars \in [1 .. Len(Own) -> Entries]
        BY <1>2, <1>3, <1>4
    <2> QED
        BY <1>2, <2>1, SeqDef
<1>8. \A x : x \in ToSet(Own) <=> \E i \in DOMAIN Own : Own[i] = x
    BY DEF ToSet
<1>9. ConvVarsTypeOK
    BY <1>5, <1>7, Marks DEF ConvVarsTypeOK
<1>10. NoTwins
    BY <1>1, <1>2, <1>3, <1>6 DEF NoTwins
<1>11. Listed
    BY <1>2, <1>3, <1>5, <1>6, <1>8 DEF Listed
<1>12. EntriesShow
    <2> SUFFICES ASSUME NEW i \in DOMAIN vars
                 PROVE  convvar_strval(vars[i]) = want[vars[i].name]
        BY DEF EntriesShow
    <2>1. vars[i] = E(Own[i]) /\ Own[i] \in Names \ bad_names /\ Own[i] \in ToSet(Own)
        BY <1>2, <1>6, <1>8
    <2> QED
        BY <1>3, <1>5, <2>1
<1> QED
    BY <1>9, <1>10, <1>11, <1>12 DEF ConvVarsInv

\* ConvVarsInv is an invariant of every sequence of sets and unsets.
THEOREM ConvVarsInductive == ConvVarsSpec => []ConvVarsInv
<1>1. ConvVarsInit => ConvVarsInv
    BY ConvVarsStart
<1>2. ConvVarsInv /\ [ConvVarsNext]_convvars => ConvVarsInv'
    <2> SUFFICES ASSUME ConvVarsInv, [ConvVarsNext]_convvars
                 PROVE  ConvVarsInv'
        OBVIOUS
    <2>1. CASE UNCHANGED convvars
        BY <2>1 DEF convvars, ConvVarsInv, ConvVarsTypeOK, NoTwins, Listed, EntriesShow, WasFreed, convvar_strval
    <2>2. ASSUME NEW x \in Names, NEW text \in Texts, cmdfunc_variable_set(x, text)
          PROVE  ConvVarsInv'
        BY <2>2, SetKeeps DEF cmdfunc_variable_set
    <2>3. ASSUME NEW x \in Names, cmdfunc_variable_unset(x)
          PROVE  ConvVarsInv'
        BY <2>3, UnsetKeeps
    <2> QED
        BY <2>1, <2>2, <2>3 DEF ConvVarsNext
<1> QED
    BY <1>1, <1>2, PTL DEF ConvVarsSpec

\* A convenience variable shows what it was last set to, whatever kind it had
\* before, unless a failed set spoilt it: set_convvar, update_convvar and
\* void_convvar leave nothing of an earlier value behind.
THEOREM VariablesShown == ConvVarsSpec => []VariablesOK
<1>1. ConvVarsInv => VariablesShowWhatWasSet
    <2> SUFFICES ASSUME ConvVarsInv, NEW x \in Names \ bad_names, want[x] # Spoilt, ~WasFreed(x)
                 PROVE  (IF lookup_convvar(x, TRUE) = 0 THEN Absent
                         ELSE convvar_strval(vars[lookup_convvar(x, TRUE)])) = want[x]
        BY DEF VariablesShowWhatWasSet, WasFreed
    <2>1. PICK i : i = lookup_convvar(x, TRUE)
        OBVIOUS
    <2>2. vars \in Seq(Entries) /\ Listed /\ EntriesShow
        BY DEF ConvVarsInv, ConvVarsTypeOK
    <2>3. CASE i = 0
        <3>1. 0 \notin DOMAIN vars
            BY <2>2, LenProperties
        <3>2. \A j \in DOMAIN vars : vars[j].name # x
            BY <2>1, <2>2, <2>3, <3>1, LookupIs
        <3> QED
            BY <2>1, <2>2, <2>3, <3>2 DEF Listed
    <2>4. CASE i # 0
        <3>1. i \in DOMAIN vars /\ vars[i].name = x
            BY <2>1, <2>2, <2>4, LookupIs
        <3> QED
            BY <2>1, <2>2, <2>4, <3>1 DEF EntriesShow
    <2> QED
        BY <2>3, <2>4
<1>2. ConvVarsInv => VariablesOK
    BY <1>1 DEF ConvVarsInv, VariablesOK
<1> QED
    BY <1>2, ConvVarsInductive, PTL
=============================================================================
