--------------------------- MODULE UvErrnoProofs ---------------------------
(***************************************************************************)
(* Theorems about UvErrno: on every system whose numbers all have the sign *)
(* of EDOM libuv's codes are negative, and where they are apart, too, no   *)
(* two names have the same code.                                           *)
(***************************************************************************)
EXTENDS UvErrno, TLAPS

-----------------------------------------------------------------------------
(* The tables of the header *)

\* Libuv's own codes lie apart from the fallbacks, and no two are the same.
LEMMA OwnCodesDiffer ==
  /\ \A n \in DOMAIN OwnCodes : OwnCodes[n] \in {-4095, -4094} \cup (-3014)..(-3000)
  /\ \A m, n \in DOMAIN OwnCodes : OwnCodes[m] = OwnCodes[n] => m = n
<1>1. ASSUME NEW n \in DOMAIN OwnCodes
      PROVE  OwnCodes[n] \in {-4095, -4094} \cup (-3014)..(-3000)
  BY DEF OwnCodes
<1>2. ASSUME NEW m \in DOMAIN OwnCodes, NEW n \in DOMAIN OwnCodes, OwnCodes[m] = OwnCodes[n]
      PROVE  m = n
  BY <1>2 DEF OwnCodes
<1>q. QED
  BY <1>1, <1>2

\* Each part of the fallbacks has a range of its own, and no two codes of it are the same.
LEMMA E2bigToEexistDiffer ==
  /\ \A n \in DOMAIN FallbackE2bigToEexist : FallbackE2bigToEexist[n] \in (-4093)..(-4075)
  /\ \A m, n \in DOMAIN FallbackE2bigToEexist :
       FallbackE2bigToEexist[m] = FallbackE2bigToEexist[n] => m = n
<1>1. ASSUME NEW n \in DOMAIN FallbackE2bigToEexist
      PROVE  FallbackE2bigToEexist[n] \in (-4093)..(-4075)
  BY DEF FallbackE2bigToEexist
<1>2. ASSUME NEW m \in DOMAIN FallbackE2bigToEexist, NEW n \in DOMAIN FallbackE2bigToEexist,
             FallbackE2bigToEexist[m] = FallbackE2bigToEexist[n]
      PROVE  m = n
  BY <1>2 DEF FallbackE2bigToEexist
<1>q. QED
  BY <1>1, <1>2

LEMMA EfaultToEnonetDiffer ==
  /\ \A n \in DOMAIN FallbackEfaultToEnonet : FallbackEfaultToEnonet[n] \in (-4074)..(-4056)
  /\ \A m, n \in DOMAIN FallbackEfaultToEnonet :
       FallbackEfaultToEnonet[m] = FallbackEfaultToEnonet[n] => m = n
<1>1. ASSUME NEW n \in DOMAIN FallbackEfaultToEnonet
      PROVE  FallbackEfaultToEnonet[n] \in (-4074)..(-4056)
  BY DEF FallbackEfaultToEnonet
<1>2. ASSUME NEW m \in DOMAIN FallbackEfaultToEnonet, NEW n \in DOMAIN FallbackEfaultToEnonet,
             FallbackEfaultToEnonet[m] = FallbackEfaultToEnonet[n]
      PROVE  m = n
  BY <1>2 DEF FallbackEfaultToEnonet
<1>q. QED
  BY <1>1, <1>2

LEMMA EnospcToExdevDiffer ==
  /\ \A n \in DOMAIN FallbackEnospcToExdev : FallbackEnospcToExdev[n] \in (-4055)..(-4037)
  /\ \A m, n \in DOMAIN FallbackEnospcToExdev :
       FallbackEnospcToExdev[m] = FallbackEnospcToExdev[n] => m = n
<1>1. ASSUME NEW n \in DOMAIN FallbackEnospcToExdev
      PROVE  FallbackEnospcToExdev[n] \in (-4055)..(-4037)
  BY DEF FallbackEnospcToExdev
<1>2. ASSUME NEW m \in DOMAIN FallbackEnospcToExdev, NEW n \in DOMAIN FallbackEnospcToExdev,
             FallbackEnospcToExdev[m] = FallbackEnospcToExdev[n]
      PROVE  m = n
  BY <1>2 DEF FallbackEnospcToExdev
<1>q. QED
  BY <1>1, <1>2

LEMMA EfbigToEsocktnosupportDiffer ==
  /\ \A n \in DOMAIN FallbackEfbigToEsocktnosupport :
       FallbackEfbigToEsocktnosupport[n] \in (-4036)..(-4025)
  /\ \A m, n \in DOMAIN FallbackEfbigToEsocktnosupport :
       FallbackEfbigToEsocktnosupport[m] = FallbackEfbigToEsocktnosupport[n] => m = n
<1>1. ASSUME NEW n \in DOMAIN FallbackEfbigToEsocktnosupport
      PROVE  FallbackEfbigToEsocktnosupport[n] \in (-4036)..(-4025)
  BY DEF FallbackEfbigToEsocktnosupport
<1>2. ASSUME NEW m \in DOMAIN FallbackEfbigToEsocktnosupport,
             NEW n \in DOMAIN FallbackEfbigToEsocktnosupport,
             FallbackEfbigToEsocktnosupport[m] = FallbackEfbigToEsocktnosupport[n]
      PROVE  m = n
  BY <1>2 DEF FallbackEfbigToEsocktnosupport
<1>q. QED
  BY <1>1, <1>2

\* No two fallbacks are the same, and none is one of libuv's own codes.
LEMMA FallbacksDiffer ==
  /\ DOMAIN Fallback = FallbackNames
  /\ \A n \in FallbackNames : Fallback[n] \in (-4093)..(-4025)
  /\ \A m, n \in FallbackNames : Fallback[m] = Fallback[n] => m = n
<1> DEFINE A == FallbackE2bigToEexist
           B == FallbackEfaultToEnonet
           C == FallbackEnospcToExdev
           D == FallbackEfbigToEsocktnosupport
<1>1. DOMAIN Fallback = FallbackNames
  BY DEF Fallback
<1>2. ASSUME NEW n \in FallbackNames
      PROVE  \/ n \in DOMAIN A /\ Fallback[n] = A[n] /\ A[n] \in (-4093)..(-4075)
             \/ n \in DOMAIN B /\ Fallback[n] = B[n] /\ B[n] \in (-4074)..(-4056)
             \/ n \in DOMAIN C /\ Fallback[n] = C[n] /\ C[n] \in (-4055)..(-4037)
             \/ n \in DOMAIN D /\ Fallback[n] = D[n] /\ D[n] \in (-4036)..(-4025)
  <2>1. n \in DOMAIN A \/ n \in DOMAIN B \/ n \in DOMAIN C \/ n \in DOMAIN D
    BY DEF FallbackNames
  <2>2. Fallback[n] = CASE n \in DOMAIN A -> A[n]
                        [] n \in DOMAIN B -> B[n]
                        [] n \in DOMAIN C -> C[n]
                        [] OTHER -> D[n]
    BY DEF Fallback
  <2>q. QED
    BY <2>1, <2>2, E2bigToEexistDiffer, EfaultToEnonetDiffer, EnospcToExdevDiffer,
       EfbigToEsocktnosupportDiffer
<1>3. ASSUME NEW n \in FallbackNames
      PROVE  Fallback[n] \in (-4093)..(-4025)
  BY <1>2
<1>4. ASSUME NEW m \in FallbackNames, NEW n \in FallbackNames, Fallback[m] = Fallback[n]
      PROVE  m = n
  BY <1>2, <1>4, E2bigToEexistDiffer, EfaultToEnonetDiffer, EnospcToExdevDiffer,
     EfbigToEsocktnosupportDiffer
<1>q. QED
  BY <1>1, <1>3, <1>4

\* A name stands in one of the two.
LEMMA NamesDiffer ==
  /\ DOMAIN OwnCodes \cap FallbackNames = {}
  /\ Names = DOMAIN OwnCodes \cup FallbackNames
  /\ "EHOSTDOWN" \in FallbackNames
<1>1. DOMAIN OwnCodes \cap DOMAIN FallbackE2bigToEexist = {}
  BY DEF OwnCodes, FallbackE2bigToEexist
<1>2. DOMAIN OwnCodes \cap DOMAIN FallbackEfaultToEnonet = {}
  BY DEF OwnCodes, FallbackEfaultToEnonet
<1>3. DOMAIN OwnCodes \cap DOMAIN FallbackEnospcToExdev = {}
  BY DEF OwnCodes, FallbackEnospcToExdev
<1>4. DOMAIN OwnCodes \cap DOMAIN FallbackEfbigToEsocktnosupport = {}
  BY DEF OwnCodes, FallbackEfbigToEsocktnosupport
<1>5. "EHOSTDOWN" \in DOMAIN FallbackEfbigToEsocktnosupport
  BY DEF FallbackEfbigToEsocktnosupport
<1>q. QED
  BY <1>1, <1>2, <1>3, <1>4, <1>5, FallbacksDiffer DEF FallbackNames, Names

-----------------------------------------------------------------------------
(* The codes on a system *)

\* Where the code of a name comes from.
Hidden(s, name) == name = "EHOSTDOWN" /\ name \notin Given(s) /\ s.bsd

LEMMA CodeOfName ==
  ASSUME NEW s, NEW name \in Names
  PROVE  \/ name \in DOMAIN OwnCodes /\ Code(s, name) = OwnCodes[name]
         \/ name \in Given(s) /\ Code(s, name) = Err(s, s.errno[name])
         \/ Hidden(s, name) /\ Code(s, name) = -64
         \/ name \in FallbackNames /\ Code(s, name) = Fallback[name]
<1>1. CASE name \in DOMAIN OwnCodes
  BY <1>1 DEF Code
<1>2. CASE name = "EHOSTDOWN"
  BY <1>2, NamesDiffer DEF Code, EhostdownCode, Hidden
<1>3. CASE name \notin DOMAIN OwnCodes /\ name # "EHOSTDOWN"
  BY <1>3, NamesDiffer DEF Code
<1>q. QED
  BY <1>1, <1>2, <1>3

\* One test of EDOM does for all numbers of a system.
LEMMA ErrOfNumber ==
  ASSUME NEW s, SameSign(s), NEW m \in Given(s)
  PROVE  /\ s.errno[m] \in Int
         /\ Err(s, s.errno[m]) \in {s.errno[m], -s.errno[m]}
         /\ Err(s, s.errno[m]) < 0
         /\ \A n \in Given(s) : Err(s, s.errno[m]) = Err(s, s.errno[n]) => s.errno[m] = s.errno[n]
<1> DEFINE N(n) == s.errno[n]
<1>1. /\ s.edom \in Int \ {0}
      /\ \A n \in Given(s) : N(n) \in Int \ {0} /\ (N(n) > 0 <=> s.edom > 0)
  BY DEF SameSign
<1>2. \A n \in Given(s) : Err(s, N(n)) = IF s.edom > 0 THEN -N(n) ELSE N(n)
  BY DEF Err
<1> HIDE DEF N
<1>3. /\ N(m) \in Int /\ Err(s, N(m)) \in {N(m), -N(m)} /\ Err(s, N(m)) < 0
      /\ \A n \in Given(s) : Err(s, N(m)) = Err(s, N(n)) => N(m) = N(n)
  BY <1>1, <1>2
<1>q. QED
  BY <1>3 DEF N

\* A code is a negative number: never 0, the result of a spawn() that succeeded.
THEOREM CodeIsNegative ==
  ASSUME NEW s, SameSign(s), NEW name \in Names
  PROVE  Code(s, name) \in Int /\ Code(s, name) < 0
<1>1. CASE name \in DOMAIN OwnCodes /\ Code(s, name) = OwnCodes[name]
  BY <1>1, OwnCodesDiffer
<1>2. CASE name \in Given(s) /\ Code(s, name) = Err(s, s.errno[name])
  BY <1>2, ErrOfNumber
<1>3. CASE name \in FallbackNames /\ Code(s, name) = Fallback[name]
  BY <1>3, FallbacksDiffer
<1>q. QED
  BY <1>1, <1>2, <1>3, CodeOfName

\* No two names have the same code.
THEOREM CodesDiffer ==
  ASSUME NEW s, SameSign(s), Apart(s),
         NEW m \in Names, NEW n \in Names, Code(s, m) = Code(s, n)
  PROVE  m = n
<1> DEFINE Own(x) == x \in DOMAIN OwnCodes /\ Code(s, x) = OwnCodes[x]
           Sys(x) == x \in Given(s) /\ Code(s, x) = Err(s, s.errno[x])
           Hid(x) == Hidden(s, x) /\ Code(s, x) = -64
           Fal(x) == x \in FallbackNames /\ Code(s, x) = Fallback[x]
<1>1. ASSUME NEW x \in Names
      PROVE  /\ Own(x) \/ Sys(x) \/ Hid(x) \/ Fal(x)
             /\ Own(x) => Code(s, x) \in {-4095, -4094} \cup (-3014)..(-3000)
             /\ Fal(x) => Code(s, x) \in (-4093)..(-4025)
             /\ Sys(x) => Code(s, x) \in Int /\ Code(s, x) \notin LibuvCodes
  <2>1. ASSUME Sys(x)
        PROVE  Code(s, x) \in Int /\ Code(s, x) \notin LibuvCodes
    <3>1. \A c \in LibuvCodes : c \in Int /\ s.errno[x] \notin {c, -c}
      BY <2>1 DEF Apart, LibuvCodes
    <3>2. s.errno[x] \in Int /\ Code(s, x) \in {s.errno[x], -s.errno[x]}
      BY <2>1, ErrOfNumber
    <3>q. QED
      BY <3>1, <3>2
  <2>q. QED
    BY <2>1, CodeOfName, OwnCodesDiffer, FallbacksDiffer
<1>2. ASSUME NEW x \in Names, NEW y \in Names, Code(s, x) = Code(s, y), Sys(x), Hid(y)
      PROVE  FALSE
  <2>1. s.errno[x] \in Int /\ s.errno[x] \notin {64, -64}
    BY <1>2, ErrOfNumber DEF Hidden, Apart
  <2>2. -64 \in {s.errno[x], -s.errno[x]}
    BY <1>2, ErrOfNumber
  <2>q. QED
    BY <2>1, <2>2
<1>3. CASE Own(m) /\ Own(n)
  <2>1. OwnCodes[m] = OwnCodes[n]
    BY <1>3
  <2>q. QED
    BY <1>3, <2>1, OwnCodesDiffer
<1>4. CASE Sys(m) /\ Sys(n)
  <2>1. s.errno[m] = s.errno[n]
    BY <1>4, ErrOfNumber
  <2>q. QED
    BY <1>4, <2>1 DEF Apart
<1>5. CASE Hid(m) /\ Hid(n)
  BY <1>5 DEF Hidden
<1>6. CASE Fal(m) /\ Fal(n)
  <2>1. Fallback[m] = Fallback[n]
    BY <1>6
  <2>q. QED
    BY <1>6, <2>1, FallbacksDiffer
<1> HIDE DEF Own, Sys, Hid, Fal
<1>7. ASSUME NEW x \in Names, NEW y \in Names, Code(s, x) = Code(s, y), Own(x), ~Own(y)
      PROVE  FALSE
  BY <1>1, <1>7 DEF LibuvCodes, Hid
<1>8. ASSUME NEW x \in Names, NEW y \in Names, Code(s, x) = Code(s, y), Fal(x), ~Fal(y), ~Own(y)
      PROVE  FALSE
  BY <1>1, <1>8 DEF LibuvCodes, Hid
<1>q. QED
  BY <1>1, <1>2, <1>3, <1>4, <1>5, <1>6, <1>7, <1>8

\* So that the name uv_err_name() finds for a code is the one it was made from.
THEOREM NameOfCode ==
  ASSUME NEW s, SameSign(s), Apart(s), NEW name \in Names
  PROVE  NamesOf(s, Code(s, name)) = {name}
  BY CodesDiffer DEF NamesOf
=============================================================================
