-------------------------- MODULE CoefficientCoding --------------------------
(***************************************************************************)
(* The coefficients of a block (readCoeff4x4_CAVLC_AC() in vlc.c): how many *)
(* there are and how many of them are trailing ones, the signs of those, the *)
(* other levels from the highest frequency down, how many zeros lie below   *)
(* the last coefficient and the run of zeros before each.  The decoder looks *)
(* the codes up in tables of its own making, by their leading zeros; the     *)
(* sender has those of the standard.                                        *)
(***************************************************************************)
EXTENDS SyntaxElements

CONSTANT Blocks      \* [nnz: that of the neighbours, or -1 for the DC of chroma; max; levels; runs; offset; junk]

VARIABLES block, blockBuffer, blockOffset, reading,
          numcoeff, numtrailingones, vlcnum, totzeros, zerosleft,
          levarr, runarr      \* the levels and runs read so far, from the highest frequency down
blockVars == <<block, blockBuffer, blockOffset, reading, numcoeff, numtrailingones, vlcnum, totzeros, zerosleft,
               levarr, runarr>>

-----------------------------------------------------------------------------
(* The sender's tables of numbers of coefficients, [trailing ones][coefficients]; *)
(* the last one, for the DC of chroma, and those of total zeros the source has too. *)
TokenLengths ==
  <<<<<<1, 6, 8, 9, 10, 11, 13, 13, 13, 14, 14, 15, 15, 16, 16, 16, 16>>,
      <<0, 2, 6, 8, 9, 10, 11, 13, 13, 14, 14, 15, 15, 15, 16, 16, 16>>,
      <<0, 0, 3, 7, 8, 9, 10, 11, 13, 13, 14, 14, 15, 15, 16, 16, 16>>,
      <<0, 0, 0, 5, 6, 7, 8, 9, 10, 11, 13, 14, 14, 15, 15, 16, 16>>>>,
    <<<<2, 6, 6, 7, 8, 8, 9, 11, 11, 12, 12, 12, 13, 13, 13, 14, 14>>,
      <<0, 2, 5, 6, 6, 7, 8, 9, 11, 11, 12, 12, 13, 13, 14, 14, 14>>,
      <<0, 0, 3, 6, 6, 7, 8, 9, 11, 11, 12, 12, 13, 13, 13, 14, 14>>,
      <<0, 0, 0, 4, 4, 5, 6, 6, 7, 9, 11, 11, 12, 13, 13, 13, 14>>>>,
    <<<<4, 6, 6, 6, 7, 7, 7, 7, 8, 8, 9, 9, 9, 10, 10, 10, 10>>,
      <<0, 4, 5, 5, 5, 5, 6, 6, 7, 8, 8, 9, 9, 9, 10, 10, 10>>,
      <<0, 0, 4, 5, 5, 5, 6, 6, 7, 7, 8, 8, 9, 9, 10, 10, 10>>,
      <<0, 0, 0, 4, 4, 4, 4, 4, 5, 6, 7, 8, 8, 9, 10, 10, 10>>>>,
    <<<<2, 6, 6, 6, 6>>, <<0, 1, 6, 7, 8>>, <<0, 0, 3, 7, 8>>, <<0, 0, 0, 6, 7>>>>>>
TokenCodes ==
  <<<<<<1, 5, 7, 7, 7, 7, 15, 11, 8, 15, 11, 15, 11, 15, 11, 7, 4>>,
      <<0, 1, 4, 6, 6, 6, 6, 14, 10, 14, 10, 14, 10, 1, 14, 10, 6>>,
      <<0, 0, 1, 5, 5, 5, 5, 5, 13, 9, 13, 9, 13, 9, 13, 9, 5>>,
      <<0, 0, 0, 3, 3, 4, 4, 4, 4, 4, 12, 12, 8, 12, 8, 12, 8>>>>,
    <<<<3, 11, 7, 7, 7, 4, 7, 15, 11, 15, 11, 8, 15, 11, 7, 9, 7>>,
      <<0, 2, 7, 10, 6, 6, 6, 6, 14, 10, 14, 10, 14, 10, 11, 8, 6>>,
      <<0, 0, 3, 9, 5, 5, 5, 5, 13, 9, 13, 9, 13, 9, 6, 10, 5>>,
      <<0, 0, 0, 5, 4, 6, 8, 4, 4, 4, 12, 8, 12, 12, 8, 1, 4>>>>,
    <<<<15, 15, 11, 8, 15, 11, 9, 8, 15, 11, 15, 11, 8, 13, 9, 5, 1>>,
      <<0, 14, 15, 12, 10, 8, 14, 10, 14, 14, 10, 14, 10, 7, 12, 8, 4>>,
      <<0, 0, 13, 14, 11, 9, 13, 9, 13, 10, 13, 9, 13, 9, 11, 7, 3>>,
      <<0, 0, 0, 12, 11, 10, 9, 8, 13, 12, 12, 12, 8, 12, 10, 6, 2>>>>,
    <<<<1, 7, 4, 3, 2>>, <<0, 1, 6, 3, 3>>, <<0, 0, 1, 2, 2>>, <<0, 0, 0, 5, 0>>>>>>
lentab_TotalZeros ==
  <<<<1, 3, 3, 4, 4, 5, 5, 6, 6, 7, 7, 8, 8, 9, 9, 9>>,
    <<3, 3, 3, 3, 3, 4, 4, 4, 4, 5, 5, 6, 6, 6, 6>>,
    <<4, 3, 3, 3, 4, 4, 3, 3, 4, 5, 5, 6, 5, 6>>,
    <<5, 3, 4, 4, 3, 3, 3, 4, 3, 4, 5, 5, 5>>, <<4, 4, 4, 3, 3, 3, 3, 3, 4, 5, 4, 5>>,
    <<6, 5, 3, 3, 3, 3, 3, 3, 4, 3, 6>>, <<6, 5, 3, 3, 3, 2, 3, 4, 3, 6>>,
    <<6, 4, 5, 3, 2, 2, 3, 3, 6>>, <<6, 6, 4, 2, 2, 3, 2, 5>>, <<5, 5, 3, 2, 2, 2, 4>>,
    <<4, 4, 3, 3, 1, 3>>, <<4, 4, 2, 1, 3>>, <<3, 3, 1, 2>>, <<2, 2, 1>>, <<1, 1>>>>
codtab_TotalZeros ==
  <<<<1, 3, 2, 3, 2, 3, 2, 3, 2, 3, 2, 3, 2, 3, 2, 1>>,
    <<7, 6, 5, 4, 3, 5, 4, 3, 2, 3, 2, 3, 2, 1, 0>>,
    <<5, 7, 6, 5, 4, 3, 4, 3, 2, 3, 2, 1, 1, 0>>,
    <<3, 7, 5, 4, 6, 5, 4, 3, 3, 2, 2, 1, 0>>, <<5, 4, 3, 7, 6, 5, 4, 3, 2, 1, 1, 0>>,
    <<1, 1, 7, 6, 5, 4, 3, 2, 1, 1, 0>>, <<1, 1, 5, 4, 3, 3, 2, 1, 1, 0>>,
    <<1, 1, 1, 3, 3, 2, 2, 1, 0>>, <<1, 0, 1, 3, 2, 1, 1, 1>>, <<1, 0, 1, 3, 2, 1, 1>>,
    <<0, 1, 1, 2, 1, 3>>, <<0, 1, 1, 1, 1>>, <<0, 1, 1, 1>>, <<0, 1, 1>>, <<0, 1>>>>
(* Those of the chroma DC are cut off the ones of unary codes.               *)
RunLengths ==
  <<<<1, 1>>, <<1, 2, 2>>, <<2, 2, 2, 2>>, <<2, 2, 2, 3, 3>>, <<2, 2, 3, 3, 3, 3>>, <<2, 3, 3, 3, 3, 3, 3>>,
    <<3, 3, 3, 3, 3, 3, 3, 4, 5, 6, 7, 8, 9, 10, 11>>>>
RunCodes ==
  <<<<1, 0>>, <<1, 1, 0>>, <<3, 2, 1, 0>>, <<3, 2, 1, 1, 0>>, <<3, 2, 3, 2, 1, 0>>, <<3, 0, 1, 3, 2, 5, 4>>,
    <<7, 6, 5, 4, 3, 2, 1, 1, 1, 1, 1, 1, 1, 1, 1>>>>

vlc_table_select == <<0, 0, 1, 1, 2, 2, 2, 2, 3, 3, 3, 3, 3, 3, 3, 3, 3>>
Abs(v) == IF v < 0 THEN -v ELSE v
ZeroBits(n) == [k \in 1 .. n |-> 0]

(* The trailing ones: up to three of magnitude one at the highest frequencies. *)
Ones(levels) ==
  Max({n \in 0 .. Min({3, Len(levels)}) : \A k \in Len(levels) - n + 1 .. Len(levels) : Abs(levels[k]) = 1})
SumOf(s) == FoldLeft(LAMBDA x, y : x + y, 0, s)
Total(b) == SumOf(b.runs)

TokenCode(b) ==
  LET n == Len(b.levels)
      t == Ones(b.levels)
      table == IF b.nnz = -1 THEN 4 ELSE vlc_table_select[b.nnz + 1] + 1
  IN  IF b.nnz # -1 /\ table = 4 THEN (IF n = 0 THEN Bits(6, 3) ELSE Bits(4, n - 1) \o Bits(2, t))
      ELSE Bits(TokenLengths[table][t + 1][n + 1], TokenCodes[table][t + 1][n + 1])

Sign(v) == IF v < 0 THEN 1 ELSE 0
LevelCode(code, suffixLength) ==
  CASE suffixLength = 0 /\ code < 14 -> ZeroBits(code) \o <<1>>
    [] suffixLength = 0 /\ code \in 14 .. 29 -> ZeroBits(14) \o <<1>> \o Bits(4, code - 14)
    [] suffixLength = 0 /\ code > 29 -> ZeroBits(15) \o <<1>> \o Bits(12, code - 30)
    [] suffixLength > 0 /\ code < 15 * 2 ^ suffixLength ->
         ZeroBits(code \div 2 ^ suffixLength) \o <<1>> \o Bits(suffixLength, code % 2 ^ suffixLength)
    [] suffixLength > 0 /\ code >= 15 * 2 ^ suffixLength ->
         ZeroBits(15) \o <<1>> \o Bits(12, code - 15 * 2 ^ suffixLength)
NextSuffix(suffixLength, v) ==
  LET s == Max({1, suffixLength})
  IN  IF Abs(v) > 3 * 2 ^ (s - 1) /\ s < 6 THEN s + 1 ELSE s

(* From the highest frequency down; the first is reduced where it cannot be one. *)
LevelCodes(b) ==
  LET n == Len(b.levels) - Ones(b.levels)
      Level(k) == b.levels[n - k + 1]
      Suffix[k \in 1 .. n] ==
        IF k = 1 THEN (IF Len(b.levels) > 10 /\ Ones(b.levels) < 3 THEN 1 ELSE 0)
        ELSE NextSuffix(Suffix[k - 1], Level(k - 1))
      Code(k) == 2 * Abs(Level(k)) - 2 + Sign(Level(k)) - (IF k = 1 /\ Ones(b.levels) < 3 THEN 2 ELSE 0)
  IN  FlattenSeq([k \in 1 .. n |-> LevelCode(Code(k), Suffix[k])])
SignCodes(b) ==
  [k \in 1 .. Ones(b.levels) |-> Sign(b.levels[Len(b.levels) - k + 1])]

TotalCode(b) ==
  LET n == Len(b.levels)
  IN  CASE n \in {0, b.max} -> <<>>
        [] b.nnz = -1 /\ n \in 1 .. b.max - 1 ->
             ZeroBits(Total(b)) \o (IF Total(b) = b.max - n THEN <<>> ELSE <<1>>)
        [] b.nnz # -1 /\ n \in 1 .. b.max - 1 ->
             Bits(lentab_TotalZeros[n][Total(b) + 1], codtab_TotalZeros[n][Total(b) + 1])
(* The runs before all but the lowest, as long as there are zeros left.       *)
RunCode(b, k) ==
  LET left == SumOf(SubSeq(b.runs, 1, k))
      table == Min({left, 7})
  IN  IF left = 0 THEN <<>> ELSE Bits(RunLengths[table][b.runs[k] + 1], RunCodes[table][b.runs[k] + 1])
BlockCode(b) ==
  TokenCode(b) \o SignCodes(b) \o LevelCodes(b) \o TotalCode(b)
    \o FlattenSeq([j \in 1 .. Max({0, Len(b.levels) - 1}) |-> RunCode(b, Len(b.levels) - j + 1)])

-----------------------------------------------------------------------------
(* The n bits from an offset, out of a word of so many bytes.                *)
Peek(off, n, bytes) ==
  [k \in 1 .. n |-> IF (off % 8) + k <= 8 * bytes THEN blockBuffer[off + k] ELSE 0]
LeadingZeros(bits) == Min({k \in 1 .. Len(bits) : bits[k] = 1} \cup {Len(bits) + 1}) - 1
ShowBits(off, n) == Value(Peek(off, n, 3))

vlc0_code_tab ==
  <<<<128>>, <<289>>, <<450>>, <<802, 769, 739, 739>>, <<997, 963, 868, 868>>,
    <<1126, 1092, 1059, 1026>>, <<1255, 1221, 1188, 1155>>, <<1384, 1350, 1317, 1284>>,
    <<1513, 1479, 1446, 1413>>, <<1672, 1737, 1704, 1671, 1770, 1736, 1703, 1670>>,
    <<1900, 1867, 1834, 1802, 1899, 1866, 1833, 1801>>,
    <<2030, 1997, 1964, 1932, 2029, 1996, 1963, 1931>>,
    <<2160, 2127, 2095, 2062, 2159, 2126, 2094, 2061>>, <<2064, 2128, 2096, 2063>>,
    <<1965>>>>
vlc1_code_tab ==
  <<<<289, 256>>, <<612, 611, 450, 450>>, <<870, 835, 803, 769, 741, 741, 674, 674>>,
    <<871, 836, 804, 770>>, <<1000, 965, 933, 899>>, <<1029, 1094, 1062, 1028>>,
    <<1257, 1223, 1191, 1158>>, <<1515, 1481, 1449, 1416, 1514, 1480, 1448, 1415>>,
    <<1547, 1611, 1579, 1546, 1644, 1610, 1578, 1545>>,
    <<1774, 1741, 1709, 1677, 1773, 1740, 1708, 1676>>,
    <<1839, 1807, 1871, 1838, 1742, 1742, 1678, 1678>>, <<1904, 1872, 1840, 1808>>,
    <<1775>>>>
vlc2_code_tab ==
  <<<<615, 614, 613, 612, 611, 578, 545, 512>>, <<677, 709, 676, 708, 675, 744, 707, 674>>,
    <<771, 839, 807, 770, 873, 838, 806, 769>>,
    <<903, 902, 969, 901, 1002, 968, 936, 900>>,
    <<1132, 1099, 1066, 1033, 1131, 1098, 1065, 1032>>,
    <<1164, 1229, 1196, 1163, 1261, 1228, 1195, 1162>>,
    <<1327, 1294, 1390, 1358, 1326, 1293, 1197, 1197>>, <<1328, 1295, 1391, 1359>>,
    <<1392, 1360>>, <<1296>>>>
vlc0_suffix_length == <<0, 0, 0, 2, 2, 2, 2, 2, 2, 3, 3, 3, 3, 2, 0>>
vlc1_suffix_length == <<1, 2, 3, 2, 2, 2, 2, 3, 3, 3, 3, 2, 0>>
vlc2_suffix_length == <<3, 3, 3, 3, 3, 3, 3, 2, 1, 0>>

(* [b11-b7][b6-b5][b4-b0]: the length, the trailing ones, the coefficients.   *)
CodeWord(w) == [numcoeff |-> w % 32, ones |-> (w \div 32) % 4, len |-> w \div 128]
Token(n, t, len) == [numcoeff |-> n, ones |-> t, len |-> len]
LookUp(tab, suffixLengths, off) ==
  LET czero == LeadingZeros(Peek(off, 16, 3))
      suffix == SubSeq(Peek(off, 16, 3), czero + 2, czero + 1 + suffixLengths[czero + 1])
  IN  CodeWord(tab[czero + 1][Value(suffix) + 1])

SixBits(off) ==
  LET code == Value(Peek(off, 6, 2))
  IN  IF code = 3 THEN Token(0, 0, 6) ELSE Token((code \div 4) + 1, code % 4, 6)

(* By the leading zeros of eight bits and those of the rest that matter.      *)
ChromaDC(off) ==
  LET code == Peek(off, 8, 2)
      tabrow == LeadingZeros(code)
  IN  CASE tabrow = 0 -> Token(1, 1, 1)
        [] tabrow = 1 -> Token(0, 0, 2)
        [] tabrow = 2 -> Token(2, 2, 3)
        [] tabrow = 3 -> (<<Token(2, 0, 6), Token(3, 3, 6), Token(2, 1, 6), Token(1, 0, 6)>>)[2 * code[5] + code[6] + 1]
        [] tabrow = 4 -> (<<Token(4, 0, 6), Token(3, 0, 6)>>)[code[6] + 1]
        [] tabrow = 5 -> (<<Token(3, 2, 7), Token(3, 1, 7)>>)[code[7] + 1]
        [] tabrow = 6 -> (<<Token(4, 2, 8), Token(4, 1, 8)>>)[code[8] + 1]
        [] tabrow > 6 -> Token(4, 3, 7)

NumCoeff(off) ==
  IF block.nnz = -1 THEN ChromaDC(off)
  ELSE CASE vlc_table_select[block.nnz + 1] = 0 -> LookUp(vlc0_code_tab, vlc0_suffix_length, off)
         [] vlc_table_select[block.nnz + 1] = 1 -> LookUp(vlc1_code_tab, vlc1_suffix_length, off)
         [] vlc_table_select[block.nnz + 1] = 2 -> LookUp(vlc2_code_tab, vlc2_suffix_length, off)
         [] vlc_table_select[block.nnz + 1] = 3 -> SixBits(off)

(* A level without a suffix, and with one of n bits, its sign among them.     *)
Signed(magnitude, sign) == IF sign = 1 THEN -magnitude ELSE magnitude
Level_VLC0(off) ==
  LET zeros == LeadingZeros(Peek(off, 32, 4))
      escape == ShowBits(off + zeros + 1, IF zeros = 14 THEN 4 ELSE zeros - 3)
  IN  CASE zeros < 14 -> [len |-> zeros + 1, level |-> Signed((zeros \div 2) + 1, zeros % 2)]
        [] zeros = 14 -> [len |-> zeros + 5, level |-> Signed(((escape \div 2) % 8) + 8, escape % 2)]
        [] zeros > 14 -> [len |-> 2 * zeros - 2,
                          level |-> Signed((escape \div 2) + 2048 * 2 ^ (zeros - 15) + 16 - 2048, escape % 2)]
Level_VLCN(off, n) ==
  LET zeros == LeadingZeros(Peek(off, 32, 4))
      suffix == ShowBits(off + zeros + 1, n)
      escape == ShowBits(off + zeros + 1, zeros - 3)
  IN  IF zeros < 15
      THEN [len |-> zeros + 1 + n, level |-> Signed(zeros * 2 ^ (n - 1) + 1 + (suffix \div 2), suffix % 2)]
      ELSE [len |-> 2 * zeros - 2,
            level |-> Signed((escape \div 2) + 2048 * 2 ^ (zeros - 15) + 15 * 2 ^ (n - 1) + 1 - 2048, escape % 2)]
Level(off) == IF vlcnum = 0 THEN Level_VLC0(off) ELSE Level_VLCN(off, vlcnum)

FirstLevel == Len(levarr) = numtrailingones
level_two_or_higher == FirstLevel /\ ~(numcoeff > 3 /\ numtrailingones = 3)
incVlc == <<0, 3, 6, 12, 24, 48, 32768>>
(* Mutant: a large first level is like any other.                            *)
NextVlcByOne(level) == IF Abs(level) > incVlc[vlcnum + 1] THEN vlcnum + 1 ELSE vlcnum
NextVlc(level) ==
  CASE FirstLevel /\ Abs(level) > 3 -> 2
    [] ~(FirstLevel /\ Abs(level) > 3) /\ Abs(level) > incVlc[vlcnum + 1] -> vlcnum + 1
    [] ~(FirstLevel /\ Abs(level) > 3) /\ Abs(level) <= incVlc[vlcnum + 1] -> vlcnum

(* Zeros below the last coefficient: a row for the leading zeros of the code, *)
(* a column for the one or two bits after its first one, and in the entry the *)
(* length above the zeros.  A column with too few bits left is shifted by a    *)
(* negative number: it may be any.                                          *)
totalzeros_lengths == <<9, 6, 6, 5, 5, 6, 6, 6, 6, 5, 4, 4, 3, 2, 1>>
tatalzeros_codezero == <<0, 14, 13, 12, 11, 10, 9, 8, 1, 1, 0, 0, 0, 0, 0>>
totalzeros_tc ==
  <<<<<<16, 16>>, <<50, 49>>, <<68, 67>>, <<86, 85>>, <<104, 103>>, <<122, 121>>,
      <<140, 139>>, <<158, 157>>, <<159, 159>>>>,
    <<<<51, 50, 49, 48>>, <<70, 69, 52, 52>>, <<72, 72, 71, 71>>, <<90, 90, 89, 89>>,
      <<108, 108, 107, 107>>, <<109, 109, 109, 109>>>>,
    <<<<54, 51, 50, 49>>, <<68, 64, 55, 55>>, <<72, 72, 69, 69>>, <<90, 90, 89, 89>>,
      <<92, 92, 92, 92>>, <<107, 107, 107, 107>>>>,
    <<<<54, 53, 52, 49>>, <<67, 66, 56, 56>>, <<73, 73, 71, 71>>, <<90, 90, 80, 80>>,
      <<91, 91, 91, 91>>>>,
    <<<<54, 53, 52, 51>>, <<65, 64, 55, 55>>, <<72, 72, 66, 66>>, <<74, 74, 74, 74>>,
      <<89, 89, 89, 89>>, <<91, 91, 91, 91>>>>,
    <<<<53, 52, 51, 50>>, <<55, 55, 54, 54>>, <<57, 57, 57, 57>>, <<72, 72, 72, 72>>,
      <<81, 81, 81, 81>>, <<96, 96, 96, 96>>>>,
    <<<<51, 50, 37, 37>>, <<54, 54, 52, 52>>, <<56, 56, 56, 56>>, <<71, 71, 71, 71>>,
      <<81, 81, 81, 81>>, <<96, 96, 96, 96>>>>,
    <<<<37, 36>>, <<54, 51>>, <<55, 55>>, <<65, 65>>, <<82, 82>>, <<96, 96>>>>,
    <<<<36, 35>>, <<38, 38>>, <<53, 53>>, <<66, 66>>, <<87, 87>>, <<96, 96>>>>,
    <<<<36, 35>>, <<37, 37>>, <<50, 50>>, <<70, 70>>, <<80, 80>>>>,
    <<<<20, 20>>, <<51, 53>>, <<50, 50>>, <<65, 65>>>>,
    <<<<19, 19>>, <<34, 34>>, <<52, 52>>, <<65, 65>>>>,
    <<<<18, 18>>, <<35, 35>>, <<49, 49>>>>>>
Zeros_Len(z, len) == [totzeros |-> z, len |-> len]
ZeroEntries(row, code) ==
  LET bits == IF Len(row) = 4 THEN 2 ELSE 1
      at == LeadingZeros(code) + 2
      columns == IF at + bits - 1 <= Len(code) THEN {Value(SubSeq(code, at, at + bits - 1)) + 1} ELSE 1 .. Len(row)
  IN  {Zeros_Len(row[c] % 16, row[c] \div 16) : c \in columns}
LumaZeros(off) ==
  LET length == totalzeros_lengths[numcoeff]
      code == Peek(off, length, 2)
      value == Value(code)
  IN  CASE value = 0 -> {Zeros_Len(tatalzeros_codezero[numcoeff], length)}
        [] value = 2 /\ numcoeff = 2 -> {Zeros_Len(12, 6)}
        [] value = 3 /\ numcoeff = 2 -> {Zeros_Len(11, 6)}
        [] value = 2 /\ numcoeff = 4 -> {Zeros_Len(10, 5)}
        [] value = 3 /\ numcoeff = 4 -> {Zeros_Len(0, 5)}
        [] value > 0 /\ numcoeff = 14 -> {IF value = 1 THEN Zeros_Len(1, 2) ELSE Zeros_Len(2, 1)}
        [] value > 0 /\ numcoeff = 15 -> {Zeros_Len(1, 1)}
        [] OTHER -> ZeroEntries(totalzeros_tc[numcoeff][LeadingZeros(code) + 1], code)
CH_TOT_ZERO ==
  <<<<<<3, 3>>, <<2, 3>>, <<1, 2>>, <<1, 2>>, <<0, 1>>, <<0, 1>>, <<0, 1>>, <<0, 1>>>>,
    <<<<2, 2>>, <<1, 2>>, <<0, 1>>, <<0, 1>>>>, <<<<1, 1>>, <<0, 1>>>>>>
ChromaZeros(off) ==
  LET entry == CH_TOT_ZERO[numcoeff][Value(Peek(off, 4 - numcoeff, 2)) + 1]
  IN  {Zeros_Len(entry[1], entry[2])}

(* The run before a coefficient, by the zeros left; with more than six, a one  *)
(* in the first three bits or the leading zeros.                             *)
run_table ==
  <<<<1, 0>>, <<2, 1, 0, 0>>, <<3, 2, 1, 0>>, <<4, 3, 2, 2, 1, 1, 0, 0>>, <<5, 4, 3, 2, 1, 1, 0, 0>>,
    <<1, 2, 4, 3, 6, 5, 0, 0>>, <<0, 6, 5, 4, 3, 2, 1, 0>>>>
length_table ==
  <<<<1, 1>>, <<2, 2, 1, 1>>, <<2, 2, 2, 2>>, <<3, 3, 2, 2, 2, 2, 2, 2>>, <<3, 3, 3, 3, 2, 2, 2, 2>>,
    <<3, 3, 3, 3, 3, 3, 2, 2>>>>
shift_table == <<15, 14, 14, 13, 13, 13, 13>>
RunBefore(off, left) ==
  LET n == Min({left, 7})
      column == Value(Peek(off, 16 - shift_table[n], 4)) + 1
      zeros == LeadingZeros(Peek(off, 16, 4))
  IN  CASE n < 7 -> [run |-> run_table[n][column], len |-> length_table[n][column]]
        [] n = 7 /\ zeros < 3 -> [run |-> run_table[7][column], len |-> 3]
        [] n = 7 /\ zeros >= 3 -> [run |-> zeros + 4, len |-> zeros + 1]

-----------------------------------------------------------------------------
BlockStart(b) ==
  /\ block = b
  /\ blockBuffer = [k \in 1 .. block.offset |-> 1 - block.junk] \o BlockCode(block) \o [k \in 1 .. 40 |-> block.junk]
  /\ blockOffset = block.offset /\ reading = "token"
  /\ numcoeff = 0 /\ numtrailingones = 0 /\ vlcnum = 0 /\ totzeros = 0 /\ zerosleft = 0
  /\ levarr = <<>> /\ runarr = <<>>
BlockInit == \E b \in Blocks : BlockStart(b)

Stage(levels) ==
  IF levels < numcoeff' THEN "levels" ELSE IF numcoeff' < block.max THEN "zeros" ELSE "done"
(* How many, and the signs of the trailing ones.                              *)
ReadToken ==
  /\ reading = "token"
  /\ \E token \in {NumCoeff(blockOffset)} :
       LET signs == Peek(blockOffset + token.len, token.ones, 2)
       IN  /\ numcoeff' = token.numcoeff /\ numtrailingones' = token.ones
           /\ blockOffset' = blockOffset + token.len + token.ones
           /\ levarr' = [k \in 1 .. token.ones |-> 1 - 2 * signs[k]]
           /\ vlcnum' = IF token.numcoeff > 10 /\ token.ones < 3 THEN 1 ELSE 0
           /\ reading' = IF token.numcoeff = 0 THEN "done" ELSE Stage(token.ones)
           /\ runarr' = IF reading' = "done" THEN ZeroBits(token.numcoeff) ELSE <<>>
  /\ UNCHANGED <<block, blockBuffer, totzeros, zerosleft>>

ReadLevel ==
  /\ reading = "levels"
  /\ \E read \in {Level(blockOffset)} :
       LET level == IF ~level_two_or_higher THEN read.level ELSE IF read.level > 0 THEN read.level + 1
                    ELSE read.level - 1
       IN  /\ levarr' = Append(levarr, level) /\ vlcnum' = NextVlc(level)
           /\ blockOffset' = blockOffset + read.len
  /\ UNCHANGED <<block, blockBuffer, numcoeff, numtrailingones, totzeros, zerosleft>>
  /\ reading' = Stage(Len(levarr) + 1)
  /\ runarr' = IF reading' = "done" THEN ZeroBits(numcoeff) ELSE <<>>

(* The zeros left at the lowest coefficient are the run before it.            *)
Placed(runs, left) ==
  IF left > 0 /\ Len(runs) < numcoeff - 1 THEN reading' = "runs" /\ runarr' = runs
  ELSE reading' = "done" /\ runarr' = Append(runs, left) \o ZeroBits(numcoeff - Len(runs) - 1)
ReadZeros ==
  /\ reading = "zeros"
  /\ \E read \in IF block.nnz = -1 THEN ChromaZeros(blockOffset) ELSE LumaZeros(blockOffset) :
       /\ totzeros' = read.totzeros /\ zerosleft' = read.totzeros
       /\ blockOffset' = blockOffset + read.len
       /\ Placed(<<>>, read.totzeros)
  /\ UNCHANGED <<block, blockBuffer, numcoeff, numtrailingones, vlcnum, levarr>>

ReadRun ==
  /\ reading = "runs"
  /\ \E read \in {RunBefore(blockOffset, zerosleft)} :
       /\ zerosleft' = zerosleft - read.run
       /\ blockOffset' = blockOffset + read.len
       /\ Placed(Append(runarr, read.run), zerosleft - read.run)
  /\ UNCHANGED <<block, blockBuffer, numcoeff, numtrailingones, vlcnum, totzeros, levarr>>

BlockNext == ReadToken \/ ReadLevel \/ ReadZeros \/ ReadRun
BlockSpec == BlockInit /\ [][BlockNext]_blockVars

-----------------------------------------------------------------------------
(* vlc.c:1197-1903: whatever table the neighbours choose, wherever in a byte   *)
(* the block starts and whatever lies behind it, the levels and the runs       *)
(* before them are those written, from the highest frequency down, no code is   *)
(* read into the next, and the block ends right where its last code does.       *)
CoefficientsRight ==
  /\ reading # "token" => numcoeff = Len(block.levels) /\ numtrailingones = Ones(block.levels)
  /\ reading # "token" => \A k \in 1 .. Len(levarr) : levarr[k] = block.levels[numcoeff - k + 1]
  /\ reading = "done" =>
       /\ Reverse(levarr) = block.levels /\ Reverse(runarr) = block.runs
       /\ blockOffset = block.offset + Len(BlockCode(block))
=============================================================================
