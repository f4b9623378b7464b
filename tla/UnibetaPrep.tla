---------------------------- MODULE UnibetaPrep ----------------------------
(***************************************************************************)
(* unibetaprep (unibetacode-2.0.1/src/progsrc/unibetaprep.c): the filter   *)
(* before beta2uni.  It replaces the numbered codes of the TLG by escape   *)
(* sequences "{\uXXXX}", and joins those that follow on each other.        *)
(***************************************************************************)
EXTENDS BetaCode, FiniteSetsExt, SequencesExt

VARIABLES prep_in,       \* the text, in characters
          prep_at,       \* the reading position
          escaped_last,  \* is an escape sequence open?
          prep_out       \* the Beta Code printed

prepVars == <<prep_in, prep_at, escaped_last, prep_out>>

-----------------------------------------------------------------------------
(* A code is a sign and a number; 0 stands for the sign alone.             *)
Decimal(n) ==
  LET digits == [k \in 1..4 |-> Printable[17 + ((n \div (10 ^ (4 - k))) % 10)]]
  IN IF n = 0 THEN <<>> ELSE SubSeq(digits, Min({k \in 1..4 : digits[k] # "0"}), 4)

(* The codes of a sign, by their numbers.  In a Run of numbers, No has no  *)
(* code and Own prints itself: a sign that Unicode does not have.          *)
No == -2
Own == -1
Run(first, codes) ==
  [n \in {m \in first .. first + Len(codes) - 1 : codes[m - first + 1] # No} |->
     <<codes[n - first + 1]>>]
Coded(sign, table) ==
  {[lexeme |-> sign \o Decimal(n),
    codes |-> IF table[n] = <<Own>> THEN Codes(sign \o Decimal(n)) ELSE table[n]] : n \in DOMAIN table}

(* Codes of fonts and languages.                                           *)
FontCodes ==
  Coded(<<"$">>, [n \in 1..49 \cup {70} |-> <<Ascii["$"]>>])
  \cup Coded(<<"$">>, 80 :> <<Ascii["&"]>> @@ Run(52, <<Own, Own>>)
                       @@ [n \in 50..51 |-> Codes(<<"$", "5", "0">>)])
  \cup Coded(<<"&">>, [n \in 1..49 |-> <<Ascii["&"]>>])

(* Brackets, angle brackets, quotation marks and a brace, with a number.   *)
OpenBrackets0 == Coded(<<"[">>,
    Run(0, <<Own, \h28, \h2329, \h7B, \h27E6, \h2E24, \h2E22, \h2E22, \h2E24, \h2027,
    Ascii["["], \h208D, \h2192, Ascii["/"]>>) @@ 14 :> <<Ascii["|"], Ascii[":"]>>)
OpenBrackets16 == Coded(<<"[">>,
    Run(16, <<\h27E6, No, \h27EA, No, \h23A7, \h23AA, \h23AB, \h23A9>>) @@ Run(30, <<\h239B,
    \h239C, \h239D>>) @@ Run(70, <<\h2E02, \h2E04, \h2E09, \h2E0B>>) @@
    17 :> <<\h230A, \h230A>>)
OpenBrackets80 == Coded(<<"[">>,
    Run(80, <<Ascii["/"], No, \h2E20, \h2E21, \h2E26, \h2E28>>) @@ 81 :> <<Ascii["/"],
    Ascii["/"]>>)
CloseBrackets0 == Coded(<<"]">>,
    Run(0, <<Own, \h29, \h232A, \h7D, \h27E7, \h2E25, \h2E23, \h2E25, \h2E23, \h2027,
    Ascii["]"], \h208E, \h2190, Ascii["/"]>>) @@ 14 :> <<Ascii[":"], Ascii["|"]>>)
CloseBrackets16 == Coded(<<"]">>,
    Run(16, <<\h27E7, No, \h27EB, No, \h23AB, \h23AA, \h23AC, \h23AD>>) @@ Run(30, <<\h239E,
    \h239F, \h23A0>>) @@ Run(70, <<\h2E03, \h2E05, \h2E0A, \h2E0C>>) @@
    17 :> <<\h230B, \h230B>>)
CloseBrackets80 == Coded(<<"]">>,
    Run(80, <<Ascii["/"], No, \h2E21, \h2E20, \h2E27, \h2E29>>) @@ 81 :> <<Ascii["/"],
    Ascii["/"]>>)
OpenAngles == Coded(<<"<">>,
    Run(0, <<\h305, \h332, \h2035, \h361, \h35C, \h35D, No, No, \h333>>) @@ Run(16, <<\h2035,
    \h333, \h336, \h2032>>) @@ Run(31, <<\h336, No, \h221A>>) @@ 100 :> <<\h338>> @@
    32 :> <<\h305, \h332>>)
CloseAngles == Coded(<<">">>,
    2 :> <<\h2032>> @@ 16 :> <<\h2032>>)
QuoteNumbers == Coded(<<"\"">>,
    Run(1, <<\h201E, \h201C, No, \h201A, \h201B>>))
BraceNumbers == Coded(<<"{">>,
    10 :> <<\h332>> @@ Run(100, <<Own, Own>>))
CapitalSigns == Coded(<<"*", "#">>,
    Run(1, <<\h3DE, \h3DA, \h3D8, No, \h3E0>>) @@ Run(400, <<\h370, \h37F>>) @@
    711 :> <<\h3FA>>)
(* Punctuation and diacritics: "%" and a number.                          *)
Marks0 == Coded(<<"%">>,
    Run(0, <<\h2020, Ascii["?"], Ascii["*"], Ascii["/"], Ascii["!"], Ascii["|"], Ascii["="],
    Ascii["+"], No, Ascii["&"], Ascii[":"], \h2022, Ascii["*"], \h2021, \hA7, \h2C8, \hA6,
    \h2016, Ascii["'"], \h2013, \h301, \h300, \h302, \h308, \h342, \h327, \h304, \h306,
    \h308>>) @@ 8 :> <<Ascii["%"], Ascii["%"]>> @@ 29 :> <<\h323, \h323>>)
Marks30 == Coded(<<"%">>,
    Run(30, <<\h2BC, \h2BD, \hB4, Ascii["bq"], \h1FC0, \h1FCE, \h1FDE, \h1FDD, \h1FDF, \hA8,
    \h23D1, \h2013, \h23D5, \hD7, \h23D2, \h23D3, \h23D4, \h10111>>) @@ Run(91, <<\h485,
    \h486, \h1DC0, \h307, \h1DC1, \h35C, \h307, Ascii["?"], \h2248>>) @@ 48 :> <<\h23D1,
    \h23D1>> @@ 49 :> <<\h23D1, \h23D1, \h23D1>> @@ 80 :> <<Ascii["v"], Ascii["."]>> @@
    81 :> <<Ascii["v"], Ascii["a"], Ascii["c"], Ascii["."]>>)
Marks100 == Coded(<<"%">>,
    Run(100, <<Ascii[";"], Ascii["#"], \h2018, Ascii["\\"], Ascii["^"], No, \h224C,
    Ascii["~"], \hB1, \hB7, \h25CB>>) @@ Run(127, <<\h32F, \h30C, \h2020, \h307, No, \h385,
    \h1FCD, \h1FCF>>) @@ Run(140, <<\h10112, \h23D6, \h2510>>) @@ Run(146, <<\hB7, \h30A,
    \h30C, \h328>>) @@ 105 :> <<Ascii["|"], Ascii["|"], Ascii["|"]>> @@ 138 :> <<\h23D1,
    \h301>> @@ 139 :> <<Ascii["%"], Ascii["%"], Ascii["1"], Ascii["3"], Ascii["9"]>> @@
    144 :> <<\h23D1, \h336>> @@ 145 :> <<\h2013, \h301>>)
Marks150 == Coded(<<"%">>,
    150 :> <<Ascii["|"]>> @@ Run(154, <<\h2234, \h2235, No, No, \h2042, \hD7, Ascii["-"],
    \hF7, \h338, \hB6>>) @@ Run(170, <<\h359, No, \h2BC, \h2BD, \hB4, Ascii["bq"], \h1FC0,
    \h313, \h314, \h323, \h33D, \h32D, \h361, \h35D, \h35E, \h2319, \h1D242, \hAC, \h31A>>) @@
    157 :> <<Ascii["%"], Ascii["%"], Ascii["1"], Ascii["5"], Ascii["7"]>> @@
    171 :> <<Ascii["/"], Ascii["/"]>>)
(* Additional characters: "#" and a number.                                *)
Signs0 == Coded(<<"#">>,
    Run(0, <<\h374, \h3DF, \h3DB, \h3D9, \h3DE, \h3E1, \h2E0F, No, \h2E10, \h301, \h3FD,
    \h3FF, \h2014, \h203B, \h2E16, Ascii[">"], \h3FE, Ascii["/"], Ascii["<"], \h300, \h10175,
    \h10176, \h375, \h3D8, \h10176, \h10176, \h2E0F, No, No, \hB7>>))
Signs30 == Coded(<<"#">>,
    Run(30, <<Own, Own>>) @@ Run(51, <<\hB7, \h205A, \h205D, No, \h2059>>) @@ Run(59, <<\h3FD,
    \h399, \h10142, \h10143, \h394, \h10144, \h397, \h10145, \h3A7, \h10146, \h39C,
    Ascii["."], \hB7, \h2D9, \h205A, \h205D, Ascii["."]>>))
Signs80 == Coded(<<"#">>,
    Run(80, <<\h308, Ascii["'"], \h2CA, \h2CB, \h1FC0, \h2BD, \h2BC>>) @@ 90 :> <<\h2014>> @@
    Run(100, <<\h10186, \h1017B>>) @@ Run(105, <<Own, \h10184, Own, Own>>) @@ Run(112,
    <<\h10188, \h1017C>>) @@ 87 :> <<\h394, \h345>> @@ 102 :> <<\h10182, \h3C5>> @@
    103 :> <<\h39B, \h338>> @@ 104 :> <<\h10182, \h3BF>> @@ 109 :> <<\h10182, \h3BF>> @@
    110 :> <<\h3B1, \h317>> @@ 111 :> <<\h10182, \h3B5>>)
Signs114 == Coded(<<"#">>,
    Run(114, <<\h10140, \h10189, \h1017C, \h10183, No, \h1017D, \h10184, No, \h1017D, \h1017C,
    Own, No, Own, No, \h3FC, No, \h1018A, \h10177>>) @@ Run(135, <<\h2D9, \h3A3>>) @@
    118 :> <<\h3BB, \h338>> @@ 121 :> <<\h3BE, \h338>> @@ 125 :> <<\h10182, \h3C5>> @@
    127 :> <<\h3BB, \h345>> @@ 129 :> <<\h39B, \h325>> @@ 132 :> <<\h3B2, \h338>> @@
    133 :> <<\h3C7, \h3BF>> @@ 134 :> <<\h393, \h3B2>> @@ 137 :> <<\h393, \h3B2>>)
Signs150 == Coded(<<"#">>,
    Run(150, <<\h221E, \h2014, No, No, \h2C80, No, \h2310, Own>>) @@ Run(161, <<\h10175,
    \h25A1, \h375, No, \hD7, \h2A5A, No, No, \h10175, No, \h10175, \h10176, \h10175>>) @@
    152 :> <<\h205A, \h2014>> @@ 153 :> <<\h2026, \h305>> @@ 155 :> <<\h2014, \h323>> @@
    158 :> <<\h2237, \h336>> @@ 159 :> <<\h2237, \h334>> @@ 160 :> <<Ascii["~"], \h323>> @@
    167 :> <<\h39C, \h39C>> @@ 168 :> <<\h39C, \h39C, \h39C>> @@ 170 :> <<Ascii["I"],
    Ascii["I"]>>)
Signs200 == Coded(<<"#">>,
    Run(200, <<\h2643, \h25A1, \h264F, \h264D, \h2640, \h2650, \h2644, \h2609, \h263F, \h263E,
    \h2642, \h2651, \h264C, \h2648, \h264E, \h264A, \h264B, \h2653, \h2652, \h2649, \h260D,
    \h263D, \h260C, \h2605>>) @@ Run(240, <<\h10177, \h260B, \h2651, Own, \h264C, No, Own,
    Own, Own>>) @@ 245 :> <<\h264E, \h33D>> @@ 249 :> <<\h3C0, \h263E>>)
Signs250 == Coded(<<"#">>,
    Run(250, <<Own>>) @@ Run(300, <<Own, No, Own, Ascii[">"], Own, \h2EDE, Own, Own, Own, No,
    \h2EDE, Own, Own, \h2E0E, Own, \h2E0E>>) @@ Run(319, <<\h25CF, \h2629, \h2629, \h2627,
    Ascii[">"]>>) @@ 301 :> <<\h39B, \h39F>>)
Signs400 == Coded(<<"#">>,
    Run(400, <<\h371, \h3F3>>) @@ Run(451, <<\h283, \h2E10, \h2E11, \h2E10, \h2E11, \h2EDE,
    Own, \h3A7, \hB7, \h2014, Ascii["|"]>>) @@ Run(465, <<\h2627, Own, \h2192, \h2E0E>>) @@
    476 :> <<\h283>>)
Signs500 == Coded(<<"#">>,
    Run(501, <<Own, Own, Own, \h2E0E, \h205C, \h2E15, \h2E14, \h203B>>) @@ Run(512, <<\h3FD,
    Own, Own, \h10185, No, \h10185, \h10179, \h2191, \h2629, Own, \h397, \h2E13, \h2297,
    \h271B, \h2190, \h2C6, No, \h204B, Own, \h35C, \h2E12, \h3DA, No, Own, Own, Own, Own,
    Own>>) @@ 509 :> <<\h305, \h311>> @@ 510 :> <<\h3C0, \h2014, \h3B5>> @@ 511 :> <<\h3BA,
    \h2014, \h3B9>> @@ 516 :> <<\h394, \h345>> @@ 528 :> <<\h3BB, \h32D>> @@ 534 :> <<\h302,
    \h2C6>>)
Signs540 == Coded(<<"#">>,
    Run(540, <<Own, No, No, Own, \h2058, Own, Own, Own, No, Own, \h2E2E, Own, Own, Own, Own,
    Own, \h2629, Own, Own, Own, No, \h2191, \h305, \h1D242, \h1D243, \h1D244, \h1D231,
    \h1D213, \h1D233, \h1D236, \h3F9, \h10143, \h1D229, \h1D212, \h393, \h1D215, \h1D216,
    \h3A6, \h3A1, \h39C>>) @@ 542 :> <<\h3A1, \h336>> @@ 548 :> <<\h2016, \h334>>)
Signs580 == Coded(<<"#">>,
    Run(580, <<\h399, \h398, \h1D20D, \h39D, \h2127, \h396, \h1D238, \h395, \h1D208, \h1D21A,
    \h1D23F, \h1D21B, \h1D240, \h39B, Own, Own, Own, Own, \h394, \h1D214, \h1D228, Own,
    \h1D237, \h3A0, \h1D226, Own, Own, Own, Own, Own>>))
Signs610 == Coded(<<"#">>,
    Run(610, <<Own, Own, Own, Own, Own, \h1D230, \h1D21E, \h3A9, Own, \h3BB, Own, \h1D205,
    \h1D201, \h2127, \h3FD, Own, Own, \h1D217, \h39F, \h39E, \h394, \h39A, \h1D20E, \h1D232,
    \h1D239, \h1D200, \h1D203, \h1D206, \h1D209, \h1D20C>>))
Signs640 == Coded(<<"#">>,
    Run(640, <<\h1D211, \h3A9, \h397, \h1D21D, \h1D21F, \h1D221, \h1D225, \h1D22C, \h1D235,
    \h1D20B, \h1D20F, \h3A7, \h3A4, \h1D219, \h1D21C, \h1D202, \h1D224, \h1D22E, \h1D23E,
    \h1D241, \h391, \h392, \h3A5, \h3A8, \h1D23A, \h1D234, \h1D22F, \h1D22D, \h1D210,
    \h1D20A>>))
Signs670 == Coded(<<"#">>,
    Run(670, <<\h1D207, \h1D21B, \h1D218, \h1D223, \h1D222, \h1D240, \h1D23D, \h3BC, \h1D220,
    \h1D204, Own, Own, Own, \h2733, \h1D22A, Own, Own, Own, No, \h10175, \h27D8, \h27C0,
    \h27C1, Own, \h396, \h2014, \h1D227, \h1D245>>) @@ 688 :> <<\h3BC, \h30A>>)
Signs700 == Coded(<<"#">>,
    Run(700, <<\h205E, Own, Own, No, No, Own, Own, Own, Own, \h223B, No, \h3FB, Own, Own, Own,
    Own, Own, \h2E00, \h2E01, \h2E06, \h2E07, \h3A, \h2135, \h1D516, \h210C, \h1D510>>) @@
    Run(730, <<\h2014, \h23D7, \h23D8, \h23D9>>) @@ Run(751, <<\h661, \h662, \h663, \h664,
    \h665, \h666, \h667, \h668, \h669>>) @@ 703 :> <<\h25CB, \h25CB, \h25CB>> @@
    704 :> <<\h2014, \h307>> @@ 710 :> <<\h39A, \h336>>)
Signs760 == Coded(<<"#">>,
    Run(760, <<\h660, Own, \h2D9>>) @@ Run(800, <<\h2733, \h10141, \h10140, \h3A7, Ascii["/"],
    \h3A4, \h39A, \h10166, \h10148>>))
Signs810 == Coded(<<"#">>,
    Run(811, <<\h3A4, \h10148, \h10149, \h1014A, \h1014B, \h1014C, \h1014D, \h1014E, Own, No,
    \h3A3, \h1014F, \h10150, \h10151, \h10152, \h10153, \h10154, Own, \h10155, \h10147,
    \h10147, \h10156, \h39C, \h10157, \h3A7, \h3A3, \h3A4, \h10143, \h10141>>))
Signs840 == Coded(<<"#">>,
    Run(842, <<\hB7, \h1015B, \h205D, \h10158, \h10110, \h1015E, \h10112, No, Own, No, No,
    \h399>>) @@ Run(862, <<\h394, \h10144, No, \h10145, \h3A7, \h10146>>) @@ Run(899, <<Own>>)
    @@ 840 :> <<Ascii["|"], Ascii["|"]>> @@ 841 :> <<Ascii["|"], Ascii["|"], Ascii["|"]>>)
Signs900 == Coded(<<"#">>,
    Run(922, <<\h1D228, Own, Own, \h1D217, \h1D232, Ascii["W"], \h1D20B, \h1D214, Own, No,
    \h2733, Own, Own, No, Own, No, \h1A7, Ascii["~"], Own, \h1D205>>) @@ Run(980, <<Own>>) @@
    Run(1000, <<\h1017C, \h1017D, \h1017E, \h1017F, \h10180, \h3A7>>) @@ 1006 :> <<\h3A7,
    \h391>> @@ 1007 :> <<\h3A7, \h392>> @@ 1008 :> <<\h3A7, \h393>> @@ 1009 :> <<\h3A7,
    \h394>>)
Signs1010 == Coded(<<"#">>,
    1020 :> <<Ascii["<"]>> @@ Run(1100, <<\h2183, Own, Own, No, Own, No, Own, No, No,
    Ascii["="]>>) @@ 1010 :> <<\h3A7, \h395>> @@ 1011 :> <<\h3A7, \h396>> @@ 1012 :> <<\h3A7,
    \h397>> @@ 1013 :> <<\h3A7, Ascii[">"]>> @@ 1021 :> <<\h394, \h374>> @@ 1022 :> <<\h397,
    \h374>> @@ 1023 :> <<\h399, \h374>> @@ 1024 :> <<\h39B, \h392>> @@ 1103 :> <<\h323,
    \h313>> @@ 1105 :> <<Ascii["M"], \h30A>> @@ 1107 :> <<Ascii["S"], \h336, Ascii["S"],
    \h336, Ascii["S"]>> @@ 1108 :> <<Ascii["X"], \h336>>)
Signs1110 == Coded(<<"#">>,
    Run(1110, <<Ascii["-"], \hB0, Own, Own, \h1D201, Ascii["|"], \h1A7, Ascii["Z"], Own,
    \h110, Own, Ascii["Z"], Own, Own, \h211E, Own, Ascii["O"]>>) @@ 1130 :> <<Ascii["\\"]>> @@
    Run(1134, <<Own, Ascii["9"], \h2112>>) @@ 1127 :> <<Ascii["V"], \h338>> @@
    1128 :> <<Ascii["I"], \h336, Ascii["I"], \h336, Ascii["S"], \h336>> @@
    1129 :> <<Ascii["Z"], \h336>> @@ 1131 :> <<Ascii["\\"], Ascii["\\"]>> @@
    1132 :> <<Ascii["\\"], \h336>> @@ 1133 :> <<Ascii["\\"], \h336, Ascii["\\"], \h336>>)
Signs1200 == Coded(<<"#">>,
    Run(1200, <<\hA2, \h2021, \h20A4, \hDF, \hB0>>) @@ 1209 :> <<\h127>> @@ Run(1213, <<\h152,
    \h153, \hC6, \hE6, No, No, Ascii["$"], Ascii["@"], \h131, \h130, No, \h2295, \hA9, \h2731,
    \h2021, Own, Own, \h25AD, Own, Own, Own>>) @@ 1212 :> <<Ascii["D"], \h336>> @@
    1223 :> <<Ascii["i"], \h336>>)
Signs1300 == Coded(<<"#">>,
    Run(1313, <<\h223D, No, Own, \h292, No, \h223B, Own, No, Own, \h2644>>) @@ Run(1326,
    <<Own, Own, Own>>) @@ Run(1334, <<Own, No, Own, Ascii[">"], \h1017E, No, No, Own>>) @@
    1312 :> <<Ascii["M"], \h2019>> @@ 1314 :> <<Ascii["n"], \h30A>> @@ 1317 :> <<\h2D9,
    Ascii["/"], Ascii["/"], Ascii["."]>> @@ 1320 :> <<\h375, \h311>> @@ 1323 :> <<\h3B6,
    \h337, \h3C2, \h300>> @@ 1324 :> <<\h3B8, \h3C2, \h302>> @@ 1335 :> <<Ascii["/"],
    Ascii["/"]>> @@ 1340 :> <<\h39D, \h3BF>>)
Signs1500 == Coded(<<"#">>,
    Run(1501, <<Own, No, Own, Own, Own>>) @@ Run(1509, <<Own, Own, Own, Ascii["<"], \h10175,
    \hF7, \h1D20F, Own, Own, \h1D229, Own, Own, \h222, Own, \h205B, Own, Own, Own, Own, Own,
    \h2227, \h2228, \h3CF, \h3D7>>) @@ 1500 :> <<\h3B3, \h374>> @@ 1502 :> <<\h3A7, \h374>> @@
    1506 :> <<\h300, \h30C>>)

(* Byzantine musical symbols, in the order of Unicode.                     *)
ByzantineSymbols(first, last) == [n \in first..last |-> <<\h1D000 + n - 2000>>]
Byzantine2000 == Coded(<<"#">>, ByzantineSymbols(2000, 2029))
Byzantine2030 == Coded(<<"#">>, ByzantineSymbols(2030, 2059))
Byzantine2060 == Coded(<<"#">>, ByzantineSymbols(2060, 2089))
Byzantine2090 == Coded(<<"#">>, ByzantineSymbols(2090, 2119))
Byzantine2120 == Coded(<<"#">>, ByzantineSymbols(2120, 2149))
Byzantine2150 == Coded(<<"#">>, ByzantineSymbols(2150, 2179))
Byzantine2180 == Coded(<<"#">>, ByzantineSymbols(2180, 2209))
Byzantine2210 == Coded(<<"#">>, ByzantineSymbols(2210, 2239))
Byzantine2240 == Coded(<<"#">>, ByzantineSymbols(2240, 2245) @@ Run(2300, <<Own>>))

PrepRules ==
    UNION {FontCodes, OpenBrackets0, OpenBrackets16, OpenBrackets80,
         CloseBrackets0, CloseBrackets16, CloseBrackets80, OpenAngles, CloseAngles, QuoteNumbers,
         BraceNumbers, CapitalSigns, Marks0, Marks30, Marks100, Marks150, Signs0, Signs30,
         Signs80, Signs114, Signs150, Signs200, Signs250, Signs400, Signs500, Signs540,
         Signs580, Signs610, Signs640, Signs670, Signs700, Signs760, Signs810, Signs840,
         Signs900, Signs1010, Signs1110, Signs1200, Signs1300, Signs1500,
         Byzantine2000, Byzantine2030, Byzantine2060, Byzantine2090, Byzantine2120,
         Byzantine2150, Byzantine2180, Byzantine2210, Byzantine2240}
(* The tables of the generated scanner accept the lexemes of the rules.    *)
PrepCodes ==
  [lexeme \in {r.lexeme : r \in PrepRules} |-> (CHOOSE r \in PrepRules : r.lexeme = lexeme).codes]
PrepLexemes == DOMAIN PrepCodes

(* The text of an escape sequence: the code points outside ASCII by their  *)
(* number, and five inside.                                                *)
NamedAscii == {<<"[", "1">>, <<"]", "1">>, <<"[", "3">>, <<"]", "3">>, <<"#", "7", "2", "1">>}
HexadecimalDigit == <<"0", "1", "2", "3", "4", "5", "6", "7", "8", "9", "A", "B", "C", "D", "E", "F">>
Hexadecimal(code) ==
  LET size == IF code > \hFFFF THEN 5 ELSE 4
  IN [n \in 1..size |-> HexadecimalDigit[((code \div (16 ^ (size - n))) % 16) + 1]]
EscapedText(lexeme) ==
  LET Text(code) == IF code < 128 /\ lexeme \notin NamedAscii THEN <<CharOf[code]>>
                    ELSE <<"\\", "u">> \o Hexadecimal(code)
  IN FlattenSeq([n \in DOMAIN PrepCodes[lexeme] |-> Text(PrepCodes[lexeme][n])])

-----------------------------------------------------------------------------
PrepInit(Texts) ==
  /\ prep_in \in Texts
  /\ prep_at = 1
  /\ escaped_last = FALSE
  /\ prep_out = <<>>

PrepRead(size, printed) ==
  /\ prep_at' = prep_at + size
  /\ prep_out' = prep_out \o printed
  /\ UNCHANGED prep_in

LongestCode == 5
CodeSizes ==
  {n \in 1..Min({LongestCode, Len(prep_in) - prep_at + 1}) :
     SubSeq(prep_in, prep_at, prep_at + n - 1) \in PrepLexemes}

(* escape_out: opens an escape sequence, or goes on with the open one.     *)
ReadCode ==
  /\ CodeSizes # {}
  /\ LET lexeme == SubSeq(prep_in, prep_at, prep_at + Max(CodeSizes) - 1)
     IN PrepRead(Len(lexeme), (IF escaped_last THEN <<>> ELSE <<"{">>) \o EscapedText(lexeme))
  /\ escaped_last' = TRUE

Mutant_ReadCharacter ==                \* bug: the flag is not reset
  /\ CodeSizes = {} /\ prep_at <= Len(prep_in) /\ prep_in[prep_at] # Newline
  /\ PrepRead(1, (IF escaped_last THEN <<"}">> ELSE <<>>) \o <<prep_in[prep_at]>>)
  /\ UNCHANGED escaped_last

(* Any other character ends it ...                                         *)
ReadCharacter ==
  /\ CodeSizes = {} /\ prep_at <= Len(prep_in) /\ prep_in[prep_at] # Newline
  /\ PrepRead(1, (IF escaped_last THEN <<"}">> ELSE <<>>) \o <<prep_in[prep_at]>>)
  /\ escaped_last' = FALSE

(* ... but a newline, which "." does not match, is echoed inside.          *)
ReadNewline ==
  /\ prep_at <= Len(prep_in) /\ prep_in[prep_at] = Newline
  /\ PrepRead(1, <<Newline>>)
  /\ UNCHANGED escaped_last

EndOfInput ==
  /\ prep_at = Len(prep_in) + 1
  /\ PrepRead(1, IF escaped_last THEN <<"}">> ELSE <<>>)
  /\ escaped_last' = FALSE

Prepare == ReadCode \/ ReadCharacter \/ ReadNewline \/ EndOfInput

Prepared == prep_at = Len(prep_in) + 2
=============================================================================
