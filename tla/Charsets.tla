------------------------------ MODULE Charsets ------------------------------
(***************************************************************************)
(* The character sets and collations of sql/charsetcollation.go and the    *)
(* functions that look names up.  A Go map is a record here; a lookup that *)
(* the code answers with a panic is an application outside the domain,     *)
(* which ends a TLC run with an error.  ParseCollation is what a column    *)
(* definition goes through, so its result has to agree with the set the    *)
(* statement names.                                                        *)
(***************************************************************************)
EXTENDS Integers, Sequences

\* characterSetMaxLengths: bytes of the longest character
characterSetMaxLengths == [
    armscii8 |-> 1, ascii |-> 1, big5 |-> 2, binary |-> 1, cp1250 |-> 1, cp1251 |-> 1,
    cp1256 |-> 1, cp1257 |-> 1, cp850 |-> 1, cp852 |-> 1, cp866 |-> 1, cp932 |-> 2, dec8 |-> 1,
    eucjpms |-> 3, euckr |-> 2, gb18030 |-> 4, gb2312 |-> 2, gbk |-> 2, geostd8 |-> 1,
    greek |-> 1, hebrew |-> 1, hp8 |-> 1, keybcs2 |-> 1, koi8r |-> 1, koi8u |-> 1, latin1 |-> 1,
    latin2 |-> 1, latin5 |-> 1, latin7 |-> 1, macce |-> 1, macroman |-> 1, sjis |-> 2,
    swe7 |-> 1, tis620 |-> 1, ucs2 |-> 2, ujis |-> 3, utf16 |-> 4, utf16le |-> 4, utf32 |-> 4,
    utf8mb3 |-> 3, utf8mb4 |-> 4]

\* the character sets, under the names the code gives them
CharacterSetNames == DOMAIN characterSetMaxLengths

\* characterSets: a written name, of which "utf8" is another name of "utf8mb3"
characterSets == [name \in CharacterSetNames \cup {"utf8"} |-> IF name = "utf8" THEN "utf8mb3" ELSE name]

\* characterSetDefaults
characterSetDefaults == [
    armscii8 |-> "armscii8_general_ci", ascii |-> "ascii_general_ci",
    big5 |-> "big5_chinese_ci", binary |-> "binary", cp1250 |-> "cp1250_general_ci",
    cp1251 |-> "cp1251_general_ci", cp1256 |-> "cp1256_general_ci",
    cp1257 |-> "cp1257_general_ci", cp850 |-> "cp850_general_ci", cp852 |-> "cp852_general_ci",
    cp866 |-> "cp866_general_ci", cp932 |-> "cp932_japanese_ci", dec8 |-> "dec8_swedish_ci",
    eucjpms |-> "eucjpms_japanese_ci", euckr |-> "euckr_korean_ci",
    gb18030 |-> "gb18030_chinese_ci", gb2312 |-> "gb2312_chinese_ci", gbk |-> "gbk_chinese_ci",
    geostd8 |-> "geostd8_general_ci", greek |-> "greek_general_ci",
    hebrew |-> "hebrew_general_ci", hp8 |-> "hp8_english_ci", keybcs2 |-> "keybcs2_general_ci",
    koi8r |-> "koi8r_general_ci", koi8u |-> "koi8u_general_ci", latin1 |-> "latin1_swedish_ci",
    latin2 |-> "latin2_general_ci", latin5 |-> "latin5_turkish_ci",
    latin7 |-> "latin7_general_ci", macce |-> "macce_general_ci",
    macroman |-> "macroman_general_ci", sjis |-> "sjis_japanese_ci", swe7 |-> "swe7_swedish_ci",
    tis620 |-> "tis620_thai_ci", ucs2 |-> "ucs2_general_ci", ujis |-> "ujis_japanese_ci",
    utf16 |-> "utf16_general_ci", utf16le |-> "utf16le_general_ci",
    utf32 |-> "utf32_general_ci", utf8mb3 |-> "utf8mb3_general_ci",
    utf8mb4 |-> "utf8mb4_0900_ai_ci"]

\* characterSetDefaultBinaryColl
characterSetDefaultBinaryColl == [
    armscii8 |-> "armscii8_bin", ascii |-> "ascii_bin", big5 |-> "big5_bin",
    binary |-> "binary", cp1250 |-> "cp1250_bin", cp1251 |-> "cp1251_bin",
    cp1256 |-> "cp1256_bin", cp1257 |-> "cp1257_bin", cp850 |-> "cp850_bin",
    cp852 |-> "cp852_bin", cp866 |-> "cp866_bin", cp932 |-> "cp932_bin", dec8 |-> "dec8_bin",
    eucjpms |-> "eucjpms_bin", euckr |-> "euckr_bin", gb18030 |-> "gb18030_bin",
    gb2312 |-> "gb2312_bin", gbk |-> "gbk_bin", geostd8 |-> "geostd8_bin",
    greek |-> "greek_bin", hebrew |-> "hebrew_bin", hp8 |-> "hp8_bin",
    keybcs2 |-> "keybcs2_bin", koi8r |-> "koi8r_bin", koi8u |-> "koi8u_bin",
    latin1 |-> "latin1_bin", latin2 |-> "latin2_bin", latin5 |-> "latin5_bin",
    latin7 |-> "latin7_bin", macce |-> "macce_bin", macroman |-> "macroman_bin",
    sjis |-> "sjis_bin", swe7 |-> "swe7_bin", tis620 |-> "tis620_bin", ucs2 |-> "ucs2_bin",
    ujis |-> "ujis_bin", utf16 |-> "utf16_bin", utf16le |-> "utf16le_bin",
    utf32 |-> "utf32_bin", utf8mb3 |-> "utf8mb3_bin", utf8mb4 |-> "utf8mb4_bin"]

\* collationToCharacterSet, by character set
CollationsOf == [
   armscii8 |-> {"armscii8_general_ci", "armscii8_bin"},
   ascii |-> {"ascii_general_ci", "ascii_bin"},
   big5 |-> {"big5_chinese_ci", "big5_bin"},
   binary |-> {"binary"},
   cp1250 |-> {
       "cp1250_general_ci", "cp1250_czech_cs", "cp1250_croatian_ci", "cp1250_bin",
       "cp1250_polish_ci"},
   cp1251 |-> {
       "cp1251_bulgarian_ci", "cp1251_ukrainian_ci", "cp1251_bin", "cp1251_general_ci",
       "cp1251_general_cs"},
   cp1256 |-> {"cp1256_general_ci", "cp1256_bin"},
   cp1257 |-> {"cp1257_lithuanian_ci", "cp1257_bin", "cp1257_general_ci"},
   cp850 |-> {"cp850_general_ci", "cp850_bin"},
   cp852 |-> {"cp852_general_ci", "cp852_bin"},
   cp866 |-> {"cp866_general_ci", "cp866_bin"},
   cp932 |-> {"cp932_japanese_ci", "cp932_bin"},
   dec8 |-> {"dec8_swedish_ci", "dec8_bin"},
   eucjpms |-> {"eucjpms_japanese_ci", "eucjpms_bin"},
   euckr |-> {"euckr_korean_ci", "euckr_bin"},
   gb18030 |-> {"gb18030_chinese_ci", "gb18030_bin", "gb18030_unicode_520_ci"},
   gb2312 |-> {"gb2312_chinese_ci", "gb2312_bin"},
   gbk |-> {"gbk_chinese_ci", "gbk_bin"},
   geostd8 |-> {"geostd8_general_ci", "geostd8_bin"},
   greek |-> {"greek_general_ci", "greek_bin"},
   hebrew |-> {"hebrew_general_ci", "hebrew_bin"},
   hp8 |-> {"hp8_english_ci", "hp8_bin"},
   keybcs2 |-> {"keybcs2_general_ci", "keybcs2_bin"},
   koi8r |-> {"koi8r_general_ci", "koi8r_bin"},
   koi8u |-> {"koi8u_general_ci", "koi8u_bin"},
   latin1 |-> {
       "latin1_german1_ci", "latin1_swedish_ci", "latin1_danish_ci", "latin1_german2_ci",
       "latin1_bin", "latin1_general_ci", "latin1_general_cs", "latin1_spanish_ci"},
   latin2 |-> {
       "latin2_czech_cs", "latin2_general_ci", "latin2_hungarian_ci", "latin2_croatian_ci",
       "latin2_bin"},
   latin5 |-> {"latin5_turkish_ci", "latin5_bin"},
   latin7 |-> {
       "latin7_estonian_cs", "latin7_general_ci", "latin7_general_cs", "latin7_bin"},
   macce |-> {"macce_general_ci", "macce_bin"},
   macroman |-> {"macroman_general_ci", "macroman_bin"},
   sjis |-> {"sjis_japanese_ci", "sjis_bin"},
   swe7 |-> {"swe7_swedish_ci", "swe7_bin"},
   tis620 |-> {"tis620_thai_ci", "tis620_bin"},
   ucs2 |-> {
       "ucs2_general_ci", "ucs2_bin", "ucs2_unicode_ci", "ucs2_icelandic_ci", "ucs2_latvian_ci",
       "ucs2_romanian_ci", "ucs2_slovenian_ci", "ucs2_polish_ci", "ucs2_estonian_ci",
       "ucs2_spanish_ci", "ucs2_swedish_ci", "ucs2_turkish_ci", "ucs2_czech_ci",
       "ucs2_danish_ci", "ucs2_lithuanian_ci", "ucs2_slovak_ci", "ucs2_spanish2_ci",
       "ucs2_roman_ci", "ucs2_persian_ci", "ucs2_esperanto_ci", "ucs2_hungarian_ci",
       "ucs2_sinhala_ci", "ucs2_german2_ci", "ucs2_croatian_ci", "ucs2_unicode_520_ci",
       "ucs2_vietnamese_ci", "ucs2_general_mysql500_ci"},
   ujis |-> {"ujis_japanese_ci", "ujis_bin"},
   utf16 |-> {
       "utf16_general_ci", "utf16_bin", "utf16_unicode_ci", "utf16_icelandic_ci",
       "utf16_latvian_ci", "utf16_romanian_ci", "utf16_slovenian_ci", "utf16_polish_ci",
       "utf16_estonian_ci", "utf16_spanish_ci", "utf16_swedish_ci", "utf16_turkish_ci",
       "utf16_czech_ci", "utf16_danish_ci", "utf16_lithuanian_ci", "utf16_slovak_ci",
       "utf16_spanish2_ci", "utf16_roman_ci", "utf16_persian_ci", "utf16_esperanto_ci",
       "utf16_hungarian_ci", "utf16_sinhala_ci", "utf16_german2_ci", "utf16_croatian_ci",
       "utf16_unicode_520_ci", "utf16_vietnamese_ci"},
   utf16le |-> {"utf16le_general_ci", "utf16le_bin"},
   utf32 |-> {
       "utf32_general_ci", "utf32_bin", "utf32_unicode_ci", "utf32_icelandic_ci",
       "utf32_latvian_ci", "utf32_romanian_ci", "utf32_slovenian_ci", "utf32_polish_ci",
       "utf32_estonian_ci", "utf32_spanish_ci", "utf32_swedish_ci", "utf32_turkish_ci",
       "utf32_czech_ci", "utf32_danish_ci", "utf32_lithuanian_ci", "utf32_slovak_ci",
       "utf32_spanish2_ci", "utf32_roman_ci", "utf32_persian_ci", "utf32_esperanto_ci",
       "utf32_hungarian_ci", "utf32_sinhala_ci", "utf32_german2_ci", "utf32_croatian_ci",
       "utf32_unicode_520_ci", "utf32_vietnamese_ci"},
   utf8mb3 |-> {
       "utf8mb3_general_ci", "utf8mb3_tolower_ci", "utf8mb3_bin", "utf8mb3_unicode_ci",
       "utf8mb3_icelandic_ci", "utf8mb3_latvian_ci", "utf8mb3_romanian_ci",
       "utf8mb3_slovenian_ci", "utf8mb3_polish_ci", "utf8mb3_estonian_ci", "utf8mb3_spanish_ci",
       "utf8mb3_swedish_ci", "utf8mb3_turkish_ci", "utf8mb3_czech_ci", "utf8mb3_danish_ci",
       "utf8mb3_lithuanian_ci", "utf8mb3_slovak_ci", "utf8mb3_spanish2_ci", "utf8mb3_roman_ci",
       "utf8mb3_persian_ci", "utf8mb3_esperanto_ci", "utf8mb3_hungarian_ci",
       "utf8mb3_sinhala_ci", "utf8mb3_german2_ci", "utf8mb3_croatian_ci",
       "utf8mb3_unicode_520_ci", "utf8mb3_vietnamese_ci", "utf8mb3_general_mysql500_ci"},
   utf8mb4 |-> {
       "utf8mb4_general_ci", "utf8mb4_bin", "utf8mb4_unicode_ci", "utf8mb4_icelandic_ci",
       "utf8mb4_latvian_ci", "utf8mb4_romanian_ci", "utf8mb4_slovenian_ci", "utf8mb4_polish_ci",
       "utf8mb4_estonian_ci", "utf8mb4_spanish_ci", "utf8mb4_swedish_ci", "utf8mb4_turkish_ci",
       "utf8mb4_czech_ci", "utf8mb4_danish_ci", "utf8mb4_lithuanian_ci", "utf8mb4_slovak_ci",
       "utf8mb4_spanish2_ci", "utf8mb4_roman_ci", "utf8mb4_persian_ci", "utf8mb4_esperanto_ci",
       "utf8mb4_hungarian_ci", "utf8mb4_sinhala_ci", "utf8mb4_german2_ci",
       "utf8mb4_croatian_ci", "utf8mb4_unicode_520_ci", "utf8mb4_vietnamese_ci",
       "utf8mb4_0900_ai_ci", "utf8mb4_de_pb_0900_ai_ci", "utf8mb4_is_0900_ai_ci",
       "utf8mb4_lv_0900_ai_ci", "utf8mb4_ro_0900_ai_ci", "utf8mb4_sl_0900_ai_ci",
       "utf8mb4_pl_0900_ai_ci", "utf8mb4_et_0900_ai_ci", "utf8mb4_es_0900_ai_ci",
       "utf8mb4_sv_0900_ai_ci", "utf8mb4_tr_0900_ai_ci", "utf8mb4_cs_0900_ai_ci",
       "utf8mb4_da_0900_ai_ci", "utf8mb4_lt_0900_ai_ci", "utf8mb4_sk_0900_ai_ci",
       "utf8mb4_es_trad_0900_ai_ci", "utf8mb4_la_0900_ai_ci", "utf8mb4_eo_0900_ai_ci",
       "utf8mb4_hu_0900_ai_ci", "utf8mb4_hr_0900_ai_ci", "utf8mb4_vi_0900_ai_ci",
       "utf8mb4_0900_as_cs", "utf8mb4_de_pb_0900_as_cs", "utf8mb4_is_0900_as_cs",
       "utf8mb4_lv_0900_as_cs", "utf8mb4_ro_0900_as_cs", "utf8mb4_sl_0900_as_cs",
       "utf8mb4_pl_0900_as_cs", "utf8mb4_et_0900_as_cs", "utf8mb4_es_0900_as_cs",
       "utf8mb4_sv_0900_as_cs", "utf8mb4_tr_0900_as_cs", "utf8mb4_cs_0900_as_cs",
       "utf8mb4_da_0900_as_cs", "utf8mb4_lt_0900_as_cs", "utf8mb4_sk_0900_as_cs",
       "utf8mb4_es_trad_0900_as_cs", "utf8mb4_la_0900_as_cs", "utf8mb4_eo_0900_as_cs",
       "utf8mb4_hu_0900_as_cs", "utf8mb4_hr_0900_as_cs", "utf8mb4_vi_0900_as_cs",
       "utf8mb4_ja_0900_as_cs", "utf8mb4_ja_0900_as_cs_ks", "utf8mb4_0900_as_ci",
       "utf8mb4_ru_0900_ai_ci", "utf8mb4_ru_0900_as_cs", "utf8mb4_zh_0900_as_cs",
       "utf8mb4_0900_bin"}]

\* the names of the collations
CollationNames == UNION {CollationsOf[cs] : cs \in DOMAIN CollationsOf}

\* collationToCharacterSet: the character sets that share no collation
collationToCharacterSet == [c \in CollationNames |-> CHOOSE cs \in DOMAIN CollationsOf : c \in CollationsOf[cs]]

\* collations: the written names that stand for a collation of another name
collationAliases == [
    utf8_general_ci |-> "utf8mb3_general_ci", utf8_tolower_ci |-> "utf8mb3_tolower_ci",
    utf8_bin |-> "utf8mb3_bin", utf8_unicode_ci |-> "utf8mb3_unicode_ci",
    utf8_icelandic_ci |-> "utf8mb3_icelandic_ci", utf8_latvian_ci |-> "utf8mb3_latvian_ci",
    utf8_romanian_ci |-> "utf8mb3_romanian_ci", utf8_slovenian_ci |-> "utf8mb3_slovenian_ci",
    utf8_polish_ci |-> "utf8mb3_polish_ci", utf8_estonian_ci |-> "utf8mb3_estonian_ci",
    utf8_spanish_ci |-> "utf8mb3_spanish_ci", utf8_swedish_ci |-> "utf8mb3_swedish_ci",
    utf8_turkish_ci |-> "utf8mb3_turkish_ci", utf8_czech_ci |-> "utf8mb3_czech_ci",
    utf8_danish_ci |-> "utf8mb3_danish_ci", utf8_lithuanian_ci |-> "utf8mb3_lithuanian_ci",
    utf8_slovak_ci |-> "utf8mb3_slovak_ci", utf8_spanish2_ci |-> "utf8mb3_spanish2_ci",
    utf8_roman_ci |-> "utf8mb3_roman_ci", utf8_persian_ci |-> "utf8mb3_persian_ci",
    utf8_esperanto_ci |-> "utf8mb3_esperanto_ci", utf8_hungarian_ci |-> "utf8mb3_hungarian_ci",
    utf8_sinhala_ci |-> "utf8mb3_sinhala_ci", utf8_german2_ci |-> "utf8mb3_german2_ci",
    utf8_croatian_ci |-> "utf8mb3_croatian_ci",
    utf8_unicode_520_ci |-> "utf8mb3_unicode_520_ci",
    utf8_vietnamese_ci |-> "utf8mb3_vietnamese_ci",
    utf8_general_mysql500_ci |-> "utf8mb3_general_mysql500_ci"]

\* collations
collations == [name \in CollationNames \cup DOMAIN collationAliases |->
  IF name \in CollationNames THEN name ELSE collationAliases[name]]

Collation_Default == "utf8mb4_0900_ai_ci"
Collation_binary == "binary"

-----------------------------------------------------------------------------
(* Lookups.  "" is a name that is not given, Unsupported an error.         *)

Unsupported == "not supported"

CharacterSet(c) == collationToCharacterSet[c]

DefaultCollation(cs) == characterSetDefaults[cs]

BinaryCollation(cs) == characterSetDefaultBinaryColl[cs]

MaxLength(cs) == characterSetMaxLengths[cs]

WorksWithCharacterSet(c, cs) == CharacterSet(c) = cs

ParseCharacterSet(str) == IF str \in DOMAIN characterSets THEN characterSets[str] ELSE Unsupported

\* ParseCollation: the collation of the written names and the binary attribute,
\* which the code drops when both names are written
ParseCollation(charset, collate, binary) ==
  LET cs == ParseCharacterSet(charset)
      given == IF collate \in DOMAIN collations THEN collations[collate] ELSE Unsupported
      or(c) == IF binary THEN BinaryCollation(CharacterSet(c)) ELSE c
  IN CASE charset = "" /\ collate = "" -> or(Collation_Default)
       [] charset = "" /\ collate # "" -> IF given = Unsupported THEN Unsupported ELSE or(given)
       [] charset # "" /\ cs = Unsupported -> Unsupported
       [] charset # "" /\ cs # Unsupported /\ collate = "" -> or(DefaultCollation(cs))
       [] OTHER -> IF given # Unsupported /\ WorksWithCharacterSet(given, cs) THEN given ELSE Unsupported

=============================================================================
