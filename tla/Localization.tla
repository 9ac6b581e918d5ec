---------------------------- MODULE Localization ----------------------------
(***************************************************************************)
(* Localization (src/localization/): tables of texts per locale, a lookup  *)
(* with one fallback, and the loader of a directory of tables.             *)
(*                                                                         *)
(* A table gives a key a text, or "" when the text is empty, and nothing   *)
(* when the path of the key leads nowhere or to something that is no       *)
(* string; replacing the variables in a text is left out.                  *)
(***************************************************************************)
EXTENDS Naturals, Sequences, SequencesExt, TLC

CONSTANTS Codes,            \* the codes of the locales
          Keys, Texts,
          FallbackLocale,   \* config.fallbackLocale
          DefaultCode,      \* config.defaultLocale
          LocaleFiles       \* the directories of tables: sequences of files

NoCode == ""                \* no locale is given

Table == UNION {[S -> Texts \cup {""}] : S \in SUBSET Keys}

ASSUME LocalizationAssumption ==
    /\ {FallbackLocale, DefaultCode} \subseteq Codes /\ {NoCode, "clear"} \cap Codes = {}
    /\ Keys \cap Texts = {} /\ "" \notin Keys
    /\ \A dir \in LocaleFiles : /\ Len(dir) \in Nat
                                /\ \A i \in 1..Len(dir) : dir[i].code \in Codes

VARIABLES locales,   \* this.locales: a table of texts per registered code
          told       \* history: the tables handed over, in their order

localeVars == <<locales, told>>

LocalizationInit == locales = <<>> /\ told = <<>>

\* A file is named after its code; one that is no JSON, or does not parse, is skipped.
LoadLocalesFromDirectory(dir) ==
    FlattenSeq([i \in 1..Len(dir) |-> IF dir[i].ext = "json" /\ dir[i].parses
                                      THEN <<[code |-> dir[i].code, table |-> dir[i].table]>>
                                      ELSE <<>>])

Put_Merged(map, entry) ==
    (entry.code :> IF entry.code \in DOMAIN map THEN entry.table @@ map[entry.code]
                                                 ELSE entry.table) @@ map

Put(map, entry) == [code \in DOMAIN map \cup {entry.code} |->
                       IF code = entry.code THEN entry.table ELSE map[code]]

\* registerLocale, for one table or in turn for those of a directory.
RegisterLocale(list) ==
    /\ list # <<>>
    /\ locales' = FoldLeft(Put, locales, list)
    /\ told' = told \o list

ClearLocales == locales' = <<>> /\ told' = Append(told, [code |-> "clear"])

LocalizationNext ==
    \/ \E code \in Codes, table \in Table : RegisterLocale(<<[code |-> code, table |-> table]>>)
    \/ \E dir \in LocaleFiles : RegisterLocale(LoadLocalesFromDirectory(dir))
    \/ ClearLocales

(* An empty text is none: translate tests the string itself.               *)
GetTranslation(key, code) ==
    IF code \in DOMAIN locales /\ key \in DOMAIN locales[code] THEN locales[code][key] ELSE ""

TargetLocale(locale) == IF locale = NoCode THEN DefaultCode ELSE locale

Translate(key, locale) == LET code == TargetLocale(locale) IN
    CASE GetTranslation(key, code) # "" -> GetTranslation(key, code)
      [] GetTranslation(key, code) = "" /\ GetTranslation(key, FallbackLocale) # ""
           -> GetTranslation(key, FallbackLocale)
      [] OTHER -> key

TranslateBatch(keys, locale) == [key \in keys |-> Translate(key, locale)]

-----------------------------------------------------------------------------
(* A batch is translated with the tables handed over last, whole, of the   *)
(* locale asked for, or the default locale when none is: a text that only  *)
(* an earlier table of the locale had, or one of before the tables were    *)
(* cleared, is gone; the fallback's or the key itself stands in for it.    *)
TranslatesLatest == \A locale \in Codes \cup {NoCode} :
    LET Latest(c)  == {i \in DOMAIN told : /\ told[i].code = c
                                           /\ \A j \in i + 1..Len(told) : told[j].code \notin {c, "clear"}}
        Has(c, k)  == {told[i].table[k] : i \in {j \in Latest(c) : k \in DOMAIN told[j].table}} \ {""}
        code       == IF locale = NoCode THEN DefaultCode ELSE locale
        Offered(k) == IF Has(code, k) # {} THEN Has(code, k) ELSE Has(FallbackLocale, k)
    IN  \A k \in Keys : LET text == TranslateBatch(Keys, locale)[k]
                        IN  {text} = IF Offered(k) = {} THEN {k} ELSE Offered(k)
=============================================================================
