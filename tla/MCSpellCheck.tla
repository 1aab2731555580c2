--------------------------- MODULE MCSpellCheck ---------------------------
(* SpellCheck for TLC: keyboards of two layouts, of which one tells of no  *)
(* language, and three dictionaries, two of them of the locale's language: *)
(* the one that is used is the second by its path.  One is found twice.    *)
EXTENDS SpellCheck, TLC

Button == [main |-> FALSE, keymap |-> "custom"]
English(main) == [main |-> main, keymap |-> "english"]
MCLayouts == {<<Button, English(TRUE)>>, <<Button, English(FALSE)>>}
MCLanguageOf == [english |-> "en", custom |-> ""]
MCEnv == <<"", "de_DE", "en_US">>
MCCode == [de_AT |-> "de", de_DE |-> "de", en_US |-> "en"]
MCInstalled == <<"share/de_AT", "share/de_DE", "share/en_US", "dicts/en_US">>
MCByPath == <<"dicts/en_US", "share/de_AT", "share/de_DE", "share/en_US">>
MCFile == [d \in Dict |-> IF d = "dicts/en_US" THEN "share/en_US" ELSE d]
MCName == ("share/de_AT" :> "de_AT") @@ ("share/de_DE" :> "de_DE") @@
          [d \in {"share/en_US", "dicts/en_US"} |-> "en_US"]
MCMisspelt == [d \in Dict |->
    CASE MCName[d] = "de_AT" -> {} [] MCName[d] = "de_DE" -> {<<"x", "x">>} [] OTHER -> {<<"x">>}]

=============================================================================
