------------------------------- MODULE Texts -------------------------------
(***************************************************************************)
(* The texts of a notification: an application that renders templates and  *)
(* translates keys uses both engines, which share nothing.                 *)
(***************************************************************************)
EXTENDS Templates, Localization

CONSTANT MaxCalls   \* bound: the calls that change an engine, directories aside

TextsInit == TemplatesInit /\ LocalizationInit

TextsNext == /\ Len(log) + Len(told) < MaxCalls
             /\ \/ TemplatesNext /\ UNCHANGED localeVars
                \/ LocalizationNext /\ UNCHANGED templateVars

TextsSpec == TextsInit /\ [][TextsNext]_<<templateVars, localeVars>>
=============================================================================
