----------------------------- MODULE Templates -----------------------------
(***************************************************************************)
(* Templates (src/templates/): engines that compile the templates they are *)
(* given and answer render from the compiled ones, and the loader that     *)
(* makes templates of the files of a directory.  Handlebars, which renders *)
(* them, is external: it keeps ONE table of helpers, which all the engines *)
(* of a process share and every constructor writes again.                  *)
(*                                                                         *)
(* A content is a value; what a render returns is the content it took.     *)
(* cacheTemplates is true: when it is false an engine keeps no template at *)
(* all.                                                                    *)
(***************************************************************************)
EXTENDS Naturals, Sequences, FiniteSets, SequencesExt

CONSTANTS Engines, Ids, Locales, Contents,
          DefaultLocale,    \* config.defaultLocale
          Directories       \* the directories there are: sequences of files

NoLocale == "undefined"     \* no locale is given
Builtin  == "builtin"

VARIABLES templates,      \* per engine: the compiled template of a key
          rawTemplates,   \* per engine: the template of a key
          helpers,        \* the function the shared table holds: Builtin or an engine's own
          log             \* history: the calls that make, fill or clear an engine

templateVars == <<templates, rawTemplates, helpers, log>>

Template == [id : Ids, locale : Locales \cup {NoLocale}, content : Contents]

ASSUME TemplateAssumption ==
    /\ NoLocale \notin Locales /\ DefaultLocale \in Locales /\ Builtin \notin Engines
    /\ \A dir \in Directories : /\ Len(dir) \in Nat
                                /\ \A i \in 1..Len(dir) : dir[i].template \in Template

Key == Ids \X Locales
Call == [op : {"new", "clear"}, of : Engines]
        \cup [op : {"register"}, of : Engines, template : Template]

Empty == [k \in {} |-> NoLocale]

TemplatesInit == /\ templates = [e \in Engines |-> Empty] /\ rawTemplates = templates
                 /\ helpers = Builtin /\ log = <<>>

Made == {log[i].of : i \in {j \in DOMAIN log : log[j].op = "new"}}

TemplateKey_NoDefault(id, locale) == <<id, locale>>

TemplateKey(id, locale) == <<id, IF locale = NoLocale THEN DefaultLocale ELSE locale>>

Note(e, op) == log' = Append(log, [op |-> op, of |-> e])

\* The constructor, which registers the common helpers whatever is there.
New(e) == /\ e \notin Made /\ Note(e, "new")
          /\ helpers' = Builtin
          /\ UNCHANGED <<templates, rawTemplates>>

With(map, template) ==
    LET key == TemplateKey(template.id, template.locale)
    IN  [k \in DOMAIN map \cup {key} |-> IF k = key THEN template.content ELSE map[k]]

\* The files of a directory that a loader takes: a name it knows, a content it can read.
LoadTemplatesFromDirectory(dir) ==
    LET Loads(file) == file.ext \in {"hbs", "handlebars", "json"} /\ file.readable
    IN  FlattenSeq([i \in 1..Len(dir) |-> IF Loads(dir[i]) THEN <<dir[i].template>> ELSE <<>>])

\* registerTemplate, for one template or in turn for those of a directory.
Register(e, list) ==
    /\ e \in Made /\ list # <<>>
    /\ templates' = [templates EXCEPT ![e] = FoldLeft(With, @, list)]
    /\ rawTemplates' = [rawTemplates EXCEPT ![e] = FoldLeft(With, @, list)]
    /\ log' = log \o [i \in DOMAIN list |-> [op |-> "register", of |-> e, template |-> list[i]]]
    /\ UNCHANGED helpers

ClearCache(e) == /\ e \in Made /\ Note(e, "clear")
                 /\ templates' = [templates EXCEPT ![e] = Empty]
                 /\ UNCHANGED <<rawTemplates, helpers>>

RegisterHelper(e) == /\ e \in Made /\ helpers' = e
                     /\ UNCHANGED <<templates, rawTemplates, log>>

TemplatesNext == \E e \in Engines :
    \/ New(e) \/ ClearCache(e) \/ RegisterHelper(e)
    \/ \E t \in Template : Register(e, <<t>>)
    \/ \E dir \in Directories : Register(e, LoadTemplatesFromDirectory(dir))

(* The set of the content that render finds: empty when it throws.         *)
Render(e, id, locale) ==
    LET At(key) == {templates[e][k] : k \in {key} \cap DOMAIN templates[e]}
        own     == At(TemplateKey(id, locale))
    IN  IF own # {} THEN own ELSE At(TemplateKey(id, NoLocale))

HasTemplate(e, id, locale) == TemplateKey(id, locale) \in DOMAIN rawTemplates[e]

TemplatesTypeOK ==
    /\ log \in Seq(Call) /\ helpers \in Engines \cup {Builtin}
    /\ \A e \in Engines : \A map \in {templates[e], rawTemplates[e]} :
         DOMAIN map \subseteq Key /\ \A k \in DOMAIN map : map[k] \in Contents

-----------------------------------------------------------------------------
LastOf(S) == {i \in S : \A j \in S : j <= i}
Calls(e, ops) == {i \in DOMAIN log : log[i].of = e /\ log[i].op \in ops}

(* What the application registered last of all for an engine, an id and    *)
(* the locale meant, as the set of its position.                           *)
LastRegistered(e, id, locale) == LastOf({i \in Calls(e, {"register"}) :
    LET t == log[i].template
    IN  t.id = id /\ locale = IF t.locale = NoLocale THEN DefaultLocale ELSE t.locale})

(* render answers with the content registered last for the locale it is    *)
(* asked for, with the default locale's when there is none, and throws     *)
(* when there is neither; what was registered before clearCache counts no  *)
(* more, though hasTemplate goes on confirming it.                         *)
RendersLatest == \A e \in Made, id \in Ids, locale \in Locales :
    LET Live(l) == {i \in LastRegistered(e, id, l) : \A c \in Calls(e, {"clear"}) : c < i}
        taken   == IF Live(locale) # {} THEN Live(locale) ELSE Live(DefaultLocale)
    IN  /\ Render(e, id, locale) = {log[i].template.content : i \in taken}
        /\ HasTemplate(e, id, locale) <=> LastRegistered(e, id, locale) # {}
=============================================================================
