----------------------------- MODULE MCMessages -----------------------------
(* What goes into a notification.  A behaviour either makes and sends       *)
(* messages or registers texts: the two share nothing.                      *)
EXTENDS Providers, Texts
CONSTANTS t1, t2, b1, b2

TwoBuilders == {b1, b2}
Symmetric == Permutations(TwoBuilders)
TokenValues == {[many |-> TRUE, list |-> <<t1, t2>>]}

File(id, locale, content, ext, readable) ==
    [template |-> [id |-> id, locale |-> locale, content |-> content],
     ext |-> ext, readable |-> readable]

\* welcome.hbs and welcome.en.hbs are one key; a text file and one that cannot be read.
WelcomeFiles == {<<File("welcome", NoLocale, "hello", "hbs", TRUE),
                   File("welcome", "en", "bonjour", "hbs", TRUE),
                   File("welcome", "fr", "hello", "txt", TRUE),
                   File("welcome", "fr", "bonjour", "json", FALSE)>>}

TableFiles == {<<[code |-> "fr", table |-> [k \in {"title"} |-> "Bonjour"], ext |-> "json", parses |-> TRUE],
                 [code |-> "en", table |-> [k \in {"title"} |-> "Hello"], ext |-> "json", parses |-> FALSE]>>}

MessagesInit == Init /\ TextsInit
MessagesNext == \/ Next /\ log = <<>> /\ told = <<>> /\ UNCHANGED <<templateVars, localeVars>>
                \/ TextsNext /\ heap = <<>> /\ call = NoCall /\ UNCHANGED vars
MessagesSpec == MessagesInit /\ [][MessagesNext]_<<vars, templateVars, localeVars>>
=============================================================================
