---------------------------- MODULE MCProviders ----------------------------
(* Two builders, whose messages have one token or two, for a bulk call.     *)
EXTENDS Providers
CONSTANTS t1, t2, b1, b2
TwoBuilders == {b1, b2}
TokenValues == {[many |-> FALSE, list |-> <<t1>>], [many |-> TRUE, list |-> <<t1, t2>>]}
=============================================================================
