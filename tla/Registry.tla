------------------------------ MODULE Registry ------------------------------
(***************************************************************************)
(* The registries (src/core/ProviderRegistry.ts; AdapterRegistry.ts is the *)
(* same code for queue adapters): one instance per type, loaded with the   *)
(* configuration of the first call that asks for it and cached after an    *)
(* await.  isAvailable asks with the empty configuration, Default.         *)
(*                                                                         *)
(* The types that can be asked for have a loader from the start, and a     *)
(* loader replaced by registerLoader is asked in the same way.             *)
(***************************************************************************)
EXTENDS Naturals, Sequences, FiniteSets

CONSTANTS Types, Callers, Configs, Default,
          MaxMade,    \* bound: instances loaded
          MaxClears   \* bound: calls of clearCache

ASSUME RegistryAssumption == "none" \notin Types /\ MaxMade \in Nat /\ MaxClears \in Nat

VARIABLES cache,   \* this.providers: the number of the instance, 0 for none
          made,    \* the instances, in the order in which they were loaded
          ask,     \* the calls, and what the last one of a caller returned
          clears   \* number of calls of clearCache

registryVars == <<cache, made, ask, clears>>

(* beside: the load began while another one of its type was in progress.   *)
Instance == [type : Types, config : Configs \cup {Default}, probe : BOOLEAN, beside : BOOLEAN]
Quiet == [type |-> "none"]
Asking == Instance \cup {Quiet}

RegistryInit == /\ cache = [t \in Types |-> 0] /\ made = <<>>
                /\ ask = [p \in Callers |-> [load |-> Quiet, got |-> 0]]
                /\ clears = 0

Loading(t) == {p \in Callers : ask[p].load.type = t}

\* getProvider by a caller, or (probe) by isAvailable, which keeps no instance.
Get(p, t, config, probe) ==
    /\ ask[p].load = Quiet
    /\ IF cache[t] # 0
       THEN ask' = IF probe THEN ask ELSE [ask EXCEPT ![p].got = cache[t]]
       ELSE ask' = [ask EXCEPT ![p].load = [type |-> t, config |-> config, probe |-> probe,
                                            beside |-> Loading(t) # {}]]
    /\ UNCHANGED <<cache, made, clears>>

Loaded_NotCached(p) ==
    LET load == ask[p].load
        new  == Len(made) + 1 IN
    /\ load # Quiet /\ new <= MaxMade
    /\ made' = Append(made, load)
    /\ ask' = [ask EXCEPT ![p] = [load |-> Quiet, got |-> IF load.probe THEN @.got ELSE new]]
    /\ UNCHANGED <<cache, clears>>

\* The loader returns a new instance, which replaces what the cache holds by now.
Loaded(p) ==
    LET load == ask[p].load
        new  == Len(made) + 1 IN
    /\ load # Quiet /\ new <= MaxMade
    /\ made' = Append(made, load)
    /\ cache' = [cache EXCEPT ![load.type] = new]
    /\ ask' = [ask EXCEPT ![p] = [load |-> Quiet, got |-> IF load.probe THEN @.got ELSE new]]
    /\ UNCHANGED clears

LoadFails(p) ==
    /\ ask[p].load # Quiet
    /\ ask' = [ask EXCEPT ![p].load = Quiet]
    /\ UNCHANGED <<cache, made, clears>>

Clear == /\ clears < MaxClears /\ clears' = clears + 1
         /\ cache' = [t \in Types |-> 0]
         /\ UNCHANGED <<made, ask>>

RegistryNext == \/ \E p \in Callers :
                      \/ \E t \in Types : \/ \E c \in Configs : Get(p, t, c, FALSE)
                                          \/ Get(p, t, Default, TRUE)
                      \/ Loaded(p) \/ LoadFails(p)
                \/ Clear

RegistrySpec == RegistryInit /\ [][RegistryNext]_registryVars

-----------------------------------------------------------------------------
(* The cache and the callers hold instances that were made, the cache of   *)
(* their own type.                                                         *)
RegistryTypeOK ==
    /\ made \in Seq(Instance) /\ Len(made) <= MaxMade
    /\ cache \in [Types -> 0..Len(made)]
    /\ \A t \in Types : cache[t] # 0 => made[cache[t]].type = t
    /\ ask \in [Callers -> [load : Asking, got : 0..Len(made)]]
    /\ clears \in 0..MaxClears

(* The check of the cache and its filling lie on two sides of an await.    *)
(* Apart from loads that began while another load of the type was already  *)
(* in progress, a type is loaded at most once between two clearCaches: the *)
(* singletons the registry promises.                                       *)
OneInstance == \A t \in Types :
    Cardinality({i \in DOMAIN made : made[i].type = t /\ ~made[i].beside}) <= 1 + clears
=============================================================================
