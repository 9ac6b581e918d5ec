---------------------------- MODULE BullMQ_proofs ----------------------------
(***************************************************************************)
(* What holds of the registries and of the BullMQ adapter for any number   *)
(* of types, callers, configurations and jobs.                             *)
(***************************************************************************)
EXTENDS BullMQ, Data_proofs

-----------------------------------------------------------------------------
(* The registry.                                                           *)

(* Instances of t whose load began with no other load of t in progress.    *)
Solo(t) == {i \in DOMAIN made : made[i].type = t /\ ~made[i].beside}

(* Caller p is in such a load.                                             *)
Alone(p, t) == ask[p].load.type = t /\ ~ask[p].load.beside

AskState(n) == [load : Asking, got : 0..n]

(* At most one such load at a time; and as long as nothing is cached, or   *)
(* such a load is in progress, none has ended since the last clearCache.   *)
LoadsInv == /\ RegistryTypeOK
            /\ \A t \in Types :
                  /\ Cardinality(Solo(t)) <= 1 + clears
                  /\ cache[t] = 0 => Cardinality(Solo(t)) <= clears
                  /\ \A p \in Callers : Alone(p, t) => Cardinality(Solo(t)) <= clears
                  /\ \A p, q \in Callers : Alone(p, t) /\ Alone(q, t) => p = q

LEMMA Loads ==
    /\ \A l \in Asking : l # Quiet => l \in Instance /\ l.type \in Types
    /\ \A l \in Instance : l # Quiet /\ l \in Asking /\ l.type \in Types
    /\ Quiet \in Asking /\ Quiet.type \notin Types
  <1>1. Quiet.type = "none"
    BY DEF Quiet
  <1>2. \A l \in Instance : l.type \in Types
    BY DEF Instance
  <1> QED BY <1>1, <1>2, RegistryAssumption DEF Asking

LEMMA LoadMoved ==
    ASSUME NEW n \in Nat, NEW a \in AskState(n), NEW l \in Asking
    PROVE  [a EXCEPT !.load = l] \in AskState(n) /\ [a EXCEPT !.load = l].load = l
  BY DEF AskState

LEMMA GotMoved ==
    ASSUME NEW n \in Nat, NEW a \in AskState(n), NEW g \in 0..n
    PROVE  [a EXCEPT !.got = g] \in AskState(n) /\ [a EXCEPT !.got = g].load = a.load
  BY DEF AskState

(* A load that ends makes an instance: the index set grows by the new one. *)
LEMMA SoloGrows ==
    ASSUME RegistryTypeOK, NEW l \in Instance, made' = Append(made, l), NEW t \in Types
    PROVE  LET new == Len(made) + 1 IN
           /\ new \notin Solo(t) /\ IsFiniteSet(Solo(t))
           /\ Solo(t)' = IF l.type = t /\ ~l.beside THEN Solo(t) \cup {new} ELSE Solo(t)
  <1> DEFINE n == Len(made) new == n + 1
  <1>1. n \in Nat /\ DOMAIN made = 1..n /\ DOMAIN made' = 1..new
        /\ made'[new] = l /\ \A i \in 1..n : made'[i] = made[i]
    BY DEF RegistryTypeOK
  <1> HIDE DEF n
  <1>2. new \notin 1..n /\ 1..new = 1..n \cup {new}
    BY <1>1
  <1>3. IsFiniteSet(1..n)
    BY <1>1, FS_Interval
  <1>4. Solo(t) \subseteq 1..n
    BY <1>1 DEF Solo
  <1>5. IsFiniteSet(Solo(t))
    BY <1>3, <1>4, FS_Subset
  <1> HIDE DEF new
  <1>6. Solo(t)' = IF l.type = t /\ ~l.beside THEN Solo(t) \cup {new} ELSE Solo(t)
    BY <1>1, <1>2 DEF Solo
  <1> QED BY <1>2, <1>4, <1>5, <1>6 DEF new, n

LEMMA SoloFinite ==
    ASSUME RegistryTypeOK, NEW t \in Types PROVE Cardinality(Solo(t)) \in Nat
  <1>1. Len(made) \in Nat /\ DOMAIN made = 1..Len(made)
    BY DEF RegistryTypeOK
  <1>2. IsFiniteSet(1..Len(made)) /\ Solo(t) \subseteq 1..Len(made)
    BY <1>1, FS_Interval DEF Solo
  <1> QED BY <1>2, FS_Subset, FS_CardinalityType

LEMMA LoadsInit == RegistryInit => LoadsInv
  <1> SUFFICES ASSUME RegistryInit PROVE LoadsInv
    OBVIOUS
  <1>1. made = <<>> /\ made \in Seq(Instance) /\ Len(made) = 0 /\ DOMAIN made = {}
    BY DEF RegistryInit
  <1>2. 0 \in 0..Len(made) /\ 0 \in 0..MaxClears /\ 0 <= MaxMade
    BY <1>1, RegistryAssumption
  <1>3. ask \in [Callers -> [load : Asking, got : 0..Len(made)]]
    BY <1>2, Loads DEF RegistryInit
  <1>4. RegistryTypeOK
    BY <1>1, <1>2, <1>3 DEF RegistryInit, RegistryTypeOK
  <1>5. \A t \in Types : Solo(t) = {}
    BY <1>1 DEF Solo
  <1>6. \A p \in Callers, t \in Types : ~Alone(p, t)
    BY Loads DEF RegistryInit, Alone
  <1>7. Cardinality({}) = 0 /\ clears = 0 /\ 0 <= 0 /\ 0 <= 1 + 0
    BY FS_EmptySet DEF RegistryInit
  <1> QED BY <1>4, <1>5, <1>6, <1>7 DEF LoadsInv

LEMMA OneAsk ==
    ASSUME RegistryTypeOK, NEW p \in Callers
    PROVE  /\ Len(made) \in Nat /\ DOMAIN made = 1..Len(made) /\ clears \in Nat
           /\ ask[p] \in AskState(Len(made)) /\ ask[p].load \in Asking
           /\ ask[p].got \in 0..Len(made)
           /\ \A t \in Types : cache[t] \in 0..Len(made)
  BY RegistryAssumption DEF RegistryTypeOK, AskState

(* The calls stay what they are when p moves to a.                         *)
LEMMA OneAsks ==
    ASSUME RegistryTypeOK, NEW p \in Callers, NEW a \in AskState(Len(made)),
           ask' = [ask EXCEPT ![p] = a]
    PROVE  /\ ask' \in [Callers -> AskState(Len(made))] /\ ask'[p] = a
           /\ \A q \in Callers : q # p => ask'[q] = ask[q]
  BY DEF RegistryTypeOK, AskState

(* A call that begins, or comes at once to an instance.                    *)
LEMMA GetKeeps ==
    ASSUME LoadsInv, NEW p \in Callers, NEW t \in Types, NEW c \in Configs \cup {Default},
           NEW b \in BOOLEAN, Get(p, t, c, b)
    PROVE  LoadsInv'
  <1> DEFINE l == [type |-> t, config |-> c, probe |-> b, beside |-> Loading(t) # {}]
             n == Len(made)
  <1>1. RegistryTypeOK /\ n \in Nat /\ ask[p] \in AskState(n) /\ cache[t] \in 0..n
    BY OneAsk DEF LoadsInv
  <1>2. ask[p].load = Quiet /\ UNCHANGED <<cache, made, clears>>
    BY DEF Get
  <1>3. l \in Instance /\ l.type = t /\ l.beside = (Loading(t) # {})
    <2> DEFINE d == (Loading(t) # {})
    <2>1. d \in BOOLEAN
      OBVIOUS
    <2> HIDE DEF d
    <2> QED BY <2>1 DEF Instance
  <1> HIDE DEF l
  <1>4. /\ ask' = [ask EXCEPT ![p] = [ask[p] EXCEPT !.load = l]] /\ cache[t] = 0
        \/ ask' = [ask EXCEPT ![p] = [ask[p] EXCEPT !.got = cache[t]]]
        \/ ask' = ask
    BY <1>1 DEF Get, l, RegistryTypeOK
  <1> HIDE DEF n
  <1>5. CASE ask' = ask
    BY <1>2, <1>5 DEF LoadsInv, RegistryTypeOK, Solo, Alone
  <1>6. CASE ask' = [ask EXCEPT ![p] = [ask[p] EXCEPT !.got = cache[t]]]
    <2> DEFINE a == [ask[p] EXCEPT !.got = cache[t]]
    <2>1. a \in AskState(n) /\ a.load = ask[p].load
      BY <1>1, GotMoved
    <2>2. ask' = [ask EXCEPT ![p] = a]
      BY <1>6
    <2> HIDE DEF a
    <2>3. /\ ask' \in [Callers -> AskState(n)]
          /\ \A q \in Callers : ask'[q].load = ask[q].load
      BY <1>1, <2>1, <2>2, OneAsks DEF n
    <2>4. RegistryTypeOK'
      BY <1>1, <1>2, <2>3 DEF RegistryTypeOK, AskState, n
    <2> QED BY <1>2, <2>3, <2>4 DEF LoadsInv, Solo, Alone
  <1>7. CASE ask' = [ask EXCEPT ![p] = [ask[p] EXCEPT !.load = l]] /\ cache[t] = 0
    <2> DEFINE a == [ask[p] EXCEPT !.load = l]
    <2>1. a \in AskState(n) /\ a.load = l
      BY <1>1, <1>3, Loads, LoadMoved
    <2>2. ask' = [ask EXCEPT ![p] = a]
      BY <1>7
    <2> HIDE DEF a
    <2>3. /\ ask' \in [Callers -> AskState(n)] /\ ask'[p].load = l
          /\ \A q \in Callers : q # p => ask'[q] = ask[q]
      BY <1>1, <2>1, <2>2, OneAsks DEF n
    <2>4. RegistryTypeOK'
      BY <1>1, <1>2, <2>3 DEF RegistryTypeOK, AskState, n
    <2>5. ASSUME NEW u \in Types, NEW q \in Callers, Alone(q, u)'
          PROVE  IF q = p THEN u = t /\ Loading(t) = {} ELSE Alone(q, u)
      BY <1>3, <2>3, <2>5 DEF Alone
    <2>6. ASSUME NEW u \in Types PROVE Solo(u)' = Solo(u) /\ cache'[u] = cache[u]
      BY <1>2 DEF Solo
    <2>7. ASSUME NEW u \in Types, NEW q \in Callers, Alone(q, u)'
          PROVE  Cardinality(Solo(u)) <= clears
      BY <1>7, <2>5, <2>7 DEF LoadsInv
    <2>8. ASSUME NEW u \in Types, NEW q \in Callers, NEW r \in Callers, Alone(q, u)', Alone(r, u)'
          PROVE  q = r
      BY <2>5, <2>8 DEF LoadsInv, Alone, Loading
    <2> QED BY <1>2, <2>4, <2>6, <2>7, <2>8 DEF LoadsInv
  <1> QED BY <1>4, <1>5, <1>6, <1>7

LEMMA LoadFailsKeeps ==
    ASSUME LoadsInv, NEW p \in Callers, LoadFails(p) PROVE LoadsInv'
  <1> DEFINE n == Len(made) a == [ask[p] EXCEPT !.load = Quiet]
  <1>1. RegistryTypeOK /\ n \in Nat /\ ask[p] \in AskState(n)
    BY OneAsk DEF LoadsInv
  <1>2. ask' = [ask EXCEPT ![p] = a] /\ UNCHANGED <<cache, made, clears>>
    BY DEF LoadFails
  <1>3. a \in AskState(n) /\ a.load = Quiet
    BY <1>1, Loads, LoadMoved
  <1> HIDE DEF a
  <1>4. /\ ask' \in [Callers -> AskState(n)] /\ ask'[p].load = Quiet
        /\ \A q \in Callers : q # p => ask'[q] = ask[q]
    BY <1>1, <1>2, <1>3, OneAsks
  <1>5. RegistryTypeOK'
    BY <1>1, <1>2, <1>4 DEF RegistryTypeOK, AskState
  <1>6. ASSUME NEW t \in Types, NEW q \in Callers, Alone(q, t)' PROVE Alone(q, t)
    BY <1>4, <1>6, Loads DEF Alone
  <1> QED BY <1>2, <1>5, <1>6 DEF LoadsInv, Solo

LEMMA ClearKeeps == ASSUME LoadsInv, Clear PROVE LoadsInv'
  <1>1. /\ RegistryTypeOK /\ clears' = clears + 1 /\ clears' \in 0..MaxClears /\ clears \in Nat
        /\ UNCHANGED <<made, ask>> /\ \A t \in Types : cache'[t] = 0
    BY RegistryAssumption DEF Clear, LoadsInv, RegistryTypeOK
  <1>2. Len(made) \in Nat /\ 0 \in 0..Len(made)
    BY <1>1 DEF RegistryTypeOK
  <1>3. RegistryTypeOK'
    BY <1>1, <1>2 DEF RegistryTypeOK, Clear
  <1>4. ASSUME NEW t \in Types
        PROVE  /\ Solo(t)' = Solo(t) /\ Cardinality(Solo(t)) <= clears'
               /\ Cardinality(Solo(t)) <= 1 + clears'
    <2>1. Cardinality(Solo(t)) \in Nat /\ Cardinality(Solo(t)) <= 1 + clears
      BY <1>1, SoloFinite DEF LoadsInv
    <2>2. Cardinality(Solo(t)) <= clears' /\ Cardinality(Solo(t)) <= 1 + clears'
      BY <1>1, <2>1
    <2> QED BY <1>1, <2>2 DEF Solo
  <1> QED BY <1>1, <1>3, <1>4 DEF LoadsInv, Alone

(* The new instance is alone of its type since the last clearCache if its  *)
(* load was alone.                                                         *)
LEMMA LoadedTypes ==
    ASSUME RegistryTypeOK, NEW p \in Callers, Loaded(p) PROVE RegistryTypeOK'
  <1> DEFINE n == Len(made) new == n + 1 l == ask[p].load
             g == IF l.probe THEN ask[p].got ELSE new
             a == [load |-> Quiet, got |-> g]
  <1>1. /\ n \in Nat /\ new \in Nat /\ new <= MaxMade /\ l \in Instance /\ l.type \in Types
        /\ ask[p].got \in 0..n
    BY OneAsk, Loads DEF Loaded
  <1>2. /\ made' = Append(made, l) /\ cache' = [cache EXCEPT ![l.type] = new]
        /\ ask' = [ask EXCEPT ![p] = a] /\ clears' = clears
    BY DEF Loaded, RegistryTypeOK
  <1>3. g \in 0..new /\ 0..n \subseteq 0..new /\ new \in 0..new
    BY <1>1
  <1> HIDE DEF l, g
  <1>4. /\ made' \in Seq(Instance) /\ Len(made') = new /\ made'[new] = l
        /\ \A i \in 1..n : made'[i] = made[i]
    BY <1>1, <1>2 DEF RegistryTypeOK
  <1>5. a \in AskState(new)
    BY <1>3, Loads DEF AskState
  <1> HIDE DEF new, a
  <1>6. ask \in [Callers -> AskState(new)]
    <2>1. AskState(n) \subseteq AskState(new)
      BY <1>3 DEF AskState
    <2> QED BY <2>1 DEF RegistryTypeOK, AskState
  <1>7. ask' \in [Callers -> AskState(new)]
    BY <1>2, <1>5, <1>6
  <1>8. cache' \in [Types -> 0..new]
    BY <1>2, <1>3 DEF RegistryTypeOK
  <1>9. ASSUME NEW t \in Types, cache'[t] # 0 PROVE made'[cache'[t]].type = t
    <2>1. CASE t = l.type
      BY <1>2, <1>4, <2>1 DEF RegistryTypeOK
    <2>2. CASE t # l.type
      <3>1. cache'[t] = cache[t] /\ cache[t] \in 0..n /\ cache[t] # 0
        BY <1>2, <1>9, <2>2 DEF RegistryTypeOK
      <3>2. cache[t] \in 1..n
        BY <1>1, <3>1
      <3> QED BY <1>4, <3>1, <3>2 DEF RegistryTypeOK
    <2> QED BY <2>1, <2>2
  <1> QED BY <1>1, <1>2, <1>4, <1>7, <1>8, <1>9 DEF RegistryTypeOK, AskState

LEMMA LoadedKeeps ==
    ASSUME LoadsInv, NEW p \in Callers, Loaded(p) PROVE LoadsInv'
  <1> DEFINE new == Len(made) + 1 l == ask[p].load
  <1>1. /\ RegistryTypeOK /\ RegistryTypeOK' /\ l \in Instance /\ clears \in Nat /\ clears' = clears
        /\ made' = Append(made, l) /\ l.type \in Types /\ new # 0
    <2>1. RegistryTypeOK /\ RegistryTypeOK'
      BY LoadedTypes DEF LoadsInv
    <2>2. clears \in Nat /\ new # 0 /\ l \in Asking
      BY <2>1, OneAsk
    <2>3. l # Quiet /\ clears' = clears /\ made' = Append(made, l)
      BY DEF Loaded
    <2> QED BY <2>1, <2>2, <2>3, Loads
  <1>2. \A t \in Types : cache'[t] = IF t = l.type THEN new ELSE cache[t]
    BY DEF Loaded, LoadsInv, RegistryTypeOK
  <1>3. ask'[p].load = Quiet /\ \A q \in Callers : q # p => ask'[q] = ask[q]
    BY DEF Loaded, LoadsInv, RegistryTypeOK
  <1>4. ASSUME NEW t \in Types, NEW q \in Callers, Alone(q, t)' PROVE q # p /\ Alone(q, t)
    BY <1>3, <1>4, Loads DEF Alone
  <1>5. ASSUME NEW t \in Types, ~(l.type = t /\ ~l.beside)
        PROVE  /\ Cardinality(Solo(t)') <= 1 + clears'
               /\ cache'[t] = 0 => Cardinality(Solo(t)') <= clears'
               /\ \A q \in Callers : Alone(q, t)' => Cardinality(Solo(t)') <= clears'
    <2>1. Solo(t)' = Solo(t)
      BY <1>1, <1>5, SoloGrows
    <2> QED BY <1>1, <1>2, <1>4, <2>1 DEF LoadsInv
  <1>6. ASSUME NEW t \in Types, l.type = t /\ ~l.beside
        PROVE  /\ Cardinality(Solo(t)') <= 1 + clears'
               /\ cache'[t] # 0
               /\ \A q \in Callers : ~Alone(q, t)'
    <2>1. Alone(p, t)
      BY <1>6 DEF Alone
    <2>2. Cardinality(Solo(t)) <= clears /\ Cardinality(Solo(t)) \in Nat
      BY <1>1, <2>1, SoloFinite DEF LoadsInv
    <2>3. Solo(t)' = Solo(t) \cup {new} /\ new \notin Solo(t) /\ IsFiniteSet(Solo(t))
      BY <1>1, <1>6, SoloGrows
    <2>4. Cardinality(Solo(t)') = Cardinality(Solo(t)) + 1
      BY <2>3, FS_AddElement
    <2>5. Cardinality(Solo(t)') <= 1 + clears'
      BY <1>1, <2>2, <2>4
    <2> QED BY <1>1, <1>2, <1>4, <1>6, <2>1, <2>5 DEF LoadsInv
  <1> QED BY <1>1, <1>4, <1>5, <1>6 DEF LoadsInv

LEMMA LoadsNext == ASSUME LoadsInv, [RegistryNext]_registryVars PROVE LoadsInv'
  <1>1. CASE UNCHANGED registryVars
    BY <1>1 DEF registryVars, LoadsInv, RegistryTypeOK, Solo, Alone
  <1> QED BY <1>1, GetKeeps, LoadedKeeps, LoadFailsKeeps, ClearKeeps DEF RegistryNext

(* A registry by itself, of providers or adapters: each type is loaded at  *)
(* most once between two clearCaches, apart from loads that overlapped.    *)
THEOREM RegistrySingletons == RegistrySpec => []OneInstance
  <1>1. LoadsInv => OneInstance
    BY DEF LoadsInv, Solo, OneInstance
  <1>2. LoadsInv /\ [RegistryNext]_registryVars => LoadsInv'
    BY LoadsNext
  <1> QED BY LoadsInit, <1>1, <1>2, PTL DEF RegistrySpec

-----------------------------------------------------------------------------
(* The adapters: a step of the registry, or one that leaves it alone.      *)

(* The jobs stay jobs: a step of an adapter moves them on, or enqueues one *)
(* in the queue of the adapter.                                            *)
JobRecord == [state : States, queue : Configs \cup {Default}, tries : Nat, fails : Nat]

JobsInv == job \in [Jobs -> JobRecord]
Kept == JobsInv'

Enqueued(p) == /\ Mine(p) # 0 /\ p \in Callers
               /\ \E j \in Jobs : job' = [job EXCEPT ![j] = [NoJob EXCEPT !.state = "waiting",
                                                                       !.queue = Queue(p)]]

LEMMA RegistrySteps ==
    ASSUME [Next]_vars PROVE [RegistryNext]_registryVars
  <1>1. ASSUME NEW p \in Callers, NEW c \in Configs, GetAdapter(p, c) PROVE RegistryNext
    BY <1>1, BullMQAssumption DEF GetAdapter, RegistryNext
  <1>2. ASSUME NEW p \in Callers, IsAvailable(p) PROVE RegistryNext
    BY <1>2, BullMQAssumption DEF IsAvailable, RegistryNext
  <1>3. ASSUME NEW p \in Callers, LoadAdapter(p) \/ LoaderFails(p) PROVE RegistryNext
    BY <1>3 DEF LoadAdapter, LoaderFails, RegistryNext
  <1>4. ASSUME ClearCache PROVE RegistryNext
    BY <1>4 DEF ClearCache, RegistryNext
  <1>5. ASSUME NEW p \in Callers,
               \/ Enqueue(p) \/ Complete(p) \/ Fail(p) \/ FailMoved(p) \/ FailCounted(p)
               \/ Retry(p) \/ Obliterate(p) \/ MetricsReset(p) \/ Close(p)
        PROVE  UNCHANGED registryVars
    BY <1>5 DEF Enqueue, Complete, Fail, FailMoved, FailCounted, Retry, Obliterate,
                MetricsReset, Close
  <1>6. ASSUME NEW j \in Jobs, Take(j) \/ Processed(j) PROVE UNCHANGED registryVars
    BY <1>6 DEF Take, Processed
  <1>7. ASSUME NEW i, \/ Connected(i) \/ \E kind \in {"completed", "failed"} : Heard(i, kind)
        PROVE  UNCHANGED registryVars
    BY <1>7 DEF Heard, Connected
  <1>8. CASE UNCHANGED vars
    BY <1>8 DEF vars
  <1> QED BY <1>1, <1>2, <1>3, <1>4, <1>5, <1>6, <1>7, <1>8 DEF Next

(* The adapters of the queues are singletons as well, whatever is done     *)
(* with them.                                                              *)
THEOREM AdapterSingletons == Spec => []OneInstance
  <1>1. LoadsInv => OneInstance
    BY DEF LoadsInv, Solo, OneInstance
  <1>2. LoadsInv /\ [Next]_vars => LoadsInv'
    BY RegistrySteps, LoadsNext
  <1>3. Init => LoadsInv
    BY LoadsInit DEF Init
  <1> QED BY <1>1, <1>2, <1>3, PTL DEF Spec

(* A job that a worker, or fail() and retry(), moves on.                   *)
LEMMA StateMoved ==
    ASSUME NEW r \in JobRecord, NEW s \in States
    PROVE  [r EXCEPT !.state = s] \in JobRecord
  BY DEF JobRecord

LEMMA TriesMoved ==
    ASSUME NEW r \in JobRecord, NEW s \in States, NEW k \in Nat
    PROVE  [r EXCEPT !.state = s, !.tries = k] \in JobRecord
  BY DEF JobRecord

LEMMA FailsMoved ==
    ASSUME NEW r \in JobRecord, NEW s \in States, NEW k \in Nat
    PROVE  [r EXCEPT !.state = s, !.fails = k] \in JobRecord
  BY DEF JobRecord

LEMMA OneJobMoves ==
    ASSUME job \in [Jobs -> JobRecord], NEW j \in Jobs, NEW r \in JobRecord,
           job' = [job EXCEPT ![j] = r]
    PROVE  Kept
  BY DEF Kept, JobsInv

LEMMA JobStates == \A s \in {"waiting", "active", "completed", "failed"} :
                      s \in States /\ s # "none"
  BY DEF States

(* Where the steps lead the jobs.                                          *)
LEMMA AttemptKept ==
    ASSUME job \in [Jobs -> JobRecord], NEW j \in Jobs, AttemptFails(j) PROVE Kept
  <1> DEFINE r == job[j] w == "waiting" f == "failed" t == r.tries + 1 k == r.fails + 1
  <1>1. r \in JobRecord /\ r.state # "none" /\ t \in Nat /\ k \in Nat
    BY DEF AttemptFails, JobRecord
  <1>2. w \in States /\ f \in States
    BY JobStates
  <1>3. \/ job' = [job EXCEPT ![j] = [r EXCEPT !.state = w, !.tries = t]]
        \/ job' = [job EXCEPT ![j] = [r EXCEPT !.state = f, !.fails = k]]
    BY DEF AttemptFails, TriedAgain, Failed
  <1> HIDE DEF t, k, w, f
  <1>4. CASE job' = [job EXCEPT ![j] = [r EXCEPT !.state = w, !.tries = t]]
    BY <1>1, <1>2, <1>4, TriesMoved, OneJobMoves
  <1>5. CASE job' = [job EXCEPT ![j] = [r EXCEPT !.state = f, !.fails = k]]
    BY <1>1, <1>2, <1>5, FailsMoved, OneJobMoves
  <1> QED BY <1>3, <1>4, <1>5

LEMMA ProcessedKept ==
    ASSUME job \in [Jobs -> JobRecord], NEW j \in Jobs, Processed(j) PROVE Kept
  <1> DEFINE r == job[j] c == "completed"
  <1>1. CASE r.state = "active" /\ job' = [job EXCEPT ![j] = [r EXCEPT !.state = c]]
    <2>1. r \in JobRecord /\ c \in States /\ r.state # "none"
      BY <1>1, JobStates
    <2> HIDE DEF c
    <2>2. [r EXCEPT !.state = c] \in JobRecord
      BY <2>1, StateMoved
    <2> QED BY <1>1, <2>1, <2>2, OneJobMoves
  <1>2. CASE AttemptFails(j)
    BY <1>2, AttemptKept
  <1> QED BY <1>1, <1>2 DEF Processed

LEMMA FailMovedKept ==
    ASSUME job \in [Jobs -> JobRecord], NEW p \in Callers, FailMoved(p) PROVE Kept
  <1>1. CASE job' = job
    BY <1>1 DEF Kept, JobsInv
  <1>2. CASE AttemptFails(op[p].job)
    <2>1. PICK j : j = op[p].job
      OBVIOUS
    <2>2. CASE j \notin Jobs
      BY <1>1, <1>2, <2>1, <2>2 DEF AttemptFails
    <2>3. CASE j \in Jobs
      BY <1>2, <2>1, <2>3, AttemptKept
    <2> QED BY <2>2, <2>3
  <1> QED BY <1>1, <1>2 DEF FailMoved

LEMMA StateKept ==
    ASSUME job \in [Jobs -> JobRecord], NEW j \in Jobs, NEW s \in States,
           job' = [job EXCEPT ![j] = [job[j] EXCEPT !.state = s]]
    PROVE  Kept
  <1>1. job[j] \in JobRecord
    OBVIOUS
  <1>2. [job[j] EXCEPT !.state = s] \in JobRecord
    BY <1>1, StateMoved
  <1> QED BY <1>2, OneJobMoves

LEMMA JobSteps ==
    ASSUME job \in [Jobs -> JobRecord], [Next]_vars
    PROVE  \/ Kept
           \/ \E p \in Callers : Enqueued(p)
  <1>1. ASSUME UNCHANGED job PROVE Kept
    BY <1>1 DEF Kept, JobsInv
  <1>2. ASSUME NEW p \in Callers, Retry(p) PROVE Kept
    <2>1. PICK j \in Jobs : job[j].state = "failed" /\ job' = [job EXCEPT ![j].state = "waiting"]
      BY <1>2 DEF Retry, In
    <2>2. job' = [job EXCEPT ![j] = [job[j] EXCEPT !.state = "waiting"]]
      BY <2>1
    <2> QED BY <2>1, <2>2, StateKept, JobStates
  <1>3. ASSUME NEW p \in Callers, Obliterate(p) PROVE Kept
    <2>1. \A j \in Jobs : NoJob \in JobRecord /\ NoJob.state = "none"
      BY DEF NoJob, JobRecord, States
    <2>2. job' = [j \in Jobs |-> IF j \in In(Queue(p)) THEN NoJob ELSE job[j]]
      BY <1>3 DEF Obliterate
    <2> QED BY <2>1, <2>2 DEF Kept, JobsInv
  <1>4. ASSUME NEW j \in Jobs, Take(j) PROVE Kept
    <2>1. job[j].state = "waiting" /\ job' = [job EXCEPT ![j] = [job[j] EXCEPT !.state = "active"]]
      BY <1>4 DEF Take
    <2> QED BY <2>1, StateKept, JobStates
  <1>5. ASSUME NEW p \in Callers, Enqueue(p)
        PROVE  Enqueued(p)
    BY <1>5 DEF Enqueue, Free, Enqueued
  <1>6. ASSUME NEW p \in Callers,
               \/ \E c \in Configs : GetAdapter(p, c)
               \/ IsAvailable(p) \/ LoadAdapter(p) \/ LoaderFails(p)
               \/ Complete(p) \/ Fail(p) \/ FailCounted(p) \/ MetricsReset(p) \/ Close(p)
        PROVE  UNCHANGED job
    BY <1>6 DEF GetAdapter, IsAvailable, LoadAdapter, LoaderFails, Complete, Fail, FailCounted,
                MetricsReset, Close, queueVars
  <1>7. ASSUME \/ ClearCache \/ UNCHANGED vars
               \/ \E i \in Slots : Connected(i)
             \/ \E i \in Slots, kind \in {"completed", "failed"} : Heard(i, kind)
        PROVE  UNCHANGED job
    BY <1>7 DEF ClearCache, Connected, Heard, queueVars, vars
  <1> QED BY <1>1, <1>2, <1>3, <1>4, <1>5, <1>6, <1>7, ProcessedKept, FailMovedKept DEF Next

LEMMA EnqueuedJob ==
    ASSUME RegistryTypeOK, JobsInv, NEW p \in Callers, Enqueued(p)
    PROVE  JobsInv'
  <1>1. Mine(p) \in DOMAIN made
    BY OneAsk DEF Enqueued, Mine
  <1>2. Queue(p) \in Configs \cup {Default}
    <2>1. made[Mine(p)] \in Instance
      BY <1>1 DEF RegistryTypeOK
    <2> QED BY <2>1 DEF Queue, Instance
  <1> DEFINE w == "waiting" z == Queue(p) r == [NoJob EXCEPT !.state = w, !.queue = z]
  <1>3. PICK j \in Jobs : job' = [job EXCEPT ![j] = r]
    BY DEF Enqueued
  <1>4. w \in States /\ z \in Configs \cup {Default}
    BY <1>2, JobStates
  <1> HIDE DEF w, z
  <1>5. r \in JobRecord
    BY <1>4 DEF NoJob, JobRecord
  <1> QED BY <1>3, <1>5 DEF JobsInv

LEMMA JobsNext == ASSUME LoadsInv, JobsInv, [Next]_vars PROVE JobsInv'
  BY JobSteps, EnqueuedJob DEF JobsInv, Kept, Enqueued, LoadsInv

LEMMA JobsInit == Init => JobsInv
  <1>1. NoJob \in JobRecord
    BY DEF NoJob, JobRecord, States
  <1> QED BY <1>1 DEF Init, JobsInv

-----------------------------------------------------------------------------
(* The totals.  All sums are over the jobs in a queue, finitely many of    *)
(* which were ever enqueued.  An instance that was not made yet has        *)
(* counted nothing, and an instance that a call is about to reset is one   *)
(* of a queue that was obliterated.                                        *)
Live == {j \in Jobs : job[j].state # "none"}
Kinds == {"completed", "failed"}
Op == [kind : {"none", "move", "count", "clear"}, on : Nat, job : Jobs \cup {0}]

OpOK(o) == /\ o \in Op
           /\ o.kind # "none" => o.on \in DOMAIN made
           /\ o.kind = "move" => o.job \in Jobs
           /\ o.kind = "clear" => made[o.on].config \in wiped

CountsOK == {events, metrics, manual, base} \subseteq [Slots -> Counts]

TotalsInv ==
    /\ IsFiniteSet(Live) /\ CountsOK
    /\ listening \subseteq DOMAIN made
    /\ \A i \in Slots \ DOMAIN made : events[i] = Zero /\ metrics[i] = Zero /\ manual[i] = Zero
    /\ op \in [Callers -> Op] /\ \A p \in Callers : OpOK(op[p])
    /\ TotalsBalance

(* An instance that is not connected has heard nothing: it has counted the *)
(* calls of complete() and fail(), unless its queue was obliterated.       *)
ConnectingInv ==
    \A i \in connecting :
       /\ i \in DOMAIN made /\ i \notin listening /\ events[i] = Zero
       /\ made[i].config \notin wiped => metrics[i] = manual[i]

\* One count goes up, the other stays.
LEMMA BumpAt ==
    ASSUME NEW c \in Counts, NEW kind \in Kinds
    PROVE  /\ Bump(c, kind) \in Counts
           /\ \A k \in Kinds : c[k] \in Nat /\ Bump(c, kind)[k] = c[k] + (IF k = kind THEN 1 ELSE 0)
  <1>1. CASE kind = "completed"
    BY <1>1 DEF Bump, Counts, Kinds
  <1>2. CASE kind = "failed"
    BY <1>2 DEF Bump, Counts, Kinds
  <1> QED BY <1>1, <1>2 DEF Kinds

LEMMA DropAt ==
    ASSUME NEW c \in Counts, NEW kind \in Kinds, c[kind] > 0
    PROVE  /\ [c EXCEPT ![kind] = @ - 1] \in Counts
           /\ \A k \in Kinds : /\ c[k] \in Nat
                               /\ [c EXCEPT ![kind] = @ - 1][k] + (IF k = kind THEN 1 ELSE 0) = c[k]
  <1>1. CASE kind = "completed"
    BY <1>1 DEF Counts, Kinds
  <1>2. CASE kind = "failed"
    BY <1>2 DEF Counts, Kinds
  <1> QED BY <1>1, <1>2 DEF Kinds

LEMMA ZeroAt == Zero \in Counts /\ \A k \in Kinds : Zero[k] = 0
  BY DEF Zero, Counts, Kinds

-----------------------------------------------------------------------------
(* What has ended in a queue.                                              *)
Done(q) == {j \in In(q) : job[j].state = "completed"}
Fails == [j \in Jobs |-> job[j].fails]
FailsOf(r, q) == IF r.state # "none" /\ r.queue = q THEN r.fails ELSE 0

LEMMA EndsAt == ASSUME NEW q PROVE /\ Ends(q)["completed"] = Cardinality(Done(q))
                                   /\ Ends(q)["failed"] = SumFunctionOnSet(Fails, In(q))
  BY DEF Ends, Done, Failures, Fails

LEMMA InFinite ==
    ASSUME IsFiniteSet(Live), NEW q
    PROVE  IsFiniteSet(In(q)) /\ IsFiniteSet(Done(q))
  <1>1. In(q) \subseteq Live /\ Done(q) \subseteq Live
    BY DEF In, Live, Done
  <1> QED BY <1>1, FS_Subset

LEMMA EndsTyped ==
    ASSUME IsFiniteSet(Live), job \in [Jobs -> JobRecord], NEW q
    PROVE  Ends(q) \in Counts
  <1>1. \A j \in In(q) : Fails[j] \in Nat
    BY DEF Fails, In, JobRecord
  <1>2. SumFunctionOnSet(Fails, In(q)) \in Nat
    BY <1>1, InFinite, SumNat
  <1>3. Cardinality(Done(q)) \in Nat
    BY InFinite, FS_CardinalityType
  <1>4. Failures(q) = SumFunctionOnSet(Fails, In(q))
    BY DEF Failures, Fails
  <1> QED BY <1>2, <1>3, <1>4 DEF Ends, Done, Counts

LEMMA EndsSame == ASSUME UNCHANGED job, NEW q PROVE Ends(q)' = Ends(q)
  BY DEF Ends, In, Failures

\* Job j, which has not completed, becomes r.
LEMMA JobMoves ==
    ASSUME IsFiniteSet(Live), job \in [Jobs -> JobRecord], NEW j \in Jobs,
           NEW r \in JobRecord, job' = [job EXCEPT ![j] = r], r.state # "none",
           job[j].state # "completed", job[j].state = "none" \/ r.queue = job[j].queue
    PROVE  /\ IsFiniteSet(Live')
           /\ \A q : /\ Ends(q)'["completed"] = Ends(q)["completed"]
                          + (IF r.state = "completed" /\ r.queue = q THEN 1 ELSE 0)
                     /\ Ends(q)'["failed"] + FailsOf(job[j], q)
                          = Ends(q)["failed"] + FailsOf(r, q)
                     /\ Ends(q)'["completed"] \in Nat /\ Ends(q)'["failed"] \in Nat
  <1>1. /\ job' \in [Jobs -> JobRecord] /\ job'[j] = r
        /\ \A k \in Jobs : k # j => job'[k] = job[k]
    OBVIOUS
  <1>2. IsFiniteSet(Live')
    <2>1. Live' = Live \cup {j}
      BY <1>1 DEF Live
    <2> QED BY <2>1, FS_AddElement
  <1>3. ASSUME NEW q
        PROVE  /\ Ends(q)'["completed"] = Ends(q)["completed"]
                    + (IF r.state = "completed" /\ r.queue = q THEN 1 ELSE 0)
               /\ Ends(q)'["completed"] \in Nat
    <2>1. IsFiniteSet(Done(q)) /\ j \notin Done(q) /\ Cardinality(Done(q)) \in Nat
      BY InFinite, FS_CardinalityType DEF Done
    <2>2. Done(q)' = IF r.state = "completed" /\ r.queue = q THEN Done(q) \cup {j} ELSE Done(q)
      BY <1>1 DEF Done, In
    <2>3. Ends(q)'["completed"] = Cardinality(Done(q)')
          /\ Ends(q)["completed"] = Cardinality(Done(q))
      BY DEF Ends, Done
    <2>4. Cardinality(Done(q) \cup {j}) = Cardinality(Done(q)) + 1
      BY <2>1, FS_AddElement
    <2>5. CASE r.state = "completed" /\ r.queue = q
      BY <2>1, <2>2, <2>3, <2>4, <2>5
    <2>6. CASE ~(r.state = "completed" /\ r.queue = q)
      <3>1. Done(q)' = Done(q)
        BY <2>2, <2>6
      <3> QED BY <2>1, <2>3, <2>6, <3>1
    <2> QED BY <2>5, <2>6
  <1>4. ASSUME NEW q
        PROVE  /\ Ends(q)'["failed"] + FailsOf(job[j], q) = Ends(q)["failed"] + FailsOf(r, q)
               /\ Ends(q)'["failed"] \in Nat
    <2>1. IsFiniteSet(In(q))
      BY InFinite
    <2>2. /\ In(q) \ {j} = In(q)' \ {j}
          /\ j \in In(q) <=> job[j].state # "none" /\ job[j].queue = q
          /\ j \in In(q)' <=> r.state # "none" /\ r.queue = q
      BY <1>1 DEF In
    <2>3. /\ \A k \in In(q) : Fails[k] \in Nat
          /\ \A k \in In(q)' : Fails'[k] \in Nat
          /\ \A k \in In(q) \ {j} : Fails[k] = Fails'[k]
          /\ Fails[j] = job[j].fails /\ Fails'[j] = r.fails
      BY <1>1 DEF In, Fails, JobRecord
    <2>4. PICK w, v, S, T : w = Fails /\ v = Fails' /\ S = In(q) /\ T = In(q)'
      OBVIOUS
    <2>5. OneMoves(w, v, S, T, j)
      BY <2>2, <2>3, <2>4 DEF OneMoves
    <2>6. /\ SumFunctionOnSet(v, T) + (IF j \in S THEN w[j] ELSE 0)
               = SumFunctionOnSet(w, S) + (IF j \in T THEN v[j] ELSE 0)
          /\ SumFunctionOnSet(v, T) \in Nat
      BY <2>1, <2>4, <2>5, SumMoves
    <2>7. (IF j \in S THEN w[j] ELSE 0) = FailsOf(job[j], q)
          /\ (IF j \in T THEN v[j] ELSE 0) = FailsOf(r, q)
      BY <2>2, <2>3, <2>4 DEF FailsOf
    <2>8. Ends(q)'["failed"] = SumFunctionOnSet(v, T) /\ Ends(q)["failed"] = SumFunctionOnSet(w, S)
      BY <2>4, EndsAt DEF Ends, Failures, Fails
    <2> QED BY <2>6, <2>7, <2>8
  <1> QED BY <1>2, <1>3, <1>4

\* It goes on, or is enqueued: the counts stay.
LEMMA EndsStay ==
    ASSUME IsFiniteSet(Live), job \in [Jobs -> JobRecord], NEW j \in Jobs,
           NEW r \in JobRecord, job' = [job EXCEPT ![j] = r], r.state \notin {"none", "completed"},
           job[j].state # "completed",
           \/ job[j].state = "none" /\ r.fails = 0
           \/ job[j].state # "none" /\ r.queue = job[j].queue /\ r.fails = job[j].fails
    PROVE  IsFiniteSet(Live') /\ \A q : \A k \in Kinds : Ends(q)'[k] = Ends(q)[k]
  <1>1. IsFiniteSet(Live')
    BY JobMoves
  <1>2. ASSUME NEW q
        PROVE  Ends(q)'["completed"] = Ends(q)["completed"] /\ Ends(q)'["failed"] = Ends(q)["failed"]
    <2>1. /\ Ends(q)'["completed"] = Ends(q)["completed"]
               + (IF r.state = "completed" /\ r.queue = q THEN 1 ELSE 0)
          /\ Ends(q)'["failed"] + FailsOf(job[j], q) = Ends(q)["failed"] + FailsOf(r, q)
          /\ Ends(q)'["failed"] \in Nat
      BY JobMoves
    <2>2. Ends(q)["completed"] \in Nat /\ Ends(q)["failed"] \in Nat
      BY EndsTyped DEF Counts
    <2>3. FailsOf(job[j], q) = FailsOf(r, q) /\ FailsOf(r, q) \in Nat
      BY DEF FailsOf, JobRecord
    <2> QED BY <2>1, <2>2, <2>3
  <1> QED BY <1>1, <1>2 DEF Kinds

\* It ends: one more of the kind has ended in its queue.
Ended(j, kind, r) ==
    /\ job' = [job EXCEPT ![j] = r] /\ r \in JobRecord /\ r.state = kind
    /\ job[j].state \notin {"none", "completed"} /\ r.queue = job[j].queue
    /\ r.fails = job[j].fails + (IF kind = "failed" THEN 1 ELSE 0)

LEMMA EndsGrow ==
    ASSUME IsFiniteSet(Live), job \in [Jobs -> JobRecord], NEW j \in Jobs, NEW kind \in Kinds,
           NEW r, Ended(j, kind, r)
    PROVE  /\ IsFiniteSet(Live')
           /\ \A q : \A k \in Kinds :
                 Ends(q)'[k] = Ends(q)[k] + (IF r.queue = q /\ k = kind THEN 1 ELSE 0)
  <1> USE DEF Ended
  <1>0. r.state # "none" /\ job[j].state # "completed" /\ job[j].state # "none"
    BY DEF Kinds
  <1>1. /\ IsFiniteSet(Live')
        /\ \A q : /\ Ends(q)'["completed"] = Ends(q)["completed"]
                       + (IF r.state = "completed" /\ r.queue = q THEN 1 ELSE 0)
                  /\ Ends(q)'["failed"] + FailsOf(job[j], q) = Ends(q)["failed"] + FailsOf(r, q)
                  /\ Ends(q)'["completed"] \in Nat /\ Ends(q)'["failed"] \in Nat
    BY <1>0, JobMoves
  <1>2. ASSUME NEW q
        PROVE  /\ Ends(q)'["completed"] = Ends(q)["completed"]
                    + (IF r.queue = q /\ kind = "completed" THEN 1 ELSE 0)
               /\ Ends(q)'["failed"] = Ends(q)["failed"]
                    + (IF r.queue = q /\ kind = "failed" THEN 1 ELSE 0)
    <2>1. /\ Ends(q)'["completed"] = Ends(q)["completed"]
               + (IF r.state = "completed" /\ r.queue = q THEN 1 ELSE 0)
          /\ Ends(q)'["failed"] + FailsOf(job[j], q) = Ends(q)["failed"] + FailsOf(r, q)
          /\ Ends(q)'["failed"] \in Nat
      BY <1>1
    <2>2. Ends(q)["completed"] \in Nat /\ Ends(q)["failed"] \in Nat
      BY EndsTyped DEF Counts
    <2>3. /\ FailsOf(job[j], q) \in Nat
          /\ FailsOf(r, q) = FailsOf(job[j], q) + (IF r.queue = q /\ kind = "failed" THEN 1 ELSE 0)
      BY <1>0 DEF FailsOf, JobRecord
    <2> QED BY <2>1, <2>2, <2>3
  <1> QED BY <1>1, <1>2 DEF Kinds

-----------------------------------------------------------------------------
(* The steps, and what they leave of the invariant.                        *)

\* The balance moves on both sides by as much.
Balances(i) == \A k \in Kinds :
    metrics'[i][k] + events'[i][k] + base'[i][k] + Ends(made[i].config)[k] + manual[i][k]
      = metrics[i][k] + events[i][k] + base[i][k] + Ends(made[i].config)'[k] + manual'[i][k]

LEMMA CountsAt ==
    ASSUME CountsOK, NEW i \in Slots
    PROVE  /\ {events[i], metrics[i], manual[i], base[i]} \subseteq Counts
           /\ \A k \in Kinds : /\ events[i][k] \in Nat /\ metrics[i][k] \in Nat
                               /\ manual[i][k] \in Nat /\ base[i][k] \in Nat
  BY DEF CountsOK, Counts, Kinds

LEMMA SlotsMade == ASSUME RegistryTypeOK PROVE DOMAIN made \subseteq Slots
  BY RegistryAssumption DEF RegistryTypeOK, Slots

LEMMA BalanceKept ==
    ASSUME RegistryTypeOK, job \in [Jobs -> JobRecord], job' \in [Jobs -> JobRecord],
           TotalsInv, IsFiniteSet(Live'), CountsOK', UNCHANGED made,
           \A q : \A k \in Kinds : Ends(q)'[k] \in Nat,
           listening' \subseteq listening, wiped \subseteq wiped',
           \A i \in listening' : made[i].config \notin wiped' => Balances(i)
    PROVE  TotalsBalance'
  <1> SUFFICES ASSUME NEW i \in listening', made[i].config \notin wiped', NEW k \in Kinds
      PROVE  metrics'[i][k] + events'[i][k] + base'[i][k]
               = Ends(made[i].config)'[k] + manual'[i][k]
    BY DEF TotalsBalance, Kinds
  <1>1. i \in Slots /\ i \in listening /\ made[i].config \notin wiped
    BY SlotsMade DEF TotalsInv
  <1>2. /\ events[i][k] \in Nat /\ metrics[i][k] \in Nat /\ manual[i][k] \in Nat /\ base[i][k] \in Nat
        /\ events'[i][k] \in Nat /\ metrics'[i][k] \in Nat /\ manual'[i][k] \in Nat
        /\ base'[i][k] \in Nat
    BY <1>1 DEF TotalsInv, CountsOK, Counts, Kinds
  <1>3. metrics[i][k] + events[i][k] + base[i][k] = Ends(made[i].config)[k] + manual[i][k]
    BY <1>1 DEF TotalsInv, TotalsBalance, Kinds
  <1>4. metrics'[i][k] + events'[i][k] + base'[i][k] + Ends(made[i].config)[k] + manual[i][k]
          = metrics[i][k] + events[i][k] + base[i][k] + Ends(made[i].config)'[k] + manual'[i][k]
    BY <1>1 DEF Balances
  <1>5. Ends(made[i].config)[k] \in Nat /\ Ends(made[i].config)'[k] \in Nat
    BY EndsTyped DEF TotalsInv, Counts, Kinds
  <1>6. PICK m, e, b, d, n, m1, e1, b1, d1, n1 :
           /\ m = metrics[i][k] /\ e = events[i][k] /\ b = base[i][k]
           /\ d = Ends(made[i].config)[k] /\ n = manual[i][k]
           /\ m1 = metrics'[i][k] /\ e1 = events'[i][k] /\ b1 = base'[i][k]
           /\ d1 = Ends(made[i].config)'[k] /\ n1 = manual'[i][k]
    OBVIOUS
  <1>7. /\ m \in Nat /\ e \in Nat /\ b \in Nat /\ d \in Nat /\ n \in Nat
        /\ m1 \in Nat /\ e1 \in Nat /\ b1 \in Nat /\ d1 \in Nat /\ n1 \in Nat
    BY <1>2, <1>5, <1>6
  <1>8. m + e + b = d + n /\ m1 + e1 + b1 + d + n = m + e + b + d1 + n1
    BY <1>3, <1>4, <1>6
  <1>9. m1 + e1 + b1 = d1 + n1
    BY <1>7, <1>8
  <1> QED BY <1>6, <1>9

\* A step that moves no count of an instance that was not made yet.
UnmadeKept == \A i \in Slots \ DOMAIN made :
                 events'[i] = events[i] /\ metrics'[i] = metrics[i] /\ manual'[i] = manual[i]

OpsOK == op \in [Callers -> Op] /\ \A p \in Callers : OpOK(op[p])

LEMMA OpsMove ==
    ASSUME TotalsInv, NEW p \in Callers, NEW o, op' = [op EXCEPT ![p] = o],
           UNCHANGED made, wiped \subseteq wiped', OpOK(o)'
    PROVE  OpsOK'
  <1>1. op' \in [Callers -> Op] /\ \A q \in Callers : op'[q] = IF q = p THEN o ELSE op[q]
    BY DEF TotalsInv, OpOK
  <1>2. ASSUME NEW q \in Callers PROVE OpOK(op[q])'
    <2>1. OpOK(op[q])
      BY DEF TotalsInv
    <2>2. CASE q = p
      BY <1>1, <2>2 DEF OpOK
    <2>3. CASE q # p
      BY <1>1, <2>1, <2>3 DEF OpOK
    <2> QED BY <2>2, <2>3
  <1> QED BY <1>1, <1>2 DEF OpsOK

LEMMA OpsStay ==
    ASSUME TotalsInv, UNCHANGED <<op, made>>, wiped \subseteq wiped'
    PROVE  OpsOK'
  BY DEF TotalsInv, OpsOK, OpOK

LEMMA OpEnds ==
    ASSUME TotalsInv, NEW p \in Callers, op' = [op EXCEPT ![p] = NoOp], UNCHANGED <<made, wiped>>
    PROVE  OpsOK'
  <1>1. NoOp \in Op /\ NoOp.kind = "none"
    BY DEF NoOp, Op
  <1>2. OpOK(NoOp)'
    BY <1>1 DEF OpOK
  <1> QED BY <1>2, OpsMove

\* The jobs stay, or go on without an end.
SameEnds == \A q : \A k \in Kinds : Ends(q)'[k] = Ends(q)[k]

LEMMA InvKept ==
    ASSUME RegistryTypeOK, job \in [Jobs -> JobRecord], job' \in [Jobs -> JobRecord],
           TotalsInv, IsFiniteSet(Live'), CountsOK', UNCHANGED made,
           \A q : \A k \in Kinds : Ends(q)'[k] \in Nat,
           listening' \subseteq listening, wiped \subseteq wiped', UnmadeKept, OpsOK',
           \A i \in listening' : made[i].config \notin wiped' => Balances(i)
    PROVE  TotalsInv'
  <1>1. TotalsBalance'
    BY BalanceKept
  <1> QED BY <1>1 DEF TotalsInv, UnmadeKept, OpsOK

\* Only jobs and calls move.
LEMMA NoCountMoves ==
    ASSUME RegistryTypeOK, job \in [Jobs -> JobRecord], job' \in [Jobs -> JobRecord],
           TotalsInv, IsFiniteSet(Live'), SameEnds, OpsOK',
           UNCHANGED <<made, listening, events, metrics, manual, base, wiped>>
    PROVE  TotalsInv'
  <1>1. \A q : \A k \in Kinds : Ends(q)'[k] \in Nat
    BY EndsTyped DEF SameEnds, TotalsInv, Counts, Kinds
  <1>2. \A i \in listening' : Balances(i)
    BY DEF Balances, SameEnds
  <1>3. CountsOK' /\ UnmadeKept
    BY DEF CountsOK, UnmadeKept, TotalsInv
  <1> QED BY <1>1, <1>2, <1>3, InvKept

LEMMA NoJobMoves ==
    ASSUME UNCHANGED job, TotalsInv, job \in [Jobs -> JobRecord]
    PROVE  /\ IsFiniteSet(Live') /\ SameEnds /\ job' \in [Jobs -> JobRecord]
           /\ \A q : \A k \in Kinds : Ends(q)'[k] \in Nat
  <1>1. IsFiniteSet(Live')
    BY DEF TotalsInv, Live
  <1>2. SameEnds
    BY EndsSame DEF SameEnds
  <1>3. \A q : \A k \in Kinds : Ends(q)[k] \in Nat
    BY EndsTyped DEF TotalsInv, Counts, Kinds
  <1> QED BY <1>1, <1>2, <1>3 DEF SameEnds

\* A call of complete() or fail() counts.
LEMMA CountedKept ==
    ASSUME RegistryTypeOK, job \in [Jobs -> JobRecord], TotalsInv,
           NEW i \in DOMAIN made, NEW kind \in Kinds, Counted(i, kind), OpsOK',
           UNCHANGED <<made, job, listening, events, base, wiped>>
    PROVE  TotalsInv'
  <1>0. i \in Slots /\ CountsOK
    BY SlotsMade DEF TotalsInv
  <1>1. metrics \in [Slots -> Counts] /\ manual \in [Slots -> Counts]
    BY <1>0 DEF CountsOK
  <1>2. /\ Bump(metrics[i], kind) \in Counts /\ Bump(manual[i], kind) \in Counts
        /\ \A k \in Kinds :
              /\ metrics[i][k] \in Nat /\ manual[i][k] \in Nat
              /\ Bump(metrics[i], kind)[k] = metrics[i][k] + (IF k = kind THEN 1 ELSE 0)
              /\ Bump(manual[i], kind)[k] = manual[i][k] + (IF k = kind THEN 1 ELSE 0)
    BY <1>0, <1>1, BumpAt
  <1>3. /\ metrics' = [metrics EXCEPT ![i] = Bump(metrics[i], kind)]
        /\ manual' = [manual EXCEPT ![i] = Bump(manual[i], kind)]
    BY DEF Counted
  <1>4. /\ metrics' \in [Slots -> Counts] /\ manual' \in [Slots -> Counts]
        /\ metrics'[i] = Bump(metrics[i], kind) /\ manual'[i] = Bump(manual[i], kind)
        /\ \A j \in Slots : j # i => metrics'[j] = metrics[j] /\ manual'[j] = manual[j]
    BY <1>0, <1>1, <1>2, <1>3
  <1>5. CountsOK' /\ UnmadeKept
    BY <1>0, <1>4 DEF CountsOK, UnmadeKept
  <1>6. ASSUME NEW j \in listening' PROVE Balances(j)
    <2>1. j \in Slots
      BY SlotsMade DEF TotalsInv
    <2>2. SameEnds
      BY NoJobMoves
    <2>3. CASE j # i
      BY <1>4, <2>1, <2>2, <2>3 DEF Balances, SameEnds
    <2>4. CASE j = i
      <3> SUFFICES ASSUME NEW k \in Kinds
          PROVE  metrics'[i][k] + events[i][k] + base[i][k] + Ends(made[i].config)[k] + manual[i][k]
                   = metrics[i][k] + events[i][k] + base[i][k] + Ends(made[i].config)[k] + manual'[i][k]
        BY <2>2, <2>4 DEF Balances, SameEnds
      <3>1. PICK m, e, b, d, n, x :
               /\ m = metrics[i][k] /\ e = events[i][k] /\ b = base[i][k]
               /\ d = Ends(made[i].config)[k] /\ n = manual[i][k]
               /\ x = (IF k = kind THEN 1 ELSE 0)
        OBVIOUS
      <3>2. m \in Nat /\ e \in Nat /\ b \in Nat /\ d \in Nat /\ n \in Nat /\ x \in Nat
        BY <1>0, <3>1, CountsAt, EndsTyped DEF TotalsInv, Counts, Kinds
      <3>3. metrics'[i][k] = m + x /\ manual'[i][k] = n + x
        BY <1>2, <1>4, <3>1
      <3>4. (m + x) + e + b + d + n = m + e + b + d + (n + x)
        BY <3>2
      <3> QED BY <3>1, <3>3, <3>4
    <2> QED BY <2>3, <2>4
  <1> QED BY <1>5, <1>6, NoJobMoves, InvKept DEF TotalsInv

\* An event that an instance hears moves to its metrics.
LEMMA HeardKept ==
    ASSUME RegistryTypeOK, job \in [Jobs -> JobRecord], TotalsInv,
           NEW i \in Slots, NEW kind \in Kinds, Heard(i, kind)
    PROVE  TotalsInv'
  <1>0. /\ i \in DOMAIN made /\ CountsOK /\ events[i][kind] > 0
        /\ UNCHANGED <<made, job, listening, base, manual, wiped, op>>
    BY DEF TotalsInv, Heard, registryVars
  <1>1. /\ metrics \in [Slots -> Counts] /\ events \in [Slots -> Counts]
        /\ metrics[i] \in Counts /\ events[i] \in Counts
    BY <1>0 DEF CountsOK
  <1>2. PICK m1, e1 : m1 = Bump(metrics[i], kind) /\ e1 = [events[i] EXCEPT ![kind] = @ - 1]
    OBVIOUS
  <1>3. /\ m1 \in Counts /\ e1 \in Counts
        /\ \A k \in Kinds :
              /\ metrics[i][k] \in Nat /\ events[i][k] \in Nat
              /\ m1[k] = metrics[i][k] + (IF k = kind THEN 1 ELSE 0)
              /\ e1[k] + (IF k = kind THEN 1 ELSE 0) = events[i][k]
    <2>1. /\ m1 \in Counts
          /\ \A k \in Kinds : /\ metrics[i][k] \in Nat
                             /\ m1[k] = metrics[i][k] + (IF k = kind THEN 1 ELSE 0)
      BY <1>1, <1>2, BumpAt
    <2>2. PICK c : c = events[i]
      OBVIOUS
    <2>3. c \in Counts /\ c[kind] > 0 /\ e1 = [c EXCEPT ![kind] = @ - 1]
      BY <1>0, <1>1, <1>2, <2>2
    <2>4. /\ e1 \in Counts
          /\ \A k \in Kinds : c[k] \in Nat /\ e1[k] + (IF k = kind THEN 1 ELSE 0) = c[k]
      BY <2>3, DropAt
    <2> QED BY <2>1, <2>2, <2>4
  <1>4. metrics' = [metrics EXCEPT ![i] = m1] /\ events' = [events EXCEPT ![i] = e1]
    BY <1>2 DEF Heard
  <1>5. /\ metrics' \in [Slots -> Counts] /\ events' \in [Slots -> Counts]
        /\ metrics'[i] = m1 /\ events'[i] = e1
        /\ \A j \in Slots : j # i => metrics'[j] = metrics[j] /\ events'[j] = events[j]
    BY <1>1, <1>3, <1>4
  <1>6. CountsOK' /\ UnmadeKept
    BY <1>0, <1>5 DEF CountsOK, UnmadeKept
  <1>7. SameEnds
    BY <1>0, NoJobMoves
  <1>8. ASSUME NEW j \in listening' PROVE Balances(j)
    <2>1. j \in Slots
      BY <1>0, SlotsMade DEF TotalsInv
    <2>2. CASE j # i
      BY <1>0, <1>5, <1>7, <2>1, <2>2 DEF Balances, SameEnds
    <2>3. CASE j = i
      <3> SUFFICES ASSUME NEW k \in Kinds
          PROVE  m1[k] + e1[k] + base[i][k] + Ends(made[i].config)[k] + manual[i][k]
                   = metrics[i][k] + events[i][k] + base[i][k] + Ends(made[i].config)[k] + manual[i][k]
        BY <1>0, <1>5, <1>7, <2>3 DEF Balances, SameEnds
      <3>1. PICK m, e, b, d, n, x, y :
               /\ m = metrics[i][k] /\ e = events[i][k] /\ b = base[i][k] /\ y = e1[k]
               /\ d = Ends(made[i].config)[k] /\ n = manual[i][k]
               /\ x = (IF k = kind THEN 1 ELSE 0)
        OBVIOUS
      <3>2. /\ m \in Nat /\ e \in Nat /\ b \in Nat /\ d \in Nat /\ n \in Nat /\ x \in Nat
            /\ y \in Nat
        BY <1>0, <1>3, <3>1, CountsAt, EndsTyped DEF TotalsInv, Counts, Kinds
      <3>3. m1[k] = m + x /\ y + x = e
        BY <1>3, <3>1
      <3>4. (m + x) + y + b + d + n = m + e + b + d + n
        BY <3>2, <3>3
      <3> QED BY <3>1, <3>3, <3>4
    <2> QED BY <2>2, <2>3
  <1> QED BY <1>0, <1>6, <1>7, <1>8, NoJobMoves, OpsStay, InvKept

\* An instance that is closed hears no more.
LEMMA CloseKept ==
    ASSUME RegistryTypeOK, job \in [Jobs -> JobRecord], TotalsInv, NEW p \in Callers, Close(p)
    PROVE  TotalsInv'
  <1>1. /\ listening' = listening \ {Mine(p)} /\ Mine(p) \in DOMAIN made
        /\ events' = [events EXCEPT ![Mine(p)] = Zero]
        /\ UNCHANGED <<made, job, metrics, base, manual, wiped, op>>
    BY OneAsk DEF Close, Free, Mine, registryVars
  <1>2. events \in [Slots -> Counts] /\ CountsOK
    BY DEF TotalsInv, CountsOK
  <1>3. /\ events' \in [Slots -> Counts]
        /\ \A j \in Slots : j # Mine(p) => events'[j] = events[j]
    BY <1>1, <1>2, ZeroAt
  <1>4. CountsOK' /\ UnmadeKept
    BY <1>1, <1>2, <1>3 DEF CountsOK, UnmadeKept
  <1>5. SameEnds /\ DOMAIN made \subseteq Slots
    BY <1>1, NoJobMoves, SlotsMade
  <1>6. ASSUME NEW j \in listening' PROVE Balances(j)
    <2>1. j \in Slots /\ j # Mine(p)
      BY <1>1, <1>5 DEF TotalsInv
    <2>2. events'[j] = events[j]
      BY <1>3, <2>1
    <2> QED BY <1>1, <1>5, <2>2 DEF Balances, SameEnds
  <1>7. listening' \subseteq listening /\ wiped \subseteq wiped' /\ OpsOK'
    BY <1>1, OpsStay
  <1> QED BY <1>1, <1>4, <1>6, <1>7, NoJobMoves, InvKept

\* The metrics of an instance of a queue that was obliterated are reset.
LEMMA ResetKept ==
    ASSUME RegistryTypeOK, job \in [Jobs -> JobRecord], TotalsInv, NEW p \in Callers,
           MetricsReset(p)
    PROVE  TotalsInv'
  <1> DEFINE i == op[p].on
  <1>1. /\ metrics' = [metrics EXCEPT ![i] = Zero] /\ op' = [op EXCEPT ![p] = NoOp]
        /\ UNCHANGED <<made, job, listening, events, base, manual, wiped>>
    BY DEF MetricsReset, registryVars
  <1>2. i \in DOMAIN made /\ made[i].config \in wiped
    BY DEF MetricsReset, TotalsInv, OpOK
  <1> HIDE DEF i
  <1>3. metrics \in [Slots -> Counts] /\ CountsOK
    BY DEF TotalsInv, CountsOK
  <1>4. /\ metrics' \in [Slots -> Counts]
        /\ \A j \in Slots : j # i => metrics'[j] = metrics[j]
    BY <1>1, <1>3, ZeroAt
  <1>5. CountsOK' /\ UnmadeKept
    BY <1>1, <1>2, <1>3, <1>4 DEF CountsOK, UnmadeKept
  <1>6. SameEnds /\ DOMAIN made \subseteq Slots
    BY <1>1, NoJobMoves, SlotsMade
  <1>7. ASSUME NEW j \in listening', made[j].config \notin wiped' PROVE Balances(j)
    <2>1. j \in Slots /\ j # i
      BY <1>1, <1>2, <1>6, <1>7 DEF TotalsInv
    <2>2. metrics'[j] = metrics[j]
      BY <1>4, <2>1
    <2> QED BY <1>1, <1>6, <2>2 DEF Balances, SameEnds
  <1>8. listening' \subseteq listening /\ wiped \subseteq wiped' /\ OpsOK'
    BY <1>1, OpEnds
  <1> QED BY <1>1, <1>5, <1>7, <1>8, NoJobMoves, InvKept

\* A job ends, and every instance that listens to its queue will hear of it.
LEMMA EndKept ==
    ASSUME RegistryTypeOK, job \in [Jobs -> JobRecord], TotalsInv,
           NEW j \in Jobs, NEW kind \in Kinds, NEW r, Ended(j, kind, r),
           Emit(job[j].queue, kind), OpsOK',
           UNCHANGED <<made, listening, metrics, base, manual, wiped>>
    PROVE  TotalsInv'
  <1>1. /\ IsFiniteSet(Live')
        /\ \A q : \A k \in Kinds :
              Ends(q)'[k] = Ends(q)[k] + (IF r.queue = q /\ k = kind THEN 1 ELSE 0)
    <2>1. IsFiniteSet(Live)
      BY DEF TotalsInv
    <2> QED BY <2>1, EndsGrow
  <1>2. events \in [Slots -> Counts] /\ CountsOK
    BY DEF TotalsInv, CountsOK
  <1>3. /\ \A i \in Slots : events'[i] = IF i \in listening /\ made[i].config = r.queue
                                         THEN Bump(events[i], kind) ELSE events[i]
        /\ events' \in [Slots -> Counts]
    <2>1. \A i \in Slots : Bump(events[i], kind) \in Counts
      BY <1>2, BumpAt
    <2> QED BY <1>2, <2>1 DEF Emit, Ended
  <1>4. CountsOK' /\ UnmadeKept
    BY <1>2, <1>3 DEF CountsOK, UnmadeKept, TotalsInv
  <1>5. ASSUME NEW q, NEW k \in Kinds PROVE Ends(q)[k] \in Nat /\ Ends(q)'[k] \in Nat
    <2>1. Ends(q)[k] \in Nat
      BY EndsTyped DEF TotalsInv, Counts, Kinds
    <2> QED BY <1>1, <2>1
  <1>6. ASSUME NEW i \in listening PROVE Balances(i)
    <2>1. i \in Slots
      BY SlotsMade DEF TotalsInv
    <2> SUFFICES ASSUME NEW k \in Kinds
        PROVE  metrics[i][k] + events'[i][k] + base[i][k] + Ends(made[i].config)[k] + manual[i][k]
                 = metrics[i][k] + events[i][k] + base[i][k] + Ends(made[i].config)'[k] + manual[i][k]
      BY DEF Balances
    <2>2. PICK m, e, b, d, n, x, y, z :
             /\ m = metrics[i][k] /\ e = events[i][k] /\ b = base[i][k] /\ y = events'[i][k]
             /\ d = Ends(made[i].config)[k] /\ n = manual[i][k] /\ z = Ends(made[i].config)'[k]
             /\ x = (IF made[i].config = r.queue /\ k = kind THEN 1 ELSE 0)
      OBVIOUS
    <2>3. m \in Nat /\ e \in Nat /\ b \in Nat /\ d \in Nat /\ n \in Nat /\ x \in Nat
      BY <1>2, <1>5, <2>1, <2>2, CountsAt
    <2>4. z = d + x
      BY <1>1, <2>2
    <2>5. y = e + x
      <3>1. events[i] \in Counts
        BY <1>2, <2>1
      <3>2. Bump(events[i], kind)[k] = e + (IF k = kind THEN 1 ELSE 0)
        BY <2>2, <3>1, BumpAt
      <3>3. CASE made[i].config = r.queue
        BY <1>3, <2>1, <2>2, <3>2, <3>3
      <3>4. CASE made[i].config # r.queue
        BY <1>3, <2>1, <2>2, <2>3, <3>4
      <3> QED BY <3>3, <3>4
    <2>6. m + (e + x) + b + d + n = m + e + b + (d + x) + n
      BY <2>3
    <2> QED BY <2>2, <2>4, <2>5, <2>6
  <1>7. job' \in [Jobs -> JobRecord]
    BY DEF Ended
  <1>8. listening' \subseteq listening /\ wiped \subseteq wiped'
    OBVIOUS
  <1> QED BY <1>1, <1>4, <1>5, <1>6, <1>7, <1>8, InvKept

\* A queue is obliterated: nothing is said of its instances from now on.
LEMMA ObliterateKept ==
    ASSUME RegistryTypeOK, job \in [Jobs -> JobRecord], TotalsInv, NEW p \in Callers,
           Obliterate(p)
    PROVE  TotalsInv'
  <1>1. PICK z : z = Queue(p)
    OBVIOUS
  <1>2. /\ job' = [j \in Jobs |-> IF j \in In(z) THEN NoJob ELSE job[j]]
        /\ wiped' = wiped \cup {z} /\ Mine(p) \in DOMAIN made /\ z = made[Mine(p)].config
        /\ op' = [op EXCEPT ![p] = [kind |-> "clear", on |-> Mine(p), job |-> 0]]
        /\ UNCHANGED <<made, listening, events, metrics, manual, base>>
    BY <1>1, OneAsk DEF Obliterate, Calls, Free, Mine, Queue, registryVars
  <1>3. NoJob \in JobRecord /\ NoJob.state = "none"
    BY <1>2 DEF NoJob, JobRecord, States
  <1>4. \A j \in Jobs : job'[j] = IF j \in In(z) THEN NoJob ELSE job[j]
    BY <1>2
  <1>5. IsFiniteSet(Live')
    <2>1. Live' \subseteq Live
      BY <1>3, <1>4 DEF Live
    <2> QED BY <2>1, FS_Subset DEF TotalsInv
  <1>6. ASSUME NEW q, q # z, NEW k \in Kinds PROVE Ends(q)'[k] = Ends(q)[k]
    <2>1. In(q)' = In(q) /\ \A j \in In(q) : job'[j] = job[j]
      BY <1>3, <1>4, <1>6 DEF In
    <2>2. Done(q)' = Done(q)
      BY <2>1 DEF Done
    <2>3. PICK w, v, S : w = Fails /\ v = Fails' /\ S = In(q)
      OBVIOUS
    <2>4. IsFiniteSet(S) /\ \A j \in S : w[j] = v[j]
      BY <2>1, <2>3, InFinite DEF Fails, In, TotalsInv
    <2>5. SumFunctionOnSet(w, S) = SumFunctionOnSet(v, S)
      BY <2>4, SumSame
    <2>6. /\ Ends(q)'["failed"] = SumFunctionOnSet(v, S) /\ Ends(q)["failed"] = SumFunctionOnSet(w, S)
          /\ Ends(q)'["completed"] = Cardinality(Done(q)')
          /\ Ends(q)["completed"] = Cardinality(Done(q))
      BY <2>1, <2>3 DEF Ends, Failures, Fails, Done
    <2> QED BY <2>2, <2>5, <2>6 DEF Kinds
  <1>7. ASSUME NEW k \in Kinds PROVE Ends(z)'[k] = 0
    <2>1. In(z)' = {}
      BY <1>3, <1>4 DEF In
    <2>2. Done(z)' = {}
      BY <2>1 DEF Done
    <2>3. /\ Ends(z)'["failed"] = SumFunctionOnSet(Fails', {})
          /\ Ends(z)'["completed"] = Cardinality({})
      BY <2>1, <2>2 DEF Ends, Failures, Fails, Done
    <2> QED BY <2>3, SumEmpty, FS_EmptySet DEF Kinds
  <1>8. ASSUME NEW q, NEW k \in Kinds PROVE Ends(q)'[k] \in Nat
    <2>1. Ends(q)[k] \in Nat
      BY EndsTyped DEF TotalsInv, Counts, Kinds
    <2> QED BY <1>6, <1>7, <2>1
  <1>9. ASSUME NEW i \in listening', made[i].config \notin wiped' PROVE Balances(i)
    <2>1. made[i].config # z
      BY <1>2, <1>9
    <2>2. \A k \in Kinds : Ends(made[i].config)'[k] = Ends(made[i].config)[k]
      BY <1>2, <1>6, <2>1
    <2> QED BY <1>2, <2>2 DEF Balances
  <1>10. OpsOK'
    <2>1. PICK o : o = [kind |-> "clear", on |-> Mine(p), job |-> 0]
      OBVIOUS
    <2>2. Mine(p) \in Nat
      BY <1>2 DEF RegistryTypeOK
    <2>3. o \in Op /\ o.kind = "clear" /\ o.on = Mine(p)
      BY <2>1, <2>2 DEF Op
    <2>4. o.on \in DOMAIN made' /\ made'[o.on].config \in wiped'
      BY <1>2, <2>3
    <2>5. OpOK(o)'
      BY <2>3, <2>4 DEF OpOK
    <2> QED BY <1>2, <2>1, <2>5, OpsMove
  <1>11. CountsOK' /\ UnmadeKept /\ job' \in [Jobs -> JobRecord]
    BY <1>2, <1>3 DEF CountsOK, UnmadeKept, TotalsInv
  <1>12. listening' \subseteq listening /\ wiped \subseteq wiped'
    BY <1>2
  <1> QED BY <1>2, <1>5, <1>8, <1>9, <1>10, <1>11, <1>12, InvKept

\* A new instance hears nothing yet.
LEMMA LoadAdapterKept ==
    ASSUME RegistryTypeOK, job \in [Jobs -> JobRecord], TotalsInv, NEW p \in Callers,
           LoadAdapter(p)
    PROVE  TotalsInv'
  <1> DEFINE n == Len(made) l == ask[p].load
  <1>1. /\ made' = Append(made, l)
        /\ UNCHANGED <<job, listening, events, metrics, manual, base, op, wiped>>
    BY DEF LoadAdapter, Loaded
  <1>2. l \in Instance
    BY OneAsk, Loads DEF LoadAdapter, Loaded
  <1> HIDE DEF l
  <1>3. /\ n \in Nat /\ DOMAIN made = 1..n /\ DOMAIN made' = 1..(n + 1)
        /\ \A i \in 1..n : i \in 1..(n + 1) /\ made'[i] = made[i]
    BY <1>1, <1>2 DEF RegistryTypeOK
  <1> HIDE DEF n
  <1>4. CountsOK' /\ SameEnds /\ IsFiniteSet(Live')
    BY <1>1, NoJobMoves DEF CountsOK, TotalsInv
  <1>5. OpsOK'
    <2>1. ASSUME NEW q \in Callers PROVE OpOK(op[q])'
      <3>1. OpOK(op[q])
        BY DEF TotalsInv
      <3> QED BY <1>1, <1>3, <3>1 DEF OpOK
    <2> QED BY <1>1, <2>1 DEF TotalsInv, OpsOK
  <1>6. ASSUME NEW i \in listening', made'[i].config \notin wiped', NEW k \in Kinds
        PROVE  metrics'[i][k] + events'[i][k] + base'[i][k]
                 = Ends(made[i].config)'[k] + manual'[i][k]
    <2>1. i \in listening /\ i \in 1..n /\ made'[i] = made[i]
      BY <1>1, <1>3 DEF TotalsInv
    <2>2. metrics[i][k] + events[i][k] + base[i][k] = Ends(made[i].config)[k] + manual[i][k]
      BY <1>1, <1>6, <2>1 DEF TotalsInv, TotalsBalance, Kinds
    <2>3. Ends(made[i].config)'[k] = Ends(made[i].config)[k]
      BY <1>4, <2>1 DEF SameEnds
    <2> QED BY <1>1, <2>2, <2>3
  <1>7. TotalsBalance'
    BY <1>6 DEF TotalsBalance, Kinds
  <1>8. /\ listening' \subseteq DOMAIN made'
        /\ \A i \in Slots \ DOMAIN made' : events'[i] = Zero /\ metrics'[i] = Zero /\ manual'[i] = Zero
    BY <1>1, <1>3 DEF TotalsInv
  <1> QED BY <1>4, <1>5, <1>7, <1>8 DEF TotalsInv, OpsOK

\* An instance that is connected starts from what has ended in its queue by now.
LEMMA ConnectedKept ==
    ASSUME RegistryTypeOK, job \in [Jobs -> JobRecord], TotalsInv, ConnectingInv, NEW i \in Slots,
           Connected(i)
    PROVE  TotalsInv'
  <1>1. /\ base' = [base EXCEPT ![i] = Ends(made[i].config)]
        /\ listening' = listening \cup {i} /\ i \in DOMAIN made /\ events[i] = Zero
        /\ UNCHANGED <<made, job, events, metrics, manual, op, wiped>>
    BY DEF Connected, registryVars, ConnectingInv
  <1>2. /\ {events, metrics, manual, base} \subseteq [Slots -> Counts]
        /\ Ends(made[i].config) \in Counts /\ listening \subseteq DOMAIN made
    BY EndsTyped DEF TotalsInv, CountsOK
  <1>3. /\ base' \in [Slots -> Counts] /\ base'[i] = Ends(made[i].config)
        /\ \A j \in Slots : j # i => base'[j] = base[j]
    BY <1>1, <1>2
  <1>4. CountsOK' /\ SameEnds /\ IsFiniteSet(Live') /\ OpsOK'
    BY <1>1, <1>2, <1>3, NoJobMoves, OpsStay DEF CountsOK
  <1>5. ASSUME NEW j \in listening', made[j].config \notin wiped, NEW k \in Kinds
        PROVE  metrics[j][k] + events[j][k] + base'[j][k]
                 = Ends(made[j].config)[k] + manual[j][k]
    <2>1. CASE j # i
      <3>1. j \in listening /\ j \in Slots
        BY <1>1, <1>2, <2>1, SlotsMade
      <3> QED BY <1>3, <1>5, <2>1, <3>1 DEF TotalsInv, TotalsBalance, Kinds
    <2>2. CASE j = i
      <3>1. metrics[i] = manual[i]
        BY <1>5, <2>2 DEF ConnectingInv, Connected
      <3>2. PICK m, d : m = metrics[i][k] /\ d = Ends(made[i].config)[k]
        OBVIOUS
      <3>3. m \in Nat /\ d \in Nat
        BY <1>2, <3>2 DEF Counts, Kinds
      <3>4. m + 0 + d = d + m
        BY <3>3
      <3>5. events[i][k] = 0 /\ base'[i][k] = d /\ manual[i][k] = m
        BY <1>1, <1>3, <3>1, <3>2, ZeroAt
      <3> QED BY <2>2, <3>2, <3>4, <3>5
    <2> QED BY <2>1, <2>2
  <1>6. TotalsBalance'
    BY <1>1, <1>4, <1>5 DEF TotalsBalance, SameEnds, Kinds
  <1>7. listening' \subseteq DOMAIN made'
    BY <1>1, <1>2
  <1>8. \A j \in Slots \ DOMAIN made' : events'[j] = Zero /\ metrics'[j] = Zero /\ manual'[j] = Zero
    BY <1>1 DEF TotalsInv
  <1> QED BY <1>4, <1>6, <1>7, <1>8 DEF TotalsInv, OpsOK

\* A job goes on, or is enqueued.
LEMMA GoesOnKept ==
    ASSUME RegistryTypeOK, job \in [Jobs -> JobRecord], TotalsInv, NEW j \in Jobs, NEW r,
           r \in JobRecord, job' = [job EXCEPT ![j] = r], r.state \notin {"none", "completed"},
           job[j].state # "completed",
           \/ job[j].state = "none" /\ r.fails = 0
           \/ job[j].state # "none" /\ r.queue = job[j].queue /\ r.fails = job[j].fails,
           UNCHANGED <<made, op, listening, events, metrics, manual, base, wiped>>
    PROVE  TotalsInv'
  <1>1. IsFiniteSet(Live') /\ SameEnds
    BY EndsStay DEF TotalsInv, SameEnds
  <1>2. OpsOK' /\ job' \in [Jobs -> JobRecord]
    BY OpsStay
  <1> QED BY <1>1, <1>2, NoCountMoves

LEMMA EnqueueKept ==
    ASSUME RegistryTypeOK, job \in [Jobs -> JobRecord], TotalsInv, NEW p \in Callers, Enqueue(p)
    PROVE  TotalsInv'
  <1>1. Mine(p) \in DOMAIN made
    BY OneAsk DEF Enqueue, Free, Mine
  <1>2. PICK w, z : w = "waiting" /\ z = Queue(p)
    OBVIOUS
  <1>3. w \in States /\ z \in Configs \cup {Default}
    <2>1. made[Mine(p)] \in Instance
      BY <1>1 DEF RegistryTypeOK
    <2> QED BY <1>2, <2>1, JobStates DEF Queue, Instance
  <1>4. PICK r : r = [NoJob EXCEPT !.state = w, !.queue = z]
    OBVIOUS
  <1>5. r \in JobRecord /\ r.state = "waiting" /\ r.fails = 0
    BY <1>2, <1>3, <1>4 DEF NoJob, JobRecord
  <1>6. PICK j \in Jobs : job[j].state = "none" /\ job' = [job EXCEPT ![j] = r]
    BY <1>2, <1>4 DEF Enqueue
  <1>7. UNCHANGED <<made, op, listening, events, metrics, manual, base, wiped>>
    BY DEF Enqueue, registryVars
  <1> QED BY <1>5, <1>6, <1>7, GoesOnKept

\* Its state alone moves.
LEMMA StateGoesOn ==
    ASSUME RegistryTypeOK, job \in [Jobs -> JobRecord], TotalsInv, NEW j \in Jobs,
           NEW s \in {"waiting", "active"}, job[j].state \notin {"none", "completed"},
           job' = [job EXCEPT ![j] = [job[j] EXCEPT !.state = s]],
           UNCHANGED <<made, op, listening, events, metrics, manual, base, wiped>>
    PROVE  TotalsInv'
  <1>1. PICK r : r = [job[j] EXCEPT !.state = s]
    OBVIOUS
  <1>2. s \in States
    BY JobStates
  <1>3. job[j] \in JobRecord
    OBVIOUS
  <1>4. /\ r \in JobRecord /\ r.state = s /\ r.queue = job[j].queue /\ r.fails = job[j].fails
    BY <1>1, <1>2, <1>3 DEF JobRecord
  <1> QED BY <1>1, <1>4, GoesOnKept

\* An attempt fails, with attempts left or without.
LEMMA AttemptTotals ==
    ASSUME RegistryTypeOK, job \in [Jobs -> JobRecord], TotalsInv, NEW j \in Jobs,
           AttemptFails(j), OpsOK',
           UNCHANGED <<made, listening, metrics, manual, base, wiped>>
    PROVE  TotalsInv'
  <1>1. job[j] \in JobRecord /\ job[j].state = "active"
    BY DEF AttemptFails
  <1>2. CASE job' = [job EXCEPT ![j] = TriedAgain(j)] /\ UNCHANGED events
    <2>1. PICK w, t, r : /\ w = "waiting" /\ t = job[j].tries + 1
                         /\ r = [job[j] EXCEPT !.state = w, !.tries = t]
      OBVIOUS
    <2>2. w \in States /\ t \in Nat
      BY <1>1, <2>1, JobStates DEF JobRecord
    <2>3. /\ r \in JobRecord /\ r.state = w /\ r.queue = job[j].queue /\ r.fails = job[j].fails
      BY <1>1, <2>1, <2>2 DEF JobRecord
    <2>4. job' = [job EXCEPT ![j] = r]
      BY <1>2, <2>1 DEF TriedAgain
    <2>5. IsFiniteSet(Live') /\ SameEnds /\ job' \in [Jobs -> JobRecord]
      BY <1>1, <2>1, <2>3, <2>4, EndsStay DEF TotalsInv, SameEnds
    <2> QED BY <1>2, <2>5, NoCountMoves
  <1>3. CASE job' = [job EXCEPT ![j] = Failed(j)] /\ Emit(job[j].queue, "failed")
    <2>1. PICK kind, f, r : /\ kind = "failed" /\ f = job[j].fails + 1
                            /\ r = [job[j] EXCEPT !.state = kind, !.fails = f]
      OBVIOUS
    <2>2. kind \in States /\ kind \in Kinds /\ f \in Nat
      BY <1>1, <2>1, JobStates DEF Kinds, JobRecord
    <2>3. r \in JobRecord /\ r.state = kind /\ r.queue = job[j].queue /\ r.fails = job[j].fails + 1
      BY <1>1, <2>1, <2>2 DEF JobRecord
    <2>4. job' = [job EXCEPT ![j] = r]
      BY <1>3, <2>1 DEF Failed
    <2>5. Ended(j, kind, r)
      BY <1>1, <2>1, <2>3, <2>4 DEF Ended
    <2> QED BY <1>1, <1>3, <2>1, <2>2, <2>5, EndKept
  <1> QED BY <1>2, <1>3 DEF AttemptFails

LEMMA ProcessedTotals ==
    ASSUME RegistryTypeOK, job \in [Jobs -> JobRecord], TotalsInv, NEW j \in Jobs, Processed(j)
    PROVE  TotalsInv'
  <1>1. UNCHANGED <<made, op, listening, metrics, manual, base, wiped>>
    BY DEF Processed, registryVars
  <1>2. OpsOK'
    BY <1>1, OpsStay
  <1>3. CASE /\ job[j].state = "active" /\ job' = [job EXCEPT ![j].state = "completed"]
             /\ Emit(job[j].queue, "completed")
    <2>1. PICK kind, r : kind = "completed" /\ r = [job[j] EXCEPT !.state = kind]
      OBVIOUS
    <2>2. kind \in States /\ kind \in Kinds /\ kind # "failed" /\ job[j] \in JobRecord
      BY <2>1, JobStates DEF Kinds
    <2>3. r \in JobRecord /\ r.state = kind /\ r.queue = job[j].queue /\ r.fails = job[j].fails + 0
      BY <2>1, <2>2 DEF JobRecord
    <2>4. Ended(j, kind, r)
      BY <1>3, <2>1, <2>2, <2>3 DEF Ended
    <2> QED BY <1>1, <1>2, <1>3, <2>1, <2>2, <2>4, EndKept
  <1>4. CASE AttemptFails(j)
    BY <1>1, <1>2, <1>4, AttemptTotals
  <1> QED BY <1>3, <1>4 DEF Processed

LEMMA FailMovedTotals ==
    ASSUME RegistryTypeOK, job \in [Jobs -> JobRecord], TotalsInv, NEW p \in Callers, FailMoved(p)
    PROVE  TotalsInv'
  <1>1. /\ OpOK(op[p]) /\ op[p].kind = "move" /\ op \in [Callers -> Op]
        /\ UNCHANGED <<made, listening, metrics, manual, base, wiped>>
    BY DEF FailMoved, TotalsInv, registryVars
  <1>2. CASE op' = [op EXCEPT ![p] = NoOp] /\ UNCHANGED <<job, events>>
    BY <1>1, <1>2, OpEnds, NoJobMoves, NoCountMoves
  <1>3. ASSUME AttemptFails(op[p].job), op' = [op EXCEPT ![p].kind = "count"]
        PROVE  TotalsInv'
    <2>1. op[p].job \in Jobs
      BY <1>1 DEF OpOK
    <2>2. PICK o : o = [op[p] EXCEPT !.kind = "count"]
      OBVIOUS
    <2>3. o \in Op /\ o.kind = "count" /\ o.on = op[p].on
      BY <1>1, <2>2 DEF Op
    <2>4. op' = [op EXCEPT ![p] = o]
      BY <1>3, <2>2
    <2>5. OpOK(o)'
      BY <1>1, <2>3 DEF OpOK
    <2>6. OpsOK'
      BY <1>1, <2>4, <2>5, OpsMove
    <2> QED BY <1>1, <1>3, <2>1, <2>6, AttemptTotals
  <1> QED BY <1>2, <1>3 DEF FailMoved

\* A call of fail() begins, or counts at last.
LEMMA FailTotals ==
    ASSUME RegistryTypeOK, job \in [Jobs -> JobRecord], TotalsInv, NEW p \in Callers, Fail(p)
    PROVE  TotalsInv'
  <1>1. /\ Mine(p) \in DOMAIN made /\ Mine(p) \in Nat
        /\ UNCHANGED <<job, made, listening, events, metrics, manual, base, wiped>>
    BY OneAsk DEF Fail, Calls, Free, Mine, registryVars
  <1>2. PICK j \in Jobs : op' = [op EXCEPT ![p] =
          [kind |-> IF j \in In(Queue(p)) THEN "move" ELSE "count", on |-> Mine(p), job |-> j]]
    BY DEF Fail
  <1>3. PICK k, o : /\ k = (IF j \in In(Queue(p)) THEN "move" ELSE "count")
                    /\ o = [kind |-> k, on |-> Mine(p), job |-> j]
    OBVIOUS
  <1>4. k \in {"move", "count"}
    BY <1>3
  <1>5. o \in Op /\ o.kind = k /\ o.on = Mine(p) /\ o.job = j
    BY <1>1, <1>3, <1>4 DEF Op
  <1>6. op' = [op EXCEPT ![p] = o]
    BY <1>2, <1>3
  <1>7. OpOK(o)'
    BY <1>1, <1>4, <1>5 DEF OpOK
  <1>8. OpsOK'
    BY <1>1, <1>6, <1>7, OpsMove
  <1> QED BY <1>1, <1>8, NoJobMoves, NoCountMoves

LEMMA CountTotals ==
    ASSUME RegistryTypeOK, job \in [Jobs -> JobRecord], TotalsInv, NEW p \in Callers,
           Complete(p) \/ FailCounted(p)
    PROVE  TotalsInv'
  <1>1. CASE Complete(p)
    <2>1. /\ Mine(p) \in DOMAIN made /\ Counted(Mine(p), "completed")
          /\ UNCHANGED <<job, made, listening, events, base, wiped, op>>
      BY <1>1, OneAsk DEF Complete, Calls, Free, Mine, registryVars
    <2> QED BY <2>1, OpsStay, CountedKept DEF Kinds
  <1>2. CASE FailCounted(p)
    <2>1. /\ op[p].on \in DOMAIN made /\ Counted(op[p].on, "failed")
          /\ op' = [op EXCEPT ![p] = NoOp]
          /\ UNCHANGED <<job, made, listening, events, base, wiped>>
      BY <1>2 DEF FailCounted, registryVars, TotalsInv, OpOK
    <2> QED BY <2>1, OpEnds, CountedKept DEF Kinds
  <1> QED BY <1>1, <1>2

LEMMA TotalsNext ==
    ASSUME RegistryTypeOK, job \in [Jobs -> JobRecord], TotalsInv, ConnectingInv, [Next]_vars
    PROVE  TotalsInv'
  <1>1. ASSUME NEW p \in Callers,
               \/ \E c \in Configs : GetAdapter(p, c)
               \/ IsAvailable(p) \/ LoaderFails(p)
        PROVE  UNCHANGED <<made, queueVars>>
    BY <1>1 DEF GetAdapter, IsAvailable, LoaderFails, Get, LoadFails
  <1>2. ASSUME ClearCache \/ UNCHANGED vars PROVE UNCHANGED <<made, queueVars>>
    BY <1>2 DEF ClearCache, Clear, vars, registryVars
  <1>3. ASSUME UNCHANGED <<made, queueVars>> PROVE TotalsInv'
    BY <1>3, OpsStay, NoJobMoves, NoCountMoves DEF queueVars
  <1>4. ASSUME NEW p \in Callers, Retry(p) PROVE TotalsInv'
    <2>1. PICK j \in Jobs : job[j].state = "failed" /\ job' = [job EXCEPT ![j].state = "waiting"]
      BY <1>4 DEF Retry, In
    <2>2. UNCHANGED <<made, op, listening, events, metrics, manual, base, wiped>>
      BY <1>4 DEF Retry, registryVars
    <2>3. job' = [job EXCEPT ![j] = [job[j] EXCEPT !.state = "waiting"]]
      BY <2>1
    <2> QED BY <2>1, <2>2, <2>3, StateGoesOn
  <1>5. ASSUME NEW j \in Jobs, Take(j) PROVE TotalsInv'
    <2>1. /\ job[j].state = "waiting" /\ job' = [job EXCEPT ![j] = [job[j] EXCEPT !.state = "active"]]
          /\ UNCHANGED <<made, op, listening, events, metrics, manual, base, wiped>>
      BY <1>5 DEF Take, registryVars
    <2> QED BY <2>1, StateGoesOn
  <1>6. ASSUME NEW i \in Slots, NEW kind \in {"completed", "failed"}, Heard(i, kind)
        PROVE  TotalsInv'
    BY <1>6, HeardKept DEF Kinds
  <1>7. ASSUME NEW p \in Callers, Complete(p) \/ FailCounted(p) PROVE TotalsInv'
    BY <1>7, CountTotals
  <1>8. ASSUME NEW p \in Callers, \/ LoadAdapter(p) \/ Enqueue(p) \/ Fail(p) \/ FailMoved(p)
                                  \/ Obliterate(p) \/ MetricsReset(p) \/ Close(p)
        PROVE  TotalsInv'
    BY <1>8, LoadAdapterKept, EnqueueKept, FailTotals, FailMovedTotals, ObliterateKept,
       ResetKept, CloseKept
  <1>9. ASSUME NEW j \in Jobs, Processed(j) PROVE TotalsInv'
    BY <1>9, ProcessedTotals
  <1>10. ASSUME NEW i \in Slots, Connected(i) PROVE TotalsInv'
    BY <1>10, ConnectedKept
  <1> QED BY <1>1, <1>2, <1>3, <1>4, <1>5, <1>6, <1>7, <1>8, <1>9, <1>10 DEF Next

\* The instances that are not connected.
LEMMA ConnectingNext ==
    ASSUME RegistryTypeOK, TotalsInv, ConnectingInv, [Next]_vars
    PROVE  ConnectingInv'
  <1>1. ASSUME UNCHANGED <<made, connecting, listening, events, metrics, manual>>,
               wiped \subseteq wiped'
        PROVE  ConnectingInv'
    BY <1>1 DEF ConnectingInv
  <1>2. ASSUME NEW p \in Callers,
               \/ \E c \in Configs : GetAdapter(p, c)
               \/ IsAvailable(p) \/ LoaderFails(p) \/ Enqueue(p) \/ Fail(p) \/ Retry(p)
               \/ Obliterate(p)
        PROVE  ConnectingInv'
    BY <1>1, <1>2 DEF GetAdapter, IsAvailable, LoaderFails, Get, LoadFails, Enqueue, Fail, Retry,
                      Obliterate, queueVars, registryVars
  <1>3. ASSUME ClearCache \/ UNCHANGED vars \/ \E j \in Jobs : Take(j) PROVE ConnectingInv'
    BY <1>1, <1>3 DEF ClearCache, Clear, Take, vars, queueVars, registryVars
  <1>4. ASSUME NEW p \in Callers, LoadAdapter(p) PROVE ConnectingInv'
    <2>1. ask[p].load \in Instance /\ Len(made) + 1 <= MaxMade
      BY <1>4, OneAsk, Loads DEF LoadAdapter, Loaded
    <2>2. /\ Len(made) \in Nat /\ DOMAIN made = 1..Len(made) /\ Len(made') = Len(made) + 1
          /\ DOMAIN made' = 1..(Len(made) + 1) /\ \A i \in DOMAIN made : made'[i] = made[i]
      BY <1>4, <2>1 DEF LoadAdapter, Loaded, RegistryTypeOK
    <2>3. Len(made') \in Slots \ DOMAIN made
      BY <2>1, <2>2, RegistryAssumption DEF Slots
    <2>4. events[Len(made')] = Zero /\ metrics[Len(made')] = manual[Len(made')]
          /\ Len(made') \notin listening
      BY <2>3 DEF TotalsInv
    <2>5. /\ connecting' = connecting \cup {Len(made')}
          /\ UNCHANGED <<listening, events, metrics, manual, wiped>>
      BY <1>4 DEF LoadAdapter
    <2> QED BY <2>2, <2>3, <2>4, <2>5 DEF ConnectingInv
  <1>5. ASSUME NEW i \in Slots, Connected(i) PROVE ConnectingInv'
    BY <1>5 DEF Connected, ConnectingInv, registryVars
  <1>6. ASSUME NEW i \in Slots, NEW kind \in Kinds, Heard(i, kind) PROVE ConnectingInv'
    <2>1. /\ i \in listening /\ \A j \in connecting : j # i /\ j \in Slots
          /\ UNCHANGED <<made, connecting, listening, manual, wiped>>
      BY <1>6, SlotsMade DEF Heard, ConnectingInv, registryVars
    <2>2. \A j \in connecting : events'[j] = events[j] /\ metrics'[j] = metrics[j]
      BY <1>6, <2>1 DEF Heard, TotalsInv, CountsOK
    <2> QED BY <2>1, <2>2 DEF ConnectingInv
  <1>7. ASSUME NEW i, NEW kind, Counted(i, kind),
               UNCHANGED <<made, connecting, listening, events, wiped>>
        PROVE  ConnectingInv'
    <2>1. ASSUME NEW j \in connecting, metrics[j] = manual[j] PROVE metrics'[j] = manual'[j]
      <3>1. metrics \in [Slots -> Counts] /\ manual \in [Slots -> Counts] /\ j \in Slots
        BY SlotsMade DEF TotalsInv, CountsOK, ConnectingInv
      <3>2. /\ metrics' = [metrics EXCEPT ![i] = Bump(metrics[i], kind)]
            /\ manual' = [manual EXCEPT ![i] = Bump(manual[i], kind)]
        BY <1>7 DEF Counted
      <3> QED BY <2>1, <3>1, <3>2
    <2> QED BY <1>7, <2>1 DEF ConnectingInv
  <1>8. ASSUME NEW p \in Callers, Complete(p) \/ FailCounted(p) PROVE ConnectingInv'
    BY <1>7, <1>8 DEF Complete, FailCounted, registryVars
  <1>9. ASSUME NEW p \in Callers, MetricsReset(p) PROVE ConnectingInv'
    <2>1. /\ op[p].on \in DOMAIN made /\ made[op[p].on].config \in wiped
          /\ metrics' = [metrics EXCEPT ![op[p].on] = Zero]
          /\ UNCHANGED <<made, connecting, listening, events, manual, wiped>>
      BY <1>9 DEF MetricsReset, TotalsInv, OpOK, registryVars
    <2>2. \A j \in connecting : made[j].config \notin wiped => metrics'[j] = metrics[j]
      BY <2>1, SlotsMade DEF TotalsInv, CountsOK, ConnectingInv
    <2> QED BY <2>1, <2>2 DEF ConnectingInv
  <1>10. ASSUME NEW p \in Callers, Close(p) PROVE ConnectingInv'
    <2>1. /\ connecting' = connecting \ {Mine(p)} /\ listening' = listening \ {Mine(p)}
          /\ events' = [events EXCEPT ![Mine(p)] = Zero]
          /\ UNCHANGED <<made, metrics, manual, wiped>>
      BY <1>10 DEF Close, registryVars
    <2>2. \A j \in connecting' : events'[j] = events[j]
      BY <2>1, SlotsMade DEF TotalsInv, CountsOK, ConnectingInv
    <2> QED BY <2>1, <2>2 DEF ConnectingInv
  <1>11. ASSUME NEW j, AttemptFails(j) \/ UNCHANGED events \/ Emit(job[j].queue, "completed"),
                UNCHANGED <<made, connecting, listening, metrics, manual, wiped>>
         PROVE  ConnectingInv'
    <2>1. \A i \in connecting : events'[i] = events[i]
      BY <1>11, SlotsMade DEF AttemptFails, Emit, ConnectingInv
    <2> QED BY <1>11, <2>1 DEF ConnectingInv
  <1>12. ASSUME NEW p \in Callers, FailMoved(p) PROVE ConnectingInv'
    BY <1>11, <1>12 DEF FailMoved, registryVars
  <1>13. ASSUME NEW j \in Jobs, Processed(j) PROVE ConnectingInv'
    BY <1>11, <1>13 DEF Processed, registryVars
  <1> QED BY <1>2, <1>3, <1>4, <1>5, <1>6, <1>8, <1>9, <1>10, <1>12, <1>13 DEF Next, Kinds

LEMMA TotalsInit == Init => TotalsInv
  <1> SUFFICES ASSUME Init PROVE TotalsInv
    OBVIOUS
  <1>1. Live = {} /\ listening = {}
    BY DEF Init, Live, NoJob
  <1>2. CountsOK
    BY ZeroAt DEF Init, CountsOK
  <1>3. NoOp \in Op /\ NoOp.kind = "none"
    BY DEF NoOp, Op
  <1>4. op \in [Callers -> Op] /\ \A p \in Callers : OpOK(op[p])
    BY <1>3 DEF Init, OpOK
  <1> QED BY <1>1, <1>2, <1>4, FS_EmptySet DEF TotalsInv, TotalsBalance, Init

(* What an open instance of a queue that nobody obliterated has counted,   *)
(* and the events on their way to it, add up to the jobs that ended since  *)
(* it was connected and one for each call of complete() or fail(): no end  *)
(* of a job is lost or counted twice, whichever instance it went through.  *)
THEOREM TotalsAddUp == Spec => []TotalsBalance
  <1> DEFINE Inv == LoadsInv /\ JobsInv /\ TotalsInv /\ ConnectingInv
  <1>1. Init => Inv
    BY LoadsInit, JobsInit, TotalsInit DEF Init, ConnectingInv
  <1>2. Inv /\ [Next]_vars => Inv'
    <2> SUFFICES ASSUME Inv, [Next]_vars PROVE Inv'
      OBVIOUS
    <2>1. LoadsInv'
      BY RegistrySteps, LoadsNext
    <2>2. JobsInv'
      BY JobsNext
    <2>3. TotalsInv'
      BY TotalsNext DEF LoadsInv, JobsInv
    <2>4. ConnectingInv'
      BY ConnectingNext DEF LoadsInv
    <2> QED BY <2>1, <2>2, <2>3, <2>4
  <1>3. Inv => TotalsBalance
    BY DEF TotalsInv
  <1> QED BY <1>1, <1>2, <1>3, PTL DEF Spec
=============================================================================
