--------------------------- MODULE Messages_proofs ---------------------------
(***************************************************************************)
(* What recipients get: the messages that providers convert and send, for  *)
(* any number of builders, objects, messages and tokens and any sizes of   *)
(* batches; and the texts that the engines render and translate, for any   *)
(* engines, ids, locales, tables and directories.  Providers and Texts     *)
(* share nothing.                                                          *)
(***************************************************************************)
EXTENDS Providers, Texts, Data_proofs

-----------------------------------------------------------------------------
(* The builders.  A message handed out is what it was when it was handed   *)
(* out until it is touched; and an object that is not handed out yet, or a *)
(* data object that none of those uses, may change.                        *)
NoteValues == {"none"} \cup Notes
History == [note : NoteValues, entries : Nat, out : BOOLEAN]

Fresh == \A r \in DOMAIN heap \ touched : HandedOut(r) => Content(r) = built[r]

BuilderInv ==
    /\ heap \in Seq(Message) /\ built \in Seq(History) /\ Len(built) = Len(heap)
    /\ data \in Seq(Nat) /\ \A r \in DOMAIN heap : heap[r].data <= Len(data)
    /\ builder \in [Builders -> 0..Len(heap)]
    /\ Fresh

\* What a step leaves to the providers: objects handed out stay handed out, and
\* what was touched stays touched.
BuilderStep ==
    /\ \A r \in DOMAIN heap : r \in DOMAIN heap' /\ (built[r].out => built'[r].out)
    /\ touched \subseteq touched'

LEMMA OneBuilder ==
    ASSUME BuilderInv, NEW b \in Builders, builder[b] # None
    PROVE  /\ builder[b] \in DOMAIN heap /\ builder[b] \in DOMAIN built
           /\ Mine(b) \in Message
           /\ DOMAIN heap = 1..Len(heap) /\ DOMAIN built = 1..Len(heap) /\ Len(heap) \in Nat
  BY DEF BuilderInv, None, Mine

LEMMA OneObject ==
    ASSUME BuilderInv, NEW r \in DOMAIN heap
    PROVE  /\ heap[r] \in Message /\ built[r] \in History /\ r \in DOMAIN built
           /\ heap[r].data \in Nat /\ heap[r].data <= Len(data)
           /\ heap[r].data # None => heap[r].data \in DOMAIN data /\ data[heap[r].data] \in Nat
  <1>1. heap[r] \in Message /\ built[r] \in History /\ r \in DOMAIN built
    BY DEF BuilderInv
  <1>2. heap[r].data \in Nat /\ heap[r].data <= Len(data)
    BY <1>1, BuilderAssumption DEF BuilderInv, Message
  <1>3. Len(data) \in Nat /\ DOMAIN data = 1..Len(data) /\ \A d \in DOMAIN data : data[d] \in Nat
    BY DEF BuilderInv
  <1> QED BY <1>1, <1>2, <1>3 DEF None

\* What is forgotten of an object stays handed out.
LEMMA Touched ==
    ASSUME BuilderInv, NEW S, Touches(S)
    PROVE  /\ built' \in Seq(History) /\ Len(built') = Len(built)
           /\ \A r \in DOMAIN heap : /\ built'[r].out = built[r].out
                                     /\ r \notin S => built'[r] = built[r]
           /\ touched \subseteq touched' /\ S \subseteq touched'
  <1>1. /\ built \in Seq(History) /\ DOMAIN built = 1..Len(built) /\ Len(built) \in Nat
        /\ DOMAIN heap = 1..Len(built)
    BY DEF BuilderInv
  <1>2. NotBuilt \in History
    BY DEF NotBuilt, History, NoteValues
  <1>3. \A c \in History : Forgotten(c) \in History /\ Forgotten(c).out = c.out
    BY <1>2 DEF Forgotten, NotBuilt, History
  <1>4. PICK h : h = [r \in DOMAIN built |-> IF r \in S THEN Forgotten(built[r]) ELSE built[r]]
    OBVIOUS
  <1>5. built' = h /\ touched' = touched \cup S
    BY <1>4 DEF Touches
  <1>6. \A r \in 1..Len(built) : /\ h[r] \in History /\ h[r].out = built[r].out
                                 /\ r \notin S => h[r] = built[r]
    BY <1>1, <1>3, <1>4
  <1>7. h \in Seq(History) /\ Len(h) = Len(built)
    BY <1>1, <1>4, <1>6
  <1> QED BY <1>1, <1>5, <1>6, <1>7

\* A new object, which is not handed out.
LEMMA AllocateKeeps ==
    ASSUME BuilderInv, NEW b \in Builders, NEW m \in Message, Allocate(b, m),
           data' \in Seq(Nat), Len(data) <= Len(data'), m.data <= Len(data'),
           \A d \in DOMAIN data : data'[d] = data[d], UNCHANGED touched
    PROVE  BuilderInv' /\ BuilderStep
  <1> DEFINE n == Len(heap) new == n + 1
  <1>1. /\ n \in Nat /\ DOMAIN heap = 1..n /\ DOMAIN built = 1..n
        /\ heap' = Append(heap, m) /\ built' = Append(built, NotBuilt)
        /\ builder' = [builder EXCEPT ![b] = Len(heap')]
    BY DEF BuilderInv, Allocate
  <1>2. NotBuilt \in History /\ ~NotBuilt.out
    BY DEF NotBuilt, History, NoteValues
  <1>3. /\ heap' \in Seq(Message) /\ Len(heap') = new /\ heap'[new] = m
        /\ \A r \in 1..n : heap'[r] = heap[r]
        /\ built' \in Seq(History) /\ Len(built') = new /\ built'[new] = NotBuilt
        /\ \A r \in 1..n : built'[r] = built[r]
    <2>1. heap \in Seq(Message) /\ built \in Seq(History) /\ Len(built) = n
      BY DEF BuilderInv
    <2> QED BY <1>1, <1>2, <2>1
  <1>4. DOMAIN heap' = 1..n \cup {new} /\ 1..n \subseteq 1..new /\ new \in 0..new /\ 0..n \subseteq 0..new
    BY <1>1, <1>3
  <1> HIDE DEF n, new
  <1>5. builder' \in [Builders -> 0..Len(heap')]
    BY <1>1, <1>3, <1>4 DEF BuilderInv, n
  <1>6. ASSUME NEW r \in DOMAIN heap' PROVE heap'[r].data <= Len(data')
    <2>1. CASE r \in 1..n
      <3>1. heap[r].data \in Nat /\ heap[r].data <= Len(data)
        BY <1>1, <2>1, OneObject
      <3>2. Len(data) \in Nat /\ Len(data') \in Nat
        BY DEF BuilderInv
      <3> QED BY <1>3, <2>1, <3>1, <3>2
    <2> QED BY <1>3, <1>4, <2>1
  <1>7. ASSUME NEW r \in DOMAIN heap' \ touched, built'[r].out PROVE Content(r)' = built'[r]
    <2>1. r \in 1..n
      BY <1>2, <1>3, <1>4, <1>7
    <2>2. Content(r) = built[r]
      BY <1>1, <1>3, <1>7, <2>1 DEF BuilderInv, Fresh, HandedOut
    <2>3. heap[r].data # None => data'[heap[r].data] = data[heap[r].data]
      BY <1>1, <2>1, OneObject
    <2>4. heap'[r] = heap[r]
      BY <1>3, <2>1
    <2>5. Content(r)' = Content(r)
      BY <2>3, <2>4 DEF Content
    <2> QED BY <1>3, <2>1, <2>2, <2>5
  <1>8. Fresh'
    BY <1>7 DEF Fresh, HandedOut
  <1>9. BuilderStep
    BY <1>1, <1>3, <1>4 DEF BuilderStep
  <1> QED BY <1>3, <1>5, <1>6, <1>8, <1>9 DEF BuilderInv

\* The object of builder b changes.
LEMMA ChangedKeeps ==
    ASSUME BuilderInv, NEW b \in Builders, builder[b] # None, NEW m \in Message, Changed(b, m),
           data' \in Seq(Nat), Len(data) <= Len(data'), m.data <= Len(data'),
           \A d \in DOMAIN data : data'[d] = data[d]
    PROVE  BuilderInv' /\ BuilderStep
  <1> DEFINE o == builder[b]
  <1>1. /\ o \in DOMAIN heap /\ o \in DOMAIN built /\ heap[o] = Mine(b) /\ DOMAIN built = DOMAIN heap
        /\ heap' = [heap EXCEPT ![o] = m] /\ UNCHANGED builder
        /\ Touches({r \in {o} : HandedOut(r) /\ m # heap[o]})
    BY OneBuilder DEF Changed, Mine
  <1> HIDE DEF o
  <1>2. /\ heap' \in Seq(Message) /\ Len(heap') = Len(heap) /\ DOMAIN heap' = DOMAIN heap
        /\ heap'[o] = m /\ \A r \in DOMAIN heap : r # o => heap'[r] = heap[r]
    BY <1>1 DEF BuilderInv
  <1>3. PICK S : S = {r \in {o} : HandedOut(r) /\ m # heap[o]} /\ Touches(S)
    BY <1>1
  <1>4. /\ built' \in Seq(History) /\ Len(built') = Len(built)
        /\ \A r \in DOMAIN heap : /\ built'[r].out = built[r].out
                                  /\ r \notin S => built'[r] = built[r]
        /\ touched \subseteq touched' /\ S \subseteq touched'
    BY <1>3, Touched
  <1>6. ASSUME NEW r \in DOMAIN heap' PROVE heap'[r].data <= Len(data')
    <2>1. CASE r # o
      <3>1. heap[r].data \in Nat /\ heap[r].data <= Len(data) /\ r \in DOMAIN heap
        BY <1>2, OneObject
      <3>2. Len(data) \in Nat /\ Len(data') \in Nat
        BY DEF BuilderInv
      <3> QED BY <1>2, <2>1, <3>1, <3>2
    <2> QED BY <1>2, <2>1
  <1>7. ASSUME NEW r \in DOMAIN heap' \ touched', built'[r].out PROVE Content(r)' = built'[r]
    <2>1. r \in DOMAIN heap /\ r \notin S /\ built'[r] = built[r] /\ Content(r) = built[r]
      BY <1>2, <1>4, <1>7 DEF BuilderInv, Fresh, HandedOut
    <2>2. heap'[r] = heap[r]
      BY <1>2, <1>3, <1>7, <2>1, <1>4 DEF HandedOut
    <2>3. heap[r].data # None => data'[heap[r].data] = data[heap[r].data]
      BY <2>1, OneObject
    <2>4. Content(r)' = Content(r)
      BY <2>2, <2>3 DEF Content
    <2> QED BY <2>1, <2>4
  <1>8. Fresh'
    BY <1>7 DEF Fresh, HandedOut
  <1>9. BuilderStep
    BY <1>2, <1>4 DEF BuilderStep
  <1> QED BY <1>1, <1>2, <1>4, <1>6, <1>8, <1>9 DEF BuilderInv

\* The caller adds to a data object: the messages handed out that use it are touched.
LEMMA DataGrows ==
    ASSUME BuilderInv, NEW d \in DOMAIN data, data' = [data EXCEPT ![d] = @ + 1],
           Touches(Users(d)), UNCHANGED <<builder, heap>>
    PROVE  BuilderInv' /\ BuilderStep
  <1>1. /\ data' \in Seq(Nat) /\ Len(data') = Len(data)
        /\ \A e \in DOMAIN data : e # d => data'[e] = data[e]
    BY DEF BuilderInv
  <1>2. /\ built' \in Seq(History) /\ Len(built') = Len(built)
        /\ \A r \in DOMAIN heap : /\ built'[r].out = built[r].out
                                  /\ r \notin Users(d) => built'[r] = built[r]
        /\ touched \subseteq touched' /\ Users(d) \subseteq touched'
    BY Touched
  <1>3. ASSUME NEW r \in DOMAIN heap \ touched', built'[r].out PROVE Content(r)' = built'[r]
    <2>1. r \notin Users(d) /\ built'[r] = built[r] /\ Content(r) = built[r]
      BY <1>2, <1>3 DEF BuilderInv, Fresh, HandedOut
    <2>2. heap[r].data # d
      BY <1>3, <2>1 DEF Users, HandedOut
    <2>3. heap[r].data # None => data'[heap[r].data] = data[heap[r].data]
      BY <1>1, <2>2, OneObject
    <2>4. Content(r)' = Content(r)
      BY <2>3 DEF Content
    <2> QED BY <2>1, <2>4
  <1>4. Fresh'
    BY <1>3 DEF Fresh, HandedOut
  <1>5. BuilderStep
    BY <1>2 DEF BuilderStep
  <1> QED BY <1>1, <1>2, <1>4, <1>5 DEF BuilderInv

\* A message is handed out, with the content it has now.
LEMMA HandOutKeeps ==
    ASSUME BuilderInv, NEW b \in Builders, builder[b] # None, HandOut(b)
    PROVE  BuilderInv' /\ BuilderStep
  <1> DEFINE o == builder[b]
  <1>1. o \in DOMAIN heap /\ o \in DOMAIN built /\ DOMAIN built = DOMAIN heap
    BY OneBuilder
  <1>2. PICK c : c = IF o \in touched THEN Forgotten(Content(o)) ELSE Content(o)
    OBVIOUS
  <1>3. built' = [built EXCEPT ![o] = c] /\ UNCHANGED <<builder, heap, data, touched>>
    BY <1>2 DEF HandOut
  <1> HIDE DEF o
  <1>4. c \in History /\ c.out
    <2>1. Content(o) \in History /\ Content(o).out
      BY <1>1, OneObject DEF Content, History, NoteValues, Message
    <2>2. Forgotten(Content(o)) \in History /\ Forgotten(Content(o)).out
      BY <2>1 DEF Forgotten, NotBuilt, History, NoteValues
    <2> QED BY <1>2, <2>1, <2>2
  <1>5. /\ built' \in Seq(History) /\ Len(built') = Len(built) /\ built'[o] = c
        /\ \A r \in DOMAIN heap : r # o => built'[r] = built[r]
    BY <1>1, <1>3, <1>4 DEF BuilderInv
  <1>6. Fresh'
    <2> SUFFICES ASSUME NEW r \in DOMAIN heap \ touched, built'[r].out
        PROVE  Content(r)' = built'[r]
      BY <1>3 DEF Fresh, HandedOut
    <2>1. Content(r)' = Content(r)
      BY <1>3 DEF Content
    <2>2. CASE r = o
      BY <1>2, <1>3, <1>5, <2>1, <2>2
    <2>3. CASE r # o
      BY <1>3, <1>5, <2>1, <2>3 DEF BuilderInv, Fresh, HandedOut
    <2> QED BY <2>2, <2>3
  <1>7. BuilderStep
    BY <1>3, <1>4, <1>5 DEF BuilderStep
  <1> QED BY <1>3, <1>5, <1>6, <1>7 DEF BuilderInv

\* What the setters make of a message is a message.
LEMMA Sets ==
    ASSUME NEW m \in Message
    PROVE  /\ \A t \in TokenFields : LET e == [m EXCEPT !.token = t] IN
                 e \in Message /\ e.data = m.data
           /\ LET e == [m EXCEPT !.topic = TRUE] IN e \in Message /\ e.data = m.data
           /\ \A x \in Notes : LET e == [m EXCEPT !.note = x] IN
                 e \in Message /\ e.data = m.data
           /\ \A d \in 0..MaxData : LET e == [m EXCEPT !.data = d] IN
                 e \in Message /\ e.data = d
  BY DEF Message

LEMMA EmptyIs == EmptyMessage \in Message /\ EmptyMessage.data = 0
  <1>1. 0 \in 0..MaxData
    BY BuilderAssumption
  <1> QED BY <1>1 DEF EmptyMessage, Message, None

\* The data objects stay, or one is added.
LEMMA OneMore ==
    ASSUME NEW s \in Seq(Nat), NEW n \in Nat
    PROVE  LET e == Append(s, n) IN
           e \in Seq(Nat) /\ Len(e) = Len(s) + 1 /\ Len(s) \in Nat /\ \A d \in DOMAIN s : e[d] = s[d]
  OBVIOUS

LEMMA DataAdded ==
    ASSUME BuilderInv, NEW n \in Nat, data' = Append(data, n)
    PROVE  Len(data') = Len(data) + 1
  <1>1. data \in Seq(Nat)
    BY DEF BuilderInv
  <1> QED BY <1>1, OneMore

LEMMA DataStays ==
    ASSUME BuilderInv, UNCHANGED data \/ \E n \in Nat : data' = Append(data, n)
    PROVE  /\ data' \in Seq(Nat) /\ Len(data) <= Len(data') /\ Len(data) \in Nat
           /\ Len(data') \in Nat
           /\ \A d \in DOMAIN data : data'[d] = data[d]
  <1>1. data \in Seq(Nat) /\ Len(data) \in Nat
    BY DEF BuilderInv
  <1>2. CASE UNCHANGED data
    BY <1>1, <1>2
  <1>3. ASSUME NEW n \in Nat, data' = Append(data, n)
        PROVE  /\ data' \in Seq(Nat) /\ Len(data') = Len(data) + 1
               /\ \A d \in DOMAIN data : data'[d] = data[d]
    <2>1. PICK s \in Seq(Nat) : s = data
      BY <1>1
    <2>2. data' = Append(s, n)
      BY <1>3, <2>1
    <2> QED BY <2>1, <2>2, OneMore
  <1> QED BY <1>1, <1>2, <1>3

LEMMA BuilderNextKeeps ==
    ASSUME BuilderInv, BuilderNext PROVE BuilderInv' /\ BuilderStep
  <1>1. PICK b \in Builders :
          \/ NewBuilder(b)
          \/ /\ builder[b] # None
             /\ \/ Token(b) \/ Topic(b) \/ Title(b) \/ Data(b)
                \/ AddData(b) \/ Build(b) \/ BuildUnsafe(b) \/ Reset(b) \/ Clone(b)
    BY DEF BuilderNext
  <1>2. CASE NewBuilder(b)
    <2>1. Allocate(b, EmptyMessage) /\ UNCHANGED <<data, touched>>
      BY <1>2 DEF NewBuilder
    <2>2. EmptyMessage.data <= Len(data') /\ UNCHANGED data
      BY <2>1, EmptyIs, DataStays
    <2> QED BY <2>1, <2>2, EmptyIs, DataStays, AllocateKeeps
  <1>3. ASSUME builder[b] # None
        PROVE  /\ builder[b] \in DOMAIN heap /\ Mine(b) \in Message /\ Mine(b).data \in Nat
               /\ Mine(b).data <= Len(data) /\ Len(data) \in Nat /\ MaxData \in Nat
               /\ Mine(b).data # None => Mine(b).data \in DOMAIN data /\ data[Mine(b).data] \in Nat
    <2>1. builder[b] \in DOMAIN heap /\ Mine(b) = heap[builder[b]] /\ Mine(b) \in Message
      BY <1>3, OneBuilder DEF Mine
    <2>2. Len(data) \in Nat
      BY DEF BuilderInv
    <2> QED BY <2>1, <2>2, OneObject, BuilderAssumption
  <1>4. ASSUME builder[b] # None, Token(b) \/ Topic(b) \/ Title(b)
        PROVE  BuilderInv' /\ BuilderStep
    <2>1. PICK m \in Message : m.data = Mine(b).data /\ Changed(b, m) /\ UNCHANGED data
      BY <1>3, <1>4, Sets DEF Token, Topic, Title
    <2>2. m.data <= Len(data')
      BY <1>3, <1>4, <2>1
    <2> QED BY <1>4, <2>1, <2>2, DataStays, ChangedKeeps
  <1>5. ASSUME builder[b] # None, Data(b) PROVE BuilderInv' /\ BuilderStep
    <2>1. PICK d \in 1..(Len(data) + 1) :
            /\ d <= MaxData /\ Changed(b, [Mine(b) EXCEPT !.data = d])
            /\ data' = IF d > Len(data) THEN Append(data, 1) ELSE data
      BY <1>5 DEF Data
    <2>2. PICK m : m = [Mine(b) EXCEPT !.data = d]
      OBVIOUS
    <2>6. d \in 0..MaxData
      BY <1>3, <1>5, <2>1
    <2>3. m \in Message /\ m.data = d
      BY <1>3, <1>5, <2>2, <2>6, Sets
    <2>4. UNCHANGED data \/ \E n \in Nat : data' = Append(data, n)
      BY <2>1
    <2>5. m.data <= Len(data')
      BY <1>3, <1>5, <2>1, <2>3, <2>4, DataStays, DataAdded
    <2> QED BY <1>5, <2>1, <2>2, <2>3, <2>4, <2>5, DataStays, ChangedKeeps
  <1>6. ASSUME builder[b] # None, AddData(b) PROVE BuilderInv' /\ BuilderStep
    <2>1. CASE Mine(b).data = None
      <3>1. /\ Len(data) < MaxData /\ data' = Append(data, 1)
            /\ Changed(b, [Mine(b) EXCEPT !.data = Len(data')])
        BY <1>6, <2>1 DEF AddData
      <3>2. PICK d, m : d = Len(data') /\ m = [Mine(b) EXCEPT !.data = d]
        OBVIOUS
      <3>3. d = Len(data) + 1 /\ d \in 0..MaxData /\ d <= Len(data')
        BY <1>3, <1>6, <3>1, <3>2, DataStays, DataAdded
      <3>4. m \in Message /\ m.data = d
        BY <1>3, <1>6, <3>2, <3>3, Sets
      <3> QED BY <1>6, <3>1, <3>2, <3>3, <3>4, DataStays, ChangedKeeps
    <2>2. CASE Mine(b).data # None
      <3>1. PICK d \in DOMAIN data : d = Mine(b).data
        BY <1>3, <1>6, <2>2
      <3>2. /\ data' = [data EXCEPT ![d] = @ + 1] /\ Touches(Users(d))
            /\ UNCHANGED <<builder, heap>>
        BY <1>6, <2>2, <3>1 DEF AddData
      <3> QED BY <3>2, DataGrows
    <2> QED BY <2>1, <2>2
  <1>7. ASSUME builder[b] # None, Build(b) \/ BuildUnsafe(b) PROVE BuilderInv' /\ BuilderStep
    BY <1>7, HandOutKeeps DEF Build, BuildUnsafe
  <1>8. ASSUME builder[b] # None, Reset(b) PROVE BuilderInv' /\ BuilderStep
    <2>1. Allocate(b, EmptyMessage) /\ UNCHANGED <<data, touched>>
      BY <1>8 DEF Reset
    <2>2. EmptyMessage.data <= Len(data') /\ UNCHANGED data
      BY <2>1, EmptyIs, DataStays
    <2> QED BY <2>1, <2>2, EmptyIs, DataStays, AllocateKeeps
  <1>9. ASSUME builder[b] # None, Clone(b) PROVE BuilderInv' /\ BuilderStep
    <2>1. PICK c \in Builders :
            LET d == Mine(b).data IN
            /\ IF d = None THEN Allocate(c, Mine(b)) /\ UNCHANGED data
               ELSE /\ Len(data) < MaxData /\ data' = Append(data, data[d])
                    /\ Allocate(c, [Mine(b) EXCEPT !.data = Len(data')])
            /\ UNCHANGED touched
      BY <1>9 DEF Clone
    <2>2. CASE Mine(b).data = None
      <3>1. Allocate(c, Mine(b)) /\ UNCHANGED data /\ UNCHANGED touched
        BY <2>1, <2>2
      <3>2. Mine(b).data <= Len(data') /\ Mine(b) \in Message
        BY <1>3, <1>9, <3>1
      <3>3. PICK m : m = Mine(b)
        OBVIOUS
      <3> QED BY <3>1, <3>2, <3>3, DataStays, AllocateKeeps
    <2>3. CASE Mine(b).data # None
      <3>1. PICK n \in Nat : n = data[Mine(b).data]
        BY <1>3, <1>9, <2>3
      <3>2. PICK d, m : d = Len(data') /\ m = [Mine(b) EXCEPT !.data = d]
        OBVIOUS
      <3>3. /\ Len(data) < MaxData /\ data' = Append(data, n) /\ Allocate(c, m) /\ UNCHANGED touched
        BY <2>1, <2>3, <3>1, <3>2
      <3>4. d = Len(data) + 1 /\ d \in 0..MaxData /\ d <= Len(data')
        BY <1>3, <1>9, <3>2, <3>3, DataStays, DataAdded
      <3>5. m \in Message /\ m.data = d
        BY <1>3, <1>9, <3>2, <3>4, Sets
      <3> QED BY <3>2, <3>3, <3>4, <3>5, DataStays, AllocateKeeps
    <2> QED BY <2>2, <2>3
  <1> QED BY <1>1, <1>2, <1>4, <1>5, <1>6, <1>7, <1>8, <1>9

LEMMA NoneYet == ASSUME NEW S PROVE <<>> \in Seq(S) /\ Len(<<>>) = 0 /\ DOMAIN <<>> = {}
  OBVIOUS

LEMMA BuilderStarts == BuilderInit => BuilderInv
  <1> SUFFICES ASSUME BuilderInit PROVE BuilderInv
    OBVIOUS
  <1>1. heap = <<>> /\ data = <<>> /\ built = <<>> /\ builder = [b \in Builders |-> 0] /\ touched = {}
    BY DEF BuilderInit, None
  <1>2. Len(heap) = 0 /\ DOMAIN heap = {} /\ Len(built) = 0 /\ 0 \in 0..0
    BY <1>1, NoneYet
  <1>3. heap \in Seq(Message) /\ built \in Seq(History) /\ data \in Seq(Nat)
    BY <1>1, NoneYet
  <1>4. builder \in [Builders -> 0..Len(heap)]
    BY <1>1, <1>2
  <1> QED BY <1>1, <1>2, <1>3, <1>4 DEF BuilderInv, Fresh

-----------------------------------------------------------------------------
(* The calls of a provider.  Between requests, what has a result, what is  *)
(* awaited and what no request went to yet add up to the targets, in their *)
(* order; and everything still to be sent refers to messages handed out,   *)
(* whose content is the one they were built with until they are touched.   *)
Tos == {p[1].list[p[2]] : p \in TokenFields \X Nat} \cup {"itself"}
Recipient == [to : Tos, ref : Nat]
Pending == [to : Tos, ref : Handed]
Sendable == [ref : Handed, topical : BOOLEAN]

CallOf(p, rest, group, f, results, targets) ==
    [pc |-> p, rest |-> rest, group |-> group, flight |-> f, results |-> results,
     targets |-> targets]
\* The results that the request in flight brings.
Awaited(c) == [i \in 1..Len(c.flight) |->
    [to |-> IF c.pc = "batch" THEN c.flight[i].to ELSE "itself", ref |-> c.flight[i].ref]]
FlightOwn(c) == \A i \in 1..Len(c.flight) :
    /\ c.flight[i].from = IF provider = "fcm" /\ c.pc = "batch" THEN c.flight[1].ref
                                                                ELSE c.flight[i].ref
    /\ c.flight[i].from \notin touched => c.flight[i].asBuilt
Shape(c) == c = [pc |-> c.pc, rest |-> c.rest, group |-> c.group, flight |-> c.flight,
                 results |-> c.results, targets |-> c.targets]
Listed(c) == /\ c.rest \in Seq(Pending) /\ c.group \in Seq(Sendable)
             /\ c.results \in Seq(Recipient) /\ c.targets \in Seq(Recipient)
AddUp(results, rest, group, targets) == results \o (rest \o Whole(group)) = targets
Going(c) == /\ Listed(c) /\ Awaited(c) \in Seq(Recipient)
            /\ AddUp(c.results \o Awaited(c), c.rest, c.group, c.targets)

CallInv ==
    /\ provider \in {"fcm", "expo", "webpush"}
    /\ Shape(call) /\ call.pc \in {"none", "batch", "group", "done"}
    /\ call.pc # "none" => Going(call)
    /\ call.pc = "done" => call.rest = <<>> /\ call.group = <<>> /\ call.flight = <<>>
    /\ FlightOwn(call)

LEMMA HandedFacts ==
    ASSUME BuilderInv
    PROVE  /\ Handed \subseteq Nat /\ Pending \subseteq Recipient
           /\ \A r \in Handed : r \in DOMAIN heap /\ (r \notin touched => Content(r) = built[r])
  <1>1. DOMAIN heap \subseteq Nat
    BY DEF BuilderInv
  <1>2. Handed \subseteq DOMAIN heap
    BY DEF Handed
  <1>3. \A r \in Handed \ touched : Content(r) = built[r]
    BY DEF BuilderInv, Fresh, Handed
  <1> QED BY <1>1, <1>2, <1>3 DEF Pending, Recipient

LEMMA WholeIs ==
    ASSUME BuilderInv, NEW group \in Seq(Sendable)
    PROVE  /\ Whole(group) \in Seq(Recipient) /\ Whole(<<>>) = <<>>
           /\ Len(Whole(group)) = Len(group)
  <1>1. \A i \in 1..Len(group) : group[i] \in Sendable
    OBVIOUS
  <1>2. \A i \in 1..Len(group) : [to |-> "itself", ref |-> group[i].ref] \in Recipient
    BY <1>1, HandedFacts DEF Sendable, Recipient, Tos
  <1>3. Len(group) \in Nat
    OBVIOUS
  <1>4. Whole(<<>>) = <<>>
    BY DEF Whole
  <1> QED BY <1>2, <1>3, <1>4 DEF Whole

LEMMA CutAt ==
    ASSUME NEW S, NEW s \in Seq(S), NEW n \in 1..Len(s)
    PROVE  LET a == SubSeq(s, 1, n)
               b == SubSeq(s, n + 1, Len(s))
           IN  /\ a \in Seq(S) /\ b \in Seq(S) /\ Len(a) = n /\ a \o b = s
  <1>1. Len(s) \in Nat /\ \A i \in 1..Len(s) : s[i] \in S
    OBVIOUS
  <1>2. SubSeq(s, 1, n) \in Seq(S) /\ SubSeq(s, n + 1, Len(s)) \in Seq(S) /\ Len(SubSeq(s, 1, n)) = n
    BY <1>1, SubSeqProperties
  <1>3. 1 \in 1..(Len(s) + 1) /\ n \in (1 - 1)..Len(s) /\ Len(s) \in n..Len(s)
    BY <1>1
  <1>4. SubSeq(s, 1, n) \o SubSeq(s, n + 1, Len(s)) = SubSeq(s, 1, Len(s))
    BY <1>3, ConcatAdjacentSubSeq
  <1>5. SubSeq(s, 1, Len(s)) = s
    BY SubSeqFull
  <1> QED BY <1>2, <1>4, <1>5

Split(s, a, b) == s = a \o b

LEMMA BatchAddsUp ==
    ASSUME NEW S, NEW results \in Seq(S), NEW batch \in Seq(S), NEW after \in Seq(S),
           NEW group, Whole(group) \in Seq(S), NEW rest, NEW targets,
           Split(rest, batch, after), AddUp(results, rest, group, targets)
    PROVE  AddUp(results \o batch, after, group, targets)
  <1>1. PICK w \in Seq(S) : w = Whole(group)
    OBVIOUS
  <1>2. (results \o batch) \o (after \o w) = results \o ((batch \o after) \o w)
    <2>1. \A y \in Seq(S) : (results \o batch) \o y = results \o (batch \o y)
      BY ConcatAssociative
    <2>2. (batch \o after) \o w = batch \o (after \o w)
      BY ConcatAssociative
    <2>3. after \o w \in Seq(S)
      BY ConcatProperties
    <2> QED BY <2>1, <2>2, <2>3, Zenon
  <1>3. targets = results \o ((batch \o after) \o w)
    BY <1>1, Zenon DEF Split, AddUp
  <1> QED BY <1>1, <1>2, <1>3, Zenon DEF AddUp

\* The next batch.
LEMMA ProceedBatch ==
    ASSUME BuilderInv, provider \in {"fcm", "expo", "webpush"},
           NEW p, NEW rest \in Seq(Pending), NEW group \in Seq(Sendable), NEW f,
           NEW results \in Seq(Recipient), NEW targets \in Seq(Recipient),
           AddUp(results, rest, group, targets), rest # <<>>,
           NEW d, d = Proceed(CallOf(p, rest, group, f, results, targets))
    PROVE  Shape(d) /\ d.pc = "batch" /\ Going(d) /\ FlightOwn(d)
  <1> DEFINE n == Shorter(BatchSize, Len(rest))
             batch == SubSeq(rest, 1, n)
             after == SubSeq(rest, n + 1, Len(rest))
  <1>1. Len(rest) \in Nat \ {0} /\ n \in 1..Len(rest)
    <2>1. Len(rest) \in Nat \ {0}
      OBVIOUS
    <2>2. BatchSize \in Nat \ {0}
      BY ProviderAssumption DEF BatchSize
    <2> QED BY <2>1, <2>2 DEF Shorter
  <1>2. batch \in Seq(Pending) /\ Len(batch) = n /\ after \in Seq(Pending) /\ batch \o after = rest
    BY <1>1, CutAt
  <1>4. d = [pc |-> "batch", rest |-> after, group |-> group, flight |-> Request(batch),
             results |-> results, targets |-> targets]
    BY DEF Proceed, CallOf
  <1> HIDE DEF n, batch, after
  <1>5. \A i \in 1..n : /\ batch[i] \in Pending /\ batch[i].ref \in Handed
                        /\ batch[i] = [to |-> batch[i].to, ref |-> batch[i].ref]
    <2>1. \A i \in 1..n : batch[i] \in Pending
      BY <1>1, <1>2
    <2> QED BY <2>1 DEF Pending
  <1>6. /\ Len(Request(batch)) = n
        /\ \A i \in 1..n : LET item == Request(batch)[i] IN
             /\ item.to = batch[i].to /\ item.ref = batch[i].ref
             /\ item.from = IF provider = "fcm" THEN batch[1].ref ELSE batch[i].ref
             /\ item.asBuilt = (Content(item.from) = built[item.from])
    <2>1. n \in Nat
      BY <1>1
    <2> QED BY <1>2, <2>1 DEF Request, FCMRequest, ExpoRequest, Sent
  <1>7. Awaited(d) = batch
    <2>1. Awaited(d) = [i \in 1..n |-> [to |-> Request(batch)[i].to, ref |-> Request(batch)[i].ref]]
      BY <1>4, <1>6 DEF Awaited
    <2>2. batch = [i \in 1..n |-> batch[i]]
      BY <1>2
    <2>3. \A i \in 1..n : [to |-> Request(batch)[i].to, ref |-> Request(batch)[i].ref] = batch[i]
      BY <1>5, <1>6
    <2> QED BY <2>1, <2>2, <2>3
  <1>8. AddUp(results \o batch, after, group, targets)
    <2>1. batch \in Seq(Recipient) /\ after \in Seq(Recipient) /\ Whole(group) \in Seq(Recipient)
      BY <1>2, HandedFacts, WholeIs, SeqMonotonic
    <2>2. Split(rest, batch, after)
      BY <1>2 DEF Split
    <2> QED BY <2>1, <2>2, BatchAddsUp
  <1>9. FlightOwn(d)
    <2> SUFFICES ASSUME NEW i \in 1..n
        PROVE  /\ d.flight[i].from = IF provider = "fcm" THEN d.flight[1].ref ELSE d.flight[i].ref
               /\ d.flight[i].from \notin touched => d.flight[i].asBuilt
      BY <1>4, <1>6 DEF FlightOwn
    <2>1. 1 \in 1..n
      BY <1>1
    <2>2. d.flight[i].from = IF provider = "fcm" THEN d.flight[1].ref ELSE d.flight[i].ref
      BY <1>4, <1>6, <2>1
    <2>3. d.flight[i].from \in Handed
      <3>1. batch[1].ref \in Handed /\ batch[i].ref \in Handed
        BY <1>5, <2>1
      <3> QED BY <1>4, <1>6, <3>1
    <2>4. d.flight[i].asBuilt = (Content(d.flight[i].from) = built[d.flight[i].from])
      BY <1>4, <1>6
    <2> QED BY <2>2, <2>3, <2>4, HandedFacts
  <1>10. Going(d)
    <2>1. batch \in Seq(Recipient)
      BY <1>2, HandedFacts, SeqMonotonic
    <2>2. d.rest = after /\ d.group = group /\ d.results = results /\ d.targets = targets
      BY <1>4
    <2> QED BY <1>2, <1>7, <1>8, <2>1, <2>2 DEF Going, Listed
  <1> QED BY <1>4, <1>9, <1>10 DEF Shape

\* The group, after the batches.
LEMMA ProceedGroup ==
    ASSUME BuilderInv, provider \in {"fcm", "expo", "webpush"},
           NEW p, NEW group \in Seq(Sendable), NEW f,
           NEW results \in Seq(Recipient), NEW targets \in Seq(Recipient),
           AddUp(results, <<>>, group, targets),
           NEW d, d = Proceed(CallOf(p, <<>>, group, f, results, targets))
    PROVE  /\ Shape(d) /\ d.pc \in {"group", "done"} /\ Going(d) /\ FlightOwn(d)
           /\ d.pc = "done" => d.rest = <<>> /\ d.group = <<>> /\ d.flight = <<>>
  <1>1. /\ <<>> \in Seq(Recipient) /\ <<>> \in Seq(Pending) /\ <<>> \in Seq(Sendable)
        /\ Len(<<>>) = 0 /\ 1..0 = {}
    BY NoneYet
  <1>2. Whole(group) \in Seq(Recipient) /\ Whole(<<>>) = <<>>
    BY WholeIs
  <1>3. /\ results \o Whole(group) = targets /\ <<>> \o <<>> = <<>>
        /\ \A s \in Seq(Recipient) : s \o <<>> = s
    <2>1. \A s \in Seq(Recipient) : s \o <<>> = s /\ <<>> \o s = s
      BY ConcatEmptySeq
    <2> QED BY <1>1, <1>2, <2>1 DEF AddUp
  <1>4. CASE group # <<>>
    <2>1. d = [pc |-> "group", rest |-> <<>>, group |-> <<>>, flight |-> Sends(group),
               results |-> results, targets |-> targets]
      BY <1>4 DEF Proceed, CallOf
    <2>2. Len(group) \in Nat /\ \A i \in 1..Len(group) : group[i].ref \in Handed
      <3>1. Len(group) \in Nat /\ \A i \in 1..Len(group) : group[i] \in Sendable
        OBVIOUS
      <3> QED BY <3>1 DEF Sendable
    <2>3. /\ Len(Sends(group)) = Len(group)
          /\ \A i \in 1..Len(group) : LET item == Sends(group)[i] IN
               /\ item.ref = group[i].ref /\ item.from = group[i].ref
               /\ item.asBuilt = (Content(group[i].ref) = built[group[i].ref])
      <3>1. Len(Sends(group)) = Len(group)
        BY <2>2 DEF Sends
      <3>2. ASSUME NEW i \in 1..Len(group)
            PROVE  \E a : Sends(group)[i] = Sent(a, group[i].ref, group[i].ref)
        BY <2>2 DEF Sends
      <3>3. ASSUME NEW i \in 1..Len(group), NEW item, item = Sends(group)[i]
            PROVE  /\ item.ref = group[i].ref /\ item.from = group[i].ref
                   /\ item.asBuilt = (Content(group[i].ref) = built[group[i].ref])
        <4>1. PICK a : item = Sent(a, group[i].ref, group[i].ref)
          BY <3>2, <3>3
        <4> QED BY <4>1 DEF Sent
      <3> QED BY <3>1, <3>3
    <2>4. Awaited(d) = Whole(group)
      BY <2>1, <2>3 DEF Awaited, Whole
    <2>5. FlightOwn(d)
      <3> SUFFICES ASSUME NEW i \in 1..Len(group)
          PROVE  /\ d.flight[i].from = d.flight[i].ref
                 /\ d.flight[i].from \notin touched => d.flight[i].asBuilt
        BY <2>1, <2>3 DEF FlightOwn
      <3>1. group[i].ref \in Handed
        BY <2>2
      <3>2. /\ d.flight[i].ref = group[i].ref /\ d.flight[i].from = group[i].ref
            /\ d.flight[i].asBuilt = (Content(group[i].ref) = built[group[i].ref])
        BY <2>1, <2>3
      <3> QED BY <3>1, <3>2, HandedFacts
    <2>6. Going(d)
      <3>1. results \o Whole(group) \in Seq(Recipient)
        BY <1>2, ConcatProperties
      <3>2. AddUp(results \o Whole(group), <<>>, <<>>, targets)
        BY <1>2, <1>3, <3>1 DEF AddUp
      <3>3. d.rest = <<>> /\ d.group = <<>> /\ d.results = results /\ d.targets = targets
        BY <2>1
      <3> QED BY <1>1, <1>2, <2>4, <3>2, <3>3 DEF Going, Listed
    <2> QED BY <2>1, <2>5, <2>6 DEF Shape
  <1>5. CASE group = <<>>
    <2>1. d = [pc |-> "done", rest |-> <<>>, group |-> <<>>, flight |-> <<>>,
               results |-> results, targets |-> targets]
      BY <1>5 DEF Proceed, CallOf
    <2>2. Awaited(d) = <<>>
      BY <1>1, <2>1 DEF Awaited
    <2>3. FlightOwn(d)
      BY <1>1, <2>1 DEF FlightOwn
    <2>4. Going(d)
      <3>1. results = targets
        BY <1>2, <1>3, <1>5
      <3>2. AddUp(results \o <<>>, <<>>, <<>>, targets)
        BY <1>2, <1>3, <3>1 DEF AddUp
      <3>3. d.rest = <<>> /\ d.group = <<>> /\ d.results = results /\ d.targets = targets
        BY <2>1
      <3> QED BY <1>1, <2>2, <3>2, <3>3 DEF Going, Listed
    <2> QED BY <2>1, <2>3, <2>4 DEF Shape
  <1> QED BY <1>4, <1>5

\* Any next request of a call that adds up.
LEMMA Proceeds ==
    ASSUME BuilderInv, provider \in {"fcm", "expo", "webpush"},
           NEW p, NEW rest \in Seq(Pending), NEW group \in Seq(Sendable), NEW f,
           NEW results \in Seq(Recipient), NEW targets \in Seq(Recipient),
           AddUp(results, rest, group, targets),
           call' = Proceed(CallOf(p, rest, group, f, results, targets)),
           UNCHANGED <<builderVars, provider>>
    PROVE  CallInv'
  <1>1. PICK d : d = Proceed(CallOf(p, rest, group, f, results, targets))
    OBVIOUS
  <1>2. /\ Shape(d) /\ d.pc \in {"batch", "group", "done"} /\ Going(d) /\ FlightOwn(d)
        /\ d.pc = "done" => d.rest = <<>> /\ d.group = <<>> /\ d.flight = <<>>
    <2>1. CASE rest # <<>>
      BY <1>1, <2>1, ProceedBatch
    <2>2. CASE rest = <<>>
      <3>1. /\ AddUp(results, <<>>, group, targets)
            /\ d = Proceed(CallOf(p, <<>>, group, f, results, targets))
        BY <1>1, <2>2
      <3> QED BY <3>1, ProceedGroup
    <2> QED BY <2>1, <2>2
  <1>3. call' = d
    BY <1>1
  <1>4. UNCHANGED <<heap, built, touched, provider>>
    BY DEF builderVars
  <1>5. Handed' = Handed
    BY <1>4 DEF Handed, HandedOut
  <1>6. Going(d)'
    BY <1>2, <1>5 DEF Going, Listed, Pending, Sendable
  <1>7. Shape(call)' /\ FlightOwn(call)' /\ Going(call)'
    BY <1>2, <1>3, <1>4, <1>6 DEF FlightOwn, Shape
  <1> QED BY <1>2, <1>3, <1>4, <1>7 DEF CallInv

LEMMA Begun ==
    ASSUME NEW pairs, NEW group, NEW targets
    PROVE  [NoCall EXCEPT !.rest = pairs, !.group = group, !.targets = targets]
               = CallOf("none", pairs, group, <<>>, <<>>, targets)
  <1>1. PICK h : h = [NoCall EXCEPT !.rest = pairs, !.group = group, !.targets = targets]
    OBVIOUS
  <1>2. /\ h.pc = "none" /\ h.rest = pairs /\ h.group = group /\ h.flight = <<>>
        /\ h.results = <<>> /\ h.targets = targets
    BY <1>1 DEF NoCall
  <1>3. /\ h = [x \in DOMAIN h |-> h[x]]
        /\ DOMAIN h = {"pc", "rest", "group", "flight", "results", "targets"}
    BY <1>1 DEF NoCall
  <1> QED BY <1>1, <1>2, <1>3 DEF CallOf

LEMMA BeginKeeps ==
    ASSUME BuilderInv, CallInv, NEW pairs \in Seq(Pending), NEW group \in Seq(Sendable),
           Begin(pairs, group)
    PROVE  CallInv'
  <1>1. Whole(group) \in Seq(Recipient) /\ pairs \in Seq(Recipient)
    BY WholeIs, HandedFacts, SeqMonotonic
  <1>2. PICK targets : targets = pairs \o Whole(group)
    OBVIOUS
  <1>3. targets \in Seq(Recipient) /\ <<>> \in Seq(Recipient)
    BY <1>1, <1>2, ConcatProperties, NoneYet
  <1>4. AddUp(<<>>, pairs, group, targets)
    BY <1>2, <1>3, ConcatEmptySeq DEF AddUp
  <1>5. /\ call' = Proceed(CallOf("none", pairs, group, <<>>, <<>>, targets))
        /\ UNCHANGED <<builderVars, provider>>
    <2>1. [NoCall EXCEPT !.rest = pairs, !.group = group, !.targets = targets]
            = CallOf("none", pairs, group, <<>>, <<>>, targets)
      BY Begun
    <2>2. /\ call' = Proceed([NoCall EXCEPT !.rest = pairs, !.group = group, !.targets = targets])
          /\ UNCHANGED <<builderVars, provider>>
      BY <1>2, Zenon DEF Begin
    <2> QED BY <2>1, <2>2, Zenon
  <1>6. provider \in {"fcm", "expo", "webpush"}
    BY DEF CallInv
  <1> QED BY <1>3, <1>4, <1>5, <1>6, Proceeds

LEMMA Replaced ==
    ASSUME NEW c, Shape(c), NEW results
    PROVE  [c EXCEPT !.results = results] =
               CallOf(c.pc, c.rest, c.group, c.flight, results, c.targets)
  <1>1. PICK p, rest, group, f, old, targets :
          /\ p = c.pc /\ rest = c.rest /\ group = c.group /\ f = c.flight /\ old = c.results
          /\ targets = c.targets
    OBVIOUS
  <1>2. c = CallOf(p, rest, group, f, old, targets)
    BY <1>1, Zenon DEF Shape, CallOf
  <1>3. [CallOf(p, rest, group, f, old, targets) EXCEPT !.results = results]
          = CallOf(p, rest, group, f, results, targets)
    BY DEF CallOf
  <1> QED BY <1>1, <1>2, <1>3, Zenon

LEMMA AnsweredKeeps ==
    ASSUME BuilderInv, CallInv, call.pc # "none", Answered
    PROVE  CallInv'
  <1>1. PICK c : c = call
    OBVIOUS
  <1>2. Shape(c) /\ Going(c) /\ provider \in {"fcm", "expo", "webpush"}
    BY <1>1 DEF CallInv
  <1>3. PICK results : results = c.results \o Awaited(c)
    OBVIOUS
  <1>4. Received(c) = CallOf(c.pc, c.rest, c.group, c.flight, results, c.targets)
    <2>1. Received(c) = [c EXCEPT !.results = results]
      BY <1>3, Zenon DEF Received, Awaited
    <2> QED BY <1>2, <2>1, Replaced
  <1>5. /\ c.rest \in Seq(Pending) /\ c.group \in Seq(Sendable) /\ c.targets \in Seq(Recipient)
        /\ results \in Seq(Recipient) /\ AddUp(results, c.rest, c.group, c.targets)
    BY <1>2, <1>3, ConcatProperties DEF Going, Listed
  <1>6. call' = Proceed(Received(c)) /\ UNCHANGED <<builderVars, provider>>
    BY <1>1 DEF Answered
  <1> QED BY <1>2, <1>4, <1>5, <1>6, Proceeds

\* The recipients of messages handed out.
LEMMA TokensAre ==
    ASSUME BuilderInv, NEW r \in Handed PROVE Tokens(r) \in Seq(Pending)
  <1>1. heap[r].token \in TokenFields \cup {NoToken}
    BY OneObject, HandedFacts DEF Message
  <1>2. PICK t \in TokenFields \cup {NoToken} : t = heap[r].token
    BY <1>1
  <1>3. Len(t.list) \in Nat /\ \A i \in 1..Len(t.list) : t.list[i] \in Tos
    <2>1. CASE t \in TokenFields
      <3>1. Len(t.list) \in Nat
        BY <2>1, BuilderAssumption
      <3>2. ASSUME NEW i \in Nat PROVE t.list[i] \in Tos
        <4>1. <<t, i>> \in TokenFields \X Nat /\ <<t, i>>[1].list[<<t, i>>[2]] = t.list[i]
          BY <2>1
        <4> QED BY <4>1 DEF Tos
      <3> QED BY <3>1, <3>2
    <2>2. CASE t = NoToken
      BY <2>2, NoneYet DEF NoToken
    <2> QED BY <2>1, <2>2
  <1>4. Tokens(r) = [i \in 1..Len(t.list) |-> [to |-> t.list[i], ref |-> r]]
    BY <1>2 DEF Tokens
  <1>5. \A i \in 1..Len(t.list) : [to |-> t.list[i], ref |-> r] \in Pending
    BY <1>3 DEF Pending
  <1> QED BY <1>3, <1>4, <1>5

LEMMA OneIs ==
    ASSUME NEW r \in Handed
    PROVE  /\ One(r) \in Sendable /\ <<One(r)>> \in Seq(Sendable)
           /\ <<[ref |-> r, topical |-> TRUE]>> \in Seq(Sendable)
  BY DEF One, Sendable

LEMMA BulkIs ==
    ASSUME BuilderInv, NEW msgs \in Bulk
    PROVE  /\ Pairs(msgs) \in Seq(Pending) /\ Topics(msgs) \in Seq(Sendable)
           /\ Ones(msgs) \in Seq(Sendable)
  <1>1. Len(msgs) \in Nat /\ \A k \in 1..Len(msgs) : msgs[k] \in Handed
    <2>1. PICK n \in 0..MaxMessages : msgs \in [1..n -> Handed]
      BY DEF Bulk
    <2>2. n \in Nat
      BY <2>1, ProviderAssumption
    <2> QED BY <2>1, <2>2
  <1>2. [k \in 1..Len(msgs) |-> Tokens(msgs[k])] \in Seq(Seq(Pending))
    <2>1. \A k \in 1..Len(msgs) : Tokens(msgs[k]) \in Seq(Pending)
      BY <1>1, TokensAre
    <2> QED BY <1>1, <2>1
  <1>3. [k \in 1..Len(msgs) |-> IF heap[msgs[k]].topic THEN <<One(msgs[k])>> ELSE <<>>]
          \in Seq(Seq(Sendable))
    <2>1. \A k \in 1..Len(msgs) :
            (IF heap[msgs[k]].topic THEN <<One(msgs[k])>> ELSE <<>>) \in Seq(Sendable)
      BY <1>1, OneIs, NoneYet
    <2> QED BY <1>1, <2>1
  <1>4. Ones(msgs) \in Seq(Sendable)
    <2>1. \A k \in 1..Len(msgs) : One(msgs[k]) \in Sendable
      BY <1>1, OneIs
    <2> QED BY <1>1, <2>1 DEF Ones
  <1> QED BY <1>2, <1>3, <1>4, FlattenKeeps DEF Pairs, Topics

LEMMA ProviderNextKeeps ==
    ASSUME BuilderInv, CallInv, ProviderNext
    PROVE  CallInv' /\ UNCHANGED builderVars
  <1>1. CASE FCMSendBulk \/ ExpoSendBulk \/ WebPushSendBulk
    <2>1. PICK msgs \in Bulk : \/ Begin(Pairs(msgs), Topics(msgs)) \/ Begin(Pairs(msgs), <<>>)
                               \/ Begin(<<>>, Ones(msgs))
      BY <1>1 DEF FCMSendBulk, ExpoSendBulk, WebPushSendBulk
    <2>2. CallInv'
      BY <2>1, BulkIs, NoneYet, BeginKeeps
    <2> QED BY <2>1, <2>2 DEF Begin
  <1>2. CASE FCMSend \/ FCMSendToTopic \/ ExpoSend \/ WebPushSend
    <2>1. PICK r \in Handed : \/ Begin(<<>>, <<One(r)>>)
                              \/ Begin(<<>>, <<[ref |-> r, topical |-> TRUE]>>)
      BY <1>2 DEF FCMSend, FCMSendToTopic, ExpoSend, WebPushSend
    <2>2. CallInv'
      BY <2>1, OneIs, NoneYet, BeginKeeps
    <2> QED BY <2>1, <2>2 DEF Begin
  <1>3. CASE FCMBatchAnswered \/ ExpoBatchAnswered \/ BatchFails \/ GroupAnswered
    <2>1. call.pc # "none" /\ Answered
      BY <1>3 DEF FCMBatchAnswered, ExpoBatchAnswered, BatchFails, GroupAnswered
    <2> QED BY <2>1, AnsweredKeeps DEF Answered
  <1>4. CASE Return
    <2>1. call' = NoCall /\ UNCHANGED <<builderVars, provider>>
      BY <1>4 DEF Return
    <2>2. Shape(NoCall) /\ NoCall.pc = "none" /\ NoCall.flight = <<>> /\ Len(<<>>) = 0 /\ 1..0 = {}
      BY NoneYet DEF Shape, NoCall
    <2> QED BY <2>1, <2>2 DEF CallInv, Shape, FlightOwn
  <1> QED BY <1>1, <1>2, <1>3, <1>4 DEF ProviderNext

\* The builders go on while a request is awaited.
LEMMA WhileAwaited ==
    ASSUME BuilderInv, CallInv, BuilderStep, UNCHANGED <<provider, call>>
    PROVE  CallInv'
  <1>1. \A r \in Handed : r \in Handed'
    BY DEF BuilderStep, Handed, HandedOut
  <1>2. Pending \subseteq Pending' /\ Sendable \subseteq Sendable'
    BY <1>1 DEF Pending, Sendable
  <1>3. Seq(Pending) \subseteq Seq(Pending)' /\ Seq(Sendable) \subseteq Seq(Sendable)'
    BY <1>2, SeqMonotonic
  <1>4. Going(call) => Going(call)'
    BY <1>3 DEF Going, Listed, AddUp, Awaited, Whole
  <1>5. touched \subseteq touched'
    BY DEF BuilderStep
  <1>6. FlightOwn(call)'
    BY <1>5 DEF CallInv, FlightOwn
  <1>7. Shape(call)'
    BY DEF CallInv, Shape
  <1> QED BY <1>4, <1>6, <1>7 DEF CallInv

THEOREM ProvidersInv == Spec => [](BuilderInv /\ CallInv)
  <1>1. Init => BuilderInv /\ CallInv
    <2> SUFFICES ASSUME Init PROVE CallInv
      BY BuilderStarts DEF Init
    <2>1. call = NoCall /\ provider \in {"fcm", "expo", "webpush"}
      BY DEF Init
    <2>2. Shape(NoCall) /\ NoCall.pc = "none" /\ NoCall.flight = <<>> /\ Len(<<>>) = 0 /\ 1..0 = {}
      BY NoneYet DEF Shape, NoCall
    <2> QED BY <2>1, <2>2 DEF CallInv, FlightOwn
  <1>2. BuilderInv /\ CallInv /\ [Next]_vars => (BuilderInv /\ CallInv)'
    <2> SUFFICES ASSUME BuilderInv, CallInv, [Next]_vars PROVE BuilderInv' /\ CallInv'
      OBVIOUS
    <2>1. ASSUME UNCHANGED builderVars PROVE BuilderInv'
      BY <2>1 DEF builderVars, BuilderInv, Fresh, Content, HandedOut
    <2>2. CASE ProviderNext
      BY <2>1, <2>2, ProviderNextKeeps
    <2>3. CASE BuilderNext /\ UNCHANGED <<provider, call>>
      BY <2>3, BuilderNextKeeps, WhileAwaited
    <2>4. CASE UNCHANGED vars
      <3>1. UNCHANGED builderVars /\ UNCHANGED <<provider, call>>
        BY <2>4 DEF vars
      <3>2. BuilderStep
        BY <3>1 DEF builderVars, BuilderStep
      <3> QED BY <2>1, <3>1, <3>2, WhileAwaited
    <2> QED BY <2>2, <2>3, <2>4 DEF Next
  <1> QED BY <1>1, <1>2, PTL DEF Spec

(* At the end of a call there is one result for each recipient, in their   *)
(* order, whatever requests failed or the builders did meanwhile.          *)
THEOREM ResultsInOrder == Spec => []ResultsMatchTargets
  <1>1. BuilderInv /\ CallInv => ResultsMatchTargets
    <2> SUFFICES ASSUME BuilderInv, CallInv, call.pc = "done" PROVE call.results = call.targets
      BY DEF ResultsMatchTargets
    <2>1. Going(call) /\ call.rest = <<>> /\ call.group = <<>> /\ call.flight = <<>>
      BY DEF CallInv
    <2>2. Awaited(call) = <<>>
      BY <2>1, NoneYet DEF Awaited
    <2>3. PICK results \in Seq(Recipient) : results = call.results
      BY <2>1 DEF Going, Listed
    <2>4. <<>> \in Seq(Sendable) /\ <<>> \in Seq(Recipient)
      BY NoneYet
    <2>5. Whole(<<>>) = <<>>
      BY <2>4, WholeIs
    <2>6. results \o <<>> = results /\ <<>> \o <<>> = <<>>
      BY <2>4, ConcatEmptySeq
    <2>7. AddUp(results \o <<>>, <<>>, <<>>, call.targets)
      BY <2>1, <2>2, <2>3 DEF Going
    <2> QED BY <2>3, <2>5, <2>6, <2>7 DEF AddUp
  <1> QED BY <1>1, ProvidersInv, PTL

(* A recipient is sent the content that its own message was built with -   *)
(* in an FCM batch that mixes messages, perhaps another's - unless that    *)
(* very message was touched since, whatever other builders do.             *)
THEOREM ContentAsBuilt == Spec => []OwnContent
  <1>1. CallInv => OwnContent
    BY DEF CallInv, FlightOwn, OwnContent
  <1> QED BY <1>1, ProvidersInv, PTL

-----------------------------------------------------------------------------
(* What an engine that took a list of templates holds.                     *)
KeyOf(t) == TemplateKey(t.id, t.locale)
KeysOf(list) == [i \in DOMAIN list |-> KeyOf(list[i])]
ContentsOf(list) == [i \in DOMAIN list |-> list[i].content]
IsWith(g, map, list) ==
    g = [s \in SUBSET (DOMAIN list) |->
            IF s = {} THEN map ELSE With(g[s \ {Max(s)}], list[Max(s)])]

LEMMA WithFold ==
    ASSUME NEW list \in Seq(Template), NEW map, map = [k \in DOMAIN map |-> map[k]]
    PROVE  FoldLeft(With, map, list)
               = Overridden(map, KeysOf(list), ContentsOf(list), 1..Len(list))
  <1>1. Len(list) \in Nat /\ DOMAIN list = 1..Len(list)
    OBVIOUS
  <1>2. FoldLeft(With, map, list) = (CHOOSE g : IsWith(g, map, list))[DOMAIN list]
    BY DEF FoldLeft, MapThenFoldSet, IsWith
  <1>3. ASSUME NEW g PROVE IsWith(g, map, list) <=>
                           IsOver(g, map, KeysOf(list), ContentsOf(list), Len(list))
    <2>1. ASSUME NEW s \in SUBSET (1..Len(list)), s # {}
          PROVE  With(g[s \ {Max(s)}], list[Max(s)])
                     = WithKey(g[s \ {Max(s)}], KeysOf(list)[Max(s)], ContentsOf(list)[Max(s)])
      <3>1. Max(s) \in DOMAIN list
        BY <1>1, <2>1, MaxIs
      <3>2. PICK x \in DOMAIN list : x = Max(s)
        BY <3>1
      <3> QED BY <3>2 DEF With, WithKey, KeysOf, ContentsOf, KeyOf
    <2> QED BY <1>1, <2>1 DEF IsWith, IsOver
  <1>4. \E g : IsWith(g, map, list)
    BY <1>1, <1>3, OverExists
  <1>5. IsWith(CHOOSE g : IsWith(g, map, list), map, list)
    BY <1>4
  <1> QED BY <1>1, <1>2, <1>3, <1>5, OverUnique

-----------------------------------------------------------------------------
(* The engines.  What an engine holds is, of each key, what the log says   *)
(* was registered last - for templates, since it was cleared last.         *)
LogKeys(l) == [i \in DOMAIN l |-> KeyOf(l[i].template)]
LogContents(l) == [i \in DOMAIN l |-> l[i].template.content]
Registered(l, e) == {i \in DOMAIN l : l[i].of = e /\ l[i].op = "register"}
Cleared(l, e) == {i \in DOMAIN l : l[i].of = e /\ l[i].op = "clear"}
Live(l, e) == {i \in Registered(l, e) : \A c \in Cleared(l, e) : c < i}

EngineInv ==
    /\ log \in Seq(Call)
    /\ templates = [e \in Engines |-> templates[e]]
    /\ rawTemplates = [e \in Engines |-> rawTemplates[e]]
    /\ \A e \in Engines :
         /\ HoldsLast(templates[e], LogKeys(log), LogContents(log), Live(log, e))
         /\ HoldsLast(rawTemplates[e], LogKeys(log), LogContents(log), Registered(log, e))

\* l2 is l and then x, all of S.
Extends(S, l, x, l2) ==
    /\ l \in Seq(S) /\ x \in Seq(S) /\ l2 \in Seq(S) /\ Len(l) \in Nat /\ Len(x) \in Nat
    /\ DOMAIN l = 1..Len(l) /\ DOMAIN x = 1..Len(x) /\ DOMAIN l2 = 1..(Len(l) + Len(x))
    /\ \A i \in 1..Len(l) : l2[i] = l[i]
    /\ \A i \in 1..Len(x) : l2[Len(l) + i] = x[i]

LEMMA LogExtends ==
    ASSUME NEW S, NEW l \in Seq(S), NEW x \in Seq(S), NEW l2, l2 = l \o x
    PROVE  Extends(S, l, x, l2)
  <1>1. Len(l) \in Nat /\ Len(x) \in Nat /\ DOMAIN l = 1..Len(l) /\ DOMAIN x = 1..Len(x)
    OBVIOUS
  <1>2. l2 \in Seq(S) /\ Len(l2) = Len(l) + Len(x)
    OBVIOUS
  <1>3. \A i \in 1..Len(l) : l2[i] = l[i]
    OBVIOUS
  <1>4. \A i \in 1..Len(x) : l2[Len(l) + i] = x[i]
    OBVIOUS
  <1> QED BY <1>1, <1>2, <1>3, <1>4 DEF Extends

LEMMA LogAppended ==
    ASSUME NEW S, NEW l \in Seq(S), NEW c \in S, NEW l2, l2 = Append(l, c)
    PROVE  Extends(S, l, <<c>>, l2)
  <1>1. <<c>> \in Seq(S) /\ l2 = l \o <<c>>
    BY AppendIsConcat
  <1> QED BY <1>1, LogExtends

\* Each place of the longer log is of one of the two.
TwoParts(l, x, l2, new) ==
    /\ DOMAIN l2 = DOMAIN l \cup new
    /\ \A i \in DOMAIN l : l2[i] = l[i] /\ i \notin new
    /\ \A i \in DOMAIN l : \A j \in new : i < j
    /\ \A j \in new : \E a \in 1..Len(x) : j = Len(l) + a /\ l2[j] = x[a]

LEMMA Places ==
    ASSUME NEW S, NEW l, NEW x, NEW l2, Extends(S, l, x, l2)
    PROVE  TwoParts(l, x, l2, Added(Len(l), Len(x)))
  <1>1. Len(l) \in Nat /\ Len(x) \in Nat /\ DOMAIN l = 1..Len(l) /\ DOMAIN l2 = 1..(Len(l) + Len(x))
    BY DEF Extends
  <1>2. ASSUME NEW j \in 1..(Len(l) + Len(x)), j \notin 1..Len(l) PROVE j \in Added(Len(l), Len(x))
    <2>1. j - Len(l) \in 1..Len(x) /\ j = Len(l) + (j - Len(l))
      BY <1>1, <1>2
    <2> QED BY <2>1 DEF Added
  <1>3. ASSUME NEW j \in Added(Len(l), Len(x))
        PROVE  /\ j \in 1..(Len(l) + Len(x)) /\ \A i \in 1..Len(l) : i < j
               /\ \E a \in 1..Len(x) : j = Len(l) + a /\ l2[j] = x[a]
    <2>1. PICK a \in 1..Len(x) : j = Len(l) + a
      BY <1>3 DEF Added
    <2>2. j \in 1..(Len(l) + Len(x)) /\ \A i \in 1..Len(l) : i < j
      BY <1>1, <2>1
    <2>3. l2[j] = x[a]
      BY <2>1 DEF Extends
    <2> QED BY <2>1, <2>2, <2>3
  <1>4. \A i \in 1..Len(l) : i \in 1..(Len(l) + Len(x)) /\ ~(i < i)
    BY <1>1
  <1>5. \A i \in 1..Len(l) : l2[i] = l[i]
    BY DEF Extends
  <1> QED BY <1>1, <1>2, <1>3, <1>4, <1>5 DEF TwoParts

\* A call that registers nothing, and one that does.
AfterOther(l, c, l2, e) ==
    /\ Registered(l2, e) = Registered(l, e)
    /\ Live(l2, e) = IF c.op = "clear" /\ c.of = e THEN {} ELSE Live(l, e)
    /\ \A i \in Registered(l, e) : /\ LogKeys(l2)[i] = LogKeys(l)[i]
                                   /\ LogContents(l2)[i] = LogContents(l)[i]

LEMMA OtherCall ==
    ASSUME NEW l, NEW c \in Call, NEW l2, Extends(Call, l, <<c>>, l2), c.op # "register", NEW e
    PROVE  AfterOther(l, c, l2, e)
  <1> DEFINE n == Len(l)
  <1>1. Len(<<c>>) = 1 /\ <<c>>[1] = c /\ Added(n, 1) = {n + 1}
    BY DEF Added
  <1>2. /\ DOMAIN l2 = DOMAIN l \cup {n + 1} /\ n + 1 \notin DOMAIN l /\ l2[n + 1] = c
        /\ \A i \in DOMAIN l : l2[i] = l[i] /\ i < n + 1
    <2>1. /\ DOMAIN l2 = DOMAIN l \cup Added(n, Len(<<c>>))
          /\ \A i \in DOMAIN l : l2[i] = l[i] /\ i \notin Added(n, Len(<<c>>))
          /\ \A i \in DOMAIN l : \A j \in Added(n, Len(<<c>>)) : i < j
      <3>1. TwoParts(l, <<c>>, l2, Added(n, Len(<<c>>)))
        BY Places
      <3> QED BY <3>1 DEF TwoParts
    <2>2. l2[n + 1] = c
      <3>1. \A i \in 1..Len(<<c>>) : l2[n + i] = <<c>>[i]
        BY DEF Extends
      <3>2. 1 \in 1..Len(<<c>>)
        BY <1>1
      <3> QED BY <1>1, <3>1, <3>2
    <2> QED BY <1>1, <2>1, <2>2
  <1> HIDE DEF n
  <1>3. Registered(l2, e) = Registered(l, e)
    BY <1>2 DEF Registered
  <1>4. Cleared(l2, e) = IF c.op = "clear" /\ c.of = e THEN Cleared(l, e) \cup {n + 1}
                                                      ELSE Cleared(l, e)
    BY <1>2 DEF Cleared
  <1>5. Live(l2, e) = IF c.op = "clear" /\ c.of = e THEN {} ELSE Live(l, e)
    <2>1. CASE c.op = "clear" /\ c.of = e
      <3>1. n + 1 \in Cleared(l2, e)
        BY <1>4, <2>1
      <3>2. \A i \in Registered(l, e) : i \in DOMAIN l
        BY DEF Registered
      <3>3. \A i \in DOMAIN l : i < n + 1 /\ i \in Nat /\ n + 1 \in Nat
        BY <1>2 DEF Extends, n
      <3>4. ASSUME NEW i \in Registered(l, e) PROVE ~(n + 1 < i)
        BY <3>2, <3>3
      <3> QED BY <1>3, <2>1, <3>1, <3>4 DEF Live
    <2>2. CASE ~(c.op = "clear" /\ c.of = e)
      BY <1>3, <1>4, <2>2 DEF Live
    <2> QED BY <2>1, <2>2
  <1>6. \A i \in DOMAIN l : i \in DOMAIN l2 /\ l2[i] = l[i]
    BY <1>2
  <1>7. \A i \in Registered(l, e) : i \in DOMAIN l
    BY DEF Registered
  <1> QED BY <1>3, <1>5, <1>6, <1>7 DEF AfterOther, LogKeys, LogContents

AfterRegister(l, x, l2, e, to) ==
    /\ Registered(l2, e) = IF e = to THEN Registered(l, e) \cup Added(Len(l), Len(x))
                                     ELSE Registered(l, e)
    /\ Live(l2, e) = IF e = to THEN Live(l, e) \cup Added(Len(l), Len(x)) ELSE Live(l, e)
    /\ \A i \in Registered(l, e) : /\ LogKeys(l2)[i] = LogKeys(l)[i]
                                   /\ LogContents(l2)[i] = LogContents(l)[i]
    /\ \A i \in 1..Len(x) : /\ LogKeys(l2)[Len(l) + i] = KeyOf(x[i].template)
                            /\ LogContents(l2)[Len(l) + i] = x[i].template.content

LEMMA RegisterCalls ==
    ASSUME NEW l, NEW x, NEW l2, Extends(Call, l, x, l2), NEW e, NEW to,
           \A i \in 1..Len(x) : x[i].op = "register" /\ x[i].of = to
    PROVE  AfterRegister(l, x, l2, e, to)
  <1> DEFINE new == Added(Len(l), Len(x))
  <1>1. /\ DOMAIN l2 = DOMAIN l \cup new
        /\ \A i \in DOMAIN l : l2[i] = l[i] /\ i \notin new
        /\ \A i \in DOMAIN l : \A j \in new : i < j
        /\ \A j \in new : \E a \in 1..Len(x) : j = Len(l) + a /\ l2[j] = x[a]
    <2>1. TwoParts(l, x, l2, new)
      BY Places
    <2> QED BY <2>1 DEF TwoParts
  <1> HIDE DEF new
  <1>2. \A j \in new : l2[j].op = "register" /\ l2[j].of = to
    BY <1>1
  <1>3. Registered(l2, e) = IF e = to THEN Registered(l, e) \cup new ELSE Registered(l, e)
    BY <1>1, <1>2 DEF Registered
  <1>4. Cleared(l2, e) = Cleared(l, e) /\ Cleared(l, e) \subseteq DOMAIN l
    BY <1>1, <1>2 DEF Cleared
  <1>5. Live(l2, e) = IF e = to THEN Live(l, e) \cup new ELSE Live(l, e)
    BY <1>1, <1>3, <1>4 DEF Live
  <1>6. \A i \in DOMAIN l : i \in DOMAIN l2 /\ l2[i] = l[i]
    BY <1>1
  <1>7. \A i \in Registered(l, e) : i \in DOMAIN l
    BY DEF Registered
  <1>8. \A i \in 1..Len(x) : Len(l) + i \in DOMAIN l2 /\ l2[Len(l) + i] = x[i]
    <2>1. ASSUME NEW i \in 1..Len(x) PROVE Len(l) + i \in new
      BY DEF new, Added
    <2>2. \A i \in 1..Len(x) : l2[Len(l) + i] = x[i]
      BY DEF Extends
    <2> QED BY <1>1, <2>1, <2>2
  <1> QED BY <1>3, <1>5, <1>6, <1>7, <1>8 DEF AfterRegister, LogKeys, LogContents, new

LEMMA EmptyHolds == ASSUME NEW K, NEW V PROVE HoldsLast(Empty, K, V, {})
  BY DEF HoldsLast, Empty, KeysIn

\* The constructor, and clearing the cache.
LEMMA OneCallKeeps ==
    ASSUME EngineInv, NEW e \in Engines, NEW op \in {"new", "clear"},
           NEW c, c = [op |-> op, of |-> e], log' = Append(log, c),
           templates' = IF op = "clear" THEN [templates EXCEPT ![e] = Empty] ELSE templates,
           UNCHANGED rawTemplates
    PROVE  EngineInv'
  <1>1. c \in Call /\ c.op = op /\ c.of = e /\ c.op # "register"
    BY DEF Call
  <1>2. PICK l, l2 : l = log /\ l2 = log'
    OBVIOUS
  <1>3. l \in Seq(Call) /\ l2 = Append(l, c)
    BY <1>2 DEF EngineInv
  <1>4. Extends(Call, l, <<c>>, l2)
    BY <1>1, <1>3, LogAppended
  <1>5. l2 \in Seq(Call)
    BY <1>4 DEF Extends
  <1>6. templates' = [f \in Engines |-> templates'[f]]
    <2>1. CASE op = "clear"
      BY <2>1 DEF EngineInv
    <2>2. CASE op # "clear"
      BY <2>2 DEF EngineInv
    <2> QED BY <2>1, <2>2
  <1>7. ASSUME NEW f \in Engines
        PROVE  /\ HoldsLast(templates'[f], LogKeys(l2), LogContents(l2), Live(l2, f))
               /\ HoldsLast(rawTemplates[f], LogKeys(l2), LogContents(l2), Registered(l2, f))
    <2>1. /\ HoldsLast(templates[f], LogKeys(l), LogContents(l), Live(l, f))
          /\ HoldsLast(rawTemplates[f], LogKeys(l), LogContents(l), Registered(l, f))
      BY <1>2 DEF EngineInv
    <2>2. /\ Registered(l2, f) = Registered(l, f)
          /\ Live(l2, f) = IF c.op = "clear" /\ c.of = f THEN {} ELSE Live(l, f)
          /\ \A i \in Registered(l, f) : /\ LogKeys(l2)[i] = LogKeys(l)[i]
                                         /\ LogContents(l2)[i] = LogContents(l)[i]
      <3>1. AfterOther(l, c, l2, f)
        BY <1>1, <1>4, OtherCall
      <3> QED BY <3>1 DEF AfterOther
    <2>3. Live(l, f) \subseteq Registered(l, f)
      BY DEF Live
    <2>4. HoldsLast(rawTemplates[f], LogKeys(l2), LogContents(l2), Registered(l, f))
      BY <2>1, <2>2, LatestSame
    <2>5. CASE op = "clear" /\ e = f
      <3>1. templates'[f] = Empty
        BY <2>5 DEF EngineInv
      <3> QED BY <1>1, <2>2, <2>4, <2>5, <3>1, EmptyHolds
    <2>6. CASE ~(op = "clear" /\ e = f)
      <3>1. templates'[f] = templates[f]
        BY <2>6 DEF EngineInv
      <3>2. \A i \in Live(l, f) : /\ LogKeys(l2)[i] = LogKeys(l)[i]
                                  /\ LogContents(l2)[i] = LogContents(l)[i]
        BY <2>2, <2>3
      <3>3. HoldsLast(templates[f], LogKeys(l2), LogContents(l2), Live(l, f))
        BY <2>1, <3>2, LatestSame
      <3> QED BY <1>1, <2>2, <2>4, <2>6, <3>1, <3>3
    <2> QED BY <2>5, <2>6
  <1>8. rawTemplates = [f \in Engines |-> rawTemplates[f]]
    BY DEF EngineInv
  <1> QED BY <1>2, <1>5, <1>6, <1>7, <1>8 DEF EngineInv

\* Templates registered, one or those of a directory.
LEMMA RegisterKeeps ==
    ASSUME EngineInv, NEW e \in Engines, NEW list \in Seq(Template), Register(e, list)
    PROVE  EngineInv'
  <1>1. PICK x : x = [i \in DOMAIN list |-> [op |-> "register", of |-> e, template |-> list[i]]]
    OBVIOUS
  <1>2. Len(list) \in Nat /\ DOMAIN list = 1..Len(list) /\ \A i \in 1..Len(list) : list[i] \in Template
    OBVIOUS
  <1>3. /\ x \in Seq(Call) /\ Len(x) = Len(list)
        /\ \A i \in 1..Len(list) : x[i].op = "register" /\ x[i].of = e /\ x[i].template = list[i]
    <2>1. \A i \in 1..Len(list) : [op |-> "register", of |-> e, template |-> list[i]] \in Call
      BY <1>2 DEF Call
    <2> QED BY <1>1, <1>2, <2>1
  <1>4. PICK l, l2 : l = log /\ l2 = log'
    OBVIOUS
  <1>5. l \in Seq(Call) /\ l2 = l \o x
    BY <1>1, <1>4 DEF EngineInv, Register
  <1>6. Extends(Call, l, x, l2)
    BY <1>3, <1>5, LogExtends
  <1>7. /\ l2 \in Seq(Call) /\ Len(l) \in Nat /\ DOMAIN l = 1..Len(l)
    BY <1>6 DEF Extends
  <1>8. /\ templates' = [templates EXCEPT ![e] = FoldLeft(With, templates[e], list)]
        /\ rawTemplates' = [rawTemplates EXCEPT ![e] = FoldLeft(With, rawTemplates[e], list)]
    BY DEF Register
  <1>9. /\ templates' = [f \in Engines |-> templates'[f]]
        /\ rawTemplates' = [f \in Engines |-> rawTemplates'[f]]
        /\ templates'[e] = FoldLeft(With, templates[e], list)
        /\ rawTemplates'[e] = FoldLeft(With, rawTemplates[e], list)
        /\ \A f \in Engines \ {e} : templates'[f] = templates[f] /\ rawTemplates'[f] = rawTemplates[f]
    BY <1>8 DEF EngineInv
  <1>10. ASSUME NEW f
         PROVE  /\ Registered(l2, f) = IF f = e THEN Registered(l, f) \cup Added(Len(l), Len(x))
                                                ELSE Registered(l, f)
                /\ Live(l2, f) = IF f = e THEN Live(l, f) \cup Added(Len(l), Len(x)) ELSE Live(l, f)
                /\ \A i \in Registered(l, f) : /\ LogKeys(l2)[i] = LogKeys(l)[i]
                                               /\ LogContents(l2)[i] = LogContents(l)[i]
                /\ \A i \in 1..Len(x) : /\ LogKeys(l2)[Len(l) + i] = KeyOf(x[i].template)
                                        /\ LogContents(l2)[Len(l) + i] = x[i].template.content
    <2>1. \A i \in 1..Len(x) : x[i].op = "register" /\ x[i].of = e
      BY <1>3
    <2>2. AfterRegister(l, x, l2, f, e)
      BY <1>6, <2>1, RegisterCalls
    <2> QED BY <2>2 DEF AfterRegister
  <1>11. ASSUME NEW f PROVE Live(l, f) \subseteq Registered(l, f) /\ Registered(l, f) \subseteq 1..Len(l)
    BY <1>7 DEF Live, Registered
  <1>12. ASSUME NEW f \in Engines
         PROVE  /\ HoldsLast(templates[f], LogKeys(l), LogContents(l), Live(l, f))
                /\ HoldsLast(rawTemplates[f], LogKeys(l), LogContents(l), Registered(l, f))
    BY <1>4 DEF EngineInv
  <1>13. ASSUME NEW map, NEW S, S \subseteq Registered(l, e),
                HoldsLast(map, LogKeys(l), LogContents(l), S)
         PROVE  HoldsLast(FoldLeft(With, map, list), LogKeys(l2), LogContents(l2),
                          S \cup Added(Len(l), Len(x)))
    <2>1. map = [k \in DOMAIN map |-> map[k]]
      BY <1>13 DEF HoldsLast
    <2>2. FoldLeft(With, map, list)
            = Overridden(map, KeysOf(list), ContentsOf(list), 1..Len(list))
      BY <2>1, WithFold
    <2>3. \A i \in S : LogKeys(l2)[i] = LogKeys(l)[i] /\ LogContents(l2)[i] = LogContents(l)[i]
      BY <1>10, <1>13
    <2>4. \A i \in 1..Len(list) : /\ LogKeys(l2)[Len(l) + i] = KeysOf(list)[i]
                                  /\ LogContents(l2)[Len(l) + i] = ContentsOf(list)[i]
      BY <1>2, <1>3, <1>10 DEF KeysOf, ContentsOf
    <2>5. S \subseteq 1..Len(l)
      BY <1>11, <1>13
    <2>6. HoldsLast(Overridden(map, KeysOf(list), ContentsOf(list), 1..Len(list)),
                    LogKeys(l2), LogContents(l2), S \cup Added(Len(l), Len(list)))
      BY <1>2, <1>7, <1>13, <2>3, <2>4, <2>5, LatestGrows
    <2> QED BY <1>3, <2>2, <2>6
  <1>14. ASSUME NEW f \in Engines
         PROVE  /\ HoldsLast(templates'[f], LogKeys(l2), LogContents(l2), Live(l2, f))
                /\ HoldsLast(rawTemplates'[f], LogKeys(l2), LogContents(l2), Registered(l2, f))
    <2>1. CASE f = e
      BY <1>9, <1>10, <1>11, <1>12, <1>13, <2>1
    <2>2. CASE f # e
      <3>1. templates'[f] = templates[f] /\ rawTemplates'[f] = rawTemplates[f]
        BY <1>9, <2>2
      <3>2. Live(l2, f) = Live(l, f) /\ Registered(l2, f) = Registered(l, f)
        BY <1>10, <2>2
      <3>3. HoldsLast(rawTemplates[f], LogKeys(l2), LogContents(l2), Registered(l, f))
        BY <1>10, <1>12, LatestSame
      <3>4. \A i \in Live(l, f) : /\ LogKeys(l2)[i] = LogKeys(l)[i]
                                  /\ LogContents(l2)[i] = LogContents(l)[i]
        BY <1>10, <1>11
      <3>5. HoldsLast(templates[f], LogKeys(l2), LogContents(l2), Live(l, f))
        BY <1>12, <3>4, LatestSame
      <3> QED BY <3>1, <3>2, <3>3, <3>5
    <2> QED BY <2>1, <2>2
  <1> QED BY <1>4, <1>7, <1>9, <1>14 DEF EngineInv

LEMMA TemplatesStart == TemplatesInit => EngineInv
  <1> SUFFICES ASSUME TemplatesInit PROVE EngineInv
    OBVIOUS
  <1>1. log = <<>> /\ DOMAIN log = {} /\ log \in Seq(Call)
    BY DEF TemplatesInit
  <1>2. \A e \in Engines : templates[e] = Empty /\ rawTemplates[e] = Empty
    BY DEF TemplatesInit
  <1>3. \A e : Registered(log, e) = {} /\ Live(log, e) = {}
    BY <1>1 DEF Registered, Live
  <1>4. templates = [e \in Engines |-> templates[e]] /\ rawTemplates = [e \in Engines |-> rawTemplates[e]]
    BY DEF TemplatesInit
  <1>5. ASSUME NEW e \in Engines
        PROVE  /\ HoldsLast(templates[e], LogKeys(log), LogContents(log), Live(log, e))
               /\ HoldsLast(rawTemplates[e], LogKeys(log), LogContents(log), Registered(log, e))
    BY <1>2, <1>3, EmptyHolds
  <1> QED BY <1>1, <1>4, <1>5 DEF EngineInv

LEMMA DirectoryTemplates ==
    ASSUME NEW dir \in Directories PROVE LoadTemplatesFromDirectory(dir) \in Seq(Template)
  <1> DEFINE Loads(file) == file.ext \in {"hbs", "handlebars", "json"} /\ file.readable
             Piece(i) == IF Loads(dir[i]) THEN <<dir[i].template>> ELSE <<>>
             parts == [i \in 1..Len(dir) |-> Piece(i)]
  <1>1. Len(dir) \in Nat /\ \A i \in 1..Len(dir) : dir[i].template \in Template
    BY TemplateAssumption
  <1>2. ASSUME NEW i \in 1..Len(dir) PROVE Piece(i) \in Seq(Template)
    BY <1>1
  <1> HIDE DEF Piece
  <1>3. parts \in Seq(Seq(Template))
    BY <1>1, <1>2
  <1>4. FlattenSeq(parts) \in Seq(Template)
    BY <1>3, FlattenKeeps
  <1> QED BY <1>4 DEF LoadTemplatesFromDirectory, Piece

LEMMA TemplatesKeep ==
    ASSUME EngineInv, TemplatesNext PROVE EngineInv'
  <1>1. PICK e \in Engines :
            \/ New(e) \/ ClearCache(e) \/ RegisterHelper(e)
            \/ \E t \in Template : Register(e, <<t>>)
            \/ \E dir \in Directories : Register(e, LoadTemplatesFromDirectory(dir))
    BY DEF TemplatesNext
  <1>2. ASSUME New(e) PROVE EngineInv'
    <2>1. PICK c : c = [op |-> "new", of |-> e]
      OBVIOUS
    <2>2. log' = Append(log, c) /\ UNCHANGED <<templates, rawTemplates>>
      BY <1>2, <2>1 DEF New, Note
    <2> QED BY <2>1, <2>2, OneCallKeeps
  <1>3. ASSUME ClearCache(e) PROVE EngineInv'
    <2>1. PICK c : c = [op |-> "clear", of |-> e]
      OBVIOUS
    <2>2. /\ log' = Append(log, c) /\ templates' = [templates EXCEPT ![e] = Empty]
          /\ UNCHANGED rawTemplates
      BY <1>3, <2>1 DEF ClearCache, Note
    <2> QED BY <2>1, <2>2, OneCallKeeps
  <1>4. ASSUME RegisterHelper(e) PROVE EngineInv'
    BY <1>4 DEF RegisterHelper, EngineInv
  <1>5. ASSUME NEW t \in Template, Register(e, <<t>>) PROVE EngineInv'
    BY <1>5, <<t>> \in Seq(Template), RegisterKeeps
  <1>6. ASSUME NEW dir \in Directories, Register(e, LoadTemplatesFromDirectory(dir)) PROVE EngineInv'
    BY <1>6, DirectoryTemplates, RegisterKeeps
  <1> QED BY <1>1, <1>2, <1>3, <1>4, <1>5, <1>6

\* The position of what was registered last, among all of it and among what is live.
AtKey(l, S, k) == {i \in S : KeyOf(l[i].template) = k /\
                             \A j \in S : KeyOf(l[j].template) = k => j <= i}

LEMMA AtKeyIs ==
    ASSUME NEW l, NEW S, S \subseteq DOMAIN l, NEW k
    PROVE  AtKey(l, S, k) = LastAt(LogKeys(l), S, k)
  BY DEF AtKey, LastAt, LogKeys

LEMMA LastRegisteredAt ==
    ASSUME EngineInv, NEW e \in Engines, NEW id \in Ids, NEW locale \in Locales
    PROVE  LastRegistered(e, id, locale) = AtKey(log, Registered(log, e), <<id, locale>>)
  <1>1. Calls(e, {"register"}) = Registered(log, e)
    BY DEF Calls, Registered
  <1> DEFINE Meant(t) == t.id = id /\ locale = IF t.locale = NoLocale THEN DefaultLocale ELSE t.locale
  <1>2. ASSUME NEW t PROVE Meant(t) <=> KeyOf(t) = <<id, locale>>
    BY DEF KeyOf, TemplateKey
  <1>3. \A i : Meant(log[i].template) <=> KeyOf(log[i].template) = <<id, locale>>
    BY <1>2
  <1> HIDE DEF Meant
  <1>4. LastOf({i \in Registered(log, e) : Meant(log[i].template)})
            = AtKey(log, Registered(log, e), <<id, locale>>)
    BY <1>3 DEF LastOf, AtKey
  <1> QED BY <1>1, <1>4 DEF LastRegistered, Meant

\* Clearing leaves the later ones live: the last is live when any of its key is.
LEMMA LastLive ==
    ASSUME EngineInv, NEW e \in Engines, NEW k
    PROVE  AtKey(log, Live(log, e), k)
               = {i \in AtKey(log, Registered(log, e), k) : \A c \in Cleared(log, e) : c < i}
  <1>1. DOMAIN log = 1..Len(log) /\ Len(log) \in Nat
    BY DEF EngineInv
  <1>2. Live(log, e) \subseteq Registered(log, e) /\ Registered(log, e) \subseteq DOMAIN log
        /\ Cleared(log, e) \subseteq DOMAIN log
    BY DEF Live, Registered, Cleared
  <1>3. ASSUME NEW i \in AtKey(log, Live(log, e), k)
        PROVE  i \in AtKey(log, Registered(log, e), k) /\ \A c \in Cleared(log, e) : c < i
    <2>1. i \in Live(log, e) /\ i \in Registered(log, e) /\ KeyOf(log[i].template) = k
          /\ \A j \in Live(log, e) : KeyOf(log[j].template) = k => j <= i
      BY <1>2, <1>3 DEF AtKey
    <2>2. \A c \in Cleared(log, e) : c < i
      BY <2>1 DEF Live
    <2>3. ASSUME NEW j \in Registered(log, e), KeyOf(log[j].template) = k PROVE j <= i
      <3>1. CASE j \in Live(log, e)
        BY <2>1, <2>3, <3>1
      <3>2. CASE j \notin Live(log, e)
        <4>1. PICK c \in Cleared(log, e) : ~(c < j)
          BY <3>2 DEF Live
        <4>2. c < i /\ c \in 1..Len(log) /\ j \in 1..Len(log) /\ i \in 1..Len(log)
          BY <1>1, <1>2, <2>1, <2>2
        <4> QED BY <1>1, <4>1, <4>2
      <3> QED BY <3>1, <3>2
    <2> QED BY <2>1, <2>2, <2>3 DEF AtKey
  <1>4. ASSUME NEW i \in AtKey(log, Registered(log, e), k), \A c \in Cleared(log, e) : c < i
        PROVE  i \in AtKey(log, Live(log, e), k)
    <2>1. i \in Live(log, e)
      BY <1>4 DEF AtKey, Live
    <2> QED BY <1>2, <1>4, <2>1 DEF AtKey
  <1> QED BY <1>3, <1>4

LEMMA RendersWhatIsHeld == EngineInv => RendersLatest
  <1> SUFFICES ASSUME EngineInv, NEW e \in Made, NEW id \in Ids, NEW locale \in Locales
               PROVE  LET Alive(l) == {i \in LastRegistered(e, id, l) :
                                          \A c \in Calls(e, {"clear"}) : c < i}
                          taken == IF Alive(locale) # {} THEN Alive(locale) ELSE Alive(DefaultLocale)
                      IN  /\ Render(e, id, locale) = {log[i].template.content : i \in taken}
                          /\ HasTemplate(e, id, locale) <=> LastRegistered(e, id, locale) # {}
    BY DEF RendersLatest
  <1>1. e \in Engines
    <2>1. log \in Seq(Call) /\ \A c \in Call : c.of \in Engines
      BY DEF EngineInv, Call
    <2>2. \A i \in DOMAIN log : log[i] \in Call
      BY <2>1
    <2> QED BY <2>1, <2>2 DEF Made
  <1>2. Len(log) \in Nat /\ DOMAIN log = 1..Len(log)
    BY DEF EngineInv
  <1>3. Live(log, e) \subseteq 1..Len(log) /\ Registered(log, e) \subseteq 1..Len(log)
    BY <1>2 DEF Live, Registered
  <1>4. /\ HoldsLast(templates[e], LogKeys(log), LogContents(log), Live(log, e))
        /\ HoldsLast(rawTemplates[e], LogKeys(log), LogContents(log), Registered(log, e))
    BY <1>1 DEF EngineInv
  <1> DEFINE Alive(l) == {i \in LastRegistered(e, id, l) : \A c \in Calls(e, {"clear"}) : c < i}
             At(k) == {templates[e][x] : x \in {k} \cap DOMAIN templates[e]}
  <1>5. ASSUME NEW l \in Locales
        PROVE  /\ Alive(l) = AtKey(log, Live(log, e), <<id, l>>)
               /\ At(<<id, l>>) = {log[i].template.content : i \in Alive(l)}
    <2>1. Calls(e, {"clear"}) = Cleared(log, e)
      BY DEF Calls, Cleared
    <2>2. LastRegistered(e, id, l) = AtKey(log, Registered(log, e), <<id, l>>)
      BY <1>1, LastRegisteredAt
    <2>3. AtKey(log, Live(log, e), <<id, l>>)
            = {i \in AtKey(log, Registered(log, e), <<id, l>>) : \A c \in Cleared(log, e) : c < i}
      BY <1>1, LastLive
    <2>4. Alive(l) = AtKey(log, Live(log, e), <<id, l>>)
      BY <2>1, <2>2, <2>3
    <2>5. AtKey(log, Live(log, e), <<id, l>>) = LastAt(LogKeys(log), Live(log, e), <<id, l>>)
      BY <1>2, <1>3, AtKeyIs
    <2>6. At(<<id, l>>) = {LogContents(log)[i] : i \in LastAt(LogKeys(log), Live(log, e), <<id, l>>)}
      <3>1. ReadsLast(templates[e], LogKeys(log), LogContents(log), Live(log, e), <<id, l>>)
        BY <1>2, <1>3, <1>4, LatestAt
      <3> QED BY <3>1 DEF ReadsLast, At
    <2>7. \A i \in LastAt(LogKeys(log), Live(log, e), <<id, l>>) :
              LogContents(log)[i] = log[i].template.content
      BY <1>2, <1>3 DEF LastAt, LogContents
    <2> HIDE DEF At, Alive
    <2> QED BY <2>4, <2>5, <2>6, <2>7
  <1>6. (Alive(locale) # {}) <=> (At(<<id, locale>>) # {})
    <2> HIDE DEF At, Alive
    <2> QED BY <1>5
  <1>7. TemplateKey(id, locale) = <<id, locale>> /\ TemplateKey(id, NoLocale) = <<id, DefaultLocale>>
    BY TemplateAssumption DEF TemplateKey
  <1>8. Render(e, id, locale) = IF At(<<id, locale>>) # {} THEN At(<<id, locale>>)
                                                           ELSE At(<<id, DefaultLocale>>)
    BY <1>7 DEF Render
  <1>9. HasTemplate(e, id, locale) <=> LastRegistered(e, id, locale) # {}
    <2>1. LastRegistered(e, id, locale) = AtKey(log, Registered(log, e), <<id, locale>>)
      BY <1>1, LastRegisteredAt
    <2>2. AtKey(log, Registered(log, e), <<id, locale>>)
            = LastAt(LogKeys(log), Registered(log, e), <<id, locale>>)
      BY <1>2, <1>3, AtKeyIs
    <2>3. <<id, locale>> \in DOMAIN rawTemplates[e]
            <=> LastAt(LogKeys(log), Registered(log, e), <<id, locale>>) # {}
      <3>1. ReadsLast(rawTemplates[e], LogKeys(log), LogContents(log), Registered(log, e),
                      <<id, locale>>)
        BY <1>2, <1>3, <1>4, LatestAt
      <3> QED BY <3>1 DEF ReadsLast
    <2> QED BY <1>7, <2>1, <2>2, <2>3 DEF HasTemplate
  <1>10. DefaultLocale \in Locales
    BY TemplateAssumption
  <1> HIDE DEF At, Alive
  <1>11. Render(e, id, locale) = {log[i].template.content :
             i \in IF Alive(locale) # {} THEN Alive(locale) ELSE Alive(DefaultLocale)}
    BY <1>5, <1>6, <1>8, <1>10
  <1> QED BY <1>9, <1>11 DEF Alive

-----------------------------------------------------------------------------
(* The localization: what it holds is, of each code, the table handed over *)
(* last since the tables were cleared.                                     *)
FileTables == UNION {{dir[i].table : i \in 1..Len(dir)} : dir \in LocaleFiles}
Entry == [code : Codes, table : Table \cup FileTables]
Told == Entry \cup [code : {"clear"}]
CodesOf(list) == [i \in DOMAIN list |-> list[i].code]
TablesOf(list) == [i \in DOMAIN list |-> list[i].table]
Current(l) == {i \in DOMAIN l : /\ l[i].code # "clear"
                                /\ \A j \in DOMAIN l : l[j].code = "clear" => j < i}
IsPut(g, map, list) ==
    g = [s \in SUBSET (DOMAIN list) |->
            IF s = {} THEN map ELSE Put(g[s \ {Max(s)}], list[Max(s)])]

TableInv == /\ told \in Seq(Told)
            /\ HoldsLast(locales, CodesOf(told), TablesOf(told), Current(told))

LEMMA PutFold ==
    ASSUME NEW list \in Seq(Entry), NEW map, map = [k \in DOMAIN map |-> map[k]]
    PROVE  FoldLeft(Put, map, list)
               = Overridden(map, CodesOf(list), TablesOf(list), 1..Len(list))
  <1>1. Len(list) \in Nat /\ DOMAIN list = 1..Len(list)
    OBVIOUS
  <1>2. FoldLeft(Put, map, list) = (CHOOSE g : IsPut(g, map, list))[DOMAIN list]
    BY DEF FoldLeft, MapThenFoldSet, IsPut
  <1>3. ASSUME NEW g PROVE IsPut(g, map, list) <=>
                           IsOver(g, map, CodesOf(list), TablesOf(list), Len(list))
    <2>1. ASSUME NEW s \in SUBSET (1..Len(list)), s # {}
          PROVE  Put(g[s \ {Max(s)}], list[Max(s)])
                     = WithKey(g[s \ {Max(s)}], CodesOf(list)[Max(s)], TablesOf(list)[Max(s)])
      <3>1. Max(s) \in DOMAIN list
        BY <1>1, <2>1, MaxIs
      <3>2. PICK x \in DOMAIN list : x = Max(s)
        BY <3>1
      <3> QED BY <3>2 DEF Put, WithKey, CodesOf, TablesOf
    <2> QED BY <1>1, <2>1 DEF IsPut, IsOver
  <1>4. \E g : IsPut(g, map, list)
    BY <1>1, <1>3, OverExists
  <1>5. IsPut(CHOOSE g : IsPut(g, map, list), map, list)
    BY <1>4
  <1> QED BY <1>1, <1>2, <1>3, <1>5, OverUnique

LEMMA NothingHolds == ASSUME NEW K, NEW V PROVE HoldsLast(<<>>, K, V, {})
  <1>1. DOMAIN <<>> = {} /\ <<>> = [k \in {} |-> <<>>[k]] /\ KeysIn(K, {}) = {}
    BY DEF KeysIn
  <1> QED BY <1>1 DEF HoldsLast

LEMMA DirectoryTables ==
    ASSUME NEW dir \in LocaleFiles PROVE LoadLocalesFromDirectory(dir) \in Seq(Entry)
  <1> DEFINE Piece(i) == IF dir[i].ext = "json" /\ dir[i].parses
                       THEN <<[code |-> dir[i].code, table |-> dir[i].table]>> ELSE <<>>
             parts == [i \in 1..Len(dir) |-> Piece(i)]
  <1>1. Len(dir) \in Nat /\ \A i \in 1..Len(dir) : dir[i].code \in Codes
    BY LocalizationAssumption
  <1>2. ASSUME NEW i \in 1..Len(dir) PROVE Piece(i) \in Seq(Entry)
    <2>1. dir[i].table \in FileTables
      BY DEF FileTables
    <2>2. [code |-> dir[i].code, table |-> dir[i].table] \in Entry
      BY <1>1, <2>1 DEF Entry
    <2> QED BY <2>2
  <1> HIDE DEF Piece
  <1>3. parts \in Seq(Seq(Entry))
    BY <1>1, <1>2
  <1>4. FlattenSeq(parts) \in Seq(Entry)
    BY <1>3, FlattenKeeps
  <1> QED BY <1>4 DEF LoadLocalesFromDirectory, Piece

LEMMA LocaleKeeps ==
    ASSUME TableInv, NEW list \in Seq(Entry), RegisterLocale(list)
    PROVE  TableInv'
  <1>1. PICK l, l2, n, m : l = told /\ l2 = told' /\ n = Len(told) /\ m = Len(list)
    OBVIOUS
  <1>2. list \in Seq(Told) /\ l \in Seq(Told)
    BY <1>1 DEF Told, TableInv
  <1>3. Extends(Told, l, list, l2)
    BY <1>1, <1>2, LogExtends DEF RegisterLocale
  <1>4. /\ l2 \in Seq(Told) /\ n \in Nat /\ m \in Nat /\ DOMAIN l = 1..n /\ DOMAIN list = 1..m
        /\ \A i \in 1..m : l2[n + i] = list[i]
    BY <1>1, <1>3 DEF Extends
  <1>5. TwoParts(l, list, l2, Added(n, m))
    BY <1>1, <1>3, Places
  <1>6. /\ DOMAIN l2 = DOMAIN l \cup Added(n, m)
        /\ \A i \in DOMAIN l : l2[i] = l[i] /\ i \notin Added(n, m)
        /\ \A i \in DOMAIN l : \A j \in Added(n, m) : i < j
        /\ \A j \in Added(n, m) : \E a \in 1..m : l2[j] = list[a]
    BY <1>1, <1>5 DEF TwoParts
  <1>7. \A a \in 1..m : list[a].code # "clear"
    <2>1. \A a \in 1..m : list[a] \in Entry
      BY <1>1
    <2>2. \A y \in Entry : y.code \in Codes
      BY DEF Entry
    <2> QED BY <2>1, <2>2, LocalizationAssumption
  <1>8. \A j \in Added(n, m) : l2[j].code # "clear"
    BY <1>6, <1>7
  <1>9. Current(l2) = Current(l) \cup Added(n, m)
    BY <1>6, <1>8 DEF Current
  <1>10. Current(l) \subseteq 1..n
    BY <1>4 DEF Current
  <1>11. \A i \in Current(l) : CodesOf(l2)[i] = CodesOf(l)[i] /\ TablesOf(l2)[i] = TablesOf(l)[i]
    BY <1>4, <1>6, <1>10 DEF CodesOf, TablesOf
  <1>12. \A i \in 1..m : n + i \in DOMAIN l2
    BY <1>6 DEF Added
  <1>13. \A i \in 1..m : /\ CodesOf(l2)[n + i] = CodesOf(list)[i]
                         /\ TablesOf(l2)[n + i] = TablesOf(list)[i]
    BY <1>4, <1>12 DEF CodesOf, TablesOf
  <1>14. HoldsLast(locales, CodesOf(l), TablesOf(l), Current(l))
    BY <1>1 DEF TableInv
  <1>15. HoldsLast(Overridden(locales, CodesOf(list), TablesOf(list), 1..m),
                   CodesOf(l2), TablesOf(l2), Current(l) \cup Added(n, m))
    BY <1>4, <1>10, <1>11, <1>13, <1>14, LatestGrows
  <1>16. locales' = Overridden(locales, CodesOf(list), TablesOf(list), 1..m)
    <2>1. locales = [k \in DOMAIN locales |-> locales[k]]
      BY <1>14 DEF HoldsLast
    <2> QED BY <1>1, <2>1, PutFold DEF RegisterLocale
  <1> QED BY <1>1, <1>4, <1>9, <1>15, <1>16 DEF TableInv

LEMMA ClearKeeps == ASSUME TableInv, ClearLocales PROVE TableInv'
  <1>1. PICK l, l2, c : l = told /\ l2 = told' /\ c = [code |-> "clear"]
    OBVIOUS
  <1>2. c \in Told /\ l \in Seq(Told) /\ l2 = Append(l, c) /\ c.code = "clear"
    BY <1>1 DEF Told, TableInv, ClearLocales
  <1>3. l2 \in Seq(Told) /\ DOMAIN l2 = 1..(Len(l) + 1) /\ Len(l) \in Nat /\ l2[Len(l) + 1] = c
    BY <1>2
  <1>4. Current(l2) = {}
    <2>1. Len(l) + 1 \in DOMAIN l2 /\ \A i \in DOMAIN l2 : ~(Len(l) + 1 < i)
      BY <1>3
    <2> QED BY <1>2, <1>3, <2>1 DEF Current
  <1>5. HoldsLast(<<>>, CodesOf(l2), TablesOf(l2), {})
    BY NothingHolds
  <1> QED BY <1>1, <1>3, <1>4, <1>5 DEF TableInv, ClearLocales

LEMMA LocalizationKeeps == ASSUME TableInv, LocalizationNext PROVE TableInv'
  <1>1. ASSUME NEW code \in Codes, NEW table \in Table,
               RegisterLocale(<<[code |-> code, table |-> table]>>)
        PROVE  TableInv'
    <2>1. <<[code |-> code, table |-> table]>> \in Seq(Entry)
      BY DEF Entry
    <2> QED BY <1>1, <2>1, LocaleKeeps
  <1>2. ASSUME NEW dir \in LocaleFiles, RegisterLocale(LoadLocalesFromDirectory(dir))
        PROVE  TableInv'
    BY <1>2, DirectoryTables, LocaleKeeps
  <1> QED BY <1>1, <1>2, ClearKeeps DEF LocalizationNext

LEMMA LocalizationStarts == LocalizationInit => TableInv
  <1> SUFFICES ASSUME LocalizationInit PROVE TableInv
    OBVIOUS
  <1>1. locales = <<>> /\ told = <<>> /\ told \in Seq(Told) /\ Current(<<>>) = {}
    BY DEF LocalizationInit, Current
  <1> QED BY <1>1, NothingHolds DEF TableInv

\* The table that counts for a code, as the property names it.
LatestTold(c) == {i \in DOMAIN told : /\ told[i].code = c
                                      /\ \A j \in i + 1..Len(told) : told[j].code \notin {c, "clear"}}
HasText(c, k) == {told[i].table[k] : i \in {j \in LatestTold(c) : k \in DOMAIN told[j].table}} \ {""}

LEMMA LatestToldIs ==
    ASSUME TableInv, NEW c \in Codes
    PROVE  LatestTold(c) = LastAt(CodesOf(told), Current(told), c)
  <1>1. Len(told) \in Nat /\ DOMAIN told = 1..Len(told) /\ c # "clear"
    <2>1. told \in Seq(Told)
      BY DEF TableInv
    <2>2. c # "clear"
      BY LocalizationAssumption
    <2> QED BY <2>1, <2>2
  <1>2. ASSUME NEW i \in LatestTold(c) PROVE i \in LastAt(CodesOf(told), Current(told), c)
    <2>1. /\ i \in 1..Len(told) /\ told[i].code = c
          /\ \A j \in i + 1..Len(told) : told[j].code \notin {c, "clear"}
      BY <1>1, <1>2 DEF LatestTold
    <2>2. \A j \in 1..Len(told) : j = i \/ j < i \/ j \in i + 1..Len(told)
      BY <1>1, <2>1
    <2>3. i \in Current(told)
      BY <1>1, <2>1, <2>2 DEF Current
    <2>4. ASSUME NEW j \in Current(told), CodesOf(told)[j] = c PROVE j <= i
      <3>1. j \in 1..Len(told) /\ told[j].code = c
        BY <1>1, <2>4 DEF Current, CodesOf
      <3> QED BY <1>1, <2>1, <2>2, <3>1
    <2> QED BY <1>1, <2>1, <2>3, <2>4 DEF LastAt, CodesOf
  <1>3. ASSUME NEW i \in LastAt(CodesOf(told), Current(told), c) PROVE i \in LatestTold(c)
    <2>1. /\ i \in 1..Len(told) /\ told[i].code = c /\ i \in Current(told)
          /\ \A j \in Current(told) : CodesOf(told)[j] = c => j <= i
      BY <1>1, <1>3 DEF LastAt, Current, CodesOf
    <2>2. ASSUME NEW j \in i + 1..Len(told) PROVE told[j].code \notin {c, "clear"}
      <3>1. j \in 1..Len(told) /\ i < j /\ ~(j <= i) /\ ~(j < i)
        BY <1>1, <2>1
      <3>2. told[j].code # "clear"
        BY <1>1, <2>1, <3>1 DEF Current
      <3>3. ASSUME told[j].code = c PROVE FALSE
        <4>1. \A d \in 1..Len(told) : told[d].code = "clear" => d < j
          <5>1. \A d \in 1..Len(told) : told[d].code = "clear" => d < i
            BY <1>1, <2>1 DEF Current
          <5> QED BY <1>1, <2>1, <3>1, <5>1
        <4>2. j \in Current(told) /\ CodesOf(told)[j] = c
          BY <1>1, <3>1, <3>2, <3>3, <4>1 DEF Current, CodesOf
        <4> QED BY <2>1, <3>1, <4>2
      <3> QED BY <3>2, <3>3
    <2> QED BY <1>1, <2>1, <2>2 DEF LatestTold
  <1> QED BY <1>2, <1>3

LEMMA TextOf ==
    ASSUME TableInv, NEW c \in Codes, NEW k
    PROVE  HasText(c, k) = {GetTranslation(k, c)} \ {""}
  <1>1. Len(told) \in Nat /\ DOMAIN told = 1..Len(told) /\ Current(told) \subseteq 1..Len(told)
    BY DEF TableInv, Current
  <1>2. LatestTold(c) = LastAt(CodesOf(told), Current(told), c)
    BY LatestToldIs
  <1>3. ReadsLast(locales, CodesOf(told), TablesOf(told), Current(told), c)
    BY <1>1, LatestAt DEF TableInv
  <1>4. /\ {locales[x] : x \in {c} \cap DOMAIN locales} = {TablesOf(told)[i] : i \in LatestTold(c)}
        /\ c \in DOMAIN locales <=> LatestTold(c) # {}
        /\ \A i \in LatestTold(c) : LatestTold(c) = {i}
    BY <1>2, <1>3 DEF ReadsLast
  <1>5. CASE LatestTold(c) = {}
    BY <1>4, <1>5 DEF HasText, GetTranslation
  <1>6. CASE LatestTold(c) # {}
    <2>1. PICK i : LatestTold(c) = {i}
      BY <1>4, <1>6
    <2>2. i \in DOMAIN told
      BY <2>1 DEF LatestTold
    <2>3. c \in DOMAIN locales /\ locales[c] = told[i].table
      BY <1>4, <2>1, <2>2 DEF TablesOf
    <2>4. CASE k \in DOMAIN told[i].table
      <3>1. {j \in LatestTold(c) : k \in DOMAIN told[j].table} = {i}
        BY <2>1, <2>4
      <3> QED BY <2>3, <2>4, <3>1 DEF HasText, GetTranslation
    <2>5. CASE k \notin DOMAIN told[i].table
      <3>1. {j \in LatestTold(c) : k \in DOMAIN told[j].table} = {}
        BY <2>1, <2>5
      <3> QED BY <2>3, <2>5, <3>1 DEF HasText, GetTranslation
    <2> QED BY <2>4, <2>5
  <1> QED BY <1>5, <1>6

LEMMA TranslatesWhatIsHeld == TableInv => TranslatesLatest
  <1> SUFFICES ASSUME TableInv, NEW locale \in Codes \cup {NoCode}, NEW k \in Keys
               PROVE  LET code == IF locale = NoCode THEN DefaultCode ELSE locale
                          Offered == IF HasText(code, k) # {} THEN HasText(code, k)
                                                              ELSE HasText(FallbackLocale, k)
                      IN  {TranslateBatch(Keys, locale)[k]} = IF Offered = {} THEN {k} ELSE Offered
    BY DEF TranslatesLatest, HasText, LatestTold
  <1> DEFINE code == TargetLocale(locale)
             Offered == IF HasText(code, k) # {} THEN HasText(code, k)
                                                 ELSE HasText(FallbackLocale, k)
  <1>1. FallbackLocale \in Codes /\ code \in Codes
    BY LocalizationAssumption DEF TargetLocale
  <1>2. SUFFICES {TranslateBatch(Keys, locale)[k]} = IF Offered = {} THEN {k} ELSE Offered
    BY DEF TargetLocale
  <1> HIDE DEF code
  <1>3. PICK a, b : a = GetTranslation(k, code) /\ b = GetTranslation(k, FallbackLocale)
    OBVIOUS
  <1>4. HasText(code, k) = {a} \ {""} /\ HasText(FallbackLocale, k) = {b} \ {""}
    BY <1>1, <1>3, TextOf
  <1>5. TranslateBatch(Keys, locale)[k] = Translate(k, locale)
    BY DEF TranslateBatch
  <1>6. CASE a # ""
    <2>1. Translate(k, locale) = a
      BY <1>3, <1>6 DEF Translate, code
    <2> QED BY <1>4, <1>5, <1>6, <2>1
  <1>7. CASE a = "" /\ b # ""
    <2>1. Translate(k, locale) = b
      BY <1>3, <1>7 DEF Translate, code
    <2> QED BY <1>4, <1>5, <1>7, <2>1
  <1>8. CASE a = "" /\ b = ""
    <2>1. Translate(k, locale) = k
      BY <1>3, <1>8 DEF Translate, code
    <2> QED BY <1>4, <1>5, <1>8, <2>1
  <1> QED BY <1>6, <1>7, <1>8

-----------------------------------------------------------------------------
(* The invariant of the texts: what the engines and the localization hold  *)
(* is what the calls made so far left there last.                          *)
THEOREM TextsInv == TextsSpec => [](EngineInv /\ TableInv)
  <1>1. TextsInit => EngineInv /\ TableInv
    BY TemplatesStart, LocalizationStarts DEF TextsInit
  <1>2. EngineInv /\ TableInv /\ [TextsNext]_<<templateVars, localeVars>> => (EngineInv /\ TableInv)'
    <2> SUFFICES ASSUME EngineInv, TableInv, [TextsNext]_<<templateVars, localeVars>>
                 PROVE  EngineInv' /\ TableInv'
      OBVIOUS
    <2>1. ASSUME UNCHANGED templateVars PROVE EngineInv'
      BY <2>1 DEF templateVars, EngineInv
    <2>2. ASSUME UNCHANGED localeVars PROVE TableInv'
      BY <2>2 DEF localeVars, TableInv
    <2>3. CASE TemplatesNext /\ UNCHANGED localeVars
      BY <2>2, <2>3, TemplatesKeep
    <2>4. CASE LocalizationNext /\ UNCHANGED templateVars
      BY <2>1, <2>4, LocalizationKeeps
    <2>5. CASE UNCHANGED <<templateVars, localeVars>>
      BY <2>1, <2>2, <2>5
    <2> QED BY <2>3, <2>4, <2>5 DEF TextsNext
  <1> QED BY <1>1, <1>2, PTL DEF TextsSpec

(* render answers with the content registered last for the locale it is    *)
(* asked for, else with the default locale's, else it throws; a template   *)
(* from before clearCache counts no more, though hasTemplate confirms it.  *)
THEOREM RenderedLatest == TextsSpec => []RendersLatest
  BY TextsInv, RendersWhatIsHeld, PTL

(* A key is translated with the table handed over last for its locale, or  *)
(* with the fallback's, or stands for itself.                              *)
THEOREM TranslatedLatest == TextsSpec => []TranslatesLatest
  BY TextsInv, TranslatesWhatIsHeld, PTL
=============================================================================
