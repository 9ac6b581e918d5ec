--------------------------- MODULE MessageBuilder ---------------------------
(***************************************************************************)
(* The message builder (src/builder/MessageBuilder.ts) and the validation  *)
(* of messages.  Builders and callers share objects: build() hands out the *)
(* very message that later setters change, and data() keeps the object of  *)
(* the caller, which addData changes.                                      *)
(*                                                                         *)
(* A message object has a number; its notification, which nothing else     *)
(* refers to, is a value in it.  Its data is the number of a data object,  *)
(* of which the number of entries is kept.  The plain options (priority,   *)
(* ttl, ...) are left out, and with them messages that have nothing but    *)
(* contentAvailable or a notification with neither title nor body.         *)
(***************************************************************************)
EXTENDS Naturals, Sequences

CONSTANTS TokenFields,  \* what token() is called with: a string, or (many) an array
          Notes, Builders,
          MaxObjects,  \* bound: message objects made
          MaxData,     \* bound: data objects
          MaxEntries   \* bound: entries of a data object

ASSUME BuilderAssumption == /\ MaxObjects \in Nat /\ MaxData \in Nat /\ MaxEntries \in Nat
                            /\ "none" \notin Notes
                            /\ \A t \in TokenFields : Len(t.list) \in Nat

VARIABLES builder,  \* the message object of each builder, 0 before it is made
          heap,     \* the message objects
          data,     \* number of entries of each data object
          built,    \* history: the content each object had when it was handed out,
                    \* forgotten once touched
          touched   \* history: the messages handed out that a setter changed, or
                    \* addData through the data object they use

builderVars == <<builder, heap, data, built, touched>>

None == 0
Objects == 1..MaxObjects
NoToken == [many |-> FALSE, list |-> <<>>]
Message == [token : TokenFields \cup {NoToken}, topic : BOOLEAN, note : {"none"} \cup Notes,
            data : 0..MaxData]
EmptyMessage == [token |-> NoToken, topic |-> FALSE, note |-> "none",
          data |-> None]

BuilderInit == /\ builder = [b \in Builders |-> None]
               /\ heap = <<>> /\ data = <<>> /\ built = <<>> /\ touched = {}

NotBuilt == [note |-> "none", entries |-> 0, out |-> FALSE]
Forgotten(c) == [NotBuilt EXCEPT !.out = c.out]
HasToken(m) == m.token.many \/ m.token.list # <<>>
\* What the recipient gets to see of a message.
Content(r) == [note |-> heap[r].note, out |-> TRUE,
               entries |-> IF heap[r].data = None THEN 0 ELSE data[heap[r].data]]
HandedOut(r) == built[r].out
Users(d) == {r \in DOMAIN heap : heap[r].data = d /\ HandedOut(r)}

ValidateMessage(m) ==
    /\ HasToken(m) # m.topic
    /\ m.token.many => m.token.list # <<>>
    /\ m.note # "none" \/ m.data # None

\* A new message object for builder b: this.message = m.
Allocate(b, m) == /\ Len(heap) < MaxObjects
                  /\ heap' = Append(heap, m) /\ built' = Append(built, NotBuilt)
                  /\ builder' = [builder EXCEPT ![b] = Len(heap')]

NewBuilder(b) == /\ builder[b] = None /\ Allocate(b, EmptyMessage)
                 /\ UNCHANGED <<data, touched>>

Mine(b) == heap[builder[b]]

Touches(objects) ==
    /\ touched' = touched \cup objects
    /\ built' = [r \in DOMAIN built |-> IF r \in objects THEN Forgotten(built[r]) ELSE built[r]]

Changed(b, m) == /\ heap' = [heap EXCEPT ![builder[b]] = m]
                 /\ Touches({r \in {builder[b]} : HandedOut(r) /\ m # Mine(b)})
                 /\ UNCHANGED builder

Token(b) == \E t \in TokenFields :
               Changed(b, [Mine(b) EXCEPT !.token = t]) /\ UNCHANGED data
Topic(b) == Changed(b, [Mine(b) EXCEPT !.topic = TRUE]) /\ UNCHANGED data
\* title, body and the other setters of the notification
Title(b) == \E x \in Notes : Changed(b, [Mine(b) EXCEPT !.note = x]) /\ UNCHANGED data
\* The caller gives a data object, a new one or one given before.
Data(b) == \E d \in 1..(Len(data) + 1) :
              /\ d <= MaxData /\ Changed(b, [Mine(b) EXCEPT !.data = d])
              /\ data' = IF d > Len(data) THEN Append(data, 1) ELSE data

AddData(b) ==
    LET d == Mine(b).data IN
    IF d = None
    THEN /\ Len(data) < MaxData /\ data' = Append(data, 1)
         /\ Changed(b, [Mine(b) EXCEPT !.data = Len(data')])
    ELSE /\ data[d] < MaxEntries /\ data' = [data EXCEPT ![d] = @ + 1]
         /\ Touches(Users(d))
         /\ UNCHANGED <<builder, heap>>

HandOut(b) == /\ built' = [built EXCEPT ![builder[b]] =
                     IF builder[b] \in touched THEN Forgotten(Content(builder[b]))
                                               ELSE Content(builder[b])]
              /\ UNCHANGED <<builder, heap, data, touched>>
Build(b) == ValidateMessage(Mine(b)) /\ HandOut(b)
BuildUnsafe(b) == HandOut(b)

Reset_InPlace(b) == /\ heap' = [heap EXCEPT ![builder[b]] = EmptyMessage]
                    /\ UNCHANGED <<builder, data, built, touched>>
Reset(b) == Allocate(b, EmptyMessage) /\ UNCHANGED <<data, touched>>

\* The copy has notification and data of its own.
Clone(b) == \E c \in Builders \ {b} :
    LET d == Mine(b).data IN
    /\ IF d = None THEN Allocate(c, Mine(b)) /\ UNCHANGED data
       ELSE /\ Len(data) < MaxData /\ data' = Append(data, data[d])
            /\ Allocate(c, [Mine(b) EXCEPT !.data = Len(data')])
    /\ UNCHANGED touched

BuilderNext == \E b \in Builders :
    \/ NewBuilder(b)
    \/ /\ builder[b] # None
       /\ \/ Token(b) \/ Topic(b) \/ Title(b) \/ Data(b)
          \/ AddData(b) \/ Build(b) \/ BuildUnsafe(b) \/ Reset(b) \/ Clone(b)

-----------------------------------------------------------------------------
BuilderTypeOK ==
    /\ Len(heap) <= MaxObjects /\ Len(data) <= MaxData /\ Len(built) = Len(heap)
    /\ heap \in Seq(Message) /\ data \in Seq(1..MaxEntries)
    /\ \A r \in DOMAIN heap : heap[r].data <= Len(data)
    /\ builder \in [Builders -> 0..Len(heap)]
    /\ touched \subseteq DOMAIN heap
=============================================================================
