------------------------------ MODULE RabbitMQ ------------------------------
(***************************************************************************)
(* The RabbitMQ adapter (src/adapters/messaging/RabbitMQAdapter.ts): one   *)
(* connection and one channel that connect() makes when a publish first    *)
(* needs them, shared by every call in progress, and close().              *)
(*                                                                         *)
(* A call runs without interruption between two awaits; each await is a    *)
(* value of pc.  The broker and amqplib are external: what an await waits  *)
(* for succeeds, if the connection it was sent on is still open, or fails. *)
(* Connections are numbered as they are made; connect() opens one channel  *)
(* on each, which has the number of its connection.                        *)
(***************************************************************************)
EXTENDS Naturals, Sequences

CONSTANTS Calls,     \* calls of the methods of one adapter, each made once
          MaxBatch,  \* bound: messages of a publishBatch
          MaxConns   \* bound: connections the broker accepts

ASSUME RabbitAssumption == MaxBatch \in Nat /\ MaxConns \in Nat

VARIABLES connection,  \* this.connection, None for null
          channel,     \* this.channel
          connected,   \* this.connected
          conns,       \* connections open at the broker
          chans,       \* channels that take messages
          dialled,     \* number of connections made so far
          call,        \* the calls
          mishaps      \* history: "overlap", connects or closes that overlapped;
                       \* "connect", "close", one that failed half-way

vars == <<connection, channel, connected, conns, chans, dialled, call, mishaps>>

None == 0
Connecting == {"chan", "prefetch", "assert"}
Closing == {"closeChan", "closeConn"}
LifeCycle == {"dial"} \cup Connecting \cup Closing
PCs == {"idle", "ready", "loop", "confirm", "done"} \cup LifeCycle

(* inner: inside publish(), that of a batch included; conn: what the call  *)
(* awaits an answer from; out: for each message, whether publish() of the  *)
(* channel answered true; res: what the call reported of it.               *)
CallState == [kind : {"none", "publish", "batch", "confirms", "close"},
              pc : PCs, n : 0..(MaxBatch + 1), inner : BOOLEAN,
              conn : 0..MaxConns, out : Seq(BOOLEAN), res : Seq(BOOLEAN)]

Idle == [kind |-> "none", pc |-> "idle", n |-> 0, inner |-> FALSE,
         conn |-> None, out |-> <<>>, res |-> <<>>]

Init == /\ connection = None /\ channel = None /\ connected = FALSE
        /\ conns = {} /\ chans = {} /\ dialled = 0
        /\ call = [p \in Calls |-> Idle]
        /\ mishaps = {}

Busy == {p \in Calls : call[p].pc \in LifeCycle}
Ended(c, res) == [c EXCEPT !.pc = "done", !.conn = None, !.res = res]

\* Where call p goes on; and whether it enters a connect or close beside another.
Goes(p, c) ==
    /\ call' = [call EXCEPT ![p] = c]
    /\ mishaps' = IF c.pc \in LifeCycle /\ Busy \ {p} # {}
                  THEN mishaps \cup {"overlap"} ELSE mishaps

\* await this.connect(): at once when connected, else it dials.
Connect_Unchecked(c) == [c EXCEPT !.pc = "dial"]

Connect(c) == [c EXCEPT !.pc = IF connected THEN "ready" ELSE "dial"]

Start(p, kind, n) ==
    /\ call[p].pc = "idle"
    /\ Goes(p, Connect([Idle EXCEPT !.kind = kind, !.n = n, !.inner = (kind = "publish")]))
    /\ UNCHANGED <<connection, channel, connected, conns, chans, dialled>>

Publish(p) == Start(p, "publish", 1)
PublishBatch(p) == \E n \in 0..MaxBatch : Start(p, "batch", n)
EnableConfirms(p) == Start(p, "confirms", 0)

\* publish() ends with outcome o of its message; a batch goes on with the next.
Noted(c, o) ==
    IF c.kind = "publish" THEN Ended([c EXCEPT !.out = <<o>>], <<o>>)
    ELSE [c EXCEPT !.pc = "loop", !.conn = None, !.inner = FALSE, !.out = Append(@, o)]

Dialed(p) ==
    /\ call[p].pc = "dial" /\ dialled < MaxConns
    /\ dialled' = dialled + 1
    /\ connection' = dialled' /\ conns' = conns \cup {dialled'}
    /\ Goes(p, [call[p] EXCEPT !.pc = "chan", !.conn = dialled'])
    /\ UNCHANGED <<channel, connected, chans>>

ChannelOpened(p) ==
    /\ call[p].pc = "chan" /\ call[p].conn \in conns
    /\ channel' = call[p].conn /\ chans' = chans \cup {call[p].conn}
    /\ Goes(p, [call[p] EXCEPT !.pc = "prefetch"])
    /\ UNCHANGED <<connection, connected, conns, dialled>>

\* The exchange is asserted on the channel of the moment, not on its own.
Prefetched(p) ==
    /\ call[p].pc = "prefetch" /\ call[p].conn \in chans /\ channel # None
    /\ Goes(p, [call[p] EXCEPT !.pc = "assert", !.conn = channel])
    /\ UNCHANGED <<connection, channel, connected, conns, chans, dialled>>

Asserted(p) ==
    /\ call[p].pc = "assert" /\ call[p].conn \in chans
    /\ connected' = TRUE
    /\ Goes(p, [call[p] EXCEPT !.pc = "ready", !.conn = None])
    /\ UNCHANGED <<connection, channel, conns, chans, dialled>>

ConnectFails_All(p) ==
    /\ call[p].pc \in {"dial"} \cup Connecting
    /\ call' = [call EXCEPT ![p] = Ended(@, [i \in 1..@.n |-> FALSE])]
    /\ mishaps' = IF call[p].pc = "dial" THEN mishaps ELSE mishaps \cup {"connect"}
    /\ UNCHANGED <<connection, channel, connected, conns, chans, dialled>>

\* connect() throws: inside publish() that message fails, outside it the call.
ConnectFails(p) ==
    /\ call[p].pc \in {"dial"} \cup Connecting
    /\ call' = [call EXCEPT ![p] = IF @.inner THEN Noted(@, FALSE)
                                   ELSE Ended(@, [i \in 1..@.n |-> FALSE])]
    /\ mishaps' = IF call[p].pc = "dial" THEN mishaps ELSE mishaps \cup {"connect"}
    /\ UNCHANGED <<connection, channel, connected, conns, chans, dialled>>

\* channel.publish, on whatever channel there is: on null or a closed one it throws,
\* and it answers false when the buffer is full.  amqplib keeps that message all
\* the same; the adapter reads the answer as a refusal.
Send(p) ==
    /\ call[p].pc = "ready" /\ call[p].inner
    /\ \E o \in IF channel \in chans THEN BOOLEAN ELSE {FALSE} :
          Goes(p, Noted(call[p], o))
    /\ UNCHANGED <<connection, channel, connected, conns, chans, dialled>>

\* The loop of publishBatch: the next publish(), or the wait for confirms, which
\* enableConfirms comes to with no message.
Loop(p) ==
    LET c == call[p] IN
    /\ c.pc \in {"ready", "loop"} /\ ~c.inner
    /\ Goes(p, IF Len(c.out) < c.n THEN Connect([c EXCEPT !.inner = TRUE])
               ELSE IF channel # None THEN [c EXCEPT !.pc = "confirm"]
               ELSE Ended(c, c.out))
    /\ UNCHANGED <<connection, channel, connected, conns, chans, dialled>>

Confirmed(p) ==
    LET c == call[p] IN
    /\ c.pc = "confirm"
    /\ \E res \in {c.out, [i \in 1..c.n |-> FALSE]} : Goes(p, Ended(c, res))
    /\ UNCHANGED <<connection, channel, connected, conns, chans, dialled>>

\* close() on the way from channel.close() to connection.close(), and its end.
CloseConnection(p, c) ==
    IF connection # None
    THEN /\ Goes(p, [c EXCEPT !.pc = "closeConn", !.conn = connection])
         /\ chans' = chans \ {connection}
         /\ UNCHANGED connected
    ELSE Goes(p, Ended(c, <<>>)) /\ connected' = FALSE /\ UNCHANGED chans

Close(p) ==
    LET c == [Idle EXCEPT !.kind = "close"] IN
    /\ call[p].pc = "idle"
    /\ \/ /\ ~connected
          /\ Goes(p, Ended(c, <<>>)) /\ UNCHANGED <<connected, chans>>
       \/ /\ connected /\ channel # None
          /\ Goes(p, [c EXCEPT !.pc = "closeChan", !.conn = channel])
          /\ chans' = chans \ {channel} /\ UNCHANGED connected
       \/ connected /\ channel = None /\ CloseConnection(p, c)
    /\ UNCHANGED <<connection, channel, conns, dialled>>

ChannelClosed(p) ==
    /\ call[p].pc = "closeChan"
    /\ channel' = None
    /\ CloseConnection(p, call[p])
    /\ UNCHANGED <<connection, conns, dialled>>

ConnectionClosed_FlagKept(p) ==
    /\ call[p].pc = "closeConn"
    /\ conns' = conns \ {call[p].conn}
    /\ connection' = None
    /\ Goes(p, Ended(call[p], <<>>))
    /\ UNCHANGED <<channel, connected, chans, dialled>>

\* Whatever connection this.connection is by now, it is forgotten.
ConnectionClosed(p) ==
    /\ call[p].pc = "closeConn"
    /\ conns' = conns \ {call[p].conn}
    /\ connection' = None /\ connected' = FALSE
    /\ Goes(p, Ended(call[p], <<>>))
    /\ UNCHANGED <<channel, chans, dialled>>

CloseFails(p) ==
    /\ call[p].pc \in Closing
    /\ call' = [call EXCEPT ![p] = Ended(@, <<>>)]
    /\ mishaps' = mishaps \cup {"close"}
    /\ UNCHANGED <<connection, channel, connected, conns, chans, dialled>>

\* The broker or the network ends a connection; the adapter does not listen.
Lose == \E c \in conns :
    /\ conns' = conns \ {c} /\ chans' = chans \ {c}
    /\ UNCHANGED <<connection, channel, connected, dialled, call, mishaps>>

Next == \/ \E p \in Calls :
              \/ Publish(p) \/ PublishBatch(p) \/ EnableConfirms(p) \/ Close(p)
              \/ Dialed(p) \/ ChannelOpened(p) \/ Prefetched(p) \/ Asserted(p)
              \/ ConnectFails(p) \/ Send(p) \/ Loop(p) \/ Confirmed(p)
              \/ ChannelClosed(p) \/ ConnectionClosed(p) \/ CloseFails(p)
        \/ Lose

Spec == Init /\ [][Next]_vars

-----------------------------------------------------------------------------
(* Every reference is null or a connection that was made, and no batch     *)
(* publishes more than its messages.                                       *)
TypeOK == /\ dialled \in 0..MaxConns
          /\ connection \in 0..dialled /\ channel \in 0..dialled
          /\ connected \in BOOLEAN
          /\ conns \subseteq 1..dialled /\ chans \subseteq 1..dialled
          /\ call \in [Calls -> CallState]
          /\ \A p \in Calls : call[p].conn <= dialled /\ Len(call[p].out) <= call[p].n
          /\ mishaps \subseteq {"overlap", "connect", "close"}

(* connect() tests a flag that it sets four awaits later, and overwrites   *)
(* this.connection.  As long as no connect or close overlaps another and   *)
(* no connect fails half-way, no connection stays open at the broker that  *)
(* the adapter does not hold and so could not close any more.              *)
NothingLeaks == mishaps \cap {"overlap", "connect"} = {} => conns \subseteq {connection}

(* close() drops the channel, the connection and the flag one await after  *)
(* another, and connect() raises the flag without looking at them again.   *)
(* Unless a connect overlapped a close, or a close failed half-way, an     *)
(* adapter that says it is connected, and is not being closed, has the     *)
(* channel of its connection: it never says so for ever with no channel.   *)
UsableWhenConnected ==
    mishaps \cap {"overlap", "close"} = {} /\ connected
    /\ (\A p \in Calls : call[p].pc \notin Closing)
       => channel # None /\ channel = connection

(* Whatever happens to the connection during a call, a publish and a batch *)
(* report one outcome per message and never success of a message that the  *)
(* channel did not take; a message that was taken is reported as failed    *)
(* only when a batch reports all its messages so, because its wait for     *)
(* confirms failed.                                                        *)
ReportsOutcomes == \A p \in Calls :
    LET c == call[p] IN
    c.pc = "done" =>
      /\ Len(c.res) = c.n
      /\ \A i \in 1..c.n : c.res[i] => i <= Len(c.out) /\ c.out[i]
      /\ (\E i \in 1..Len(c.out) : c.out[i] /\ ~c.res[i])
            => c.kind = "batch" /\ Len(c.out) = c.n /\ \A i \in 1..c.n : ~c.res[i]
=============================================================================
