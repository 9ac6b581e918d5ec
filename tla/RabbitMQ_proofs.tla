--------------------------- MODULE RabbitMQ_proofs ---------------------------
(***************************************************************************)
(* What holds of the RabbitMQ adapter for any number of calls, connections *)
(* and messages.  CallsInv is about each call by itself, what it has       *)
(* published and reported; LifeInv about the connection the calls share.   *)
(***************************************************************************)
EXTENDS RabbitMQ, TLAPS

(* What a call that is done reports of its messages: ReportsOutcomes.      *)
Reported(c) ==
    /\ Len(c.res) = c.n
    /\ \A i \in 1..c.n : c.res[i] => i <= Len(c.out) /\ c.out[i]
    /\ (\E i \in 1..Len(c.out) : c.out[i] /\ ~c.res[i])
          => c.kind = "batch" /\ Len(c.out) = c.n /\ \A i \in 1..c.n : ~c.res[i]

(* What each stage of a call says of its messages.                         *)
Shape(c) ==
    /\ c.kind = "publish" => c.n = 1
    /\ c.kind \in {"none", "confirms", "close"} => c.n = 0
    /\ c.pc \in Closing => c.kind = "close"
    /\ c.pc \in {"dial", "ready"} \cup Connecting =>
          /\ c.kind \in {"publish", "batch", "confirms"}
          /\ IF c.inner THEN Len(c.out) < c.n ELSE c.kind # "publish" /\ c.out = <<>>
    /\ c.pc = "loop" => c.kind = "batch" /\ ~c.inner
    /\ c.pc = "confirm" => c.kind \in {"batch", "confirms"} /\ Len(c.out) = c.n
    /\ c.pc = "done" => Reported(c)

Fits(c, d) == c \in CallState /\ c.conn <= d /\ Len(c.out) <= c.n /\ Shape(c)

CallsInv == TypeOK /\ \A p \in Calls : Shape(call[p])

LEMMA Stages == /\ {"idle", "ready", "loop", "confirm", "done"} \cup LifeCycle = PCs
                /\ LifeCycle = {"dial", "chan", "prefetch", "assert", "closeChan", "closeConn"}
                /\ 0 \in 0..MaxConns
  BY RabbitAssumption DEF PCs, LifeCycle, Connecting, Closing

(* A call that goes on is a call.                                          *)
LEMMA PcMoved ==
    ASSUME NEW c \in CallState, NEW s \in PCs PROVE [c EXCEPT !.pc = s] \in CallState
  BY DEF CallState

LEMMA ConnMoved ==
    ASSUME NEW c \in CallState, NEW s \in PCs, NEW k \in 0..MaxConns
    PROVE  [c EXCEPT !.pc = s, !.conn = k] \in CallState
  BY DEF CallState

LEMMA InnerMoved ==
    ASSUME NEW c \in CallState, NEW b \in BOOLEAN PROVE [c EXCEPT !.inner = b] \in CallState
  BY DEF CallState

LEMMA OutMoved ==
    ASSUME NEW c \in CallState, NEW o \in Seq(BOOLEAN) PROVE [c EXCEPT !.out = o] \in CallState
  BY DEF CallState

LEMMA EndMoved ==
    ASSUME NEW c \in CallState, NEW s \in PCs, NEW k \in 0..MaxConns, NEW r \in Seq(BOOLEAN)
    PROVE  [c EXCEPT !.pc = s, !.conn = k, !.res = r] \in CallState
  BY DEF CallState

LEMMA NextMoved ==
    ASSUME NEW c \in CallState, NEW s \in PCs, NEW k \in 0..MaxConns,
           NEW b \in BOOLEAN, NEW o \in Seq(BOOLEAN)
    PROVE  [c EXCEPT !.pc = s, !.conn = k, !.inner = b, !.out = o] \in CallState
  BY DEF CallState

LEMMA EndedFits ==
    ASSUME NEW c \in CallState, NEW res \in Seq(BOOLEAN), NEW d \in Nat,
           Len(c.out) <= c.n, c.kind = "publish" => c.n = 1,
           c.kind \in {"none", "confirms", "close"} => c.n = 0,
           Reported([c EXCEPT !.res = res])
    PROVE  Fits(Ended(c, res), d)
  <1> DEFINE e == Ended(c, res)
  <1>1. /\ e \in CallState /\ e.pc = "done" /\ e.conn = 0 /\ e.res = res
        /\ e.kind = c.kind /\ e.n = c.n /\ e.out = c.out
    <2> DEFINE s == "done" k == 0
    <2>1. s \in PCs /\ k \in 0..MaxConns
      BY Stages
    <2>2. e = [c EXCEPT !.pc = s, !.conn = k, !.res = res]
      BY DEF Ended, None
    <2> HIDE DEF s, k
    <2>3. e \in CallState
      <3>1. [c EXCEPT !.pc = s, !.conn = k, !.res = res] \in CallState
        BY <2>1, EndMoved
      <3> HIDE DEF e
      <3> QED BY <3>1, <2>2
    <2>4. /\ e.pc = s /\ e.conn = k /\ e.res = res
          /\ e.kind = c.kind /\ e.n = c.n /\ e.out = c.out
      BY <2>2 DEF CallState
    <2> QED BY <2>3, <2>4 DEF s, k
  <1>2. Reported(e)
    BY <1>1 DEF Reported, CallState
  <1>3. Shape(e)
    BY <1>1, <1>2 DEF Shape, Closing, Connecting
  <1> QED BY <1>1, <1>3 DEF Fits

LEMMA ConnectFits ==
    ASSUME NEW c \in CallState, NEW d \in Nat, c.conn <= d, Len(c.out) <= c.n,
           c.kind \in {"publish", "batch", "confirms"},
           c.kind = "publish" => c.n = 1, c.kind = "confirms" => c.n = 0,
           IF c.inner THEN Len(c.out) < c.n ELSE c.kind # "publish" /\ c.out = <<>>
    PROVE  Fits(Connect(c), d)
  <1> DEFINE s == IF connected THEN "ready" ELSE "dial"
             e == [c EXCEPT !.pc = s]
  <1>1. s \in PCs /\ s \in {"ready", "dial"}
    BY Stages
  <1> HIDE DEF s
  <1>2. /\ e \in CallState /\ e.pc = s /\ e.conn = c.conn /\ e.kind = c.kind
        /\ e.n = c.n /\ e.out = c.out /\ e.inner = c.inner
    BY <1>1, PcMoved DEF CallState
  <1>3. Shape(e)
    BY <1>1, <1>2 DEF Shape, Closing, Connecting
  <1> QED BY <1>2, <1>3 DEF Fits, Connect, s

(* The call of publish() reports its one message as the channel did.       *)
LEMMA OneReported ==
    ASSUME NEW c, c.out \in Seq(BOOLEAN), Len(c.out) = 1, c.res = c.out, c.n = 1
    PROVE  Reported(c)
  <1>1. \A i \in 1..1 : c.res[i] => i <= Len(c.out) /\ c.out[i]
    OBVIOUS
  <1>2. ~\E i \in 1..1 : c.out[i] /\ ~c.res[i]
    OBVIOUS
  <1>3. Len(c.res) = 1
    OBVIOUS
  <1> QED BY <1>1, <1>2, <1>3 DEF Reported

LEMMA NotedFits ==
    ASSUME NEW c \in CallState, NEW o \in BOOLEAN, NEW d \in Nat,
           Shape(c), c.pc \in {"dial", "ready"} \cup Connecting, c.inner
    PROVE  Fits(Noted(c, o), d)
  <1>1. c.kind \in {"publish", "batch"} /\ Len(c.out) < c.n /\ (c.kind = "publish" => c.n = 1)
    BY DEF Shape, CallState
  <1>2. <<o>> \in Seq(BOOLEAN) /\ Len(<<o>>) = 1 /\ <<o>>[1] = o
    OBVIOUS
  <1>3. CASE c.kind = "publish"
    <2> DEFINE l == <<o>> e == [c EXCEPT !.out = l]
    <2>1. l \in Seq(BOOLEAN) /\ Len(l) = 1
      BY <1>2
    <2> HIDE DEF l
    <2>2. e \in CallState /\ e.kind = "publish" /\ e.n = 1 /\ e.out = l
      BY <2>1, <1>1, <1>3, OutMoved DEF CallState
    <2> HIDE DEF e
    <2>3. Reported([e EXCEPT !.res = l])
      <3> DEFINE f == [e EXCEPT !.res = l]
      <3>1. f.res = l /\ f.out = l /\ f.n = 1
        BY <2>2 DEF CallState
      <3> HIDE DEF f
      <3>2. Reported(f)
        BY <2>1, <3>1, OneReported
      <3> QED BY <3>2 DEF f
    <2>4. e.out \in Seq(BOOLEAN) /\ Len(e.out) = 1
      BY <2>1, <2>2
    <2>5. Fits(Ended(e, l), d)
      <3>1. Len(e.out) <= e.n /\ e.kind \notin {"none", "confirms", "close"}
        BY <2>2, <2>4
      <3> QED BY <2>1, <2>2, <2>3, <3>1, EndedFits
    <2> QED BY <1>3, <2>5 DEF Noted, l, e
  <1>4. CASE c.kind = "batch"
    <2> DEFINE s == "loop" k == 0 b == FALSE l == Append(c.out, o)
               e == [c EXCEPT !.pc = s, !.conn = k, !.inner = b, !.out = l]
    <2>1. l \in Seq(BOOLEAN) /\ Len(l) <= c.n
      BY <1>1 DEF CallState
    <2>2. s \in PCs /\ k \in 0..MaxConns /\ b \in BOOLEAN
      BY Stages
    <2>3. Noted(c, o) = e
      BY <1>4 DEF Noted, None
    <2>4. s = "loop" /\ k = 0 /\ b = FALSE
      OBVIOUS
    <2> HIDE DEF s, k, b, l
    <2>5. e \in CallState
      BY <2>1, <2>2, NextMoved
    <2>6. e.pc = s /\ e.conn = k /\ e.inner = b /\ e.out = l /\ e.kind = c.kind /\ e.n = c.n
      BY DEF CallState
    <2> HIDE DEF e
    <2>7. Shape(e)
      BY <1>4, <2>4, <2>6 DEF Shape, Closing, Connecting
    <2> QED BY <2>1, <2>3, <2>4, <2>5, <2>6, <2>7 DEF Fits
  <1> QED BY <1>1, <1>3, <1>4

(* A call that goes through connect(), or through close().                 *)
LEMMA StageFits ==
    ASSUME NEW c \in CallState, NEW d \in Nat, Shape(c), Len(c.out) <= c.n,
           c.pc \in {"dial"} \cup Connecting,
           NEW e \in CallState, e.pc \in Connecting \cup {"ready"}, e.conn <= d,
           e.kind = c.kind, e.n = c.n, e.out = c.out, e.inner = c.inner
    PROVE  Fits(e, d)
  <1>1. Shape(e)
    BY DEF Shape, Closing, Connecting
  <1> QED BY <1>1 DEF Fits

LEMMA CloseFits ==
    ASSUME NEW d \in Nat, NEW e \in CallState, e.kind = "close", e.n = 0, Len(e.out) <= 0,
           e.pc \in Closing, e.conn <= d
    PROVE  Fits(e, d)
  <1>1. Shape(e)
    BY DEF Shape, Closing, Connecting
  <1> QED BY <1>1 DEF Fits

(* Ways to end: nothing was to be reported, all is reported as failed, or  *)
(* what the channel said is reported.                                      *)
LEMMA NothingReported ==
    ASSUME NEW c \in CallState, NEW d \in Nat, c.n = 0, Len(c.out) <= c.n, c.kind = "close"
    PROVE  Fits(Ended(c, <<>>), d)
  <1> DEFINE l == <<>> e == [c EXCEPT !.res = l]
  <1>1. l \in Seq(BOOLEAN) /\ Len(l) = 0
    OBVIOUS
  <1> HIDE DEF l
  <1>2. e.res = l /\ e.n = 0 /\ e.out = c.out
    BY DEF CallState
  <1>3. Len(c.out) = 0
    BY DEF CallState
  <1> HIDE DEF e
  <1>4. Reported(e)
    BY <1>1, <1>2, <1>3 DEF Reported
  <1>5. Fits(Ended(c, l), d)
    <2>1. Reported([c EXCEPT !.res = l])
      BY <1>4 DEF e
    <2> QED BY <1>1, <2>1, EndedFits
  <1> QED BY <1>5 DEF l

LEMMA FunctionIsSeq ==
    ASSUME NEW n \in Nat, NEW l \in [1..n -> BOOLEAN] PROVE l \in Seq(BOOLEAN) /\ Len(l) = n
  OBVIOUS

LEMMA AllFailed ==
    ASSUME NEW n \in Nat
    PROVE  LET l == [i \in 1..n |-> FALSE] IN
           l \in Seq(BOOLEAN) /\ Len(l) = n /\ \A i \in 1..n : ~l[i]
  <1> DEFINE l == [i \in 1..n |-> FALSE]
  <1>1. l \in [1..n -> BOOLEAN]
    OBVIOUS
  <1>2. \A i \in 1..n : ~l[i]
    OBVIOUS
  <1> QED BY <1>1, <1>2, FunctionIsSeq

LEMMA FailureReported ==
    ASSUME NEW c \in CallState, NEW d \in Nat, Len(c.out) <= c.n,
           c.kind = "publish" => c.n = 1,
           c.kind \in {"none", "confirms", "close"} => c.n = 0,
           c.out = <<>> \/ (c.kind \in {"batch", "confirms"} /\ Len(c.out) = c.n)
    PROVE  Fits(Ended(c, [i \in 1..c.n |-> FALSE]), d)
  <1> DEFINE l == [i \in 1..c.n |-> FALSE] e == [c EXCEPT !.res = l]
  <1>1. c.n \in Nat
    BY RabbitAssumption DEF CallState
  <1>2. l \in Seq(BOOLEAN) /\ Len(l) = c.n /\ \A i \in 1..c.n : ~l[i]
    BY <1>1, AllFailed
  <1> HIDE DEF l
  <1>3. e.res = l /\ e.n = c.n /\ e.out = c.out /\ e.kind = c.kind
    BY DEF CallState
  <1> HIDE DEF e
  <1>4. (\E i \in 1..Len(c.out) : TRUE) => c.kind = "batch" /\ Len(c.out) = c.n
    BY <1>1
  <1>5. Reported(e)
    BY <1>1, <1>2, <1>3, <1>4 DEF Reported
  <1>6. Fits(Ended(c, l), d)
    <2>1. Reported([c EXCEPT !.res = l])
      BY <1>5 DEF e
    <2> QED BY <1>2, <2>1, EndedFits
  <1> QED BY <1>6 DEF l

LEMMA OutcomeReported ==
    ASSUME NEW c \in CallState, NEW d \in Nat, Len(c.out) = c.n,
           c.kind \in {"batch", "confirms"}, c.kind = "confirms" => c.n = 0
    PROVE  Fits(Ended(c, c.out), d)
  <1> DEFINE l == c.out e == [c EXCEPT !.res = l]
  <1>1. c.n \in Nat /\ l \in Seq(BOOLEAN) /\ Len(l) = c.n
    BY RabbitAssumption DEF CallState
  <1>2. e.res = l /\ e.n = c.n /\ e.out = l
    BY DEF CallState
  <1> HIDE DEF l, e
  <1>3. Reported(e)
    BY <1>1, <1>2 DEF Reported
  <1>4. Fits(Ended(c, l), d)
    <2>1. Reported([c EXCEPT !.res = l])
      BY <1>3 DEF e
    <2>2. l = c.out
      BY DEF l
    <2>3. Len(c.out) <= c.n
      BY <1>1, <2>2
    <2>4. c.kind # "publish" /\ c.kind \notin {"none", "close"}
      OBVIOUS
    <2> QED BY <1>1, <2>1, <2>3, <2>4, EndedFits
  <1> QED BY <1>4 DEF l

-----------------------------------------------------------------------------
(* The other calls stay as they are when call p moves to c.                *)
LEMMA OneMoves ==
    ASSUME CallsInv, NEW p \in Calls, NEW c, call' = [call EXCEPT ![p] = c],
           dialled' \in 0..MaxConns, dialled <= dialled', Fits(c, dialled')
    PROVE  /\ call' \in [Calls -> CallState]
           /\ \A q \in Calls : call'[q].conn <= dialled' /\ Len(call'[q].out) <= call'[q].n
           /\ \A q \in Calls : Shape(call'[q])
  <1>1. call' \in [Calls -> CallState]
    BY DEF CallsInv, TypeOK, Fits
  <1>2. ASSUME NEW q \in Calls PROVE Fits(call'[q], dialled')
    <2>1. CASE q = p
      BY <2>1 DEF CallsInv, TypeOK
    <2>2. CASE q # p
      <3>1. call'[q] = call[q] /\ call[q] \in CallState /\ Shape(call[q])
            /\ call[q].conn <= dialled /\ Len(call[q].out) <= call[q].n
        BY <2>2 DEF CallsInv, TypeOK
      <3>2. call[q].conn \in Nat /\ dialled \in Nat /\ dialled' \in Nat
        BY <3>1, RabbitAssumption DEF CallState, CallsInv, TypeOK
      <3> QED BY <3>1, <3>2 DEF Fits
    <2> QED BY <2>1, <2>2
  <1> QED BY <1>1, <1>2 DEF Fits

(* What a step leaves of the rest of the state.                            *)
Rest == /\ dialled \in 0..MaxConns
        /\ connection \in 0..dialled /\ channel \in 0..dialled
        /\ connected \in BOOLEAN
        /\ conns \subseteq 1..dialled /\ chans \subseteq 1..dialled
        /\ mishaps \subseteq {"overlap", "connect", "close"}

LEMMA StepKeeps ==
    ASSUME CallsInv, Rest', dialled <= dialled',
           NEW p \in Calls, NEW c, call' = [call EXCEPT ![p] = c], Fits(c, dialled')
    PROVE  CallsInv'
  BY OneMoves DEF CallsInv, TypeOK, Rest

LEMMA MishapsTyped ==
    ASSUME CallsInv, NEW p \in Calls, NEW c, Goes(p, c)
    PROVE  call' = [call EXCEPT ![p] = c] /\ mishaps' \subseteq {"overlap", "connect", "close"}
  BY DEF Goes, CallsInv, TypeOK

-----------------------------------------------------------------------------
(* The calls, one step per action.                                         *)

LEMMA IdleCall == /\ Idle \in CallState
                  /\ Idle.kind = "none" /\ Idle.pc = "idle" /\ Idle.n = 0 /\ ~Idle.inner
                  /\ Idle.conn = 0 /\ Idle.out = <<>>
  <1>1. "idle" \in PCs /\ 0 \in 0..(MaxBatch + 1) /\ 0 \in 0..MaxConns
    BY Stages, RabbitAssumption
  <1>2. <<>> \in Seq(BOOLEAN)
    OBVIOUS
  <1> QED BY <1>1, <1>2 DEF Idle, CallState, None

LEMMA CallsInit == Init => CallsInv
  <1> SUFFICES ASSUME Init PROVE CallsInv
    OBVIOUS
  <1>1. Shape(Idle)
    BY IdleCall DEF Shape, Closing, Connecting
  <1>2. call \in [Calls -> CallState] /\ \A p \in Calls : call[p] = Idle
    BY IdleCall DEF Init
  <1>3. dialled = 0 /\ Len(<<>>) = 0 /\ 0 \in 0..MaxConns /\ 0 \in 0..0
    BY RabbitAssumption DEF Init
  <1>4. \A p \in Calls : call[p].conn <= dialled /\ Len(call[p].out) <= call[p].n
    <2>1. 0 <= 0
      OBVIOUS
    <2>2. Idle.conn <= dialled /\ Len(Idle.out) <= Idle.n
      BY <1>3, <2>1, IdleCall
    <2> QED BY <1>2, <2>2
  <1>5. /\ connection \in 0..dialled /\ channel \in 0..dialled /\ connected \in BOOLEAN
        /\ conns \subseteq 1..dialled /\ chans \subseteq 1..dialled
        /\ mishaps \subseteq {"overlap", "connect", "close"}
    BY <1>3 DEF Init, None
  <1> QED BY <1>1, <1>2, <1>3, <1>4, <1>5 DEF CallsInv, TypeOK

LEMMA StartCalls ==
    ASSUME CallsInv, NEW p \in Calls, NEW k \in {"publish", "batch", "confirms"},
           NEW n \in 0..(MaxBatch + 1), k = "publish" => n = 1, k = "confirms" => n = 0,
           Start(p, k, n)
    PROVE  CallsInv'
  <1> DEFINE b == (k = "publish") e == [Idle EXCEPT !.kind = k, !.n = n, !.inner = b]
  <1>1. b \in BOOLEAN /\ n \in Nat /\ (b => n = 1) /\ (~b => k # "publish")
    BY RabbitAssumption
  <1> HIDE DEF b
  <1>2. /\ e \in CallState /\ e.kind = k /\ e.n = n /\ e.inner = b
        /\ e.conn = Idle.conn /\ e.out = Idle.out
    BY <1>1, IdleCall DEF CallState
  <1>3. e.kind = k /\ e.n = n /\ e.inner = b /\ e.conn = 0 /\ e.out = <<>>
    BY <1>2, IdleCall
  <1> HIDE DEF e
  <1>4. dialled \in Nat
    BY RabbitAssumption DEF CallsInv, TypeOK
  <1>5. Len(e.out) = 0 /\ e.conn <= dialled
    BY <1>3, <1>4
  <1>6. Len(e.out) <= e.n
    BY <1>1, <1>3, <1>5
  <1>7. IF e.inner THEN Len(e.out) < e.n ELSE e.kind # "publish" /\ e.out = <<>>
    <2>1. CASE b
      <3>1. Len(e.out) < e.n
        BY <1>1, <1>3, <1>5, <2>1
      <3> QED BY <1>3, <2>1, <3>1
    <2>2. CASE ~b
      BY <1>1, <1>3, <2>2
    <2> QED BY <1>1, <2>1, <2>2
  <1>8. Fits(Connect(e), dialled)
    BY <1>2, <1>3, <1>4, <1>5, <1>6, <1>7, ConnectFits
  <1>9. Goes(p, Connect(e))
        /\ UNCHANGED <<connection, channel, connected, conns, chans, dialled>>
    BY DEF Start, e, b
  <1>10. Rest' /\ dialled <= dialled' /\ Fits(Connect(e), dialled')
    BY <1>4, <1>8, <1>9, MishapsTyped DEF Rest, CallsInv, TypeOK
  <1> QED BY <1>9, <1>10, MishapsTyped, StepKeeps

(* A step that changes only a call and what is recorded of it.             *)
LEMMA GoesOn ==
    ASSUME CallsInv, NEW p \in Calls, NEW c, Fits(c, dialled),
           UNCHANGED <<connection, channel, connected, conns, chans, dialled>>,
           call' = [call EXCEPT ![p] = c],
           mishaps' \subseteq {"overlap", "connect", "close"}
    PROVE  CallsInv'
  <1>1. dialled \in Nat
    BY RabbitAssumption DEF CallsInv, TypeOK
  <1>2. Rest' /\ dialled <= dialled' /\ Fits(c, dialled')
    BY <1>1 DEF Rest, CallsInv, TypeOK
  <1> QED BY <1>2, StepKeeps

(* What CallsInv says of one call.                                         *)
LEMMA OneCall ==
    ASSUME CallsInv, NEW p \in Calls
    PROVE  /\ call[p] \in CallState /\ Shape(call[p])
           /\ call[p].conn <= dialled /\ Len(call[p].out) <= call[p].n
           /\ call[p].conn \in Nat /\ call[p].n \in Nat /\ call[p].out \in Seq(BOOLEAN)
           /\ dialled \in Nat /\ Len(call[p].out) \in Nat
  BY RabbitAssumption DEF CallsInv, TypeOK, CallState

LEMMA DialedCalls ==
    ASSUME CallsInv, NEW p \in Calls, Dialed(p) PROVE CallsInv'
  <1> DEFINE s == "chan" e == [call[p] EXCEPT !.pc = s, !.conn = dialled']
  <1>1. /\ call[p].pc = "dial" /\ dialled' = dialled + 1 /\ dialled' \in 0..MaxConns
        /\ dialled \in Nat /\ dialled' \in Nat /\ dialled' \in 1..dialled'
    BY OneCall, RabbitAssumption DEF Dialed, CallsInv, TypeOK
  <1>2. s \in PCs /\ s \in Connecting
    BY Stages DEF Connecting
  <1>3. Goes(p, e)
    BY DEF Dialed
  <1> HIDE DEF s
  <1>4. /\ e \in CallState /\ e.pc = s /\ e.conn = dialled' /\ e.kind = call[p].kind
        /\ e.n = call[p].n /\ e.out = call[p].out /\ e.inner = call[p].inner
    BY <1>1, <1>2, OneCall, ConnMoved DEF CallState
  <1> HIDE DEF e
  <1>5. Fits(e, dialled')
    BY <1>1, <1>2, <1>4, OneCall, StageFits
  <1>6. /\ connection' \in 0..dialled' /\ channel' \in 0..dialled'
        /\ conns' \subseteq 1..dialled' /\ chans' \subseteq 1..dialled'
    <2>1. /\ connection' = dialled' /\ channel' = channel /\ chans' = chans
          /\ conns' = conns \cup {dialled'}
      BY DEF Dialed
    <2>2. 0..dialled \subseteq 0..dialled' /\ 1..dialled \subseteq 1..dialled'
          /\ dialled' \in 0..dialled'
      BY <1>1
    <2> QED BY <1>1, <2>1, <2>2 DEF CallsInv, TypeOK
  <1>7. Rest' /\ dialled <= dialled'
    BY <1>1, <1>3, <1>6, MishapsTyped DEF Rest, Dialed, CallsInv, TypeOK
  <1> QED BY <1>3, <1>5, <1>7, MishapsTyped, StepKeeps

LEMMA ChannelOpenedCalls ==
    ASSUME CallsInv, NEW p \in Calls, ChannelOpened(p) PROVE CallsInv'
  <1> DEFINE s == "prefetch" e == [call[p] EXCEPT !.pc = s]
  <1>1. /\ call[p].pc \in Connecting /\ call[p].conn \in conns /\ call[p].conn \in 1..dialled
        /\ dialled \in Nat
    BY OneCall DEF ChannelOpened, CallsInv, TypeOK, Connecting
  <1>2. s \in PCs /\ s \in Connecting
    BY Stages DEF Connecting
  <1>3. Goes(p, e)
    BY DEF ChannelOpened
  <1> HIDE DEF s
  <1>4. /\ e \in CallState /\ e.pc = s /\ e.conn = call[p].conn /\ e.kind = call[p].kind
        /\ e.n = call[p].n /\ e.out = call[p].out /\ e.inner = call[p].inner
    BY <1>2, OneCall, PcMoved DEF CallState
  <1> HIDE DEF e
  <1>5. Fits(e, dialled)
    BY <1>1, <1>2, <1>4, OneCall, StageFits
  <1>6. Rest' /\ dialled <= dialled' /\ dialled' = dialled
    <2>1. /\ channel' = call[p].conn /\ chans' = chans \cup {call[p].conn}
          /\ UNCHANGED <<connection, connected, conns, dialled>>
      BY DEF ChannelOpened
    <2>2. call[p].conn \in 0..dialled /\ dialled <= dialled
      BY <1>1
    <2> QED BY <1>1, <1>3, <2>1, <2>2, MishapsTyped DEF Rest, CallsInv, TypeOK
  <1> QED BY <1>3, <1>5, <1>6, MishapsTyped, StepKeeps

LEMMA PrefetchedCalls ==
    ASSUME CallsInv, NEW p \in Calls, Prefetched(p) PROVE CallsInv'
  <1> DEFINE s == "assert" e == [call[p] EXCEPT !.pc = s, !.conn = channel]
  <1>1. /\ call[p].pc \in Connecting /\ channel \in 0..MaxConns /\ channel <= dialled
        /\ dialled \in Nat
    BY OneCall, RabbitAssumption DEF Prefetched, CallsInv, TypeOK, Connecting
  <1>2. s \in PCs /\ s \in Connecting
    BY Stages DEF Connecting
  <1>3. Goes(p, e) /\ UNCHANGED <<connection, channel, connected, conns, chans, dialled>>
    BY DEF Prefetched
  <1> HIDE DEF s
  <1>4. /\ e \in CallState /\ e.pc = s /\ e.conn = channel /\ e.kind = call[p].kind
        /\ e.n = call[p].n /\ e.out = call[p].out /\ e.inner = call[p].inner
    BY <1>1, <1>2, OneCall, ConnMoved DEF CallState
  <1> HIDE DEF e
  <1>5. Fits(e, dialled)
    BY <1>1, <1>2, <1>4, OneCall, StageFits
  <1> QED BY <1>3, <1>5, MishapsTyped, GoesOn

LEMMA AssertedCalls ==
    ASSUME CallsInv, NEW p \in Calls, Asserted(p) PROVE CallsInv'
  <1> DEFINE s == "ready" k == 0 e == [call[p] EXCEPT !.pc = s, !.conn = k]
  <1>1. call[p].pc \in Connecting /\ dialled \in Nat
    BY OneCall DEF Asserted, Connecting
  <1>2. s \in PCs /\ s \in {"ready"} /\ k \in 0..MaxConns /\ k <= dialled
    BY <1>1, Stages
  <1>3. Goes(p, e) /\ connected' = TRUE
        /\ UNCHANGED <<connection, channel, conns, chans, dialled>>
    BY DEF Asserted, None
  <1> HIDE DEF s, k
  <1>4. /\ e \in CallState /\ e.pc = s /\ e.conn = k /\ e.kind = call[p].kind
        /\ e.n = call[p].n /\ e.out = call[p].out /\ e.inner = call[p].inner
    BY <1>2, OneCall, ConnMoved DEF CallState
  <1> HIDE DEF e
  <1>5. Fits(e, dialled)
    BY <1>1, <1>2, <1>4, OneCall, StageFits
  <1>6. Rest' /\ dialled <= dialled'
    BY <1>1, <1>3, MishapsTyped DEF Rest, CallsInv, TypeOK
  <1> QED BY <1>3, <1>5, <1>6, MishapsTyped, StepKeeps

LEMMA ConnectFailsCalls ==
    ASSUME CallsInv, NEW p \in Calls, ConnectFails(p) PROVE CallsInv'
  <1> DEFINE c == call[p] f == [i \in 1..c.n |-> FALSE]
  <1>1. /\ c \in CallState /\ Shape(c) /\ dialled \in Nat /\ Len(c.out) <= c.n
        /\ c.pc \in {"dial", "ready"} \cup Connecting
    BY OneCall DEF ConnectFails
  <1>2. call' = [call EXCEPT ![p] = IF c.inner THEN Noted(c, FALSE) ELSE Ended(c, f)]
    BY DEF ConnectFails, CallsInv, TypeOK
  <1>3. /\ UNCHANGED <<connection, channel, connected, conns, chans, dialled>>
        /\ mishaps' \subseteq {"overlap", "connect", "close"}
    BY DEF ConnectFails, CallsInv, TypeOK
  <1> HIDE DEF c
  <1>4. CASE c.inner
    <2>1. Fits(Noted(c, FALSE), dialled)
      BY <1>1, <1>4, NotedFits
    <2> QED BY <1>2, <1>3, <1>4, <2>1, GoesOn
  <1>5. CASE ~c.inner
    <2>1. c.out = <<>> /\ c.kind \in {"batch", "confirms"} /\ (c.kind = "confirms" => c.n = 0)
      BY <1>1, <1>5 DEF Shape
    <2>2. Fits(Ended(c, f), dialled)
      BY <1>1, <2>1, FailureReported
    <2> QED BY <1>2, <1>3, <1>5, <2>2, GoesOn
  <1> QED BY <1>4, <1>5

LEMMA SendCalls ==
    ASSUME CallsInv, NEW p \in Calls, Send(p) PROVE CallsInv'
  <1>1. PICK o \in BOOLEAN : Goes(p, Noted(call[p], o))
    BY DEF Send
  <1>2. Fits(Noted(call[p], o), dialled)
    BY OneCall, NotedFits DEF Send
  <1> QED BY <1>1, <1>2, MishapsTyped, GoesOn DEF Send

(* A batch, or enableConfirms, comes to the wait for confirms.             *)
LEMMA ConfirmFits ==
    ASSUME NEW c \in CallState, NEW d \in Nat, c.conn <= d, Len(c.out) = c.n,
           c.kind \in {"batch", "confirms"}, c.kind = "confirms" => c.n = 0
    PROVE  Fits([c EXCEPT !.pc = "confirm"], d)
  <1> DEFINE s == "confirm" e == [c EXCEPT !.pc = s]
  <1>1. s \in PCs /\ s = "confirm"
    BY Stages
  <1> HIDE DEF s
  <1>2. /\ e \in CallState /\ e.pc = s /\ e.conn = c.conn /\ e.kind = c.kind
        /\ e.n = c.n /\ e.out = c.out
    BY <1>1, PcMoved DEF CallState
  <1>3. Len(e.out) <= e.n
    BY <1>2, RabbitAssumption DEF CallState
  <1> HIDE DEF e
  <1>4. Shape(e)
    BY <1>1, <1>2 DEF Shape, Closing, Connecting
  <1> QED BY <1>2, <1>3, <1>4 DEF Fits, e, s

LEMMA LoopCalls ==
    ASSUME CallsInv, NEW p \in Calls, Loop(p) PROVE CallsInv'
  <1> DEFINE c == call[p] b == TRUE e == [c EXCEPT !.inner = b]
  <1>1. /\ c.pc \in {"ready", "loop"} /\ ~c.inner
        /\ UNCHANGED <<connection, channel, connected, conns, chans, dialled>>
        /\ Goes(p, IF Len(c.out) < c.n THEN Connect(e)
                   ELSE IF channel # None THEN [c EXCEPT !.pc = "confirm"] ELSE Ended(c, c.out))
    BY DEF Loop
  <1>2. /\ c \in CallState /\ Shape(c) /\ c.conn <= dialled /\ dialled \in Nat
        /\ Len(c.out) <= c.n /\ Len(c.out) \in Nat /\ c.n \in Nat
    BY OneCall
  <1> HIDE DEF c
  <1>3. c.kind \in {"batch", "confirms"} /\ (c.kind = "confirms" => c.n = 0)
    BY <1>1, <1>2 DEF Shape
  <1>4. CASE Len(c.out) < c.n
    <2>1. b \in BOOLEAN /\ b
      OBVIOUS
    <2> HIDE DEF b
    <2>2. /\ e \in CallState /\ e.conn = c.conn /\ e.kind = c.kind
          /\ e.n = c.n /\ e.out = c.out /\ e.inner = b
      BY <1>2, <2>1, InnerMoved DEF CallState
    <2> HIDE DEF e
    <2>3. /\ e.conn <= dialled /\ Len(e.out) <= e.n /\ Len(e.out) < e.n
      BY <1>2, <1>4, <2>2
    <2>4. e.kind # "publish" /\ e.kind \in {"publish", "batch", "confirms"}
          /\ (e.kind = "confirms" => e.n = 0)
      BY <1>3, <2>2
    <2>5. Fits(Connect(e), dialled)
      BY <1>2, <2>1, <2>2, <2>3, <2>4, ConnectFits
    <2> QED BY <1>1, <1>4, <2>5, MishapsTyped, GoesOn
  <1>5. CASE ~(Len(c.out) < c.n)
    <2>1. Len(c.out) = c.n
      BY <1>2, <1>5
    <2>2. Fits([c EXCEPT !.pc = "confirm"], dialled)
      BY <1>2, <1>3, <2>1, ConfirmFits
    <2>3. Fits(Ended(c, c.out), dialled)
      BY <1>2, <1>3, <2>1, OutcomeReported
    <2> QED BY <1>1, <1>5, <2>2, <2>3, MishapsTyped, GoesOn
  <1> QED BY <1>4, <1>5

LEMMA ConfirmedCalls ==
    ASSUME CallsInv, NEW p \in Calls, Confirmed(p) PROVE CallsInv'
  <1> DEFINE c == call[p] f == [i \in 1..c.n |-> FALSE]
  <1>1. /\ c.pc = "confirm" /\ UNCHANGED <<connection, channel, connected, conns, chans, dialled>>
        /\ (Goes(p, Ended(c, c.out)) \/ Goes(p, Ended(c, f)))
    BY DEF Confirmed
  <1>2. c \in CallState /\ Shape(c) /\ dialled \in Nat /\ Len(c.out) <= c.n
    BY OneCall
  <1> HIDE DEF c
  <1>3. /\ c.kind \in {"batch", "confirms"} /\ Len(c.out) = c.n
        /\ (c.kind = "confirms" => c.n = 0)
    BY <1>1, <1>2 DEF Shape
  <1>4. Fits(Ended(c, c.out), dialled)
    BY <1>2, <1>3, OutcomeReported
  <1>5. Fits(Ended(c, f), dialled)
    BY <1>2, <1>3, FailureReported
  <1> QED BY <1>1, <1>4, <1>5, MishapsTyped, GoesOn

(* close() goes on to the connection, or ends.                             *)
LEMMA CloseConnectionCalls ==
    ASSUME CallsInv, NEW p \in Calls, NEW c \in CallState,
           c.kind = "close", c.n = 0, Len(c.out) <= c.n, CloseConnection(p, c),
           channel' \in 0..dialled, UNCHANGED <<connection, conns, dialled>>
    PROVE  CallsInv'
  <1> DEFINE s == "closeConn" e == [c EXCEPT !.pc = s, !.conn = connection]
  <1>1. /\ s \in PCs /\ s \in Closing /\ connection \in 0..MaxConns /\ connection <= dialled
        /\ dialled \in Nat
    BY Stages, RabbitAssumption DEF CallsInv, TypeOK, Closing
  <1>2. /\ Goes(p, e) \/ Goes(p, Ended(c, <<>>))
        /\ chans' \subseteq chans /\ connected' \in BOOLEAN
    BY DEF CloseConnection, CallsInv, TypeOK
  <1> HIDE DEF s
  <1>3. /\ e \in CallState /\ e.pc = s /\ e.conn = connection /\ e.kind = c.kind
        /\ e.n = c.n /\ e.out = c.out
    BY <1>1, ConnMoved DEF CallState
  <1> HIDE DEF e
  <1>4. Len(e.out) <= 0
    BY <1>3
  <1>5. Fits(e, dialled) /\ Fits(Ended(c, <<>>), dialled)
    BY <1>1, <1>3, <1>4, CloseFits, NothingReported
  <1>6. dialled <= dialled' /\ Rest'
    BY <1>1, <1>2, MishapsTyped DEF Rest, CallsInv, TypeOK
  <1> QED BY <1>2, <1>5, <1>6, MishapsTyped, StepKeeps

LEMMA CloseCalls ==
    ASSUME CallsInv, NEW p \in Calls, Close(p) PROVE CallsInv'
  <1> DEFINE k == "close" c == [Idle EXCEPT !.kind = k]
  <1>1. k \in {"none", "publish", "batch", "confirms", "close"} /\ k = "close"
    OBVIOUS
  <1> HIDE DEF k
  <1>2. /\ c \in CallState /\ c.kind = k /\ c.n = Idle.n /\ c.out = Idle.out
        /\ c.conn = Idle.conn
    BY <1>1, IdleCall DEF CallState
  <1>3. Len(Idle.out) <= Idle.n
    <2>1. Len(<<>>) = 0 /\ 0 <= 0
      OBVIOUS
    <2> QED BY <2>1, IdleCall
  <1>4. c.n = 0 /\ Len(c.out) <= c.n
    BY <1>2, <1>3, IdleCall
  <1>5. dialled \in Nat /\ channel \in 0..MaxConns /\ channel <= dialled
    BY RabbitAssumption DEF CallsInv, TypeOK
  <1>6. /\ call[p].pc = "idle" /\ UNCHANGED <<connection, channel, conns, dialled>>
        /\ \/ ~connected /\ Goes(p, Ended(c, <<>>)) /\ UNCHANGED <<connected, chans>>
           \/ /\ Goes(p, [c EXCEPT !.pc = "closeChan", !.conn = channel])
              /\ chans' \subseteq chans /\ UNCHANGED connected
           \/ CloseConnection(p, c)
    BY DEF Close, k
  <1> HIDE DEF c
  <1>7. CASE Goes(p, Ended(c, <<>>)) /\ UNCHANGED <<connected, chans>>
    <2>1. Fits(Ended(c, <<>>), dialled)
      BY <1>1, <1>2, <1>4, <1>5, NothingReported
    <2> QED BY <1>6, <1>7, <2>1, MishapsTyped, GoesOn
  <1>8. CASE /\ Goes(p, [c EXCEPT !.pc = "closeChan", !.conn = channel])
             /\ chans' \subseteq chans /\ UNCHANGED connected
    <2> DEFINE s == "closeChan" e == [c EXCEPT !.pc = s, !.conn = channel]
    <2>1. s \in PCs /\ s \in Closing
      BY Stages DEF Closing
    <2>2. Goes(p, e)
      BY <1>8
    <2> HIDE DEF s
    <2>3. /\ e \in CallState /\ e.pc = s /\ e.conn = channel /\ e.kind = c.kind
          /\ e.n = c.n /\ e.out = c.out
      BY <1>2, <1>5, <2>1, ConnMoved DEF CallState
    <2> HIDE DEF e
    <2>4. e.kind = "close" /\ e.n = 0 /\ Len(e.out) <= 0
      BY <1>1, <1>2, <1>4, <2>3
    <2>5. Fits(e, dialled)
      BY <1>5, <2>1, <2>3, <2>4, CloseFits
    <2>6. dialled <= dialled' /\ Rest'
      BY <1>5, <1>6, <1>8, <2>2, MishapsTyped DEF Rest, CallsInv, TypeOK
    <2> QED BY <1>6, <2>2, <2>5, <2>6, MishapsTyped, StepKeeps
  <1>9. CASE CloseConnection(p, c)
    <2>1. channel' \in 0..dialled
      BY <1>6 DEF CallsInv, TypeOK
    <2> QED BY <1>1, <1>2, <1>4, <1>6, <1>9, <2>1, CloseConnectionCalls
  <1> QED BY <1>6, <1>7, <1>8, <1>9

LEMMA ClosingCall ==
    ASSUME CallsInv, NEW p \in Calls, call[p].pc \in Closing
    PROVE  call[p].kind = "close" /\ call[p].n = 0
  BY OneCall DEF Shape

LEMMA ChannelClosedCalls ==
    ASSUME CallsInv, NEW p \in Calls, ChannelClosed(p) PROVE CallsInv'
  <1>1. call[p].pc \in Closing /\ CloseConnection(p, call[p]) /\ channel' = None
        /\ UNCHANGED <<connection, conns, dialled>>
    BY DEF ChannelClosed, Closing
  <1>2. channel' \in 0..dialled
    BY <1>1, OneCall DEF None
  <1> QED BY <1>1, <1>2, OneCall, ClosingCall, CloseConnectionCalls

LEMMA ConnectionClosedCalls ==
    ASSUME CallsInv, NEW p \in Calls, ConnectionClosed(p) PROVE CallsInv'
  <1>1. /\ call[p].pc \in Closing /\ Goes(p, Ended(call[p], <<>>))
        /\ conns' \subseteq conns /\ connection' = None /\ connected' = FALSE
        /\ UNCHANGED <<channel, chans, dialled>>
    BY DEF ConnectionClosed, Closing
  <1>2. Fits(Ended(call[p], <<>>), dialled)
    BY <1>1, OneCall, ClosingCall, NothingReported
  <1>3. 0 \in 0..dialled /\ dialled <= dialled
    BY OneCall
  <1>4. dialled <= dialled' /\ Rest'
    <2>1. mishaps' \subseteq {"overlap", "connect", "close"} /\ connected' \in BOOLEAN
      BY <1>1, MishapsTyped
    <2> QED BY <1>1, <1>3, <2>1 DEF Rest, CallsInv, TypeOK, None
  <1> QED BY <1>1, <1>2, <1>4, MishapsTyped, StepKeeps

LEMMA CloseFailsCalls ==
    ASSUME CallsInv, NEW p \in Calls, CloseFails(p) PROVE CallsInv'
  <1>1. /\ call[p].pc \in Closing /\ call' = [call EXCEPT ![p] = Ended(call[p], <<>>)]
        /\ mishaps' \subseteq {"overlap", "connect", "close"}
        /\ UNCHANGED <<connection, channel, connected, conns, chans, dialled>>
    BY DEF CloseFails, CallsInv, TypeOK
  <1>2. Fits(Ended(call[p], <<>>), dialled)
    BY <1>1, OneCall, ClosingCall, NothingReported
  <1> QED BY <1>1, <1>2, GoesOn

LEMMA CallsNext == ASSUME CallsInv, [Next]_vars PROVE CallsInv'
  <1>1. ASSUME NEW p \in Calls,
               Publish(p) \/ PublishBatch(p) \/ EnableConfirms(p)
        PROVE  CallsInv'
    <2>1. /\ \A n \in 0..MaxBatch : n \in 0..(MaxBatch + 1)
          /\ 0 \in 0..(MaxBatch + 1) /\ 1 \in 0..(MaxBatch + 1)
      BY RabbitAssumption
    <2>2. CASE Publish(p)
      BY <2>1, <2>2, StartCalls DEF Publish
    <2>3. CASE PublishBatch(p)
      BY <2>1, <2>3, StartCalls DEF PublishBatch
    <2>4. CASE EnableConfirms(p)
      BY <2>1, <2>4, StartCalls DEF EnableConfirms
    <2> QED BY <1>1, <2>2, <2>3, <2>4
  <1>2. CASE Lose
    <2>1. /\ conns' \subseteq conns /\ chans' \subseteq chans
          /\ UNCHANGED <<connection, channel, connected, dialled, call, mishaps>>
      BY <1>2 DEF Lose
    <2> QED BY <2>1 DEF CallsInv, TypeOK
  <1>3. CASE UNCHANGED vars
    BY <1>3 DEF vars, CallsInv, TypeOK
  <1> QED
    BY <1>1, <1>2, <1>3, DialedCalls, ChannelOpenedCalls, PrefetchedCalls, AssertedCalls,
       ConnectFailsCalls, SendCalls, LoopCalls, ConfirmedCalls, CloseCalls, ChannelClosedCalls,
       ConnectionClosedCalls, CloseFailsCalls
    DEF Next

LEMMA CallsHold == Spec => []CallsInv
  <1>1. CallsInv /\ [Next]_vars => CallsInv'
    BY CallsNext
  <1> QED BY CallsInit, <1>1, PTL DEF Spec

(* Every reference is null or a connection that was made, and no batch     *)
(* publishes more than its messages.                                       *)
THEOREM RabbitTypes == Spec => []TypeOK
  <1>1. CallsInv => TypeOK
    BY DEF CallsInv
  <1> QED BY CallsHold, <1>1, PTL

(* A publish and a batch report one outcome per message, never success of  *)
(* one the channel did not take, whatever happened to the connection.      *)
THEOREM RabbitReports == Spec => []ReportsOutcomes
  <1>1. CallsInv => ReportsOutcomes
    BY DEF CallsInv, Shape, Reported, ReportsOutcomes
  <1> QED BY CallsHold, <1>1, PTL

-----------------------------------------------------------------------------
(* The connection, as long as no connect or close overlapped another.      *)

(* One call at a time connects or closes; it connects only while the flag  *)
(* is down, and closes the connection that the adapter holds.              *)
Alone == /\ \A p, q \in Calls : p # q /\ call[p].pc \in LifeCycle => call[q].pc \notin LifeCycle
         /\ \A p \in Calls : call[p].pc \in {"dial"} \cup Connecting => ~connected
         /\ \A p \in Calls : call[p].pc = "closeConn" => call[p].conn = connection

(* While no connect has failed half-way: what is open at the broker.       *)
Held == /\ conns \subseteq {connection}
        /\ ~connected /\ (\A p \in Calls : call[p].pc \notin Connecting) => conns = {}

(* While no close has failed half-way: what the flag stands for, and the   *)
(* steps of connect() on their way to it.                                  *)
Ready == /\ \A p \in Calls : call[p].pc \in Connecting => connection # None
         /\ \A p \in Calls : call[p].pc = "chan" => call[p].conn = connection
         /\ \A p \in Calls : call[p].pc \in {"prefetch", "assert"} => channel = connection
         /\ connected /\ (\A p \in Calls : call[p].pc \notin Closing)
               => channel # None /\ channel = connection

LifeInv == "overlap" \notin mishaps =>
              /\ Alone
              /\ "connect" \notin mishaps => Held
              /\ "close" \notin mishaps => Ready

(* The stage of a call after each kind of step.                            *)
LEMMA NextStage ==
    ASSUME NEW c \in CallState
    PROVE  /\ \A res : Ended(c, res).pc = "done"
           /\ \A o : Noted(c, o).pc \in {"loop", "done"}
           /\ Connect(c).pc = (IF connected THEN "ready" ELSE "dial")
  BY DEF Ended, Noted, Connect, CallState

LEMMA QuietStages == \A s \in {"idle", "ready", "loop", "confirm", "done"} :
                        s \notin LifeCycle /\ s \notin Connecting /\ s \notin Closing
  BY Stages DEF Connecting, Closing

(* A step of call p alone, in the notation of its two stages.              *)
LEMMA Others ==
    ASSUME CallsInv, NEW p \in Calls, NEW c, call' = [call EXCEPT ![p] = c]
    PROVE  call'[p] = c /\ \A q \in Calls : q # p => call'[q] = call[q]
  BY DEF CallsInv, TypeOK

LEMMA GoesAlone ==
    ASSUME CallsInv, LifeInv, NEW p \in Calls, NEW c, Goes(p, c), "overlap" \notin mishaps'
    PROVE  /\ mishaps' = mishaps /\ Alone
           /\ c.pc \in LifeCycle => \A q \in Calls : q # p => call[q].pc \notin LifeCycle
           /\ call[p].pc \in LifeCycle => \A q \in Calls : q # p => call[q].pc \notin LifeCycle
  BY DEF Goes, LifeInv, Alone, Busy

(* A call that neither is nor comes to be connecting or closing.           *)
LEMMA QuietLife ==
    ASSUME CallsInv, LifeInv, NEW p \in Calls, NEW c, Goes(p, c),
           call[p].pc \notin LifeCycle, c.pc \notin LifeCycle,
           UNCHANGED <<connection, channel, connected, conns, chans, dialled>>
    PROVE  LifeInv'
  <1> SUFFICES ASSUME "overlap" \notin mishaps'
               PROVE  Alone' /\ ("connect" \notin mishaps' => Held') /\ ("close" \notin mishaps' => Ready')
    BY DEF LifeInv
  <1>1. mishaps' = mishaps /\ call'[p] = c /\ \A q \in Calls : q # p => call'[q] = call[q]
    BY GoesAlone, Others DEF Goes
  <1>2. \A q \in Calls : \/ call'[q] = call[q]
                         \/ call[q].pc \notin LifeCycle /\ call'[q].pc \notin LifeCycle
    BY <1>1
  <1>3. \A s \in {"dial", "closeConn", "chan", "prefetch", "assert"} \cup Connecting \cup Closing :
           s \in LifeCycle
    BY Stages DEF Connecting, Closing
  <1>4. Alone /\ ("connect" \notin mishaps' => Held) /\ ("close" \notin mishaps' => Ready)
    BY <1>1 DEF LifeInv
  <1>5. Alone'
    BY <1>2, <1>3, <1>4 DEF Alone
  <1>6. ASSUME "connect" \notin mishaps' PROVE Held'
    BY <1>2, <1>3, <1>4, <1>6 DEF Held
  <1>7. ASSUME "close" \notin mishaps' PROVE Ready'
    BY <1>2, <1>3, <1>4, <1>7 DEF Ready
  <1> QED BY <1>5, <1>6, <1>7

LEMMA LoudStages ==
    /\ \A s \in {"dial", "closeConn", "chan", "prefetch", "assert"} \cup Connecting \cup Closing :
          s \in LifeCycle
    /\ "dial" \notin Connecting /\ "dial" \notin Closing
    /\ \A s \in {"chan", "prefetch", "assert"} : s \in Connecting /\ s \notin Closing
    /\ \A s \in Closing : s \notin Connecting /\ s # "dial"
    /\ "closeChan" \in Closing /\ "closeConn" \in Closing
  BY Stages DEF Connecting, Closing

(* connect() begins: nobody connects or closes, and the flag is down.      *)
LEMMA DialLife ==
    ASSUME CallsInv, LifeInv, NEW p \in Calls, NEW c, Goes(p, c), c.pc = "dial", ~connected,
           call[p].pc \notin LifeCycle,
           UNCHANGED <<connection, channel, connected, conns, chans, dialled>>
    PROVE  LifeInv'
  <1> SUFFICES ASSUME "overlap" \notin mishaps'
               PROVE  Alone' /\ ("connect" \notin mishaps' => Held') /\ ("close" \notin mishaps' => Ready')
    BY DEF LifeInv
  <1>1. mishaps' = mishaps /\ call'[p] = c /\ \A q \in Calls : q # p => call'[q] = call[q]
    BY GoesAlone, Others DEF Goes
  <1>2. \A q \in Calls : q # p => call'[q] = call[q] /\ call[q].pc \notin LifeCycle
    BY <1>1, GoesAlone, LoudStages
  <1>3. Alone /\ ("connect" \notin mishaps' => Held) /\ ("close" \notin mishaps' => Ready)
    BY <1>1 DEF LifeInv
  <1>4. Alone'
    BY <1>1, <1>2, LoudStages DEF Alone
  <1>5. ASSUME "connect" \notin mishaps' PROVE Held'
    BY <1>1, <1>2, <1>3, <1>5, LoudStages DEF Held
  <1>6. Ready'
    BY <1>1, <1>2, LoudStages DEF Ready
  <1> QED BY <1>4, <1>5, <1>6

(* A step of connect(): p alone connects.                                  *)
LEMMA DialedLife ==
    ASSUME CallsInv, LifeInv, NEW p \in Calls, Dialed(p) PROVE LifeInv'
  <1> SUFFICES ASSUME "overlap" \notin mishaps'
               PROVE  Alone' /\ ("connect" \notin mishaps' => Held') /\ ("close" \notin mishaps' => Ready')
    BY DEF LifeInv
  <1> DEFINE c == [call[p] EXCEPT !.pc = "chan", !.conn = dialled']
  <1>1. /\ call[p].pc = "dial" /\ Goes(p, c) /\ connection' = dialled'
        /\ conns' = conns \cup {dialled'} /\ UNCHANGED <<channel, connected, chans>>
    BY DEF Dialed
  <1>2. c.pc = "chan" /\ c.conn = dialled'
    BY OneCall DEF CallState
  <1>3. dialled' # None
    BY OneCall DEF Dialed, None
  <1> HIDE DEF c
  <1>4. mishaps' = mishaps /\ call'[p] = c /\ Alone
        /\ \A q \in Calls : q # p => call'[q] = call[q] /\ call[q].pc \notin LifeCycle
    BY <1>1, GoesAlone, Others, LoudStages DEF Goes
  <1>5. ~connected
    BY <1>1, <1>4 DEF Alone
  <1>6. Alone'
    BY <1>1, <1>2, <1>4, <1>5, LoudStages DEF Alone
  <1>7. ASSUME "connect" \notin mishaps' PROVE Held'
    <2>1. Held
      BY <1>4, <1>7 DEF LifeInv
    <2>2. \A q \in Calls : call[q].pc \notin Connecting
      BY <1>1, <1>4, LoudStages
    <2>3. conns' = {connection'} /\ call'[p].pc \in Connecting
      BY <1>1, <1>2, <1>4, <1>5, <2>1, <2>2, LoudStages DEF Held
    <2> QED BY <2>3 DEF Held
  <1>8. Ready'
    BY <1>1, <1>2, <1>3, <1>4, <1>5, LoudStages DEF Ready
  <1> QED BY <1>6, <1>7, <1>8

LEMMA ChannelOpenedLife ==
    ASSUME CallsInv, LifeInv, NEW p \in Calls, ChannelOpened(p) PROVE LifeInv'
  <1> SUFFICES ASSUME "overlap" \notin mishaps'
               PROVE  Alone' /\ ("connect" \notin mishaps' => Held') /\ ("close" \notin mishaps' => Ready')
    BY DEF LifeInv
  <1> DEFINE c == [call[p] EXCEPT !.pc = "prefetch"]
  <1>1. /\ call[p].pc = "chan" /\ Goes(p, c) /\ channel' = call[p].conn
        /\ UNCHANGED <<connection, connected, conns, dialled>>
    BY DEF ChannelOpened
  <1>2. c.pc = "prefetch" /\ c.conn = call[p].conn
    BY OneCall DEF CallState
  <1> HIDE DEF c
  <1>3. mishaps' = mishaps /\ call'[p] = c /\ Alone
        /\ \A q \in Calls : q # p => call'[q] = call[q] /\ call[q].pc \notin LifeCycle
    BY <1>1, GoesAlone, Others, LoudStages DEF Goes
  <1>4. ~connected
    BY <1>1, <1>3, LoudStages DEF Alone
  <1>5. Alone'
    BY <1>1, <1>2, <1>3, <1>4, LoudStages DEF Alone
  <1>6. ASSUME "connect" \notin mishaps' PROVE Held'
    <2>1. Held
      BY <1>3, <1>6 DEF LifeInv
    <2> QED BY <1>1, <1>2, <1>3, <2>1, LoudStages DEF Held
  <1>7. ASSUME "close" \notin mishaps' PROVE Ready'
    <2>1. Ready
      BY <1>3, <1>7 DEF LifeInv
    <2> QED BY <1>1, <1>2, <1>3, <1>4, <2>1, LoudStages DEF Ready
  <1> QED BY <1>5, <1>6, <1>7

LEMMA PrefetchedLife ==
    ASSUME CallsInv, LifeInv, NEW p \in Calls, Prefetched(p) PROVE LifeInv'
  <1> SUFFICES ASSUME "overlap" \notin mishaps'
               PROVE  Alone' /\ ("connect" \notin mishaps' => Held') /\ ("close" \notin mishaps' => Ready')
    BY DEF LifeInv
  <1> DEFINE c == [call[p] EXCEPT !.pc = "assert", !.conn = channel]
  <1>1. /\ call[p].pc = "prefetch" /\ Goes(p, c)
        /\ UNCHANGED <<connection, channel, connected, conns, dialled>>
    BY DEF Prefetched
  <1>2. c.pc = "assert"
    BY OneCall DEF CallState
  <1> HIDE DEF c
  <1>3. mishaps' = mishaps /\ call'[p] = c /\ Alone
        /\ \A q \in Calls : q # p => call'[q] = call[q] /\ call[q].pc \notin LifeCycle
    BY <1>1, GoesAlone, Others, LoudStages DEF Goes
  <1>4. ~connected
    BY <1>1, <1>3, LoudStages DEF Alone
  <1>5. Alone'
    BY <1>1, <1>2, <1>3, <1>4, LoudStages DEF Alone
  <1>6. ASSUME "connect" \notin mishaps' PROVE Held'
    <2>1. Held
      BY <1>3, <1>6 DEF LifeInv
    <2> QED BY <1>1, <1>2, <1>3, <2>1, LoudStages DEF Held
  <1>7. ASSUME "close" \notin mishaps' PROVE Ready'
    <2>1. Ready
      BY <1>3, <1>7 DEF LifeInv
    <2> QED BY <1>1, <1>2, <1>3, <1>4, <2>1, LoudStages DEF Ready
  <1> QED BY <1>5, <1>6, <1>7

LEMMA AssertedLife ==
    ASSUME CallsInv, LifeInv, NEW p \in Calls, Asserted(p) PROVE LifeInv'
  <1> SUFFICES ASSUME "overlap" \notin mishaps'
               PROVE  Alone' /\ ("connect" \notin mishaps' => Held') /\ ("close" \notin mishaps' => Ready')
    BY DEF LifeInv
  <1> DEFINE c == [call[p] EXCEPT !.pc = "ready", !.conn = None]
  <1>1. /\ call[p].pc = "assert" /\ Goes(p, c) /\ connected' = TRUE
        /\ UNCHANGED <<connection, channel, conns, dialled>>
    BY DEF Asserted
  <1>2. c.pc = "ready" /\ c.pc \notin LifeCycle
    BY OneCall, QuietStages DEF CallState
  <1> HIDE DEF c
  <1>3. mishaps' = mishaps /\ call'[p] = c /\ Alone
        /\ \A q \in Calls : q # p => call'[q] = call[q] /\ call[q].pc \notin LifeCycle
    BY <1>1, GoesAlone, Others, LoudStages DEF Goes
  <1>4. Alone'
    BY <1>2, <1>3, LoudStages DEF Alone
  <1>5. ASSUME "connect" \notin mishaps' PROVE Held'
    <2>1. Held
      BY <1>3, <1>5 DEF LifeInv
    <2> QED BY <1>1, <2>1 DEF Held
  <1>6. ASSUME "close" \notin mishaps' PROVE Ready'
    <2>1. Ready
      BY <1>3, <1>6 DEF LifeInv
    <2>2. channel' # None /\ channel' = connection'
      BY <1>1, <2>1, LoudStages DEF Ready
    <2> QED BY <1>2, <1>3, <2>2, LoudStages DEF Ready
  <1> QED BY <1>4, <1>5, <1>6

(* What a failure leaves: p neither connects nor closes any more.          *)
LEMMA ConnectFailsLife ==
    ASSUME CallsInv, LifeInv, NEW p \in Calls, ConnectFails(p) PROVE LifeInv'
  <1> SUFFICES ASSUME "overlap" \notin mishaps'
               PROVE  Alone' /\ ("connect" \notin mishaps' => Held') /\ ("close" \notin mishaps' => Ready')
    BY DEF LifeInv
  <1> DEFINE c == call'[p]
  <1>1. /\ call[p].pc \in {"dial"} \cup Connecting /\ call[p].pc \in LifeCycle
        /\ mishaps' = (IF call[p].pc = "dial" THEN mishaps ELSE mishaps \cup {"connect"})
        /\ UNCHANGED <<connection, channel, connected, conns, dialled>>
    BY LoudStages DEF ConnectFails
  <1>2. c.pc \in {"loop", "done"} /\ \A q \in Calls : q # p => call'[q] = call[q]
    BY OneCall, NextStage DEF ConnectFails, CallsInv, TypeOK
  <1> HIDE DEF c
  <1>3. c.pc \notin LifeCycle
    BY <1>2, QuietStages
  <1>4. Alone /\ ("close" \notin mishaps' => Ready) /\ ~connected
    BY <1>1 DEF LifeInv, Alone
  <1>5. \A q \in Calls : q # p => call'[q] = call[q] /\ call[q].pc \notin LifeCycle
    BY <1>1, <1>2, <1>4 DEF Alone
  <1>6. Alone'
    BY <1>3, <1>5, LoudStages DEF Alone, c
  <1>7. ASSUME "connect" \notin mishaps' PROVE Held'
    <2>1. Held /\ call[p].pc = "dial"
      BY <1>1, <1>7 DEF LifeInv
    <2>2. conns = {}
      BY <1>4, <1>5, <2>1, LoudStages DEF Held
    <2> QED BY <1>1, <2>2 DEF Held
  <1>8. Ready'
    BY <1>1, <1>3, <1>4, <1>5, LoudStages DEF Ready, c
  <1> QED BY <1>6, <1>7, <1>8

(* close() goes on to the connection, or there is none.                    *)
LEMMA CloseConnectionLife ==
    ASSUME CallsInv, LifeInv, NEW p \in Calls, NEW c \in CallState, CloseConnection(p, c),
           call[p].pc \in {"idle", "closeChan"}, UNCHANGED <<connection, conns>>,
           channel' = None
    PROVE  LifeInv'
  <1> SUFFICES ASSUME "overlap" \notin mishaps'
               PROVE  Alone' /\ ("connect" \notin mishaps' => Held') /\ ("close" \notin mishaps' => Ready')
    BY DEF LifeInv
  <1>1. ASSUME connection # None
        PROVE  Alone' /\ ("connect" \notin mishaps' => Held') /\ ("close" \notin mishaps' => Ready')
    <2> DEFINE e == [c EXCEPT !.pc = "closeConn", !.conn = connection]
    <2>1. Goes(p, e) /\ UNCHANGED connected
      BY <1>1 DEF CloseConnection
    <2>2. e.pc = "closeConn" /\ e.conn = connection
      BY DEF CallState
    <2> HIDE DEF e
    <2>3. mishaps' = mishaps /\ call'[p] = e /\ Alone
          /\ \A q \in Calls : q # p => call'[q] = call[q] /\ call[q].pc \notin LifeCycle
      BY <2>1, <2>2, GoesAlone, Others, LoudStages DEF Goes
    <2>4. Alone'
      BY <2>1, <2>2, <2>3, LoudStages DEF Alone
    <2>5. ASSUME "connect" \notin mishaps' PROVE Held'
      <3>1. Held
        BY <2>3, <2>5 DEF LifeInv
      <3>2. call[p].pc \notin Connecting
        BY LoudStages, QuietStages
      <3> QED BY <2>1, <2>2, <2>3, <3>1, <3>2, LoudStages DEF Held
    <2>6. Ready'
      BY <2>2, <2>3, LoudStages DEF Ready
    <2> QED BY <2>4, <2>5, <2>6
  <1>2. ASSUME connection = None
        PROVE  Alone' /\ ("connect" \notin mishaps' => Held') /\ ("close" \notin mishaps' => Ready')
    <2> DEFINE e == Ended(c, <<>>)
    <2>1. Goes(p, e) /\ connected' = FALSE
      BY <1>2 DEF CloseConnection
    <2>2. e.pc = "done" /\ e.pc \notin LifeCycle
      BY NextStage, QuietStages
    <2> HIDE DEF e
    <2>3. mishaps' = mishaps /\ call'[p] = e /\ Alone
          /\ \A q \in Calls : q # p => call'[q] = call[q]
      BY <2>1, GoesAlone, Others DEF Goes
    <2>4. Alone'
      BY <2>1, <2>2, <2>3, LoudStages DEF Alone
    <2>5. ASSUME "connect" \notin mishaps' PROVE Held'
      <3>1. Held
        BY <2>3, <2>5 DEF LifeInv
      <3>2. None \notin conns
        BY OneCall DEF CallsInv, TypeOK, None
      <3>3. conns = {}
        BY <1>2, <3>1, <3>2 DEF Held
      <3> QED BY <3>3 DEF Held
    <2>6. ASSUME "close" \notin mishaps' PROVE Ready'
      <3>1. Ready
        BY <2>3, <2>6 DEF LifeInv
      <3>2. \A q \in Calls : call[q].pc \notin Connecting /\ call'[q].pc \notin Connecting
        BY <1>2, <2>2, <2>3, <3>1, LoudStages DEF Ready
      <3> QED BY <2>1, <3>2, LoudStages DEF Ready
    <2> QED BY <2>4, <2>5, <2>6
  <1> QED BY <1>1, <1>2

LEMMA ChannelClosedLife ==
    ASSUME CallsInv, LifeInv, NEW p \in Calls, ChannelClosed(p) PROVE LifeInv'
  BY OneCall, CloseConnectionLife DEF ChannelClosed

LEMMA ConnectionClosedLife ==
    ASSUME CallsInv, LifeInv, NEW p \in Calls, ConnectionClosed(p) PROVE LifeInv'
  <1> SUFFICES ASSUME "overlap" \notin mishaps'
               PROVE  Alone' /\ ("connect" \notin mishaps' => Held') /\ ("close" \notin mishaps' => Ready')
    BY DEF LifeInv
  <1> DEFINE c == Ended(call[p], <<>>)
  <1>1. /\ call[p].pc = "closeConn" /\ Goes(p, c) /\ connection' = None /\ connected' = FALSE
        /\ conns' = conns \ {call[p].conn} /\ channel' = channel
    BY DEF ConnectionClosed
  <1>2. c.pc = "done" /\ c.pc \notin LifeCycle
    BY OneCall, NextStage, QuietStages
  <1> HIDE DEF c
  <1>3. mishaps' = mishaps /\ call'[p] = c /\ Alone
        /\ \A q \in Calls : q # p => call'[q] = call[q] /\ call[q].pc \notin LifeCycle
    BY <1>1, GoesAlone, Others, LoudStages DEF Goes
  <1>4. Alone'
    BY <1>2, <1>3, LoudStages DEF Alone
  <1>5. ASSUME "connect" \notin mishaps' PROVE Held'
    <2>1. Held /\ call[p].conn = connection
      BY <1>1, <1>3, <1>5 DEF LifeInv, Alone
    <2> QED BY <1>1, <2>1 DEF Held
  <1>6. Ready'
    BY <1>1, <1>2, <1>3, LoudStages DEF Ready
  <1> QED BY <1>4, <1>5, <1>6

LEMMA CloseFailsLife ==
    ASSUME CallsInv, LifeInv, NEW p \in Calls, CloseFails(p) PROVE LifeInv'
  <1> SUFFICES ASSUME "overlap" \notin mishaps'
               PROVE  Alone' /\ ("connect" \notin mishaps' => Held') /\ ("close" \notin mishaps' => Ready')
    BY DEF LifeInv
  <1>1. /\ call[p].pc \in Closing /\ mishaps' = mishaps \cup {"close"}
        /\ UNCHANGED <<connection, channel, connected, conns, dialled>>
    BY DEF CloseFails
  <1>2. call'[p].pc = "done" /\ call'[p].pc \notin LifeCycle
        /\ \A q \in Calls : q # p => call'[q] = call[q]
    BY OneCall, NextStage, QuietStages DEF CloseFails, CallsInv, TypeOK
  <1>3. Alone
    BY <1>1 DEF LifeInv
  <1>4. Alone'
    BY <1>1, <1>2, <1>3, LoudStages DEF Alone
  <1>5. ASSUME "connect" \notin mishaps' PROVE Held'
    <2>1. Held
      BY <1>1, <1>5 DEF LifeInv
    <2>2. \A q \in Calls : call'[q].pc \notin Connecting => call[q].pc \notin Connecting
      BY <1>1, <1>2, LoudStages
    <2> QED BY <1>1, <2>1, <2>2 DEF Held
  <1> QED BY <1>1, <1>4, <1>5

LEMMA CloseLife ==
    ASSUME CallsInv, LifeInv, NEW p \in Calls, Close(p) PROVE LifeInv'
  <1> DEFINE k == "close" c == [Idle EXCEPT !.kind = k]
  <1>1. k \in {"none", "publish", "batch", "confirms", "close"}
    OBVIOUS
  <1> HIDE DEF k
  <1>2. c \in CallState
    BY <1>1, IdleCall DEF CallState
  <1>3. /\ call[p].pc = "idle" /\ call[p].pc \notin LifeCycle
        /\ UNCHANGED <<connection, channel, conns, dialled>>
        /\ \/ Goes(p, Ended(c, <<>>)) /\ UNCHANGED <<connected, chans>>
           \/ /\ connected /\ channel # None /\ UNCHANGED connected
              /\ Goes(p, [c EXCEPT !.pc = "closeChan", !.conn = channel])
           \/ channel = None /\ CloseConnection(p, c)
    BY QuietStages DEF Close, k
  <1> HIDE DEF c
  <1>4. CASE Goes(p, Ended(c, <<>>)) /\ UNCHANGED <<connected, chans>>
    <2>1. Ended(c, <<>>).pc \notin LifeCycle
      BY <1>2, NextStage, QuietStages
    <2> QED BY <1>3, <1>4, <2>1, QuietLife
  <1>5. CASE /\ connected /\ channel # None /\ UNCHANGED connected
             /\ Goes(p, [c EXCEPT !.pc = "closeChan", !.conn = channel])
    <2> SUFFICES ASSUME "overlap" \notin mishaps'
                 PROVE  Alone' /\ ("connect" \notin mishaps' => Held') /\ ("close" \notin mishaps' => Ready')
      BY DEF LifeInv
    <2> DEFINE e == [c EXCEPT !.pc = "closeChan", !.conn = channel]
    <2>1. e.pc = "closeChan"
      BY <1>2 DEF CallState
    <2>2. Goes(p, e) /\ e.pc \in LifeCycle
      BY <1>5, <2>1, LoudStages
    <2> HIDE DEF e
    <2>3. mishaps' = mishaps /\ call'[p] = e /\ Alone
          /\ \A q \in Calls : q # p => call'[q] = call[q] /\ call[q].pc \notin LifeCycle
      BY <2>1, <2>2, GoesAlone, Others, LoudStages DEF Goes
    <2>4. Alone'
      BY <1>3, <1>5, <2>1, <2>3, LoudStages DEF Alone
    <2>5. ASSUME "connect" \notin mishaps' PROVE Held'
      <3>1. Held
        BY <2>3, <2>5 DEF LifeInv
      <3> QED BY <1>3, <1>5, <3>1 DEF Held
    <2>6. Ready'
      BY <1>3, <1>5, <2>1, <2>3, LoudStages DEF Ready
    <2> QED BY <2>4, <2>5, <2>6
  <1>6. CASE channel = None /\ CloseConnection(p, c)
    BY <1>2, <1>3, <1>6, CloseConnectionLife
  <1> QED BY <1>3, <1>4, <1>5, <1>6

(* A call that connects first, if the adapter is not connected.            *)
LEMMA ConnectLife ==
    ASSUME CallsInv, LifeInv, NEW p \in Calls, NEW c \in CallState, Goes(p, Connect(c)),
           call[p].pc \notin LifeCycle,
           UNCHANGED <<connection, channel, connected, conns, chans, dialled>>
    PROVE  LifeInv'
  <1>1. CASE connected
    <2>1. Connect(c).pc \notin LifeCycle
      BY <1>1, NextStage, QuietStages
    <2> QED BY <2>1, QuietLife
  <1>2. CASE ~connected
    BY <1>2, NextStage, DialLife
  <1> QED BY <1>1, <1>2, OneCall DEF CallsInv, TypeOK

LEMMA StartLife ==
    ASSUME CallsInv, LifeInv, NEW p \in Calls, NEW k \in {"publish", "batch", "confirms"},
           NEW n \in 0..(MaxBatch + 1), Start(p, k, n)
    PROVE  LifeInv'
  <1> DEFINE b == (k = "publish") c == [Idle EXCEPT !.kind = k, !.n = n, !.inner = b]
  <1>1. b \in BOOLEAN
    OBVIOUS
  <1>2. /\ call[p].pc \notin LifeCycle /\ Goes(p, Connect(c))
        /\ UNCHANGED <<connection, channel, connected, conns, chans, dialled>>
    BY QuietStages DEF Start
  <1> HIDE DEF b
  <1>3. c \in CallState
    BY <1>1, IdleCall DEF CallState
  <1> HIDE DEF c
  <1> QED BY <1>2, <1>3, ConnectLife

LEMMA LoopLife ==
    ASSUME CallsInv, LifeInv, NEW p \in Calls, Loop(p) PROVE LifeInv'
  <1> DEFINE c == call[p] b == TRUE e == [c EXCEPT !.inner = b] s == "confirm"
  <1>1. /\ call[p].pc \notin LifeCycle
        /\ UNCHANGED <<connection, channel, connected, conns, chans, dialled>>
        /\ \/ Goes(p, Connect(e)) \/ Goes(p, [c EXCEPT !.pc = s]) \/ Goes(p, Ended(c, c.out))
    BY QuietStages DEF Loop
  <1>2. c \in CallState /\ b \in BOOLEAN /\ s \in PCs /\ s \notin LifeCycle
    BY OneCall, Stages, QuietStages
  <1> HIDE DEF c, b, s
  <1>3. e \in CallState /\ [c EXCEPT !.pc = s].pc = s
    BY <1>2, InnerMoved DEF CallState
  <1> HIDE DEF e
  <1>4. Ended(c, c.out).pc \notin LifeCycle
    BY <1>2, NextStage, QuietStages
  <1> QED BY <1>1, <1>2, <1>3, <1>4, ConnectLife, QuietLife

LEMMA SendLife ==
    ASSUME CallsInv, LifeInv, NEW p \in Calls, Send(p) PROVE LifeInv'
  <1>1. PICK o : Goes(p, Noted(call[p], o))
    BY DEF Send
  <1>2. call[p].pc \notin LifeCycle /\ Noted(call[p], o).pc \notin LifeCycle
    BY OneCall, NextStage, QuietStages DEF Send
  <1> QED BY <1>1, <1>2, QuietLife DEF Send

LEMMA ConfirmedLife ==
    ASSUME CallsInv, LifeInv, NEW p \in Calls, Confirmed(p) PROVE LifeInv'
  <1>1. PICK res : Goes(p, Ended(call[p], res))
    BY DEF Confirmed
  <1>2. call[p].pc \notin LifeCycle /\ Ended(call[p], res).pc \notin LifeCycle
    BY OneCall, NextStage, QuietStages DEF Confirmed
  <1> QED BY <1>1, <1>2, QuietLife DEF Confirmed

LEMMA LifeNext == ASSUME CallsInv, LifeInv, [Next]_vars PROVE LifeInv'
  <1>1. ASSUME NEW p \in Calls, Publish(p) \/ PublishBatch(p) \/ EnableConfirms(p)
        PROVE  LifeInv'
    <2>1. /\ \A n \in 0..MaxBatch : n \in 0..(MaxBatch + 1)
          /\ 0 \in 0..(MaxBatch + 1) /\ 1 \in 0..(MaxBatch + 1)
      BY RabbitAssumption
    <2> QED BY <1>1, <2>1, StartLife DEF Publish, PublishBatch, EnableConfirms
  <1>2. CASE Lose
    <2>1. conns' \subseteq conns /\ UNCHANGED <<connection, channel, connected, call, mishaps>>
      BY <1>2 DEF Lose
    <2> QED BY <2>1 DEF LifeInv, Alone, Held, Ready
  <1>3. CASE UNCHANGED vars
    BY <1>3 DEF vars, LifeInv, Alone, Held, Ready
  <1> QED
    BY <1>1, <1>2, <1>3, DialedLife, ChannelOpenedLife, PrefetchedLife, AssertedLife,
       ConnectFailsLife, SendLife, LoopLife, ConfirmedLife, CloseLife, ChannelClosedLife,
       ConnectionClosedLife, CloseFailsLife
    DEF Next

LEMMA LifeInit == Init => LifeInv
  <1> SUFFICES ASSUME Init PROVE LifeInv
    OBVIOUS
  <1>1. \A p \in Calls : call[p].pc = "idle"
    BY IdleCall DEF Init
  <1> QED BY <1>1, QuietStages, LoudStages DEF Init, LifeInv, Alone, Held, Ready

LEMMA LifeHolds == Spec => [](CallsInv /\ LifeInv)
  <1>1. Init => CallsInv /\ LifeInv
    BY CallsInit, LifeInit
  <1>2. (CallsInv /\ LifeInv) /\ [Next]_vars => (CallsInv /\ LifeInv)'
    BY CallsNext, LifeNext
  <1> QED BY <1>1, <1>2, PTL DEF Spec

(* As long as no connect or close overlapped another and no connect failed *)
(* half-way, the adapter holds whatever connection is open at the broker.  *)
THEOREM RabbitHoldsConnection == Spec => []NothingLeaks
  <1>1. LifeInv => NothingLeaks
    BY DEF LifeInv, Held, NothingLeaks
  <1> QED BY LifeHolds, <1>1, PTL

(* As long as no connect or close overlapped another and no close failed   *)
(* half-way, an adapter that is connected has the channel of its           *)
(* connection.                                                             *)
THEOREM RabbitUsable == Spec => []UsableWhenConnected
  <1>1. LifeInv => UsableWhenConnected
    BY DEF LifeInv, Ready, UsableWhenConnected
  <1> QED BY LifeHolds, <1>1, PTL
=============================================================================
