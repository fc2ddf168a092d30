------------------------ MODULE EmergencyCommandProofs ------------------------
(***************************************************************************)
(* The order in which the car executes commands, for every number of pages,*)
(* requests, connections and commands, and every capacity of the broadcast.*)
(***************************************************************************)
EXTENDS EmergencyCommand, SequenceTheorems, TLAPS

LEMMA ConstantFacts == BroadcastCap \in Nat \ {0} /\ MaxCommands \in Nat
BY ConstantsAssumption

(***************************************************************************)
(* Sequences of commands                                                   *)
(***************************************************************************)

Increasing(s) == \A i, j \in DOMAIN s : i < j => s[i] < s[j]
Below(s, n) == \A i \in DOMAIN s : s[i] < n      \* all of s come before n
Above(n, s) == \A i \in DOMAIN s : n < s[i]
Before(s, t) == \A i \in DOMAIN s, j \in DOMAIN t : s[i] < t[j]

LEMMA AppendKeeps ==
  ASSUME NEW s \in Seq(Nat), NEW n \in Nat, Increasing(s), Below(s, n)
  PROVE  Append(s, n) \in Seq(Nat) /\ Increasing(Append(s, n))
BY DEF Increasing, Below

LEMMA AppendBelow ==
  ASSUME NEW s \in Seq(Nat), NEW n \in Nat, NEW m \in Nat, Below(s, m), n < m
  PROVE  Below(Append(s, n), m)
BY DEF Below

LEMMA AppendAbove ==
  ASSUME NEW s \in Seq(Nat), NEW n \in Nat, NEW m \in Nat, Above(m, s), m < n
  PROVE  Above(m, Append(s, n))
BY DEF Above

LEMMA TailKeeps ==
  ASSUME NEW s \in Seq(Nat), s # <<>>, Increasing(s)
  PROVE  /\ Head(s) \in Nat /\ Tail(s) \in Seq(Nat)
         /\ Increasing(Tail(s)) /\ Above(Head(s), Tail(s))
<1>1. /\ Head(s) = s[1] /\ Head(s) \in Nat /\ Tail(s) \in Seq(Nat)
      /\ Len(s) \in Nat \ {0} /\ Len(Tail(s)) = Len(s) - 1
      /\ \A i \in 1..Len(Tail(s)) : Tail(s)[i] = s[i + 1]
  BY HeadTailProperties
<1>2. \A i \in DOMAIN Tail(s) : i + 1 \in DOMAIN s /\ i + 1 > 1 /\ Tail(s)[i] = s[i + 1]
  BY <1>1
<1>3. 1 \in DOMAIN s /\ DOMAIN Tail(s) \subseteq Int
  BY <1>1
<1>4. ASSUME NEW i \in DOMAIN Tail(s), NEW j \in DOMAIN Tail(s), i < j
      PROVE  Tail(s)[i] < Tail(s)[j]
  <2>1. i + 1 < j + 1
    BY <1>3, <1>4
  <2> QED BY <1>2, <2>1 DEF Increasing
<1>5. ASSUME NEW i \in DOMAIN Tail(s) PROVE Head(s) < Tail(s)[i]
  BY <1>1, <1>2, <1>3 DEF Increasing
<1> QED BY <1>1, <1>4, <1>5 DEF Increasing, Above

\* What is read or kept of a wire was on it.
LEMMA TailElements ==
  ASSUME NEW s \in Seq(Nat), s # <<>>
  PROVE  /\ 1 \in DOMAIN s /\ Head(s) = s[1]
         /\ \A i \in DOMAIN Tail(s) : \E j \in DOMAIN s : Tail(s)[i] = s[j]
<1>1. /\ Head(s) = s[1] /\ Tail(s) \in Seq(Nat)
      /\ Len(s) \in Nat \ {0} /\ Len(Tail(s)) = Len(s) - 1
      /\ \A i \in 1..Len(Tail(s)) : Tail(s)[i] = s[i + 1]
  BY HeadTailProperties
<1>2. DOMAIN s = 1..Len(s) /\ DOMAIN Tail(s) = 1..Len(Tail(s))
  BY <1>1
<1> QED BY <1>1, <1>2

LEMMA PrefixKeeps ==
  ASSUME NEW s \in Seq(Nat), NEW n \in 0..Len(s), Increasing(s)
  PROVE  /\ SubSeq(s, 1, n) \in Seq(Nat) /\ Increasing(SubSeq(s, 1, n))
         /\ \A i \in DOMAIN SubSeq(s, 1, n) : i \in DOMAIN s /\ SubSeq(s, 1, n)[i] = s[i]
<1> DEFINE p == SubSeq(s, 1, n)
<1>1. p \in Seq(Nat) /\ Len(p) = n /\ \A i \in 1..n : p[i] = s[i]
  BY SubSeqProperties
<1>2. DOMAIN p = 1..n /\ DOMAIN s = 1..Len(s) /\ Len(s) \in Nat
  BY <1>1
<1> HIDE DEF p
<1>3. /\ Increasing(p) /\ \A i \in DOMAIN p : i \in DOMAIN s /\ p[i] = s[i]
  BY <1>1, <1>2 DEF Increasing
<1> QED BY <1>1, <1>3 DEF p

(***************************************************************************)
(* The inductive invariant                                                 *)
(***************************************************************************)

CallType ==
  /\ call \in [Calls -> [page : Pages \cup {NoPage}, kind : Kinds,
                        at : {"free", "sent", "ok", "error"}]]
  /\ accepted \in Seq([kind : Kinds, page : Pages \cup {NoPage}])

LineType ==
  /\ conn \in [Conns -> {"none", "backlog", "up", "broken", "gone"}]
  /\ task \in [Conns -> Nat]
  /\ wire \in [Conns -> Seq(Nat)]
  /\ hand = Nothing \/ hand \in [cmd : Nat, buses : {BusOrder, Tail(BusOrder)}]
  /\ executed \in [Buses -> Seq(Nat)]

\* What is still to come on a connection is not before its limit.
NextCommand == Len(accepted) + 1
LimitOf(c) == IF conn[c] = "up" THEN task[c] ELSE NextCommand

Line(c) ==
  /\ task[c] <= NextCommand
  /\ conn[c] \notin {"up", "broken"} => wire[c] = <<>>
  /\ Increasing(wire[c]) /\ Below(wire[c], LimitOf(c))

\* The edge waits for its old reader: one connection at a time.
Live(c) == conn[c] \in {"backlog", "up", "broken"}
OneReader == \A c, d \in Conns : Live(c) /\ Live(d) => c = d

OnBuses ==
  \A b \in Buses :
    /\ Increasing(executed[b]) /\ Below(executed[b], NextCommand)
    /\ \A c \in Conns : Below(executed[b], LimitOf(c)) /\ Before(executed[b], wire[c])

Pending == IF hand.buses = BusOrder THEN Buses ELSE {"can1"}
InHand ==
  hand # Nothing =>
    /\ hand.cmd < NextCommand
    /\ \A c \in Conns : hand.cmd < LimitOf(c) /\ Above(hand.cmd, wire[c])
    /\ \A b \in Buses : Below(executed[b], IF b \in Pending THEN hand.cmd ELSE hand.cmd + 1)

IInv ==
  /\ CallType /\ LineType
  /\ \A c \in Conns : Line(c)
  /\ OneReader /\ OnBuses /\ InHand

LEMMA Facts ==
  ASSUME IInv
  PROVE  /\ Len(accepted) \in Nat /\ NextCommand \in Nat
         /\ \A c \in Conns : /\ LimitOf(c) \in Nat /\ LimitOf(c) <= NextCommand
                            /\ wire[c] \in Seq(Nat) /\ task[c] \in Nat
         /\ \A b \in Buses : executed[b] \in Seq(Nat)
BY DEF IInv, CallType, LineType, Line, LimitOf, NextCommand

LEMMA InvInit == Init => IInv
<1> SUFFICES ASSUME Init PROVE IInv
  OBVIOUS
<1>1. CallType
  BY DEF Init, CallType, Free, Kinds
<1>2. LineType
  BY DEF Init, LineType
<1>3. \A c \in Conns : Line(c)
  BY DEF Init, Line, LimitOf, NextCommand, Increasing, Below
<1>4. OneReader
  BY DEF Init, OneReader, Live
<1>5. OnBuses
  BY DEF Init, OnBuses, Increasing, Below, Before
<1>6. InHand
  BY DEF Init, InHand
<1> QED BY <1>1, <1>2, <1>3, <1>4, <1>5, <1>6 DEF IInv

\* What adds no command to a wire or a bus: wires lose commands, limits only rise.
LEMMA QuietKeeps ==
  ASSUME IInv, CallType', LineType', OneReader',
         Len(accepted') >= Len(accepted),
         executed' = executed, hand' \in {hand, Nothing},
         \A c \in Conns :
           /\ task'[c] <= NextCommand'
           /\ LimitOf(c)' >= LimitOf(c)
           /\ conn'[c] \notin {"up", "broken"} => wire'[c] = <<>>
           /\ Increasing(wire'[c])
           /\ \A i \in DOMAIN wire'[c] : \E j \in DOMAIN wire[c] : wire'[c][i] = wire[c][j]
  PROVE  IInv'
<1>1. /\ Len(accepted) \in Nat /\ Len(accepted') \in Nat
      /\ NextCommand \in Nat /\ NextCommand' \in Nat /\ NextCommand' >= NextCommand
  BY Facts DEF CallType, NextCommand
<1>2. \A c \in Conns : LimitOf(c) \in Nat /\ LimitOf(c)' \in Nat
  BY <1>1, Facts DEF LineType, LimitOf
<1>3. ASSUME NEW c \in Conns PROVE Line(c)'
  <2>1. Below(wire'[c], LimitOf(c)')
    <3> SUFFICES ASSUME NEW i \in DOMAIN wire'[c] PROVE wire'[c][i] < LimitOf(c)'
      BY DEF Below
    <3>1. PICK j \in DOMAIN wire[c] : wire'[c][i] = wire[c][j]
      OBVIOUS
    <3>2. wire[c][j] < LimitOf(c) /\ wire[c][j] \in Nat
      BY Facts, ElementOfSeq DEF IInv, Line, Below
    <3> QED BY <1>2, <3>1, <3>2
  <2> QED BY <2>1 DEF Line
<1>4. OnBuses'
  <2> SUFFICES ASSUME NEW b \in Buses
               PROVE  /\ Increasing(executed[b]) /\ Below(executed[b], NextCommand')
                      /\ \A c \in Conns : /\ Below(executed[b], LimitOf(c)')
                                         /\ Before(executed[b], wire'[c])
    BY DEF OnBuses
  <2>1. \A i \in DOMAIN executed[b] : executed[b][i] \in Nat
    BY Facts, ElementOfSeq
  <2>2. Increasing(executed[b]) /\ Below(executed[b], NextCommand')
    BY <1>1, <2>1 DEF IInv, OnBuses, Below
  <2>3. ASSUME NEW c \in Conns PROVE Below(executed[b], LimitOf(c)')
    BY <1>2, <2>1 DEF IInv, OnBuses, Below
  <2>4. ASSUME NEW c \in Conns PROVE Before(executed[b], wire'[c])
    BY DEF IInv, OnBuses, Before
  <2> QED BY <2>2, <2>3, <2>4
<1>5. InHand'
  <2> SUFFICES ASSUME hand # Nothing, hand' = hand PROVE InHand'
    BY DEF InHand
  <2>1. hand.cmd \in Nat
    BY DEF IInv, LineType
  <2>2. hand.cmd < NextCommand'
    BY <1>1, <2>1 DEF IInv, InHand
  <2>3. ASSUME NEW c \in Conns PROVE hand.cmd < LimitOf(c)' /\ Above(hand.cmd, wire'[c])
    BY <1>2, <2>1 DEF IInv, InHand, Above
  <2> QED BY <2>2, <2>3 DEF IInv, InHand, Pending
<1> QED BY <1>3, <1>4, <1>5 DEF IInv

(***************************************************************************)
(* Steps of pages and requests                                             *)
(***************************************************************************)

LEMMA WebKeeps ==
  ASSUME IInv, CallType', Len(accepted') >= Len(accepted),
         UNCHANGED <<conn, task, wire, hand, executed>>
  PROVE  IInv'
<1>1. LineType' /\ OneReader'
  BY DEF IInv, LineType, OneReader, Live
<1>2. /\ Len(accepted) \in Nat /\ Len(accepted') \in Nat
  BY Facts DEF CallType
<1>3. ASSUME NEW c \in Conns
      PROVE  task'[c] <= NextCommand' /\ LimitOf(c)' >= LimitOf(c)
  BY <1>2, Facts DEF IInv, Line, NextCommand, LimitOf
<1>4. ASSUME NEW c \in Conns
      PROVE  /\ conn'[c] \notin {"up", "broken"} => wire'[c] = <<>>
             /\ Increasing(wire'[c])
  BY DEF IInv, Line
<1> QED BY <1>1, <1>3, <1>4, QuietKeeps

LEMMA ButtonKeeps ==
  ASSUME NEW p \in Pages
  PROVE  IInv /\ Button(p) => IInv'
<1> SUFFICES ASSUME IInv, Button(p) PROVE IInv'
  OBVIOUS
<1>1. UNCHANGED <<accepted, conn, task, wire, hand, executed>>
  BY DEF Button, OpenModal, CloseModal, Confirm, TimerFires, Reload, serverVars, carVars
<1>2. Len(accepted') >= Len(accepted)
  BY <1>1, Facts
<1>3. CallType'
  <2>1. CASE UNCHANGED call
    BY <1>1, <2>1 DEF IInv, CallType
  <2>2. CASE Confirm(p)
    BY <1>1, <2>2 DEF Confirm, Offered, Kinds, IInv, CallType
  <2>3. CASE Reload(p)
    BY <1>1, <2>3 DEF Reload, Free, Kinds, IInv, CallType
  <2> QED BY <2>1, <2>2, <2>3 DEF Button, OpenModal, CloseModal, TimerFires
<1> QED BY <1>1, <1>2, <1>3, WebKeeps

LEMMA RequestKeeps ==
  ASSUME NEW r \in Calls
  PROVE  IInv /\ Request(r) => IInv'
<1> SUFFICES ASSUME IInv, Request(r) PROVE IInv'
  OBVIOUS
<1>1. UNCHANGED <<conn, task, wire, hand, executed>>
  BY DEF Request, Success, Failure, Handle, Refuse, ReplyLost, serverVars, carVars
<1>2. CASE Handle(r)
  <2>1. /\ accepted' = Append(accepted, [kind |-> call[r].kind, page |-> call[r].page])
        /\ call' = [call EXCEPT ![r] = IF @.page = NoPage THEN Free ELSE [@ EXCEPT !.at = "ok"]]
    BY <1>2 DEF Handle
  <2>2. [kind |-> call[r].kind, page |-> call[r].page]
          \in [kind : Kinds, page : Pages \cup {NoPage}]
    BY DEF IInv, CallType
  <2>3. /\ accepted' \in Seq([kind : Kinds, page : Pages \cup {NoPage}])
        /\ Len(accepted') = Len(accepted) + 1 /\ Len(accepted) \in Nat
    BY <2>1, <2>2, AppendProperties, Facts DEF IInv, CallType
  <2>4. call' \in [Calls -> [page : Pages \cup {NoPage}, kind : Kinds,
                            at : {"free", "sent", "ok", "error"}]]
    BY <2>1 DEF IInv, CallType, Free, Kinds
  <2> QED BY <1>1, <2>3, <2>4, WebKeeps DEF CallType
<1>3. CASE ~Handle(r)
  <2>1. accepted' = accepted
    BY <1>3 DEF Request, Success, Failure, Refuse, ReplyLost
  <2>2. CallType'
    <3>1. CASE Success(r) \/ Failure(r)
      <4>1. call' = [call EXCEPT ![r] = Free]
        BY <3>1 DEF Success, Failure
      <4> QED BY <2>1, <4>1 DEF IInv, CallType, Free, Kinds
    <3>2. CASE Refuse(r)
      <4>1. call' = [call EXCEPT ![r] = IF @.page = NoPage THEN Free
                                        ELSE [@ EXCEPT !.at = "error"]]
        BY <3>2 DEF Refuse
      <4> QED BY <2>1, <4>1 DEF IInv, CallType, Free, Kinds
    <3>3. CASE ReplyLost(r)
      <4>1. call' = [call EXCEPT ![r].at = "error"]
        BY <3>3 DEF ReplyLost
      <4> QED BY <2>1, <4>1 DEF IInv, CallType
    <3> QED BY <1>3, <3>1, <3>2, <3>3 DEF Request
  <2>3. Len(accepted') >= Len(accepted)
    BY <2>1, Facts
  <2> QED BY <1>1, <2>2, <2>3, WebKeeps
<1> QED BY <1>2, <1>3

(***************************************************************************)
(* Steps of connections                                                    *)
(***************************************************************************)

LEMMA AcceptKeeps ==
  ASSUME NEW c \in Conns
  PROVE  IInv /\ Accept(c) => IInv'
<1> SUFFICES ASSUME IInv, Accept(c) PROVE IInv'
  OBVIOUS
<1>1. /\ conn[c] = "backlog" /\ conn' = [conn EXCEPT ![c] = "up"]
      /\ task' = [task EXCEPT ![c] = NextCommand]
      /\ UNCHANGED <<call, accepted, wire, hand, executed>>
  BY DEF Accept, Subscribed, NextCommand, webVars, carVars
<1>2. CallType' /\ LineType' /\ NextCommand' = NextCommand /\ Len(accepted') >= Len(accepted)
  BY <1>1, Facts DEF IInv, CallType, LineType, NextCommand
<1>3. OneReader'
  BY <1>1 DEF IInv, LineType, OneReader, Live
<1>4. ASSUME NEW d \in Conns
      PROVE  /\ task'[d] <= NextCommand' /\ LimitOf(d)' >= LimitOf(d)
             /\ conn'[d] \notin {"up", "broken"} => wire'[d] = <<>>
             /\ Increasing(wire'[d])
  BY <1>1, <1>2, Facts DEF IInv, LineType, Line, LimitOf
<1> QED BY <1>1, <1>2, <1>3, <1>4, QuietKeeps

LEMMA LagKeeps ==
  ASSUME NEW c \in Conns
  PROVE  IInv /\ Lag(c) => IInv'
<1> SUFFICES ASSUME IInv, Lag(c) PROVE IInv'
  OBVIOUS
<1>1. /\ task[c] \in 1..(OldestKept - 1) /\ task' = [task EXCEPT ![c] = OldestKept]
      /\ UNCHANGED <<call, accepted, conn, wire, hand, executed>>
  BY DEF Lag, AfterLag, webVars, carVars
<1>2. OldestKept \in Nat /\ OldestKept <= NextCommand /\ OldestKept > task[c]
  BY <1>1, Facts, ConstantFacts DEF OldestKept, NextCommand
<1>3. CallType' /\ LineType' /\ NextCommand' = NextCommand /\ Len(accepted') >= Len(accepted)
  BY <1>1, <1>2, Facts DEF IInv, CallType, LineType, NextCommand
<1>4. OneReader'
  BY <1>1 DEF IInv, OneReader, Live
<1>5. ASSUME NEW d \in Conns
      PROVE  /\ task'[d] <= NextCommand' /\ LimitOf(d)' >= LimitOf(d)
             /\ conn'[d] \notin {"up", "broken"} => wire'[d] = <<>>
             /\ Increasing(wire'[d])
  BY <1>1, <1>2, <1>3, Facts DEF IInv, LineType, Line, LimitOf
<1> QED BY <1>1, <1>3, <1>4, <1>5, QuietKeeps

LEMMA ConnectKeeps ==
  ASSUME NEW c \in Conns
  PROVE  IInv /\ Connect(c) => IInv'
<1> SUFFICES ASSUME IInv, Connect(c) PROVE IInv'
  OBVIOUS
<1>1. /\ conn[c] = "none" /\ \A d \in Conns : conn[d] \in {"none", "gone"}
      /\ conn' = [conn EXCEPT ![c] = "backlog"]
      /\ UNCHANGED <<call, accepted, task, wire, hand, executed>>
  BY DEF Connect, webVars, serverVars, carVars
<1>2. CallType' /\ LineType' /\ NextCommand' = NextCommand /\ Len(accepted') >= Len(accepted)
  BY <1>1, Facts DEF IInv, CallType, LineType, NextCommand
<1>3. OneReader'
  BY <1>1 DEF IInv, LineType, OneReader, Live
<1>4. ASSUME NEW d \in Conns
      PROVE  /\ task'[d] <= NextCommand' /\ LimitOf(d)' >= LimitOf(d)
             /\ conn'[d] \notin {"up", "broken"} => wire'[d] = <<>>
             /\ Increasing(wire'[d])
  BY <1>1, <1>2, Facts DEF IInv, LineType, Line, LimitOf
<1> QED BY <1>1, <1>2, <1>3, <1>4, QuietKeeps

LEMMA ReaderEndsKeeps ==
  ASSUME NEW c \in Conns
  PROVE  IInv /\ ReaderEnds(c) => IInv'
<1> SUFFICES ASSUME IInv, ReaderEnds(c) PROVE IInv'
  OBVIOUS
<1>1. /\ conn[c] = "broken" /\ wire[c] = <<>> /\ conn' = [conn EXCEPT ![c] = "gone"]
      /\ UNCHANGED <<call, accepted, task, wire, hand, executed>>
  BY DEF ReaderEnds, webVars, serverVars, carVars
<1>2. CallType' /\ LineType' /\ NextCommand' = NextCommand /\ Len(accepted') >= Len(accepted)
  BY <1>1, Facts DEF IInv, CallType, LineType, NextCommand
<1>3. OneReader'
  BY <1>1 DEF IInv, LineType, OneReader, Live
<1>4. ASSUME NEW d \in Conns
      PROVE  /\ task'[d] <= NextCommand' /\ LimitOf(d)' >= LimitOf(d)
             /\ conn'[d] \notin {"up", "broken"} => wire'[d] = <<>>
             /\ Increasing(wire'[d])
  BY <1>1, <1>2, Facts DEF IInv, LineType, Line, LimitOf
<1> QED BY <1>1, <1>2, <1>3, <1>4, QuietKeeps

LEMMA BreakKeeps ==
  ASSUME NEW c \in Conns
  PROVE  IInv /\ Break(c) => IInv'
<1> SUFFICES ASSUME IInv, Break(c) PROVE IInv'
  OBVIOUS
<1>1. PICK n \in 0..Len(wire[c]) :
        /\ conn[c] \in {"backlog", "up"} /\ conn' = [conn EXCEPT ![c] = "broken"]
        /\ wire' = [wire EXCEPT ![c] = SubSeq(@, 1, n)]
        /\ UNCHANGED <<call, accepted, task, hand, executed>>
  BY DEF Break, Cut, webVars, serverVars, carVars
<1>2. \A d \in Conns : wire[d] \in Seq(Nat) /\ Increasing(wire[d])
  BY Facts DEF IInv, Line
<1>3. /\ SubSeq(wire[c], 1, n) \in Seq(Nat) /\ Increasing(SubSeq(wire[c], 1, n))
      /\ \A i \in DOMAIN SubSeq(wire[c], 1, n) :
           i \in DOMAIN wire[c] /\ SubSeq(wire[c], 1, n)[i] = wire[c][i]
  BY <1>2, PrefixKeeps
<1> DEFINE w == SubSeq(wire[c], 1, n)
<1>4. wire' = [wire EXCEPT ![c] = w] /\ w \in Seq(Nat) /\ Increasing(w)
      /\ \A i \in DOMAIN w : i \in DOMAIN wire[c] /\ w[i] = wire[c][i]
  BY <1>1, <1>3
<1> HIDE DEF w
<1>5. CallType' /\ LineType' /\ NextCommand' = NextCommand /\ Len(accepted') >= Len(accepted)
  <2>1. CallType' /\ NextCommand' = NextCommand /\ Len(accepted') >= Len(accepted)
    BY <1>1, Facts DEF IInv, CallType, NextCommand
  <2>2. wire' \in [Conns -> Seq(Nat)]
    BY <1>4 DEF IInv, LineType
  <2>3. LineType'
    BY <1>1, <2>2 DEF IInv, LineType
  <2> QED BY <2>1, <2>3
<1>6. OneReader'
  BY <1>1 DEF IInv, LineType, OneReader, Live
<1>7. ASSUME NEW d \in Conns
      PROVE  /\ task'[d] <= NextCommand' /\ LimitOf(d)' >= LimitOf(d)
             /\ conn'[d] \notin {"up", "broken"} => wire'[d] = <<>>
             /\ Increasing(wire'[d])
             /\ \A i \in DOMAIN wire'[d] : \E j \in DOMAIN wire[d] : wire'[d][i] = wire[d][j]
  <2>1. LimitOf(d)' >= LimitOf(d)
    BY <1>1, <1>5, Facts DEF IInv, LineType, LimitOf
  <2>2. wire'[d] = IF d = c THEN w ELSE wire[d]
    BY <1>4 DEF IInv, LineType
  <2>3. conn'[d] = IF d = c THEN "broken" ELSE conn[d]
    BY <1>1 DEF IInv, LineType
  <2> QED BY <1>1, <1>2, <1>4, <1>5, <2>1, <2>2, <2>3 DEF IInv, Line
<1> QED BY <1>1, <1>5, <1>6, <1>7, QuietKeeps

LEMMA EdgeDiesKeeps ==
  ASSUME NEW c \in Conns
  PROVE  IInv /\ EdgeDies(c) => IInv'
<1> SUFFICES ASSUME IInv, EdgeDies(c) PROVE IInv'
  OBVIOUS
<1>1. /\ conn' = [conn EXCEPT ![c] = "gone"] /\ wire' = [wire EXCEPT ![c] = <<>>]
      /\ hand' = Nothing /\ UNCHANGED <<call, accepted, task, executed>>
  BY DEF EdgeDies, webVars, serverVars
<1>2. CallType' /\ LineType' /\ NextCommand' = NextCommand /\ Len(accepted') >= Len(accepted)
  BY <1>1, Facts DEF IInv, CallType, LineType, NextCommand
<1>3. OneReader'
  BY <1>1 DEF IInv, LineType, OneReader, Live
<1>4. ASSUME NEW d \in Conns
      PROVE  /\ task'[d] <= NextCommand' /\ LimitOf(d)' >= LimitOf(d)
             /\ conn'[d] \notin {"up", "broken"} => wire'[d] = <<>>
             /\ Increasing(wire'[d])
             /\ \A i \in DOMAIN wire'[d] : \E j \in DOMAIN wire[d] : wire'[d][i] = wire[d][j]
  <2>1. CASE d = c
    <3>1. conn'[d] = "gone" /\ wire'[d] = <<>>
      BY <1>1, <2>1 DEF IInv, LineType
    <3> QED BY <1>1, <1>2, <3>1, Facts DEF IInv, Line, LimitOf, Increasing
  <2>2. CASE d # c
    <3>1. conn'[d] = conn[d] /\ wire'[d] = wire[d]
      BY <1>1, <2>2 DEF IInv, LineType
    <3> QED BY <1>1, <1>2, <3>1, Facts DEF IInv, Line, LimitOf
  <2> QED BY <2>1, <2>2
<1> QED BY <1>1, <1>2, <1>3, <1>4, QuietKeeps

LEMMA ServerDiesKeeps == IInv /\ ServerDies => IInv'
<1> SUFFICES ASSUME IInv, ServerDies PROVE IInv'
  OBVIOUS
<1>1. /\ task' = [d \in Conns |-> 0]
      /\ conn' = [d \in Conns |-> IF conn[d] \in {"backlog", "up"} THEN "broken" ELSE conn[d]]
      /\ call' = [r \in Calls |-> IF call[r].page = NoPage THEN Free
                                  ELSE [call[r] EXCEPT !.at = "error"]]
      /\ UNCHANGED <<accepted, wire, hand, executed>>
  BY DEF ServerDies, carVars
<1>2. CallType'
  BY <1>1 DEF IInv, CallType, Free, Kinds
<1>3. LineType' /\ NextCommand' = NextCommand /\ Len(accepted') >= Len(accepted)
  BY <1>1, Facts DEF IInv, LineType, NextCommand
<1>4. OneReader'
  BY <1>1 DEF IInv, LineType, OneReader, Live
<1>5. ASSUME NEW d \in Conns
      PROVE  /\ task'[d] <= NextCommand' /\ LimitOf(d)' >= LimitOf(d)
             /\ conn'[d] \notin {"up", "broken"} => wire'[d] = <<>>
             /\ Increasing(wire'[d])
             /\ \A i \in DOMAIN wire'[d] : \E j \in DOMAIN wire[d] : wire'[d][i] = wire[d][j]
  <2>1. /\ conn'[d] = IF conn[d] \in {"backlog", "up"} THEN "broken" ELSE conn[d]
        /\ task'[d] = 0 /\ wire'[d] = wire[d] /\ conn'[d] # "up"
    BY <1>1
  <2>2. LimitOf(d)' = NextCommand /\ LimitOf(d) <= NextCommand /\ LimitOf(d) \in Nat
    BY <1>3, <2>1, Facts DEF LimitOf
  <2> QED BY <1>3, <2>1, <2>2, Facts DEF IInv, Line
<1> QED BY <1>1, <1>2, <1>3, <1>4, <1>5, QuietKeeps

\* The command sent is the limit itself, so that it follows all that is on the wire,
\* on a bus or in hand.
LEMMA SendKeeps ==
  ASSUME NEW c \in Conns
  PROVE  IInv /\ Send(c) => IInv'
<1> SUFFICES ASSUME IInv, Send(c) PROVE IInv'
  OBVIOUS
<1> DEFINE w == Append(wire[c], task[c])
<1>1. /\ task[c] \in OldestKept..Len(accepted) /\ task' = [task EXCEPT ![c] = @ + 1]
      /\ wire' = IF conn[c] = "up" THEN [wire EXCEPT ![c] = w] ELSE wire
      /\ UNCHANGED <<call, accepted, conn, hand, executed>>
  BY DEF Send, webVars, carVars
<1>2. /\ task[c] \in Nat /\ task[c] < NextCommand /\ NextCommand \in Nat
      /\ wire[c] \in Seq(Nat)
  BY <1>1, Facts, ConstantFacts DEF OldestKept, NextCommand
<1>3. CallType' /\ LineType' /\ NextCommand' = NextCommand /\ Len(accepted') >= Len(accepted)
  <2>1. w \in Seq(Nat)
    BY <1>2
  <2> HIDE DEF w
  <2> QED BY <1>1, <1>2, <2>1, Facts DEF IInv, CallType, LineType, NextCommand
<1>4. OneReader'
  BY <1>1 DEF IInv, OneReader, Live
<1>5. CASE conn[c] # "up"
  <2>1. ASSUME NEW d \in Conns
        PROVE  /\ task'[d] <= NextCommand' /\ LimitOf(d)' >= LimitOf(d)
               /\ conn'[d] \notin {"up", "broken"} => wire'[d] = <<>>
               /\ Increasing(wire'[d])
    BY <1>1, <1>2, <1>3, <1>5, Facts DEF IInv, LineType, Line, LimitOf
  <2> QED BY <1>1, <1>3, <1>4, <1>5, <2>1, QuietKeeps
<1>6. CASE conn[c] = "up"
  <2>1. /\ LimitOf(c) = task[c] /\ LimitOf(c)' = task[c] + 1
        /\ wire'[c] = w /\ task'[c] = task[c] + 1
    BY <1>1, <1>6 DEF IInv, LineType, LimitOf
  <2>2. ASSUME NEW d \in Conns, d # c
        PROVE  LimitOf(d)' = LimitOf(d) /\ wire'[d] = wire[d] /\ task'[d] = task[d]
    BY <1>1, <1>3, <2>2 DEF IInv, LineType, LimitOf
  <2>3. /\ Increasing(w) /\ Below(w, task[c] + 1)
        /\ \A b \in Buses : Below(executed[b], task[c] + 1) /\ Before(executed[b], w)
        /\ hand # Nothing => hand.cmd < task[c] + 1 /\ Above(hand.cmd, w)
    <3>1. Increasing(wire[c]) /\ Below(wire[c], task[c])
      BY <2>1 DEF IInv, Line
    <3>2. \A i \in DOMAIN w : w[i] = IF i \in DOMAIN wire[c] THEN wire[c][i] ELSE task[c]
      BY <1>2
    <3>3. \A i \in DOMAIN wire[c] : wire[c][i] \in Nat
      BY <1>2
    <3>4. Increasing(w)
      BY <1>2, <3>1, AppendKeeps
    <3>5. Below(w, task[c] + 1)
      BY <1>2, <3>1, <3>2, <3>3 DEF Below
    <3>6. ASSUME NEW b \in Buses
          PROVE  Below(executed[b], task[c] + 1) /\ Before(executed[b], w)
      <4>1. \A i \in DOMAIN executed[b] : executed[b][i] \in Nat
        BY Facts
      <4>2. Below(executed[b], task[c]) /\ Before(executed[b], wire[c])
        BY <2>1 DEF IInv, OnBuses
      <4> HIDE DEF w
      <4> QED BY <1>2, <3>2, <4>1, <4>2 DEF Below, Before
    <3>7. ASSUME hand # Nothing PROVE hand.cmd < task[c] + 1 /\ Above(hand.cmd, w)
      <4>1. hand.cmd \in Nat /\ hand.cmd < task[c] /\ Above(hand.cmd, wire[c])
        BY <2>1, <3>7 DEF IInv, LineType, InHand
      <4> HIDE DEF w
      <4> QED BY <1>2, <3>2, <4>1 DEF Above
    <3> QED BY <3>4, <3>5, <3>6, <3>7
  <2> HIDE DEF w
  <2>4. ASSUME NEW d \in Conns PROVE Line(d)'
    <3>1. CASE d = c
      BY <1>1, <1>2, <1>3, <1>6, <2>1, <2>3, <3>1 DEF Line
    <3>2. CASE d # c
      BY <1>1, <1>3, <2>2, <3>2 DEF IInv, Line
    <3> QED BY <3>1, <3>2
  <2>5. OnBuses'
    <3> SUFFICES ASSUME NEW b \in Buses, NEW d \in Conns
                 PROVE  /\ Increasing(executed[b]) /\ Below(executed[b], NextCommand)
                        /\ Below(executed[b], LimitOf(d)') /\ Before(executed[b], wire'[d])
      BY <1>1, <1>3 DEF OnBuses
    <3>1. CASE d = c
      BY <2>1, <2>3, <3>1 DEF IInv, OnBuses
    <3>2. CASE d # c
      BY <2>2, <3>2 DEF IInv, OnBuses
    <3> QED BY <3>1, <3>2
  <2>6. InHand'
    <3> SUFFICES ASSUME hand # Nothing PROVE InHand'
      BY <1>1 DEF InHand
    <3>1. ASSUME NEW d \in Conns PROVE hand.cmd < LimitOf(d)' /\ Above(hand.cmd, wire'[d])
      <4>1. CASE d = c
        BY <2>1, <2>3, <4>1
      <4>2. CASE d # c
        BY <2>2, <4>2 DEF IInv, InHand
      <4> QED BY <4>1, <4>2
    <3> QED BY <1>1, <1>3, <3>1 DEF IInv, InHand, Pending
  <2> QED BY <1>3, <1>4, <2>4, <2>5, <2>6 DEF IInv
<1> QED BY <1>5, <1>6

(***************************************************************************)
(* Steps of the edge                                                       *)
(***************************************************************************)

\* There is one reader: the other connections have nothing on their wires, and no
\* limit but the next command.
LEMMA ReadKeeps ==
  ASSUME NEW c \in Conns
  PROVE  IInv /\ Read(c) => IInv'
<1> SUFFICES ASSUME IInv, Read(c) PROVE IInv'
  OBVIOUS
<1> DEFINE h == Head(wire[c])
           t == Tail(wire[c])
<1>1. /\ conn[c] \in {"up", "broken"} /\ wire[c] # <<>>
      /\ hand' = [cmd |-> h, buses |-> BusOrder]
      /\ wire' = [wire EXCEPT ![c] = t]
      /\ UNCHANGED <<call, accepted, conn, task, executed>>
  BY DEF Read, webVars, serverVars
<1>2. /\ wire[c] \in Seq(Nat) /\ Increasing(wire[c]) /\ Below(wire[c], LimitOf(c))
      /\ LimitOf(c) \in Nat /\ LimitOf(c) <= NextCommand /\ NextCommand \in Nat
      /\ \A b \in Buses : Before(executed[b], wire[c])
  BY Facts DEF IInv, Line, OnBuses
<1>3. h \in Nat /\ t \in Seq(Nat) /\ Increasing(t) /\ Above(h, t)
  BY <1>1, <1>2, TailKeeps
<1>4. /\ 1 \in DOMAIN wire[c] /\ h = wire[c][1]
      /\ \A i \in DOMAIN t : \E j \in DOMAIN wire[c] : t[i] = wire[c][j]
  BY <1>1, <1>2, TailElements
<1> HIDE DEF h, t
<1>5. h < LimitOf(c) /\ h < NextCommand /\ \A b \in Buses : Below(executed[b], h)
  BY <1>2, <1>3, <1>4 DEF Below, Before
<1>6. Below(t, LimitOf(c)) /\ \A b \in Buses : Before(executed[b], t)
  BY <1>2, <1>4 DEF Below, Before
<1>7. CallType' /\ LineType' /\ OneReader' /\ NextCommand' = NextCommand
      /\ \A d \in Conns : LimitOf(d)' = LimitOf(d)
  BY <1>1, <1>3 DEF IInv, CallType, LineType, OneReader, Live, NextCommand, LimitOf
<1>8. ASSUME NEW d \in Conns
      PROVE  wire'[d] = IF d = c THEN t ELSE wire[d]
  BY <1>1 DEF IInv, LineType
<1>9. ASSUME NEW d \in Conns, d # c
      PROVE  LimitOf(d) = NextCommand /\ wire[d] = <<>>
  BY <1>1, <1>9 DEF IInv, OneReader, Live, Line, LimitOf, LineType
<1>10. \A d \in Conns : Line(d)'
  BY <1>1, <1>3, <1>6, <1>7, <1>8 DEF IInv, Line
<1>11. OnBuses'
  BY <1>1, <1>6, <1>7, <1>8 DEF IInv, OnBuses
<1>12. InHand'
  <2>1. hand'.cmd = h /\ hand'.buses = BusOrder
    BY <1>1
  <2>2. ASSUME NEW d \in Conns PROVE h < LimitOf(d) /\ Above(h, wire'[d])
    BY <1>3, <1>5, <1>8, <1>9 DEF Above
  <2> QED BY <1>1, <1>5, <1>7, <2>1, <2>2 DEF InHand, Pending
<1> QED BY <1>7, <1>10, <1>11, <1>12 DEF IInv

\* The bus at the head of the list is one that has not seen the command in hand.
LEMMA WriteKeeps == IInv /\ WriteCan => IInv'
<1> SUFFICES ASSUME IInv, WriteCan PROVE IInv'
  OBVIOUS
<1> DEFINE b0 == Head(hand.buses)
           n == hand.cmd
<1>1. /\ hand # Nothing /\ hand' = AfterBus
      /\ UNCHANGED <<call, accepted, conn, task, wire>>
      /\ \/ executed' = [executed EXCEPT ![b0] = Append(@, n)]
         \/ executed' = executed
  BY DEF WriteCan, webVars, serverVars
<1>2. /\ n \in Nat /\ b0 \in Buses /\ b0 \in Pending
      /\ hand' = Nothing \/ (hand'.cmd = n /\ hand' \in [cmd : Nat, buses : {Tail(BusOrder)}]
                             /\ b0 = "can0")
  <2>1. hand \in [cmd : Nat, buses : {BusOrder, Tail(BusOrder)}]
    BY <1>1 DEF IInv, LineType
  <2>2. CASE hand.buses = BusOrder
    <3>1. b0 = "can0" /\ Len(hand.buses) = 2
      BY <2>2 DEF BusOrder
    <3>2. hand' = [hand EXCEPT !.buses = Tail(BusOrder)]
      BY <1>1, <2>2, <3>1 DEF AfterBus
    <3> QED BY <2>1, <2>2, <3>1, <3>2 DEF Pending, Buses
  <2>3. CASE hand.buses # BusOrder
    <3>1. hand.buses = Tail(BusOrder)
      BY <2>1, <2>3
    <3>2. b0 = "can1" /\ Len(hand.buses) = 1
      BY <3>1 DEF BusOrder
    <3> QED BY <1>1, <2>1, <2>3, <3>2 DEF AfterBus, Pending, Buses
  <2> QED BY <2>2, <2>3
<1> HIDE DEF b0, n
<1>3. /\ n < NextCommand /\ NextCommand \in Nat
      /\ \A c \in Conns : n < LimitOf(c) /\ Above(n, wire[c]) /\ LimitOf(c) \in Nat
      /\ \A b \in Buses : /\ executed[b] \in Seq(Nat)
                          /\ Below(executed[b], IF b \in Pending THEN n ELSE n + 1)
  BY <1>1, Facts DEF IInv, InHand, n
<1>4. ASSUME NEW b \in Buses
      PROVE  /\ executed'[b] \in Seq(Nat) /\ Increasing(executed'[b])
             /\ Below(executed'[b], NextCommand)
             /\ \A c \in Conns : Below(executed'[b], LimitOf(c)) /\ Before(executed'[b], wire[c])
             /\ Below(executed'[b], IF b \in Pending /\ b # b0 THEN n ELSE n + 1)
  <2>1. /\ Increasing(executed[b]) /\ Below(executed[b], NextCommand)
        /\ \A c \in Conns : Below(executed[b], LimitOf(c)) /\ Before(executed[b], wire[c])
    BY DEF IInv, OnBuses
  <2>2. CASE executed'[b] = executed[b]
    <3>1. \A i \in DOMAIN executed[b] : executed[b][i] \in Nat
      BY <1>3
    <3>2. Below(executed[b], IF b \in Pending /\ b # b0 THEN n ELSE n + 1)
      BY <1>2, <1>3, <3>1 DEF Below
    <3> QED BY <1>3, <2>1, <2>2, <3>2
  <2>3. CASE b = b0 /\ executed'[b] = Append(executed[b], n)
    <3>1. Below(executed[b], n) /\ executed[b] \in Seq(Nat)
      BY <1>2, <1>3, <2>3
    <3>2. executed'[b] \in Seq(Nat) /\ Increasing(executed'[b])
      BY <1>2, <2>1, <2>3, <3>1, AppendKeeps
    <3>3. Below(executed'[b], NextCommand)
      BY <1>2, <1>3, <2>1, <2>3, <3>1, AppendBelow
    <3>4. ASSUME NEW c \in Conns
          PROVE  Below(executed'[b], LimitOf(c)) /\ Before(executed'[b], wire[c])
      <4>1. Below(executed'[b], LimitOf(c))
        BY <1>2, <1>3, <2>1, <2>3, <3>1, AppendBelow
      <4>2. \A i \in DOMAIN executed'[b] :
              executed'[b][i] = IF i \in DOMAIN executed[b] THEN executed[b][i] ELSE n
        BY <1>2, <2>3, <3>1
      <4>3. Before(executed[b], wire[c]) /\ Above(n, wire[c])
        BY <1>3, <2>1
      <4> QED BY <4>1, <4>2, <4>3 DEF Before, Above
    <3>5. Below(executed'[b], n + 1)
      <4>1. \A i \in DOMAIN executed'[b] :
              executed'[b][i] = IF i \in DOMAIN executed[b] THEN executed[b][i] ELSE n
        BY <1>2, <2>3, <3>1
      <4>2. \A i \in DOMAIN executed[b] : executed[b][i] \in Nat
        BY <3>1
      <4> QED BY <1>2, <3>1, <4>1, <4>2 DEF Below
    <3> QED BY <2>3, <3>2, <3>3, <3>4, <3>5
  <2> QED BY <1>1, <2>2, <2>3 DEF IInv, LineType
<1>5. executed' \in [Buses -> Seq(Nat)]
  BY <1>1, <1>4 DEF IInv, LineType
<1>6. CallType' /\ LineType' /\ OneReader' /\ NextCommand' = NextCommand
      /\ \A c \in Conns : Line(c)' /\ LimitOf(c)' = LimitOf(c)
  BY <1>1, <1>2, <1>5 DEF IInv, CallType, LineType, OneReader, Live, NextCommand, LimitOf, Line
<1>7. OnBuses'
  BY <1>1, <1>4, <1>6 DEF OnBuses
<1>8. InHand'
  <2> SUFFICES ASSUME hand' # Nothing PROVE InHand'
    BY DEF InHand
  <2>1. hand'.cmd = n /\ hand'.buses = Tail(BusOrder) /\ b0 = "can0"
    BY <1>2
  <2>2. Pending' = {"can1"}
    BY <2>1 DEF Pending, BusOrder
  <2>3. ASSUME NEW b \in Buses
        PROVE  Below(executed'[b], IF b \in Pending' THEN n ELSE n + 1)
    <3>1. b \in Pending' => b \in Pending /\ b # b0
      BY <1>1, <2>1, <2>2 DEF Pending, Buses
    <3>2. CASE b \in Pending'
      BY <1>4, <3>1, <3>2
    <3>3. CASE b \notin Pending'
      <4>1. b = b0
        BY <2>1, <2>2, <3>3 DEF Buses
      <4> QED BY <1>4, <3>3, <4>1
    <3> QED BY <3>2, <3>3
  <2> QED BY <1>1, <1>3, <1>6, <2>1, <2>3 DEF InHand
<1> QED BY <1>6, <1>7, <1>8 DEF IInv

(***************************************************************************)
(* The theorem                                                             *)
(***************************************************************************)

LEMMA StutterKeeps == IInv /\ UNCHANGED vars => IInv'
<1> SUFFICES ASSUME IInv, UNCHANGED vars PROVE IInv'
  OBVIOUS
<1>1. CallType' /\ UNCHANGED <<accepted, conn, task, wire, hand, executed>>
  BY DEF vars, webVars, serverVars, carVars, IInv, CallType
<1> QED BY <1>1, Facts, WebKeeps

LEMMA InvNext == IInv /\ [Next]_vars => IInv'
<1> SUFFICES ASSUME IInv, Next PROVE IInv'
  BY StutterKeeps
<1>1. CASE \E p \in Pages : Button(p)
  BY <1>1, ButtonKeeps
<1>2. CASE \E r \in Calls : Request(r)
  BY <1>2, RequestKeeps
<1>3. CASE \E c \in Conns : Connect(c) \/ Accept(c) \/ ReaderEnds(c) \/ Break(c) \/ EdgeDies(c)
  BY <1>3, ConnectKeeps, AcceptKeeps, ReaderEndsKeeps, BreakKeeps, EdgeDiesKeeps
<1>4. CASE \E c \in Conns : Deliver(c)
  BY <1>4, SendKeeps, LagKeeps, ReadKeeps DEF Deliver
<1>5. CASE WriteCan
  BY <1>5, WriteKeeps
<1>6. CASE ServerDies
  BY <1>6, ServerDiesKeeps
<1> QED BY <1>1, <1>2, <1>3, <1>4, <1>5, <1>6 DEF Next

\* Each CAN bus sees the commands of the dashboards in the order in which the server
\* accepted them and none twice, whatever breaks, lags or restarts between them.
THEOREM InOrder == Spec => []ExecutedInOrder
<1>1. IInv => ExecutedInOrder
  BY DEF IInv, OnBuses, Increasing, ExecutedInOrder
<1> QED BY <1>1, InvInit, InvNext, PTL DEF Spec

(***************************************************************************)
(* What the page tells.  The invariant says, for each page, which of its   *)
(* command's steps are still to come: one request at a time, while its     *)
(* button waits.                                                           *)
(***************************************************************************)

PageRecord == [killed : BOOLEAN, modal : BOOLEAN, pending : BOOLEAN,
               timers : 0..MaxCommands, feedback : BOOLEAN, asked : Kinds,
               cut : BOOLEAN, doubt : BOOLEAN]

WebTypeOK ==
  /\ page \in [Pages -> PageRecord]
  /\ CallType
  /\ Len(accepted) <= MaxCommands

CarTypeOK ==
  /\ conn \in [Conns -> {"none", "backlog", "up", "broken", "gone"}]
  /\ task \in [Conns -> 0..(MaxCommands + 1)]
  /\ since \in [Conns -> 0..(MaxCommands + 1)]
  /\ wire \in [Conns -> Seq(1..MaxCommands)]
  /\ hand = Nothing \/ hand \in [cmd : 1..MaxCommands, buses : {BusOrder, Tail(BusOrder)}]
  /\ executed \in [Buses -> Seq(1..MaxCommands)]
  /\ unsent \subseteq 1..MaxCommands

LEMMA TypeParts == TypeOK <=> WebTypeOK /\ CarTypeOK
BY DEF TypeOK, WebTypeOK, CarTypeOK, CallType, PageRecord

\* Only a request that is not answered yet can be without its page.
Answers ==
  \A r \in Calls : /\ call[r].at \in {"ok", "error"} => call[r].page \in Pages
                   /\ call[r].at = "free" => call[r].page = NoPage

OfPage(r, p) == call[r].page = p /\ call[r].at # "free"
Succeeds(r, p) == OfPage(r, p) /\ call[r].at = "ok"
LastOne == accepted[Len(accepted)]

OneRequest(p) ==
  /\ \A r, s \in Calls : OfPage(r, p) /\ OfPage(s, p) => r = s
  /\ \A r \in Calls : OfPage(r, p) => page[p].pending

\* Each success has a command of its own; one on its way to the page is not counted yet.
Counted(p) ==
  /\ page[p].timers <= Len(accepted)
  /\ \A r \in Calls : Succeeds(r, p) => page[p].timers < Len(accepted)

Outcome(p) == page[p].pending \/ page[p].feedback => page[p].modal \/ page[p].cut

Offers(p) == page[p].modal /\ page[p].asked # Offered(p) => page[p].timers > 0

\* The page knows its command when it is the last one, or is about to be told.
Knows(p) ==
  Len(accepted) > 0 /\ LastOne.page = p =>
    /\ \A r \in Calls : Succeeds(r, p) => call[r].kind = LastOne.kind
    /\ \/ page[p].doubt
       \/ \E r \in Calls : Succeeds(r, p)
       \/ page[p].killed <=> LastOne.kind = "stop"

PageOK(p) == OneRequest(p) /\ Counted(p) /\ Outcome(p) /\ Offers(p) /\ Knows(p)

WebInv == WebTypeOK /\ Answers /\ \A p \in Pages : PageOK(p)

LEMMA WebInit == Init => WebInv /\ CarTypeOK
<1> SUFFICES ASSUME Init PROVE WebInv /\ CarTypeOK
  OBVIOUS
<1>1. /\ page = [p \in Pages |-> Fresh] /\ call = [r \in Calls |-> Free]
      /\ accepted = <<>> /\ Len(accepted) = 0
  BY DEF Init
<1>2. WebTypeOK
  BY <1>1, ConstantFacts DEF WebTypeOK, CallType, PageRecord, Fresh, Free, Kinds
<1>3. Answers
  BY <1>1 DEF Answers, Free
<1>4. ASSUME NEW p \in Pages PROVE PageOK(p)
  BY <1>1, <1>4 DEF PageOK, OneRequest, Counted, Outcome, Offers, Knows, OfPage, Succeeds,
                    Offered, Fresh, Free
<1>5. CarTypeOK
  BY ConstantFacts DEF Init, CarTypeOK, Nothing
<1> QED BY <1>2, <1>3, <1>4, <1>5 DEF WebInv

\* What happens to other pages changes nothing for a page.
LEMMA OtherPage ==
  ASSUME WebInv, WebTypeOK', NEW p \in Pages, page'[p] = page[p],
         \A r \in Calls : OfPage(r, p)' = OfPage(r, p) /\ (OfPage(r, p) => call'[r] = call[r]),
         \/ accepted' = accepted
         \/ /\ Len(accepted') = Len(accepted) + 1
            /\ accepted'[Len(accepted')].page # p
  PROVE  PageOK(p)'
<1>1. PageOK(p) /\ Len(accepted) \in Nat
  BY DEF WebInv, WebTypeOK, CallType
<1>2. page[p].timers \in Nat
  BY DEF WebInv, WebTypeOK, PageRecord
<1>3. \A r \in Calls : Succeeds(r, p)' = Succeeds(r, p) /\ (Succeeds(r, p) => call'[r] = call[r])
  BY DEF Succeeds
<1>4. OneRequest(p)' /\ Outcome(p)' /\ Offers(p)'
  BY <1>1 DEF PageOK, OneRequest, Outcome, Offers, Offered
<1>5. Counted(p)'
  BY <1>1, <1>2, <1>3 DEF PageOK, Counted
<1>6. Knows(p)'
  BY <1>1, <1>3 DEF PageOK, Knows, LastOne
<1> QED BY <1>4, <1>5, <1>6 DEF PageOK

LEMMA PageFacts ==
  ASSUME WebInv, NEW p \in Pages
  PROVE  /\ page \in [Pages -> PageRecord] /\ page[p] \in PageRecord
         /\ p # NoPage /\ PageOK(p) /\ Offered(p) \in Kinds
BY ConstantsAssumption DEF WebInv, WebTypeOK, Offered, Kinds

\* One page changes, to what the step makes of it.
LEMMA PageUpdated ==
  ASSUME NEW p \in Pages, page \in [Pages -> PageRecord], NEW new \in PageRecord,
         page' = [page EXCEPT ![p] = new]
  PROVE  /\ page' \in [Pages -> PageRecord] /\ page'[p] = new
         /\ \A q \in Pages : q # p => page'[q] = page[q]
OBVIOUS

\* Steps of a page that send nothing and are told nothing.
LEMMA ClickKeeps ==
  ASSUME WebInv, NEW p \in Pages, OpenModal(p) \/ CloseModal(p) \/ TimerFires(p)
  PROVE  WebInv'
<1>0. /\ PageOK(p) /\ page[p] \in PageRecord /\ page \in [Pages -> PageRecord]
      /\ Offered(p) \in Kinds /\ UNCHANGED <<call, accepted>>
  BY PageFacts DEF OpenModal, CloseModal, TimerFires
<1>1. /\ page' \in [Pages -> PageRecord] /\ page'[p].pending = page[p].pending
      /\ \A q \in Pages : q # p => page'[q] = page[q]
      /\ page'[p].timers <= page[p].timers
      /\ page'[p].killed = page[p].killed /\ page'[p].doubt = page[p].doubt
  <2>1. page[p].timers \in 0..MaxCommands
    BY <1>0 DEF PageRecord
  <2>2. CASE OpenModal(p)
    <3> DEFINE new == [page[p] EXCEPT !.modal = TRUE, !.feedback = FALSE, !.cut = FALSE,
                                      !.asked = Offered(p)]
    <3>1. page' = [page EXCEPT ![p] = new]
      BY <1>0, <2>2 DEF OpenModal
    <3>2. /\ new \in PageRecord /\ new.pending = page[p].pending
          /\ new.timers = page[p].timers
          /\ new.killed = page[p].killed /\ new.doubt = page[p].doubt
      BY <1>0 DEF PageRecord
    <3> HIDE DEF new
    <3> QED BY <1>0, <2>1, <3>1, <3>2, PageUpdated, ConstantFacts
  <2>3. CASE CloseModal(p)
    <3> DEFINE new == [page[p] EXCEPT !.modal = FALSE, !.feedback = FALSE]
    <3>1. page' = [page EXCEPT ![p] = new]
      BY <1>0, <2>3 DEF CloseModal
    <3>2. /\ new \in PageRecord /\ new.pending = page[p].pending
          /\ new.timers = page[p].timers
          /\ new.killed = page[p].killed /\ new.doubt = page[p].doubt
      BY <1>0 DEF PageRecord
    <3> HIDE DEF new
    <3> QED BY <1>0, <2>1, <3>1, <3>2, PageUpdated, ConstantFacts
  <2>4. CASE TimerFires(p)
    <3> DEFINE new == [page[p] EXCEPT !.timers = @ - 1, !.modal = FALSE, !.feedback = FALSE,
                                      !.cut = page[p].pending]
    <3>1. page' = [page EXCEPT ![p] = new] /\ page[p].timers > 0
      BY <1>0, <2>4 DEF TimerFires, AfterTimer
    <3>2. page[p].timers - 1 \in 0..MaxCommands
      BY <2>1, <3>1, ConstantFacts
    <3>3. /\ new \in PageRecord /\ new.pending = page[p].pending
          /\ new.timers = page[p].timers - 1
          /\ new.killed = page[p].killed /\ new.doubt = page[p].doubt
      BY <1>0, <3>2 DEF PageRecord
    <3> HIDE DEF new
    <3> QED BY <1>0, <2>1, <3>1, <3>3, PageUpdated, ConstantFacts
  <2> QED BY <2>2, <2>3, <2>4
<1>2. WebTypeOK' /\ Answers'
  BY <1>0, <1>1 DEF WebInv, WebTypeOK, CallType, Answers
<1>3. \A r \in Calls, q \in Pages : OfPage(r, q)' = OfPage(r, q) /\ Succeeds(r, q)' = Succeeds(r, q)
  BY <1>0 DEF OfPage, Succeeds
<1>4. Outcome(p)'
  <2>1. CASE OpenModal(p)
    BY <1>0, <2>1 DEF OpenModal, PageRecord, Outcome
  <2>2. CASE CloseModal(p)
    BY <1>0, <2>2 DEF CloseModal, MayClose, PageRecord, Outcome
  <2>3. CASE TimerFires(p)
    BY <1>0, <2>3 DEF TimerFires, PageRecord, Outcome
  <2> QED BY <2>1, <2>2, <2>3
<1>5. Offers(p)'
  <2>1. CASE OpenModal(p)
    BY <1>0, <2>1 DEF OpenModal, PageRecord, Offers, Offered
  <2>2. CASE CloseModal(p)
    BY <1>0, <2>2 DEF CloseModal, PageRecord, Offers
  <2>3. CASE TimerFires(p)
    BY <1>0, <2>3 DEF TimerFires, AfterTimer, PageRecord, Offers
  <2> QED BY <2>1, <2>2, <2>3
<1>6. OneRequest(p)' /\ Counted(p)' /\ Knows(p)'
  <2>1. page[p].timers \in Nat /\ page'[p].timers \in Nat /\ Len(accepted) \in Nat
    BY <1>0, <1>1 DEF WebInv, WebTypeOK, CallType, PageRecord
  <2>2. OneRequest(p)' /\ Knows(p)'
    BY <1>0, <1>1, <1>3 DEF PageOK, OneRequest, Knows, LastOne
  <2>3. Counted(p)'
    BY <1>0, <1>1, <1>3, <2>1 DEF PageOK, Counted
  <2> QED BY <2>2, <2>3
<1>7. ASSUME NEW q \in Pages, q # p PROVE PageOK(q)'
  BY <1>0, <1>1, <1>2, <1>3, <1>7, OtherPage
<1> QED BY <1>2, <1>4, <1>5, <1>6, <1>7 DEF WebInv, PageOK

LEMMA ConfirmKeeps ==
  ASSUME WebInv, NEW p \in Pages, Confirm(p)
  PROVE  WebInv'
<1>0. /\ PageOK(p) /\ page[p] \in PageRecord /\ page \in [Pages -> PageRecord]
      /\ Offered(p) \in Kinds /\ UNCHANGED accepted /\ ~page[p].pending /\ page[p].modal
      /\ p # NoPage /\ call \in [Calls -> [page : Pages \cup {NoPage}, kind : Kinds,
                                           at : {"free", "sent", "ok", "error"}]]
  BY PageFacts DEF Confirm, MayConfirm, WebInv, WebTypeOK, CallType
<1>1. PICK r \in Calls : /\ call[r].at = "free"
                         /\ call' = [call EXCEPT ![r] = [page |-> p, kind |-> Offered(p),
                                                         at |-> "sent"]]
  BY DEF Confirm
<1>2. /\ page' = [page EXCEPT ![p] = page'[p]] /\ page'[p] \in PageRecord
      /\ page'[p] = [page[p] EXCEPT !.pending = TRUE, !.feedback = FALSE, !.cut = FALSE]
  BY <1>0 DEF Confirm, PageRecord
<1>3. WebTypeOK' /\ Answers'
  BY <1>0, <1>1, <1>2 DEF WebInv, WebTypeOK, CallType, Answers
<1>4. \A s \in Calls : ~OfPage(s, p)
  BY <1>0 DEF PageOK, OneRequest
<1>5. \A s \in Calls : (OfPage(s, p)' => s = r) /\ ~Succeeds(s, p)' /\ ~Succeeds(s, p)
  BY <1>0, <1>1, <1>4 DEF OfPage, Succeeds
<1>6. OneRequest(p)' /\ Outcome(p)' /\ Offers(p)' /\ Counted(p)' /\ Knows(p)'
  <2>1. OneRequest(p)'
    BY <1>0, <1>2, <1>5 DEF OneRequest, PageRecord
  <2>2. Outcome(p)' /\ Offers(p)'
    BY <1>0, <1>2 DEF PageOK, Outcome, Offers, Offered, PageRecord
  <2>3. Counted(p)' /\ Knows(p)'
    BY <1>0, <1>2, <1>5 DEF PageOK, Counted, Knows, LastOne, PageRecord
  <2> QED BY <2>1, <2>2, <2>3
<1>7. ASSUME NEW q \in Pages, q # p PROVE PageOK(q)'
  <2>1. page'[q] = page[q]
    BY <1>0, <1>2, <1>7
  <2>2. \A s \in Calls : OfPage(s, q)' = OfPage(s, q) /\ (OfPage(s, q) => call'[s] = call[s])
    BY <1>0, <1>1, <1>7 DEF OfPage
  <2> QED BY <1>0, <1>3, <2>1, <2>2, OtherPage
<1> QED BY <1>3, <1>6, <1>7 DEF WebInv, PageOK

\* Nobody waits for the requests of a page that was reloaded.
LEMMA ReloadKeeps ==
  ASSUME WebInv, NEW p \in Pages, Reload(p)
  PROVE  WebInv'
<1>0. /\ page \in [Pages -> PageRecord] /\ UNCHANGED accepted /\ p # NoPage
      /\ call \in [Calls -> [page : Pages \cup {NoPage}, kind : Kinds,
                             at : {"free", "sent", "ok", "error"}]]
      /\ Answers /\ Len(accepted) \in Nat
  BY PageFacts DEF Reload, WebInv, WebTypeOK, CallType
<1> DEFINE CallRecord == [page : Pages \cup {NoPage}, kind : Kinds,
                          at : {"free", "sent", "ok", "error"}]
<1>1. /\ ~page'[p].pending /\ ~page'[p].feedback /\ ~page'[p].modal /\ page'[p].doubt
      /\ page'[p].timers = 0
      /\ \A q \in Pages : q # p => page'[q] = page[q]
      /\ page' \in [Pages -> PageRecord]
  <2> DEFINE new == [Fresh EXCEPT !.doubt = TRUE]
  <2>1. /\ new \in PageRecord /\ ~new.pending /\ ~new.feedback /\ ~new.modal /\ new.doubt
        /\ new.timers = 0
    <3>1. Fresh \in PageRecord
      BY ConstantFacts DEF Fresh, PageRecord, Kinds
    <3>2. new \in PageRecord
      BY <3>1 DEF PageRecord
    <3> QED BY <3>2 DEF Fresh
  <2>2. page' = [page EXCEPT ![p] = new]
    BY DEF Reload
  <2> HIDE DEF new
  <2> QED BY <1>0, <2>1, <2>2
<1>2. ASSUME NEW r \in Calls
      PROVE  /\ call'[r] \in CallRecord
             /\ ~OfPage(r, p) => call'[r] = call[r]
             /\ OfPage(r, p) => call'[r].page = NoPage /\ call'[r].at \in {"free", "sent"}
  <2>1. call'[r] = IF r \notin InFlight(p) THEN call[r]
                   ELSE IF call[r].at = "sent" THEN [call[r] EXCEPT !.page = NoPage] ELSE Free
    BY DEF Reload
  <2>2. r \in InFlight(p) <=> OfPage(r, p)
    BY DEF InFlight, OfPage
  <2>3. call[r] \in CallRecord /\ Free \in CallRecord
    BY <1>0 DEF Free, Kinds
  <2> QED BY <2>1, <2>2, <2>3 DEF Free
<1>3. call' \in [Calls -> CallRecord]
  <2>1. call' = [r \in Calls |-> IF r \notin InFlight(p) THEN call[r]
                                 ELSE IF call[r].at = "sent"
                                 THEN [call[r] EXCEPT !.page = NoPage] ELSE Free]
    BY DEF Reload
  <2>2. DOMAIN call' = Calls /\ call' = [r \in Calls |-> call'[r]]
    BY <2>1
  <2> QED BY <1>2, <2>2
<1>4. WebTypeOK' /\ Answers'
  <2>1. WebTypeOK'
    BY <1>0, <1>1, <1>3 DEF WebInv, WebTypeOK, CallType
  <2>2. Answers'
    BY <1>0, <1>2 DEF Answers
  <2> QED BY <2>1, <2>2
<1>5. \A r \in Calls : ~OfPage(r, p)'
  BY <1>0, <1>2 DEF OfPage
<1>6. PageOK(p)'
  BY <1>0, <1>1, <1>5
          DEF PageOK, OneRequest, Counted, Outcome, Offers, Knows, Succeeds, LastOne
<1>7. ASSUME NEW q \in Pages, q # p PROVE PageOK(q)'
  <2>1. \A r \in Calls : OfPage(r, q)' = OfPage(r, q) /\ (OfPage(r, q) => call'[r] = call[r])
    BY <1>2, <1>7, ConstantsAssumption DEF OfPage
  <2> QED BY <1>0, <1>1, <1>4, <1>7, <2>1, OtherPage
<1> QED BY <1>4, <1>6, <1>7 DEF WebInv

LEMMA RequestFacts ==
  ASSUME WebInv, NEW r \in Calls
  PROVE  /\ call[r].page \in Pages \cup {NoPage} /\ call[r].kind \in Kinds
         /\ call[r] \in [page : Pages \cup {NoPage}, kind : Kinds,
                         at : {"free", "sent", "ok", "error"}]
         /\ Free \in [page : Pages \cup {NoPage}, kind : Kinds,
                      at : {"free", "sent", "ok", "error"}]
         /\ Answers /\ NoPage \notin Pages /\ Len(accepted) \in Nat
BY ConstantsAssumption DEF WebInv, WebTypeOK, CallType, Free, Kinds

\* A request of page p that ends leaves the page with none.
LEMMA CallEnds ==
  ASSUME WebInv, NEW r \in Calls, NEW p \in Pages, OfPage(r, p),
         call' = [call EXCEPT ![r] = Free], UNCHANGED accepted,
         NEW new \in PageRecord, page' = [page EXCEPT ![p] = new]
  PROVE  /\ WebTypeOK' /\ Answers'
         /\ \A s \in Calls : ~OfPage(s, p)' /\ ~Succeeds(s, p)'
         /\ \A q \in Pages : q # p => PageOK(q)'
<1>0. /\ page' \in [Pages -> PageRecord] /\ PageOK(p) /\ p # NoPage
      /\ \A q \in Pages : q # p => page'[q] = page[q]
  BY PageFacts, PageUpdated
<1>1. WebTypeOK' /\ Answers'
  BY <1>0, RequestFacts DEF WebInv, WebTypeOK, CallType, Answers, Free
<1>2. /\ call'[r] = Free /\ Free.page = NoPage /\ Free.at = "free"
      /\ \A s \in Calls : s # r => call'[s] = call[s]
  BY DEF WebInv, WebTypeOK, CallType, Free
<1>3. \A s \in Calls : ~OfPage(s, p)' /\ ~Succeeds(s, p)'
  BY <1>0, <1>2 DEF PageOK, OneRequest, OfPage, Succeeds
<1>4. ASSUME NEW q \in Pages, q # p PROVE PageOK(q)'
  <2>1. \A s \in Calls : OfPage(s, q)' = OfPage(s, q) /\ (OfPage(s, q) => call'[s] = call[s])
    BY <1>2, <1>4, RequestFacts DEF OfPage
  <2> QED BY <1>0, <1>1, <1>4, <2>1, OtherPage
<1> QED BY <1>1, <1>3, <1>4

\* The timer of a success is paid for by its command.
LEMMA SuccessKeeps ==
  ASSUME WebInv, NEW r \in Calls, Success(r)
  PROVE  WebInv'
<1>p. PICK p \in Pages : p = call[r].page
  BY RequestFacts DEF Success, Failure, Answers
<1> DEFINE new == [page[p] EXCEPT !.killed = call[r].kind = "stop", !.pending = FALSE,
                                  !.feedback = TRUE, !.timers = @ + 1, !.doubt = FALSE]
<1>0. /\ p \in Pages /\ OfPage(r, p) /\ Succeeds(r, p) /\ PageOK(p)
      /\ page[p] \in PageRecord /\ page \in [Pages -> PageRecord]
      /\ Len(accepted) \in Nat /\ Len(accepted) <= MaxCommands /\ UNCHANGED accepted
      /\ call' = [call EXCEPT ![r] = Free]
  BY <1>p, PageFacts DEF Success, OfPage, Succeeds, WebInv, WebTypeOK, CallType
<1>1. page' = [page EXCEPT ![p] = new]
  BY <1>0, <1>p DEF Success
<1>2. page[p].timers \in Nat /\ page[p].timers < Len(accepted)
  BY <1>0 DEF PageOK, Counted, PageRecord
<1>3. page[p].timers + 1 \in 0..MaxCommands
  BY <1>0, <1>2, ConstantFacts
<1>4. new \in PageRecord
  <2>1. (call[r].kind = "stop") \in BOOLEAN
    OBVIOUS
  <2> QED BY <1>0, <1>3, <2>1 DEF PageRecord
<1>5. /\ new.killed <=> call[r].kind = "stop"
      /\ ~new.pending /\ new.modal = page[p].modal /\ new.cut = page[p].cut
      /\ new.timers = page[p].timers + 1
  BY <1>0 DEF PageRecord
<1> HIDE DEF new
<1>6. page'[p] = new
  BY <1>0, <1>1
<1>7. /\ WebTypeOK' /\ Answers'
      /\ \A s \in Calls : ~OfPage(s, p)' /\ ~Succeeds(s, p)'
      /\ \A q \in Pages : q # p => PageOK(q)'
  BY <1>0, <1>1, <1>4, CallEnds
<1>8. PageOK(p)'
  <2>1. OneRequest(p)' /\ Counted(p)'
    BY <1>0, <1>2, <1>5, <1>6, <1>7 DEF OneRequest, Counted
  <2>2. Outcome(p)'
    <3>1. page[p].modal \/ page[p].cut
      BY <1>0 DEF PageOK, OneRequest, Outcome
    <3> QED BY <1>5, <1>6, <3>1 DEF Outcome
  <2>3. Offers(p)'
    BY <1>2, <1>5, <1>6 DEF Offers
  <2>4. Knows(p)'
    BY <1>0, <1>5, <1>6, <1>7 DEF PageOK, Knows, LastOne
  <2> QED BY <2>1, <2>2, <2>3, <2>4 DEF PageOK
<1> QED BY <1>7, <1>8 DEF WebInv

LEMMA FailureKeeps ==
  ASSUME WebInv, NEW r \in Calls, Failure(r)
  PROVE  WebInv'
<1>p. PICK p \in Pages : p = call[r].page
  BY RequestFacts DEF Success, Failure, Answers
<1> DEFINE new == [page[p] EXCEPT !.killed = page[p].killed, !.pending = FALSE,
                                  !.feedback = TRUE]
<1>0. /\ p \in Pages /\ OfPage(r, p) /\ ~Succeeds(r, p) /\ PageOK(p)
      /\ page[p] \in PageRecord /\ page \in [Pages -> PageRecord]
      /\ Len(accepted) \in Nat /\ UNCHANGED accepted
      /\ call' = [call EXCEPT ![r] = Free]
  BY <1>p, PageFacts DEF Failure, OfPage, Succeeds, WebInv, WebTypeOK, CallType
<1>1. page' = [page EXCEPT ![p] = new]
  BY <1>0, <1>p DEF Failure, AfterFailure
<1>2. new \in PageRecord
  BY <1>0 DEF PageRecord
<1>3. /\ new.killed = page[p].killed /\ new.doubt = page[p].doubt /\ new.asked = page[p].asked
      /\ ~new.pending /\ new.modal = page[p].modal /\ new.cut = page[p].cut
      /\ new.timers = page[p].timers
  BY <1>0 DEF PageRecord
<1> HIDE DEF new
<1>4. page'[p] = new
  BY <1>0, <1>1
<1>5. /\ WebTypeOK' /\ Answers'
      /\ \A s \in Calls : ~OfPage(s, p)' /\ ~Succeeds(s, p)'
      /\ \A q \in Pages : q # p => PageOK(q)'
  BY <1>0, <1>1, <1>2, CallEnds
<1>6. PageOK(p)'
  <2>1. OneRequest(p)' /\ Counted(p)'
    BY <1>0, <1>3, <1>4, <1>5 DEF PageOK, OneRequest, Counted
  <2>2. Outcome(p)'
    <3>1. page[p].modal \/ page[p].cut
      BY <1>0 DEF PageOK, OneRequest, Outcome
    <3> QED BY <1>3, <1>4, <3>1 DEF Outcome
  <2>3. Offers(p)'
    BY <1>0, <1>3, <1>4 DEF PageOK, Offers, Offered
  <2>4. Knows(p)'
    <3>1. \A s \in Calls : ~Succeeds(s, p)
      BY <1>0 DEF PageOK, OneRequest, Succeeds
    <3> QED BY <1>0, <1>3, <1>4, <1>5, <3>1 DEF PageOK, Knows, LastOne
  <2> QED BY <2>1, <2>2, <2>3, <2>4 DEF PageOK
<1> QED BY <1>5, <1>6 DEF WebInv

\* An answer comes back to the page, or nobody takes it.
LEMMA AnswerKeeps ==
  ASSUME WebInv, NEW r \in Calls, Handle(r) \/ Refuse(r)
  PROVE  WebInv'
<1> DEFINE R == [page : Pages \cup {NoPage}, kind : Kinds, at : {"free", "sent", "ok", "error"}]
<1>0. /\ page' = page /\ page \in [Pages -> PageRecord] /\ call \in [Calls -> R]
      /\ call[r].at = "sent" /\ Len(accepted) \in Nat /\ Len(accepted) <= MaxCommands
      /\ accepted \in Seq([kind : Kinds, page : Pages \cup {NoPage}])
      /\ call[r].kind \in Kinds /\ call[r].page \in Pages \cup {NoPage} /\ call[r] \in R
  BY RequestFacts DEF Handle, Refuse, WebInv, WebTypeOK, CallType
<1>1. /\ call'[r] \in R
      /\ call[r].page = NoPage => call'[r] = Free
      /\ call[r].page # NoPage =>
           /\ call'[r].at = IF Handle(r) THEN "ok" ELSE "error"
           /\ call'[r].page = call[r].page /\ call'[r].kind = call[r].kind
      /\ \A s \in Calls : s # r => call'[s] = call[s]
      /\ call' \in [Calls -> R]
  <2>1. CASE Handle(r)
    BY <1>0, <2>1, RequestFacts DEF Handle
  <2>2. CASE Refuse(r) /\ ~Handle(r)
    BY <1>0, <2>2, RequestFacts DEF Refuse
  <2> QED BY <2>1, <2>2
<1>2. CASE Refuse(r) /\ ~Handle(r)
  <2>1. accepted' = accepted
    BY <1>2 DEF Refuse
  <2>2. WebTypeOK' /\ Answers'
    BY <1>0, <1>1, <1>2, <2>1, RequestFacts DEF WebInv, WebTypeOK, CallType, Answers, Free
  <2>3. \A s \in Calls, q \in Pages : OfPage(s, q)' = OfPage(s, q)
    BY <1>0, <1>1, <1>2, RequestFacts DEF OfPage, Free
  <2>4. \A s \in Calls, q \in Pages : /\ Succeeds(s, q)' = Succeeds(s, q)
                                      /\ Succeeds(s, q) => call'[s] = call[s]
    <3>1. call'[r].at # "ok" /\ call[r].at # "ok"
      BY <1>0, <1>1, <1>2 DEF Free
    <3>2. \A s \in Calls : s # r => call'[s] = call[s]
      BY <1>1
    <3>3. \A s \in Calls : (call'[s].at = "ok") = (call[s].at = "ok")
      BY <3>1, <3>2
    <3>4. \A s \in Calls, q \in Pages : Succeeds(s, q)' = Succeeds(s, q)
      BY <2>3, <3>3 DEF Succeeds
    <3>5. \A s \in Calls, q \in Pages : Succeeds(s, q) => s # r
      BY <3>1 DEF Succeeds
    <3> QED BY <3>2, <3>4, <3>5
  <2>5. ASSUME NEW q \in Pages PROVE PageOK(q)'
    <3>1. PageOK(q)
      BY DEF WebInv
    <3>2. OneRequest(q)' /\ Counted(q)' /\ Outcome(q)' /\ Offers(q)'
      BY <1>0, <2>1, <2>3, <2>4, <3>1
         DEF PageOK, OneRequest, Counted, Outcome, Offers, Offered
    <3>3. Knows(q)'
      BY <1>0, <2>1, <2>4, <3>1 DEF PageOK, Knows, LastOne
    <3> QED BY <3>2, <3>3 DEF PageOK
  <2> QED BY <2>2, <2>5 DEF WebInv
<1>3. CASE Handle(r)
  <2>1. /\ accepted' \in Seq([kind : Kinds, page : Pages \cup {NoPage}])
        /\ Len(accepted') = Len(accepted) + 1 /\ Len(accepted') <= MaxCommands
        /\ LastOne' = [kind |-> call[r].kind, page |-> call[r].page]
    <3> DEFINE new == [kind |-> call[r].kind, page |-> call[r].page]
    <3>1. new \in [kind : Kinds, page : Pages \cup {NoPage}]
      BY <1>0
    <3>2. accepted' = Append(accepted, new) /\ Len(accepted) < MaxCommands
      BY <1>3 DEF Handle
    <3> HIDE DEF new
    <3>3. /\ accepted' \in Seq([kind : Kinds, page : Pages \cup {NoPage}])
          /\ Len(accepted') = Len(accepted) + 1 /\ accepted'[Len(accepted')] = new
      BY <1>0, <3>1, <3>2
    <3> QED BY <1>0, <3>2, <3>3, ConstantFacts DEF LastOne, new
  <2>2. WebTypeOK' /\ Answers'
    BY <1>0, <1>1, <1>3, <2>1, RequestFacts DEF WebInv, WebTypeOK, CallType, Answers, Free
  <2>3. ASSUME NEW q \in Pages, q # call[r].page PROVE PageOK(q)'
    <3>1. \A s \in Calls : OfPage(s, q)' = OfPage(s, q) /\ (OfPage(s, q) => call'[s] = call[s])
      BY <1>1, <2>3, RequestFacts DEF OfPage, Free
    <3>2. accepted'[Len(accepted')].page # q
      BY <2>1, <2>3 DEF LastOne
    <3> QED BY <1>0, <2>1, <2>2, <3>1, <3>2, OtherPage
  <2>4. ASSUME NEW q \in Pages, q = call[r].page PROVE PageOK(q)'
    <3>1. PageOK(q) /\ q # NoPage /\ page[q].timers \in Nat
      BY <1>0, PageFacts DEF PageRecord
    <3>2. /\ \A s \in Calls : OfPage(s, q)' = OfPage(s, q)
          /\ OfPage(r, q) /\ \A s \in Calls : OfPage(s, q) => s = r
          /\ Succeeds(r, q)'
      BY <1>0, <1>1, <1>3, <2>4, <3>1 DEF OfPage, PageOK, OneRequest, Succeeds
    <3>3. OneRequest(q)' /\ Outcome(q)' /\ Offers(q)'
      BY <1>0, <3>1, <3>2 DEF PageOK, OneRequest, Outcome, Offers, Offered
    <3>4. Counted(q)'
      BY <1>0, <2>1, <3>1 DEF PageOK, Counted
    <3>5. Knows(q)'
      BY <1>1, <2>1, <2>4, <3>1, <3>2 DEF Knows, Succeeds
    <3> QED BY <3>3, <3>4, <3>5 DEF PageOK
  <2> QED BY <2>2, <2>3, <2>4 DEF WebInv
<1> QED BY <1>2, <1>3

\* A page that is not told is in doubt.
LEMMA ReplyLostKeeps ==
  ASSUME WebInv, NEW r \in Calls, ReplyLost(r)
  PROVE  WebInv'
<1>p. PICK p \in Pages : p = call[r].page
  BY RequestFacts DEF ReplyLost, Answers
<1> DEFINE new == [page[p] EXCEPT !.doubt = TRUE]
<1>0. /\ OfPage(r, p) /\ Succeeds(r, p) /\ PageOK(p)
      /\ page[p] \in PageRecord /\ page \in [Pages -> PageRecord]
      /\ Len(accepted) \in Nat /\ UNCHANGED accepted
      /\ call' = [call EXCEPT ![r] = [call[r] EXCEPT !.at = "error"]]
  BY <1>p, PageFacts DEF ReplyLost, OfPage, Succeeds, WebInv, WebTypeOK, CallType
<1>1. page' = [page EXCEPT ![p] = new]
  BY <1>p DEF ReplyLost
<1>2. new \in PageRecord
  BY <1>0 DEF PageRecord
<1>3. /\ new.killed = page[p].killed /\ new.doubt /\ new.asked = page[p].asked
      /\ new.pending = page[p].pending /\ new.modal = page[p].modal /\ new.cut = page[p].cut
      /\ new.feedback = page[p].feedback /\ new.timers = page[p].timers
  BY <1>0 DEF PageRecord
<1> HIDE DEF new
<1>4. /\ page' \in [Pages -> PageRecord] /\ page'[p] = new
      /\ \A q \in Pages : q # p => page'[q] = page[q]
  BY <1>0, <1>1, <1>2, PageUpdated
<1>5. /\ call'[r].page = p /\ call'[r].at = "error"
      /\ \A s \in Calls : s # r => call'[s] = call[s]
      /\ WebTypeOK' /\ Answers'
  BY <1>0, <1>4, <1>p, RequestFacts DEF WebInv, WebTypeOK, CallType, Answers
<1>6. /\ \A s \in Calls, q \in Pages : OfPage(s, q)' = OfPage(s, q)
      /\ \A s \in Calls : ~Succeeds(s, p)'
  BY <1>0, <1>5, <1>p DEF OfPage, Succeeds, PageOK, OneRequest
<1>7. PageOK(p)'
  <2>1. OneRequest(p)' /\ Outcome(p)' /\ Offers(p)'
    BY <1>0, <1>3, <1>4, <1>6 DEF PageOK, OneRequest, Outcome, Offers, Offered
  <2>2. Counted(p)' /\ Knows(p)'
    BY <1>0, <1>3, <1>4, <1>6 DEF PageOK, Counted, Knows
  <2> QED BY <2>1, <2>2 DEF PageOK
<1>8. ASSUME NEW q \in Pages, q # p PROVE PageOK(q)'
  <2>1. \A s \in Calls : OfPage(s, q) => call'[s] = call[s]
    BY <1>5, <1>8, <1>p DEF OfPage
  <2> QED BY <1>0, <1>4, <1>5, <1>6, <1>8, <2>1, OtherPage
<1> QED BY <1>5, <1>7, <1>8 DEF WebInv

\* Requests fail with the server, and pages with a success on its way are in doubt.
LEMMA ServerEndKeeps ==
  ASSUME WebInv, ServerDies
  PROVE  WebInv'
<1> DEFINE R == [page : Pages \cup {NoPage}, kind : Kinds, at : {"free", "sent", "ok", "error"}]
           new(p) == [page[p] EXCEPT !.doubt = @ \/ \E r \in InFlight(p) : call[r].at = "ok"]
           lost(r) == IF call[r].page = NoPage THEN Free ELSE [call[r] EXCEPT !.at = "error"]
<1>0. /\ accepted' = accepted /\ Len(accepted) \in Nat
      /\ call \in [Calls -> R] /\ page \in [Pages -> PageRecord]
      /\ Answers /\ Free \in R /\ NoPage \notin Pages
  BY RequestFacts, ConstantsAssumption
     DEF ServerDies, WebInv, WebTypeOK, CallType, Free, Kinds
<1>1. page' = [p \in Pages |-> new(p)] /\ call' = [r \in Calls |-> lost(r)]
  BY DEF ServerDies
<1>2. ASSUME NEW p \in Pages
      PROVE  /\ new(p) \in PageRecord
             /\ new(p).doubt <=> page[p].doubt \/ \E r \in Calls : Succeeds(r, p)
             /\ new(p).killed = page[p].killed /\ new(p).asked = page[p].asked
             /\ new(p).pending = page[p].pending /\ new(p).modal = page[p].modal
             /\ new(p).cut = page[p].cut /\ new(p).feedback = page[p].feedback
             /\ new(p).timers = page[p].timers
  <2>1. page[p] \in PageRecord /\ page[p].doubt \in BOOLEAN
    BY <1>0 DEF PageRecord
  <2>2. (\E r \in InFlight(p) : call[r].at = "ok") <=> \E r \in Calls : Succeeds(r, p)
    BY DEF InFlight, Succeeds, OfPage
  <2>3. new(p).doubt <=> page[p].doubt \/ \E r \in InFlight(p) : call[r].at = "ok"
    BY <2>1 DEF PageRecord
  <2>4. new(p) \in PageRecord
    BY <2>1 DEF PageRecord
  <2>5. /\ new(p).killed = page[p].killed /\ new(p).asked = page[p].asked
        /\ new(p).pending = page[p].pending /\ new(p).modal = page[p].modal
        /\ new(p).cut = page[p].cut /\ new(p).feedback = page[p].feedback
        /\ new(p).timers = page[p].timers
    BY <2>1 DEF PageRecord
  <2> QED BY <2>2, <2>3, <2>4, <2>5
<1>3. ASSUME NEW r \in Calls
      PROVE  /\ lost(r) \in R /\ lost(r).at \in {"free", "error"}
             /\ lost(r).at = "error" => call[r].page \in Pages
             /\ lost(r).at = "free" => lost(r) = Free /\ call[r].page = NoPage
             /\ call[r].page # NoPage => lost(r).page = call[r].page /\ call[r].at # "free"
  BY <1>0 DEF Free, Answers
<1> HIDE DEF new, lost
<1>4. WebTypeOK'
  <2>1. page' \in [Pages -> PageRecord] /\ call' \in [Calls -> R]
    BY <1>1, <1>2, <1>3
  <2> QED BY <1>0, <2>1 DEF WebInv, WebTypeOK, CallType
<1>5. Answers'
  BY <1>0, <1>1, <1>3 DEF Answers, Free
<1>6. \A r \in Calls, p \in Pages : OfPage(r, p)' = OfPage(r, p) /\ ~Succeeds(r, p)'
  BY <1>0, <1>1, <1>3 DEF OfPage, Succeeds, Free
<1>7. ASSUME NEW p \in Pages PROVE PageOK(p)'
  <2>1. page'[p] = new(p) /\ PageOK(p)
    BY <1>1 DEF WebInv
  <2>2. OneRequest(p)' /\ Outcome(p)' /\ Offers(p)'
    BY <1>2, <1>6, <2>1 DEF PageOK, OneRequest, Outcome, Offers, Offered
  <2>3. Counted(p)' /\ Knows(p)'
    BY <1>0, <1>2, <1>6, <2>1 DEF PageOK, Counted, Knows, LastOne
  <2> QED BY <2>2, <2>3 DEF PageOK
<1> QED BY <1>4, <1>5, <1>7 DEF WebInv

(***************************************************************************)
(* What is on its way to the car stays within what was accepted.           *)
(***************************************************************************)

LEMMA CarKeeps ==
  ASSUME WebTypeOK, CarTypeOK, [Next]_vars
  PROVE  CarTypeOK'
<1>0. /\ Len(accepted) \in Nat /\ Len(accepted) <= MaxCommands
      /\ OldestKept \in Nat \ {0} /\ OldestKept <= Len(accepted) + 1
  BY ConstantFacts DEF WebTypeOK, CallType, OldestKept
<1>1. ASSUME NEW c \in Conns, Accept(c) PROVE CarTypeOK'
  BY <1>0, <1>1, ConstantFacts DEF Accept, Subscribed, CarTypeOK, carVars
<1>2. ASSUME NEW c \in Conns, Send(c) PROVE CarTypeOK'
  <2>1. task[c] \in 1..MaxCommands /\ task[c] + 1 \in 0..(MaxCommands + 1)
    BY <1>0, <1>2, ConstantFacts DEF Send
  <2>2. wire' \in [Conns -> Seq(1..MaxCommands)]
    BY <1>2, <2>1 DEF Send, CarTypeOK
  <2>3. task' \in [Conns -> 0..(MaxCommands + 1)]
    BY <1>2, <2>1 DEF Send, CarTypeOK
  <2> QED BY <1>2, <2>2, <2>3 DEF Send, CarTypeOK, carVars
<1>3. ASSUME NEW c \in Conns, Lag(c) PROVE CarTypeOK'
  <2>1. OldestKept \in 0..(MaxCommands + 1)
    BY <1>0, ConstantFacts
  <2> QED BY <1>3, <2>1 DEF Lag, AfterLag, CarTypeOK, carVars
<1>4. ASSUME NEW c \in Conns, Read(c) PROVE CarTypeOK'
  <2>1. wire[c] \in Seq(1..MaxCommands) /\ wire[c] # <<>>
    BY <1>4 DEF Read, CarTypeOK
  <2>2. Head(wire[c]) \in 1..MaxCommands /\ Tail(wire[c]) \in Seq(1..MaxCommands)
    BY <2>1, HeadTailProperties
  <2> QED BY <1>4, <2>2 DEF Read, CarTypeOK, serverVars
<1>5. ASSUME NEW c \in Conns, Connect(c) \/ ReaderEnds(c) PROVE CarTypeOK'
  BY <1>5 DEF Connect, ReaderEnds, CarTypeOK, serverVars, carVars
<1>6. ASSUME NEW c \in Conns, Break(c) PROVE CarTypeOK'
  <2>1. wire' \in [Conns -> Seq(1..MaxCommands)]
    <3>1. PICK n \in 0..Len(wire[c]) : wire' = [wire EXCEPT ![c] = SubSeq(@, 1, n)]
      BY <1>6 DEF Break, Cut
    <3>2. wire[c] \in Seq(1..MaxCommands)
      BY DEF CarTypeOK
    <3>3. SubSeq(wire[c], 1, n) \in Seq(1..MaxCommands)
      <4>1. Len(wire[c]) \in Nat /\ \A i \in 1..Len(wire[c]) : wire[c][i] \in 1..MaxCommands
        BY <3>2, LenProperties, ElementOfSeq
      <4>2. n \in Int /\ \A i \in 1..n : wire[c][i] \in 1..MaxCommands
        BY <4>1
      <4> QED BY <4>2, SubSeqProperties
    <3> QED BY <3>1, <3>3 DEF CarTypeOK
  <2> QED BY <1>6, <2>1 DEF Break, CarTypeOK, serverVars, carVars
<1>7. ASSUME NEW c \in Conns, EdgeDies(c) PROVE CarTypeOK'
  BY <1>7 DEF EdgeDies, CarTypeOK, serverVars
<1>8. CASE ServerDies
  BY <1>8, ConstantFacts DEF ServerDies, CarTypeOK, carVars
<1>9. CASE WriteCan
  <2>1. /\ hand \in [cmd : 1..MaxCommands, buses : {BusOrder, Tail(BusOrder)}]
        /\ hand.cmd \in 1..MaxCommands
    BY <1>9 DEF WriteCan, CarTypeOK
  <2>2. Len(BusOrder) = 2 /\ Tail(BusOrder) = <<"can1">> /\ Len(Tail(BusOrder)) = 1
    BY DEF BusOrder
  <2>3. hand' = Nothing \/ hand' \in [cmd : 1..MaxCommands, buses : {BusOrder, Tail(BusOrder)}]
    <3>1. CASE hand.buses = BusOrder
      <4>1. hand' = [hand EXCEPT !.buses = Tail(BusOrder)]
        BY <1>9, <2>2, <3>1 DEF WriteCan, AfterBus
      <4> QED BY <2>1, <4>1
    <3>2. CASE hand.buses = Tail(BusOrder)
      <4>1. ~(Len(hand.buses) > 1)
        BY <2>2, <3>2
      <4> QED BY <1>9, <4>1 DEF WriteCan, AfterBus
    <3> QED BY <2>1, <3>1, <3>2
  <2>4. executed' \in [Buses -> Seq(1..MaxCommands)] /\ unsent' \subseteq 1..MaxCommands
    <3>1. \A b \in Buses : Append(executed[b], hand.cmd) \in Seq(1..MaxCommands)
      BY <2>1 DEF CarTypeOK
    <3>2. executed' \in [Buses -> Seq(1..MaxCommands)]
      <4>1. \/ executed' = executed
            \/ \E b \in Buses :
                 executed' = [executed EXCEPT ![b] = Append(executed[b], hand.cmd)]
        <5>1. Head(hand.buses) \in Buses
          BY <2>1 DEF BusOrder, Buses
        <5> QED BY <1>9, <5>1 DEF WriteCan
      <4>2. CASE executed' = executed
        BY <4>2 DEF CarTypeOK
      <4>3. ASSUME NEW b \in Buses,
                   executed' = [executed EXCEPT ![b] = Append(executed[b], hand.cmd)]
            PROVE  executed' \in [Buses -> Seq(1..MaxCommands)]
        <5>1. Append(executed[b], hand.cmd) \in Seq(1..MaxCommands)
          BY <3>1
        <5> QED BY <4>3, <5>1 DEF CarTypeOK
      <4> QED BY <4>1, <4>2, <4>3
    <3>3. unsent' \subseteq 1..MaxCommands
      BY <1>9, <2>1 DEF WriteCan, CarTypeOK
    <3> QED BY <3>2, <3>3
  <2> QED BY <1>9, <2>3, <2>4 DEF WriteCan, CarTypeOK, serverVars
<1>10. CASE UNCHANGED <<conn, serverVars, wire, carVars>>
  BY <1>10 DEF CarTypeOK, serverVars, carVars
<1>11. \/ UNCHANGED <<conn, serverVars, wire, carVars>> \/ WriteCan \/ ServerDies
       \/ \E c \in Conns : \/ Accept(c) \/ Send(c) \/ Lag(c) \/ Read(c)
                           \/ (Connect(c) \/ ReaderEnds(c)) \/ Break(c) \/ EdgeDies(c)
  <2>1. ASSUME (\E p \in Pages : Button(p)) \/ \E r \in Calls : Request(r)
        PROVE  UNCHANGED <<conn, serverVars, wire, carVars>>
    BY <2>1 DEF Button, OpenModal, CloseModal, Confirm, TimerFires, Reload, Request, Success,
                Failure, Handle, Refuse, ReplyLost
  <2> QED BY <2>1 DEF Next, Deliver, vars
<1> QED
  BY <1>1, <1>2, <1>3, <1>4, <1>5, <1>6, <1>7, <1>8, <1>9, <1>10, <1>11

LEMMA WebNext ==
  ASSUME WebInv, [Next]_vars
  PROVE  WebInv'
<1>1. CASE UNCHANGED webVars
  BY <1>1 DEF webVars, WebInv, WebTypeOK, CallType, Answers, PageOK, OneRequest, Counted,
              Outcome, Offers, Offered, Knows, OfPage, Succeeds, LastOne
<1>2. CASE \E p \in Pages : Button(p)
  BY <1>2, ClickKeeps, ConfirmKeeps, ReloadKeeps DEF Button
<1>3. CASE \E r \in Calls : Request(r)
  BY <1>3, SuccessKeeps, FailureKeeps, AnswerKeeps, ReplyLostKeeps DEF Request
<1>4. CASE ServerDies
  BY <1>4, ServerEndKeeps
<1>5. \/ UNCHANGED webVars \/ ServerDies
      \/ \E p \in Pages : Button(p)
      \/ \E r \in Calls : Request(r)
  BY DEF Next, Connect, Accept, Deliver, Send, Lag, Read, ReaderEnds, Break, EdgeDies,
         WriteCan, vars
<1> QED BY <1>1, <1>2, <1>3, <1>4, <1>5

LEMMA WebInvariant == Spec => [](WebInv /\ CarTypeOK)
<1>1. WebInv /\ CarTypeOK /\ [Next]_vars => WebInv' /\ CarTypeOK'
  BY WebNext, CarKeeps DEF WebInv
<1> QED BY <1>1, WebInit, PTL DEF Spec

\* Commands, channels and timers stay within what was accepted: no more timers than
\* successes, and nothing on a wire or a bus that the server did not accept.
THEOREM TypeCorrect == Spec => []TypeOK
<1>1. WebInv /\ CarTypeOK => TypeOK
  BY TypeParts DEF WebInv
<1> QED BY <1>1, WebInvariant, PTL

\* What an administrator's page tells is so: what its button offers, what became of the
\* last command, and what an open modal would do, whatever is reloaded, refused or lost.
THEOREM PageIsTrue == Spec => []PageTellsTheTruth
<1>1. ASSUME WebInv PROVE ButtonTellsTheTruth
  <2>1. \A p \in Pages : PageOK(p)
    BY <1>1 DEF WebInv
  <2>2. SUFFICES ASSUME accepted # <<>>, LastOne.page \in Pages,
                        ~page[LastOne.page].pending, ~page[LastOne.page].doubt
                 PROVE  page[LastOne.page].killed <=> LastOne.kind = "stop"
    BY DEF ButtonTellsTheTruth, LastOne
  <2>3. Len(accepted) > 0
    BY <1>1, <2>2, EmptySeq DEF WebInv, WebTypeOK, CallType
  <2> QED BY <2>1, <2>2, <2>3 DEF PageOK, Knows, OneRequest, Succeeds
<1>2. WebInv => OutcomeIsShown
  BY DEF WebInv, PageOK, Outcome, OutcomeIsShown
<1>3. WebInv => ReversalWindow
  BY DEF WebInv, PageOK, Offers, ReversalWindow
<1>4. WebInv => PageTellsTheTruth
  BY <1>1, <1>2, <1>3 DEF PageTellsTheTruth
<1> QED BY <1>4, WebInvariant, PTL

===============================================================================
