---------------------------- MODULE DashboardProofs ----------------------------
(***************************************************************************)
(* What the dashboard keeps, for every map of signals and every data of    *)
(* the frames, and however far page and worker lag behind each other: the  *)
(* socket is that of the session, the page says of it what is so, shows    *)
(* whole frames of this collection only, and agrees with the worker on     *)
(* whether there is a collection and on what its log is.                   *)
(***************************************************************************)
EXTENDS Dashboard, SequenceTheorems, TLAPS

(***************************************************************************)
(* What a queue of commands or of messages holds, and in which order       *)
(***************************************************************************)

Only(s, X) == \A i \in DOMAIN s : s[i] \in X
None(s, X) == \A i \in DOMAIN s : s[i] \notin X

\* Its last word on the matter is one of T, none of F.
EndsOn(s, T, F) == \E i \in DOMAIN s : s[i] \in T /\ \A j \in DOMAIN s : j > i => s[j] \notin F

\* After one of A comes none of B.
NoneAfter(s, A, B) == \A i, j \in DOMAIN s : i < j /\ s[i] \in A => s[j] \notin B

\* Between two of T there is one of F.
Alternate(s, T, F) ==
  \A i, j \in DOMAIN s : i < j /\ s[i] \in T /\ s[j] \in T =>
    \E k \in DOMAIN s : i < k /\ k < j /\ s[k] \in F

\* Before any of T there is one of F.
Preceded(s, T, F) == \A j \in DOMAIN s : s[j] \in T => \E k \in DOMAIN s : k < j /\ s[k] \in F

LEMMA Joined ==
  ASSUME NEW S, NEW s \in Seq(S), NEW t \in Seq(S)
  PROVE  /\ s \o t \in Seq(S)
         /\ DOMAIN s = 1..Len(s) /\ DOMAIN t = 1..Len(t) /\ Len(s) \in Nat /\ Len(t) \in Nat
         /\ DOMAIN (s \o t) = 1..(Len(s) + Len(t))
         /\ \A i \in DOMAIN s : (s \o t)[i] = s[i]
         /\ \A j \in DOMAIN t : (s \o t)[Len(s) + j] = t[j]
         /\ \A i \in DOMAIN (s \o t) : i \in DOMAIN s \/ \E j \in DOMAIN t : i = Len(s) + j
<1>1. /\ s \o t \in Seq(S) /\ Len(s) \in Nat /\ Len(t) \in Nat
      /\ DOMAIN s = 1..Len(s) /\ DOMAIN t = 1..Len(t)
      /\ DOMAIN (s \o t) = 1..(Len(s) + Len(t))
  BY ConcatProperties
<1>2. /\ \A i \in 1..Len(s) : (s \o t)[i] = s[i]
      /\ \A j \in 1..Len(t) : (s \o t)[Len(s) + j] = t[j]
  BY <1>1, ConcatProperties
<1>3. ASSUME NEW i \in 1..(Len(s) + Len(t)), i \notin 1..Len(s)
      PROVE  i - Len(s) \in 1..Len(t) /\ i = Len(s) + (i - Len(s))
  BY <1>1, <1>3
<1>4. \A i \in DOMAIN (s \o t) : i \in DOMAIN s \/ \E j \in DOMAIN t : i = Len(s) + j
  BY <1>1, <1>3
<1> QED BY <1>1, <1>2, <1>4

\* A queue and what is put at its end.
LEMMA OnlyJoined ==
  ASSUME NEW S, NEW s \in Seq(S), NEW t \in Seq(S), NEW X
  PROVE  /\ Only(s \o t, X) <=> Only(s, X) /\ Only(t, X)
         /\ None(s \o t, X) <=> None(s, X) /\ None(t, X)
<1> DEFINE u == s \o t
<1>1. /\ DOMAIN s = 1..Len(s) /\ DOMAIN t = 1..Len(t) /\ Len(s) \in Nat /\ Len(t) \in Nat
      /\ DOMAIN u = 1..(Len(s) + Len(t))
      /\ \A i \in DOMAIN s : u[i] = s[i] /\ i \in DOMAIN u
      /\ \A j \in DOMAIN t : u[Len(s) + j] = t[j] /\ Len(s) + j \in DOMAIN u
      /\ \A i \in DOMAIN u : i \in DOMAIN s \/ \E j \in DOMAIN t : i = Len(s) + j
  BY Joined
<1> HIDE DEF u
<1> QED BY <1>1 DEF Only, None, u

LEMMA EndsOnJoined ==
  ASSUME NEW S, NEW s \in Seq(S), NEW t \in Seq(S), NEW T, NEW F
  PROVE  EndsOn(s \o t, T, F) <=> EndsOn(t, T, F) \/ (EndsOn(s, T, F) /\ None(t, F))
<1> DEFINE u == s \o t
<1>1. /\ DOMAIN s = 1..Len(s) /\ DOMAIN t = 1..Len(t) /\ Len(s) \in Nat /\ Len(t) \in Nat
      /\ DOMAIN u = 1..(Len(s) + Len(t))
      /\ \A i \in DOMAIN s : u[i] = s[i] /\ i \in DOMAIN u
      /\ \A j \in DOMAIN t : u[Len(s) + j] = t[j] /\ Len(s) + j \in DOMAIN u
      /\ \A i \in DOMAIN u : i \in DOMAIN s \/ \E j \in DOMAIN t : i = Len(s) + j
  BY Joined
<1> HIDE DEF u
<1>2. ASSUME EndsOn(u, T, F)
      PROVE  EndsOn(t, T, F) \/ (EndsOn(s, T, F) /\ None(t, F))
  <2>1. PICK i \in DOMAIN u : u[i] \in T /\ \A j \in DOMAIN u : j > i => u[j] \notin F
    BY <1>2 DEF EndsOn
  <2>2. CASE i \in DOMAIN s
    <3>1. None(t, F)
      BY <1>1, <2>1, <2>2 DEF None
    <3>2. s[i] \in T /\ \A j \in DOMAIN s : j > i => s[j] \notin F
      BY <1>1, <2>1, <2>2
    <3> QED BY <2>2, <3>1, <3>2 DEF EndsOn
  <2>3. ASSUME NEW j \in DOMAIN t, i = Len(s) + j
        PROVE  EndsOn(t, T, F)
    <3>1. t[j] \in T
      BY <1>1, <2>1, <2>3
    <3>2. ASSUME NEW k \in DOMAIN t, k > j PROVE t[k] \notin F
      BY <1>1, <2>1, <2>3, <3>2
    <3> QED BY <3>1, <3>2 DEF EndsOn
  <2> QED BY <1>1, <2>2, <2>3
<1>3. ASSUME EndsOn(t, T, F)
      PROVE  EndsOn(u, T, F)
  <2>1. PICK j \in DOMAIN t : t[j] \in T /\ \A k \in DOMAIN t : k > j => t[k] \notin F
    BY <1>3 DEF EndsOn
  <2>2. ASSUME NEW k \in DOMAIN u, k > Len(s) + j PROVE u[k] \notin F
    <3>1. k \notin DOMAIN s
      BY <1>1, <2>2
    <3>2. PICK l \in DOMAIN t : k = Len(s) + l
      BY <1>1, <3>1
    <3> QED BY <1>1, <2>1, <2>2, <3>2
  <2> QED BY <1>1, <2>1, <2>2 DEF EndsOn
<1>4. ASSUME EndsOn(s, T, F), None(t, F)
      PROVE  EndsOn(u, T, F)
  <2>1. PICK i \in DOMAIN s : s[i] \in T /\ \A j \in DOMAIN s : j > i => s[j] \notin F
    BY <1>4 DEF EndsOn
  <2>2. ASSUME NEW k \in DOMAIN u, k > i PROVE u[k] \notin F
    BY <1>1, <1>4, <2>1, <2>2 DEF None
  <2> QED BY <1>1, <2>1, <2>2 DEF EndsOn
<1> QED BY <1>2, <1>3, <1>4 DEF u

\* One more at the end of a queue.
LEMMA Single ==
  ASSUME NEW e, NEW X, NEW T, NEW F
  PROVE  /\ Only(<<e>>, X) <=> e \in X
         /\ None(<<e>>, X) <=> e \notin X
         /\ EndsOn(<<e>>, T, F) <=> e \in T
<1>1. DOMAIN <<e>> = {1} /\ <<e>>[1] = e
  OBVIOUS
<1> QED BY <1>1 DEF Only, None, EndsOn

LEMMA Empty ==
  ASSUME NEW X, NEW T, NEW F
  PROVE  Only(<< >>, X) /\ None(<< >>, X) /\ ~EndsOn(<< >>, T, F)
         /\ NoneAfter(<< >>, T, F) /\ Alternate(<< >>, T, F) /\ Preceded(<< >>, T, F)
BY DEF Only, None, EndsOn, NoneAfter, Alternate, Preceded

LEMMA OrderAppended ==
  ASSUME NEW S, NEW s \in Seq(S), NEW e \in S, NEW T, NEW F
  PROVE  /\ NoneAfter(s, T, F) /\ (e \in F => None(s, T)) => NoneAfter(s \o <<e>>, T, F)
         /\ Alternate(s, T, F) /\ (e \in T => ~EndsOn(s, T, F)) => Alternate(s \o <<e>>, T, F)
         /\ Preceded(s, T, F) /\ (e \in T => ~None(s, F)) => Preceded(s \o <<e>>, T, F)
<1> DEFINE u == s \o <<e>>
           n == Len(s) + 1
<1>1. /\ DOMAIN s = 1..Len(s) /\ Len(s) \in Nat
      /\ DOMAIN u = 1..n
      /\ \A i \in DOMAIN s : u[i] = s[i]
      /\ u[n] = e
  <2>1. <<e>> \in Seq(S) /\ DOMAIN <<e>> = {1} /\ <<e>>[1] = e /\ Len(<<e>>) = 1
    OBVIOUS
  <2> QED BY <2>1, Joined
<1> HIDE DEF u
<1>2. /\ \A i \in DOMAIN u : i \in DOMAIN s \/ i = n
      /\ \A i \in DOMAIN s : i \in DOMAIN u /\ i < n
      /\ n \in DOMAIN u /\ \A i, j \in DOMAIN u : i < j => i \in DOMAIN s
  BY <1>1
<1> HIDE DEF n
<1>3. ASSUME NoneAfter(s, T, F), e \in F => None(s, T)
      PROVE  NoneAfter(u, T, F)
  BY <1>1, <1>2, <1>3 DEF NoneAfter, None
<1>4. ASSUME Alternate(s, T, F), e \in T => ~EndsOn(s, T, F)
      PROVE  Alternate(u, T, F)
  <2> SUFFICES ASSUME NEW i \in DOMAIN u, NEW j \in DOMAIN u, i < j, u[i] \in T, u[j] \in T
               PROVE  \E k \in DOMAIN u : i < k /\ k < j /\ u[k] \in F
    BY DEF Alternate
  <2>1. i \in DOMAIN s /\ s[i] \in T
    BY <1>1, <1>2
  <2>2. CASE j \in DOMAIN s
    <3>1. PICK k \in DOMAIN s : i < k /\ k < j /\ s[k] \in F
      BY <1>1, <1>2, <1>4, <2>1, <2>2 DEF Alternate
    <3> QED BY <1>1, <1>2, <3>1
  <2>3. CASE j = n
    <3>1. PICK k \in DOMAIN s : k > i /\ s[k] \in F
      BY <1>1, <1>4, <2>1, <2>3 DEF EndsOn
    <3> QED BY <1>1, <1>2, <2>1, <2>3, <3>1
  <2> QED BY <1>2, <2>2, <2>3
<1>5. ASSUME Preceded(s, T, F), e \in T => ~None(s, F)
      PROVE  Preceded(u, T, F)
  BY <1>1, <1>2, <1>5 DEF Preceded, None
<1> QED BY <1>3, <1>4, <1>5 DEF u

\* The first of a queue and the rest of it.
LEMMA Taken ==
  ASSUME NEW S, NEW s \in Seq(S), s # << >>
  PROVE  /\ Tail(s) \in Seq(S) /\ Head(s) \in S /\ <<Head(s)>> \in Seq(S)
         /\ s = <<Head(s)>> \o Tail(s)
         /\ DOMAIN s = 1..Len(s) /\ Len(s) \in Nat \ {0}
         /\ DOMAIN Tail(s) = 1..(Len(s) - 1)
         /\ Head(s) = s[1]
         /\ \A i \in 1..(Len(s) - 1) : Tail(s)[i] = s[i + 1]
<1>1. /\ Tail(s) \in Seq(S) /\ Head(s) = s[1] /\ Len(s) \in Nat \ {0}
      /\ Len(Tail(s)) = Len(s) - 1
      /\ \A i \in 1..(Len(s) - 1) : Tail(s)[i] = s[i + 1]
  BY HeadTailProperties, EmptySeq
<1>2. Head(s) \in S /\ <<Head(s)>> \in Seq(S) /\ Len(<<Head(s)>>) = 1 /\ <<Head(s)>>[1] = s[1]
  BY <1>1, ElementOfSeq
<1> DEFINE h == <<Head(s)>>
           t == Tail(s)
<1>3. /\ h \in Seq(S) /\ t \in Seq(S) /\ Len(h) = 1 /\ h[1] = s[1] /\ Len(t) = Len(s) - 1
      /\ \A i \in 1..(Len(s) - 1) : t[i] = s[i + 1]
  BY <1>1, <1>2
<1> HIDE DEF h, t
<1>4. /\ h \o t \in Seq(S)
      /\ DOMAIN h = 1..Len(h) /\ DOMAIN t = 1..Len(t)
      /\ DOMAIN (h \o t) = 1..(Len(h) + Len(t))
      /\ \A i \in DOMAIN h : (h \o t)[i] = h[i]
      /\ \A i \in DOMAIN t : (h \o t)[Len(h) + i] = t[i]
  <2>1. h \in Seq(S) /\ t \in Seq(S)
    BY <1>3
  <2> QED BY <2>1, Joined
<1>0. Len(h \o t) = Len(h) + Len(t)
  <2>1. h \in Seq(S) /\ t \in Seq(S)
    BY <1>3
  <2> QED BY <2>1, ConcatProperties
<1> DEFINE u == h \o t
<1> HIDE DEF u
<1>5. Len(u) = Len(s) /\ \A i \in 1..Len(s) : u[i] = s[i]
  <2>1. /\ Len(u) = Len(s) /\ u[1] = s[1]
        /\ \A i \in 1..(Len(s) - 1) : u[1 + i] = t[i] /\ t[i] = s[i + 1]
    <3>0. Len(u) = Len(h) + Len(t)
      BY <1>0 DEF u
    <3>1. Len(u) = Len(s)
      BY <3>0, <1>1, <1>3
    <3>2. 1 \in DOMAIN h /\ 1..(Len(s) - 1) = DOMAIN t
      <4>1. Len(h) = 1 /\ Len(t) = Len(s) - 1 /\ DOMAIN h = 1..Len(h) /\ DOMAIN t = 1..Len(t)
        BY <1>3, <1>4
      <4> QED BY <4>1
    <3>3. u[1] = s[1]
      BY <1>3, <1>4, <3>2 DEF u
    <3>4. ASSUME NEW i \in 1..(Len(s) - 1) PROVE u[1 + i] = t[i] /\ t[i] = s[i + 1]
      <4>1. i \in DOMAIN t /\ Len(h) = 1 /\ t[i] = s[i + 1]
        BY <1>3, <3>2
      <4>2. u[Len(h) + i] = t[i]
        BY <1>4, <4>1 DEF u
      <4> QED BY <4>1, <4>2
    <3> QED BY <3>1, <3>3, <3>4
  <2>2. ASSUME NEW i \in 1..Len(s), i # 1 PROVE u[i] = s[i]
    <3>1. i - 1 \in 1..(Len(s) - 1) /\ 1 + (i - 1) = i /\ (i - 1) + 1 = i
      BY <1>1, <2>2
    <3>2. u[1 + (i - 1)] = t[i - 1] /\ t[i - 1] = s[(i - 1) + 1]
      BY <2>1, <3>1
    <3> QED BY <3>1, <3>2
  <2> QED BY <2>1, <2>2
<1>6. h \o t = s
  BY <1>4, <1>5, SeqEqual DEF u
<1> QED BY <1>1, <1>2, <1>6 DEF h, t

LEMMA TakenFrom ==
  ASSUME NEW S, NEW s \in Seq(S), s # << >>, NEW X, NEW T, NEW F
  PROVE  /\ Only(s, X) <=> Head(s) \in X /\ Only(Tail(s), X)
         /\ None(s, X) <=> Head(s) \notin X /\ None(Tail(s), X)
         /\ EndsOn(s, T, F) <=> EndsOn(Tail(s), T, F) \/ (Head(s) \in T /\ None(Tail(s), F))
<1>1. /\ Tail(s) \in Seq(S) /\ <<Head(s)>> \in Seq(S) /\ s = <<Head(s)>> \o Tail(s)
  BY Taken
<1> DEFINE h == Head(s)
           t == Tail(s)
<1>2. t \in Seq(S) /\ <<h>> \in Seq(S) /\ s = <<h>> \o t
  BY <1>1
<1> HIDE DEF h, t
<1>3. Only(s, X) <=> Only(<<h>>, X) /\ Only(t, X)
  BY <1>2, OnlyJoined
<1>4. None(s, X) <=> None(<<h>>, X) /\ None(t, X)
  BY <1>2, OnlyJoined
<1>5. EndsOn(s, T, F) <=> EndsOn(t, T, F) \/ (EndsOn(<<h>>, T, F) /\ None(t, F))
  BY <1>2, EndsOnJoined
<1>6. /\ Only(<<h>>, X) <=> h \in X
      /\ None(<<h>>, X) <=> h \notin X
      /\ EndsOn(<<h>>, T, F) <=> h \in T
  BY Single
<1> QED BY <1>3, <1>4, <1>5, <1>6 DEF h, t

LEMMA OrderTaken ==
  ASSUME NEW S, NEW s \in Seq(S), s # << >>, NEW T, NEW F
  PROVE  /\ NoneAfter(s, T, F) => /\ NoneAfter(Tail(s), T, F)
                                  /\ Head(s) \in T => None(Tail(s), F)
         /\ Alternate(s, T, F) => /\ Alternate(Tail(s), T, F)
                                  /\ Head(s) \in T => Preceded(Tail(s), T, F)
         /\ Preceded(s, T, F) => /\ Head(s) \notin T
                                 /\ Head(s) \notin F => Preceded(Tail(s), T, F)
<1> DEFINE t == Tail(s)
<1>1. /\ DOMAIN s = 1..Len(s) /\ Len(s) \in Nat \ {0} /\ DOMAIN t = 1..(Len(s) - 1)
      /\ Head(s) = s[1] /\ \A i \in 1..(Len(s) - 1) : t[i] = s[i + 1]
  BY Taken
<1> HIDE DEF t
<1>2. /\ \A i \in DOMAIN t : i + 1 \in DOMAIN s /\ t[i] = s[i + 1] /\ 1 < i + 1
      /\ \A i, j \in DOMAIN t : i < j => i + 1 < j + 1
      /\ \A i \in DOMAIN s : i = 1 \/ (i - 1 \in DOMAIN t /\ s[i] = t[i - 1] /\ i - 1 + 1 = i)
      /\ 1 \in DOMAIN s /\ DOMAIN t \subseteq Nat /\ DOMAIN s \subseteq Nat
  BY <1>1
<1>3. ASSUME NoneAfter(s, T, F)
      PROVE  NoneAfter(t, T, F) /\ (Head(s) \in T => None(t, F))
  BY <1>1, <1>2, <1>3 DEF NoneAfter, None
<1>4. ASSUME Alternate(s, T, F)
      PROVE  Alternate(t, T, F)
  <2> SUFFICES ASSUME NEW i \in DOMAIN t, NEW j \in DOMAIN t, i < j, t[i] \in T, t[j] \in T
               PROVE  \E k \in DOMAIN t : i < k /\ k < j /\ t[k] \in F
    BY DEF Alternate
  <2>1. PICK k \in DOMAIN s : i + 1 < k /\ k < j + 1 /\ s[k] \in F
    BY <1>2, <1>4 DEF Alternate
  <2>2. k - 1 \in DOMAIN t /\ i < k - 1 /\ k - 1 < j /\ t[k - 1] \in F
    BY <1>2, <2>1
  <2> QED BY <2>2
<1>5. ASSUME Alternate(s, T, F), Head(s) \in T
      PROVE  Preceded(t, T, F)
  <2> SUFFICES ASSUME NEW j \in DOMAIN t, t[j] \in T
               PROVE  \E k \in DOMAIN t : k < j /\ t[k] \in F
    BY DEF Preceded
  <2>1. PICK k \in DOMAIN s : 1 < k /\ k < j + 1 /\ s[k] \in F
    BY <1>1, <1>2, <1>5 DEF Alternate
  <2>2. k - 1 \in DOMAIN t /\ k - 1 < j /\ t[k - 1] \in F
    BY <1>2, <2>1
  <2> QED BY <2>2
<1>6. ASSUME Preceded(s, T, F)
      PROVE  Head(s) \notin T
  BY <1>1, <1>2, <1>6 DEF Preceded
<1>7. ASSUME Preceded(s, T, F), Head(s) \notin F
      PROVE  Preceded(t, T, F)
  <2> SUFFICES ASSUME NEW j \in DOMAIN t, t[j] \in T
               PROVE  \E k \in DOMAIN t : k < j /\ t[k] \in F
    BY DEF Preceded
  <2>1. PICK k \in DOMAIN s : k < j + 1 /\ s[k] \in F
    BY <1>2, <1>7 DEF Preceded
  <2>2. k - 1 \in DOMAIN t /\ k - 1 < j /\ t[k - 1] \in F
    BY <1>1, <1>2, <1>7, <2>1
  <2> QED BY <2>2
<1> QED BY <1>3, <1>4, <1>5, <1>6, <1>7 DEF t

-----------------------------------------------------------------------------
(***************************************************************************)
(* Type correctness, with what the commands and the messages are           *)
(***************************************************************************)

C(name) == [cmd |-> name]
Commands == {C("connect"), C("enable"), C("disable"), C("reset"), C("disconnect")}

\* What frame n publishes when it has the given id.
Pub(id, n) == Published(id, Payload[n], CanMap[id])

Names == UNION {DOMAIN Pub(id, n) : id \in DOMAIN CanMap, n \in 1..MaxFrames}
ValuesOf(id, n) == {Pub(id, n)[x] : x \in DOMAIN Pub(id, n)}
Values == UNION {ValuesOf(id, n) : id \in DOMAIN CanMap, n \in 1..MaxFrames}
Entries == [value : Values, at : 1..MaxFrames, id : CanIds]
Tables == UNION {[D -> Entries] : D \in SUBSET Names}

SignalsOf(X) == [type : {"signals"}, items : X]
StatusOf(X) == [type : {"status"}, state : X]
BoundsOf(X) == [type : {"bounds"}, from : X, to : X]
Told == {"connected", "disconnected", "error"}
PageMessages == SignalsOf(Tables) \cup StatusOf(Told) \cup BoundsOf(Frames)

Wires ==
  /\ toWorker \in Seq(Commands) /\ toPage \in Seq(PageMessages)
  /\ latest \in Tables /\ shown \in Tables
  /\ last <= clock
  /\ user = "in" => MaxAsked > 0

Types == TypeOK /\ Wires

LEMMA TableIs ==
  ASSUME NEW f \in Tables
  PROVE  /\ f = [x \in DOMAIN f |-> f[x]] /\ DOMAIN f \subseteq Names
         /\ \A x \in DOMAIN f : f[x] \in Entries
BY DEF Tables

LEMMA EmptyTable == << >> \in Tables /\ DOMAIN << >> = {}
<1>1. DOMAIN << >> = {} /\ << >> = [x \in {} |-> CHOOSE e : e \in Entries]
  OBVIOUS
<1>2. << >> \in [{} -> Entries] /\ {} \in SUBSET Names
  BY <1>1
<1> QED BY <1>1, <1>2 DEF Tables

\* One table laid over another.
LEMMA TableOver ==
  ASSUME NEW f \in Tables, NEW g \in Tables
  PROVE  /\ Over(f, g) \in Tables /\ DOMAIN Over(f, g) = DOMAIN f \cup DOMAIN g
         /\ \A x \in DOMAIN f : Over(f, g)[x] = f[x]
         /\ \A x \in DOMAIN g \ DOMAIN f : Over(f, g)[x] = g[x]
<1>1. /\ DOMAIN f \subseteq Names /\ \A x \in DOMAIN f : f[x] \in Entries
      /\ DOMAIN g \subseteq Names /\ \A x \in DOMAIN g : g[x] \in Entries
  BY TableIs
<1>2. Over(f, g) = [x \in (DOMAIN f) \cup (DOMAIN g) |-> IF x \in DOMAIN f THEN f[x] ELSE g[x]]
  BY DEF Over
<1>3. Over(f, g) \in [(DOMAIN f) \cup (DOMAIN g) -> Entries]
  BY <1>1, <1>2
<1> QED BY <1>1, <1>2, <1>3 DEF Tables

LEMMA TablePart ==
  ASSUME NEW f \in Tables, NEW D \in SUBSET DOMAIN f
  PROVE  [x \in D |-> f[x]] \in Tables
<1>1. D \in SUBSET Names /\ [x \in D |-> f[x]] \in [D -> Entries]
  BY TableIs
<1> QED BY <1>1 DEF Tables

\* The table of what one frame publishes.
FrameTable(id, n) == [x \in DOMAIN Pub(id, n) |-> [value |-> Pub(id, n)[x], at |-> n, id |-> id]]

LEMMA FrameTableIs ==
  ASSUME NEW id \in DOMAIN CanMap, NEW n \in 1..MaxFrames
  PROVE  /\ FrameTable(id, n) \in Tables /\ DOMAIN FrameTable(id, n) = DOMAIN Pub(id, n)
         /\ \A x \in DOMAIN Pub(id, n) : FrameTable(id, n)[x] = [value |-> Pub(id, n)[x], at |-> n, id |-> id]
<1> DEFINE D == DOMAIN Pub(id, n)
<1>1. D \in SUBSET Names
  BY DEF Names
<1>2. \A x \in D : Pub(id, n)[x] \in Values
  <2>1. ValuesOf(id, n) \subseteq Values
    BY DEF Values
  <2> QED BY <2>1 DEF ValuesOf
<1>3. id \in CanIds
  BY WorkerAssumption
<1>4. \A x \in D : [value |-> Pub(id, n)[x], at |-> n, id |-> id] \in Entries
  BY <1>2, <1>3 DEF Entries
<1>5. FrameTable(id, n) \in [D -> Entries]
  BY <1>4 DEF FrameTable
<1> QED BY <1>1, <1>5 DEF Tables, FrameTable

LEMMA BatchIs ==
  ASSUME latest \in Tables, pending \subseteq DOMAIN latest
  PROVE  /\ Batch \in Seq(SignalsOf(Tables))
         /\ pending = {} => Batch = << >>
         /\ pending # {} => /\ Batch = << [type |-> "signals", items |-> [x \in pending |-> latest[x]]] >>
                            /\ [x \in pending |-> latest[x]] \in Tables
<1>1. CASE pending = {}
  BY <1>1 DEF Batch
<1>2. CASE pending # {}
  <2> DEFINE f == [x \in pending |-> latest[x]]
             m == [type |-> "signals", items |-> f]
  <2>1. f \in Tables
    BY TablePart
  <2>2. m \in SignalsOf(Tables)
    BY <2>1 DEF SignalsOf
  <2>3. Batch = << m >>
    BY <1>2 DEF Batch
  <2> HIDE DEF m
  <2>4. << m >> \in Seq(SignalsOf(Tables))
    BY <2>2
  <2> QED BY <1>2, <2>1, <2>3, <2>4 DEF m
<1> QED BY <1>1, <1>2

LEMMA Said ==
  /\ \A x \in Told : Status(x) \in PageMessages /\ Status(x) \in StatusOf(Told)
  /\ \A from, to \in Frames : Bounds(from, to) \in PageMessages /\ Bounds(from, to) \in BoundsOf(Frames)
  /\ {"connected", "disconnected", "error"} = Told
BY DEF Status, Bounds, StatusOf, BoundsOf, PageMessages, Told

\* The three kinds of message tell themselves apart.
LEMMA Kinds ==
  ASSUME NEW m \in PageMessages
  PROVE  /\ m.type \in {"signals", "status", "bounds"}
         /\ m.type = "signals" <=> m \in SignalsOf(Tables)
         /\ m.type = "signals" => m.items \in Tables
         /\ m.type = "status" <=> m \in StatusOf(Told)
         /\ m.type = "status" => m.state \in Told /\ m = Status(m.state)
         /\ m.type = "bounds" <=> m \in BoundsOf(Frames)
         /\ m.type = "bounds" => m.from \in Frames /\ m.to \in Frames
<1>1. CASE m \in SignalsOf(Tables)
  BY <1>1 DEF SignalsOf, StatusOf, BoundsOf
<1>2. CASE m \in StatusOf(Told)
  BY <1>2 DEF SignalsOf, StatusOf, BoundsOf, Status
<1>3. CASE m \in BoundsOf(Frames)
  BY <1>3 DEF SignalsOf, StatusOf, BoundsOf
<1> QED BY <1>1, <1>2, <1>3 DEF PageMessages

LEMMA CommandIs ==
  ASSUME NEW c \in Commands
  PROVE  /\ c.cmd \in {"connect", "enable", "disable", "reset", "disconnect"}
         /\ c = C(c.cmd)
BY DEF Commands, C

LEMMA CommandNames ==
  /\ \A x, y : C(x) = C(y) <=> x = y
  /\ \A x \in {"connect", "enable", "disable", "reset", "disconnect"} : C(x) \in Commands /\ Cmd(x) = <<C(x)>>
<1>1. \A x : C(x).cmd = x
  BY DEF C
<1> QED BY <1>1 DEF C, Commands, Cmd

(* The parts of the type invariant.                                        *)
SocketOK ==
  /\ ws \in {"none", "connecting", "open", "closed"}
  /\ late \in 0..MaxLate /\ strays \in 0..MaxLate /\ timer \in BOOLEAN
  /\ told \in {"truth", "bluff", "late"}
SessionOK ==
  /\ canMap \in {"empty", "loading", "loaded"} /\ enabled \in BOOLEAN
  /\ first \in Frames /\ last \in Frames /\ clock \in Frames
  /\ first <= last /\ last <= clock
SignalsOK ==
  /\ latest \in Tables /\ pending \subseteq DOMAIN latest
  /\ \A x \in DOMAIN latest : latest[x].at \in 1..clock /\ latest[x].id \in CanIds
  /\ handle \in BOOLEAN /\ flushes \in Nat
  /\ pending # {} => handle
  /\ handle => flushes > 0
ControlsOK ==
  /\ user \in {"in", "out"} /\ asked \in 0..MaxAsked
  /\ user = "in" => MaxAsked > 0
  /\ mode \in {"idle", "live", "stopped"}
  /\ call \in {"none", "start", "stop", "limits", "record"}
  /\ resolver \in {"none", "nobody", "stop"}
  /\ status \in {"disconnected", "connecting", "connected", "error"}
  /\ crossed \in BOOLEAN /\ behind \in BOOLEAN /\ leftover \in BOOLEAN
  /\ shown \in Tables
QueuesOK == toWorker \in Seq(Commands) /\ toPage \in Seq(PageMessages)

LEMMA TypeParts == Types <=> SocketOK /\ SessionOK /\ SignalsOK /\ ControlsOK /\ QueuesOK
<1>1. QueuesOK => Messages(toPage)
  <2> SUFFICES ASSUME QueuesOK, NEW i \in DOMAIN toPage PROVE toPage[i].type \in {"signals", "status", "bounds"}
    BY DEF Messages
  <2>1. toPage[i] \in PageMessages
    BY DEF QueuesOK
  <2> QED BY <2>1, Kinds
<1> QED
  BY <1>1 DEF Types, TypeOK, Wires, WorkerTypeOK, SocketOK, SessionOK, SignalsOK, ControlsOK, QueuesOK

\* What a step does to the queues keeps their types.
LEMMA SendOK ==
  ASSUME toWorker \in Seq(Commands), NEW s \in Seq(Commands), Send(s)
  PROVE  toWorker' \in Seq(Commands)
BY ConcatProperties DEF Send

LEMMA PostOK ==
  ASSUME toPage \in Seq(PageMessages), NEW m \in Seq(PageMessages), Post(m)
  PROVE  toPage' \in Seq(PageMessages)
BY ConcatProperties DEF Post

LEMMA CommandTaken ==
  ASSUME QueuesOK, NEW x, Command(x)
  PROVE  /\ toWorker # << >> /\ Head(toWorker) = C(x) /\ C(x) \in Commands
         /\ toWorker' = Tail(toWorker) /\ toWorker' \in Seq(Commands)
<1>1. toWorker # << >> /\ Head(toWorker).cmd = x /\ toWorker' = Tail(toWorker) /\ toWorker \in Seq(Commands)
  BY DEF QueuesOK, Command
<1>2. Head(toWorker) \in Commands /\ Tail(toWorker) \in Seq(Commands)
  BY <1>1, Taken
<1> QED BY <1>1, <1>2, CommandIs

LEMMA MessageTaken ==
  ASSUME QueuesOK, NEW x, Message(x)
  PROVE  /\ toPage # << >> /\ Received = Head(toPage) /\ Received \in PageMessages /\ Received.type = x
         /\ toPage' = Tail(toPage) /\ toPage' \in Seq(PageMessages)
<1>1. toPage # << >> /\ Head(toPage).type = x /\ toPage' = Tail(toPage) /\ toPage \in Seq(PageMessages)
  BY DEF QueuesOK, Message
<1>2. Head(toPage) \in PageMessages /\ Tail(toPage) \in Seq(PageMessages)
  BY <1>1, Taken
<1> QED BY <1>1, <1>2 DEF Received

\* What each action of the worker posts.
Closing == << Status("disconnected") >>
Failing == << Status("error") >> \o Closing
Stopping == Batch \o << Bounds(first, last), Status(IF ws = "none" THEN "disconnected" ELSE "connected") >>
Leaving == Batch \o << Status("disconnected") >>

LEMMA PostsOK ==
  ASSUME SignalsOK, SessionOK
  PROVE  /\ Batch \in Seq(PageMessages) /\ Closing \in Seq(PageMessages)
         /\ Failing \in Seq(PageMessages) /\ Stopping \in Seq(PageMessages) /\ Leaving \in Seq(PageMessages)
         /\ \A x \in Told : << Status(x) >> \in Seq(PageMessages)
         /\ << >> \in Seq(PageMessages)
<1>1. \A x \in Told : Status(x) \in PageMessages
  BY Said
<1>2. Bounds(first, last) \in PageMessages
  BY Said DEF SessionOK
<1>3. SignalsOf(Tables) \subseteq PageMessages
  BY DEF PageMessages
<1>4. Batch \in Seq(PageMessages)
  <2>1. Batch \in Seq(SignalsOf(Tables))
    BY BatchIs DEF SignalsOK
  <2> QED BY <2>1, <1>3, SeqMonotonic
<1>5. "connected" \in Told /\ "disconnected" \in Told /\ "error" \in Told
  BY DEF Told
<1>6. ASSUME NEW m \in PageMessages PROVE << m >> \in Seq(PageMessages)
  OBVIOUS
<1>7. ASSUME NEW m \in PageMessages, NEW k \in PageMessages PROVE << m, k >> \in Seq(PageMessages)
  OBVIOUS
<1>8. \A x \in Told : << Status(x) >> \in Seq(PageMessages)
  BY <1>1, <1>6
<1>9. Closing \in Seq(PageMessages)
  BY <1>5, <1>8 DEF Closing
<1>10. Failing \in Seq(PageMessages)
  BY <1>5, <1>8, <1>9, ConcatProperties DEF Failing
<1>11. Leaving \in Seq(PageMessages)
  BY <1>4, <1>5, <1>8, ConcatProperties DEF Leaving
<1>12. Stopping \in Seq(PageMessages)
  <2> DEFINE x == IF ws = "none" THEN "disconnected" ELSE "connected"
  <2>1. << Bounds(first, last), Status(x) >> \in Seq(PageMessages)
    BY <1>1, <1>2, <1>5, <1>7
  <2> QED BY <1>4, <2>1, ConcatProperties DEF Stopping
<1> QED BY <1>4, <1>8, <1>9, <1>10, <1>11, <1>12

LEMMA SameSocket == SocketOK /\ UNCHANGED <<socket, told>> => SocketOK'
BY DEF SocketOK, socket

LEMMA SameSession == SessionOK /\ UNCHANGED <<canMap, session, clock>> => SessionOK'
BY DEF SessionOK, session

LEMMA SameSignals == SignalsOK /\ UNCHANGED <<signals, clock>> => SignalsOK'
BY DEF SignalsOK, signals

LEMMA SameControls == ControlsOK /\ UNCHANGED pageVars => ControlsOK'
BY DEF ControlsOK, pageVars, controls, store, history

LEMMA SameQueues == QueuesOK /\ UNCHANGED <<toWorker, toPage>> => QueuesOK'
BY DEF QueuesOK

LEMMA SameWorker ==
  SocketOK /\ SessionOK /\ SignalsOK /\ UNCHANGED <<socket, canMap, session, signals, clock, told>>
    => SocketOK' /\ SessionOK' /\ SignalsOK'
BY SameSocket, SameSession, SameSignals

LEMMA TypesOfParts == SocketOK /\ SessionOK /\ SignalsOK /\ ControlsOK /\ QueuesOK => Types
BY TypeParts

LEMMA NextTypes ==
  SocketOK' /\ SessionOK' /\ SignalsOK' /\ ControlsOK'
    /\ toWorker' \in Seq(Commands) /\ toPage' \in Seq(PageMessages) => Types'
<1>1. toWorker' \in Seq(Commands) /\ toPage' \in Seq(PageMessages) => QueuesOK'
  BY DEF QueuesOK
<1> QED BY <1>1, TypesOfParts, PTL

(* The state of a page that was just loaded.                               *)
LEMMA FreshOK ==
  ASSUME WorkerInit
  PROVE  SocketOK /\ SignalsOK /\ (clock \in Frames => SessionOK)
<1>1. 0 \in Frames /\ 0 \in 0..MaxLate
  BY WorkerAssumption DEF Frames
<1>2. \A n \in Frames : n \in Nat /\ 0 <= n
  BY WorkerAssumption DEF Frames
<1>3. SignalsOK
  BY EmptyTable DEF WorkerInit, SignalsOK
<1> QED BY <1>1, <1>2, <1>3 DEF WorkerInit, SocketOK, SessionOK

LEMMA Fresh == WorkerInit /\ clock \in Frames => SocketOK /\ SessionOK /\ SignalsOK
BY FreshOK

LEMMA InitTypes == Init => Types
<1> SUFFICES ASSUME Init PROVE Types
  OBVIOUS
<1>1. WorkerInit /\ PageInit /\ toWorker = << >> /\ toPage = << >> /\ clock = 0
  BY DEF Init
<1>2. clock \in Frames
  BY <1>1, WorkerAssumption DEF Frames
<1>3. ControlsOK
  <2>1. shown \in Tables
    BY <1>1, EmptyTable DEF PageInit
  <2>2. asked \in 0..MaxAsked
    BY <1>1, PageAssumption DEF PageInit
  <2> QED BY <1>1, <2>1, <2>2 DEF PageInit, ControlsOK
<1>4. QueuesOK
  BY <1>1 DEF QueuesOK
<1> QED BY <1>1, <1>2, <1>3, <1>4, FreshOK, TypeParts

\* The steps, page first.
LEMMA PageStepTypes ==
  ASSUME Types,
         \/ \E live \in BOOLEAN : StatusAnswer(live)
         \/ Login \/ Reload \/ Logout
         \/ StartTelemetry \/ StopTelemetry
         \/ StartAnswer \/ StopAnswer \/ LimitsAnswer \/ Refused \/ Denied
         \/ Receive
  PROVE  Types'
<1>0. SocketOK /\ SessionOK /\ SignalsOK /\ ControlsOK /\ QueuesOK
  BY TypeParts
<1>1. ASSUME UNCHANGED workerVars
      PROVE  SocketOK' /\ SessionOK' /\ SignalsOK' /\ toPage' \in Seq(PageMessages)
  BY <1>0, <1>1, SameWorker DEF workerVars, QueuesOK
<1>2. \A x \in {"connect", "enable", "disable", "reset", "disconnect"} : Cmd(x) \in Seq(Commands)
  <2> SUFFICES ASSUME NEW x \in {"connect", "enable", "disable", "reset", "disconnect"}
               PROVE  Cmd(x) \in Seq(Commands)
    OBVIOUS
  <2>1. C(x) \in Commands /\ Cmd(x) = << C(x) >>
    BY CommandNames
  <2> QED BY <2>1
<1>3. toWorker \in Seq(Commands)
  BY <1>0 DEF QueuesOK
<1>4. ASSUME NEW live \in BOOLEAN, StatusAnswer(live) PROVE Types'
  <2>1. UNCHANGED workerVars /\ Send(Cmd(IF live THEN "enable" ELSE "disable"))
    BY <1>4 DEF StatusAnswer
  <2>2. toWorker' \in Seq(Commands)
    BY <1>2, <1>3, <2>1, SendOK
  <2>3. MaxAsked > 0
    BY <1>0, <1>4, PageAssumption DEF StatusAnswer, ControlsOK
  <2>4. ControlsOK'
    BY <1>0, <1>4, <2>3, PageAssumption DEF StatusAnswer, ControlsOK, store, history
  <2> QED BY <1>1, <2>1, <2>2, <2>4, NextTypes DEF QueuesOK
<1>5. CASE Login
  <2>1. UNCHANGED workerVars /\ Send(Cmd("connect"))
    BY <1>5 DEF Login, Authenticate
  <2>2. toWorker' \in Seq(Commands)
    BY <1>2, <1>3, <2>1, SendOK
  <2>3. ControlsOK'
    BY <1>0, <1>5, PageAssumption DEF Login, Authenticate, Ready, ControlsOK
  <2> QED BY <1>1, <2>1, <2>2, <2>3, NextTypes DEF QueuesOK
<1>6. CASE Reload
  <2>1. WorkerInit'
    BY <1>6 DEF Reload, NewWorker, WorkerInit
  <2>2. clock' \in Frames
    BY <1>0, <1>6 DEF Reload, SessionOK
  <2>3. SocketOK' /\ SignalsOK' /\ SessionOK'
    <3>1. (clock \in Frames)' <=> clock' \in Frames
      BY DEF Frames
    <3> QED BY <2>1, <2>2, <3>1, Fresh, PTL
  <2>4. ControlsOK'
    <3>1. shown' \in Tables
      BY <1>6, EmptyTable DEF Reload
    <3>2. asked' \in 0..MaxAsked
      <4>1. MaxAsked \in Nat /\ MaxAsked > 0
        BY <1>0, <1>6, PageAssumption DEF Reload, ControlsOK
      <4>2. asked' = 0 \/ asked' = 1
        BY <1>6 DEF Reload
      <4> QED BY <4>1, <4>2
    <3>3. /\ user' = "out" /\ mode' = "idle" /\ call' = "none" /\ resolver' = "none"
          /\ crossed' = FALSE /\ behind' = FALSE /\ leftover' = FALSE
          /\ status' = "connecting" \/ status' = "disconnected"
      BY <1>6 DEF Reload
    <3> QED BY <3>1, <3>2, <3>3 DEF ControlsOK
  <2>5. toWorker' \in Seq(Commands) /\ toPage' \in Seq(PageMessages)
    <3>1. toWorker' = Cmd("connect") \/ toWorker' = << >>
      BY <1>6 DEF Reload
    <3>2. toPage' = << >>
      BY <1>6 DEF Reload
    <3>3. Cmd("connect") \in Seq(Commands)
      BY <1>2
    <3>4. << >> \in Seq(Commands) /\ << >> \in Seq(PageMessages)
      OBVIOUS
    <3> QED BY <3>1, <3>2, <3>3, <3>4
  <2> QED BY <2>3, <2>4, <2>5, NextTypes
<1>7. CASE Logout
  <2>1. UNCHANGED workerVars /\ Send(Cmd("disconnect"))
    BY <1>7 DEF Logout, LogOut
  <2>2. toWorker' \in Seq(Commands)
    BY <1>2, <1>3, <2>1, SendOK
  <2>3. ControlsOK'
    BY <1>0, <1>7 DEF Logout, LogOut, ControlsOK, store, history
  <2> QED BY <1>1, <2>1, <2>2, <2>3, NextTypes DEF QueuesOK
<1>8. CASE StartTelemetry \/ StopTelemetry
  <2>1. UNCHANGED <<workerVars, toWorker>>
    BY <1>8 DEF StartTelemetry, StopTelemetry, Begin
  <2>2. ControlsOK'
    BY <1>0, <1>8 DEF StartTelemetry, StopTelemetry, Begin, ControlsOK, store, history
  <2> QED BY <1>1, <1>3, <2>1, <2>2, NextTypes DEF QueuesOK
<1>9. CASE StartAnswer
  <2>1. UNCHANGED workerVars /\ Send(Cmd("reset") \o Cmd("enable"))
    BY <1>9 DEF StartAnswer
  <2>2. toWorker' \in Seq(Commands)
    <3>1. Cmd("reset") \o Cmd("enable") \in Seq(Commands)
      BY <1>2, ConcatProperties
    <3> QED BY <1>3, <2>1, <3>1, SendOK
  <2>3. SignalsOnTheirWay \in BOOLEAN
    BY DEF SignalsOnTheirWay
  <2>4. ControlsOK'
    BY <1>0, <1>9, <2>3, EmptyTable DEF StartAnswer, ShownAfterReset, ControlsOK
  <2> QED BY <1>1, <2>1, <2>2, <2>4, NextTypes DEF QueuesOK
<1>10. CASE StopAnswer
  <2>1. UNCHANGED workerVars /\ Send(Cmd("disable"))
    BY <1>10 DEF StopAnswer
  <2>2. toWorker' \in Seq(Commands)
    BY <1>2, <1>3, <2>1, SendOK
  <2>3. LimitsToCome \in BOOLEAN
    BY DEF LimitsToCome
  <2>4. ControlsOK'
    BY <1>0, <1>10, <2>3 DEF StopAnswer, ControlsOK, store
  <2> QED BY <1>1, <2>1, <2>2, <2>4, NextTypes DEF QueuesOK
<1>11. CASE LimitsAnswer \/ Refused
  <2>1. UNCHANGED <<workerVars, toWorker>>
    BY <1>11 DEF LimitsAnswer, Refused
  <2>2. ControlsOK'
    BY <1>0, <1>11 DEF LimitsAnswer, Refused, ControlsOK, store, history
  <2> QED BY <1>1, <1>3, <2>1, <2>2, NextTypes DEF QueuesOK
<1>12. CASE Denied
  <2>1. UNCHANGED workerVars /\ Send(Cmd("disconnect"))
    BY <1>12 DEF Denied, LogOut
  <2>2. toWorker' \in Seq(Commands)
    BY <1>2, <1>3, <2>1, SendOK
  <2>3. ControlsOK'
    BY <1>0, <1>12 DEF Denied, LogOut, ControlsOK, store, history
  <2> QED BY <1>1, <2>1, <2>2, <2>3, NextTypes DEF QueuesOK
<1>13. CASE Receive
  <2>1. UNCHANGED <<toWorker, socket, canMap, session, signals, clock, told>>
    BY <1>13 DEF Receive, workerButPosts
  <2>2. SocketOK' /\ SessionOK' /\ SignalsOK'
    BY <1>0, <2>1, SameWorker
  <2>3. CASE OnSignals
    <3>1. Message("signals") /\ shown' = Over(Received.items, shown)
      BY <2>3 DEF OnSignals
    <3>2. Received \in PageMessages /\ Received.type = "signals" /\ toPage' \in Seq(PageMessages)
      BY <1>0, <3>1, MessageTaken
    <3>3. Received.items \in Tables /\ shown \in Tables
      BY <1>0, <3>2, Kinds DEF ControlsOK
    <3>4. shown' \in Tables
      BY <3>1, <3>3, TableOver
    <3>5. ControlsOK'
      BY <1>0, <1>13, <2>3, <3>4 DEF Receive, OnSignals, ControlsOK, history
    <3> QED BY <1>3, <2>1, <2>2, <3>2, <3>5, NextTypes DEF QueuesOK
  <2>4. CASE OnStatus
    <3>1. Message("status") /\ status' = Received.state
      BY <2>4 DEF OnStatus
    <3>2. Received \in PageMessages /\ Received.type = "status" /\ toPage' \in Seq(PageMessages)
      BY <1>0, <3>1, MessageTaken
    <3>3. Received.state \in Told
      BY <3>2, Kinds
    <3>4. ControlsOK'
      BY <1>0, <1>13, <2>4, <3>1, <3>3 DEF Receive, OnStatus, ControlsOK, history, Told
    <3> QED BY <1>3, <2>1, <2>2, <3>2, <3>4, NextTypes DEF QueuesOK
  <2>5. CASE OnBounds
    <3>1. toPage' \in Seq(PageMessages)
      BY <1>0, <2>5, MessageTaken DEF OnBounds
    <3>2. UNCHANGED <<mode, call>> \/ (call' = "record" /\ mode' = mode) \/ (mode' = "stopped" /\ call' = "none")
      BY <2>5 DEF OnBounds
    <3>3. UNCHANGED <<user, asked, store, history>> /\ resolver' = "none"
      BY <1>13, <2>5 DEF Receive, OnBounds
    <3>4. ControlsOK'
      BY <1>0, <3>2, <3>3 DEF ControlsOK, store, history
    <3> QED BY <1>3, <2>1, <2>2, <3>1, <3>4, NextTypes DEF QueuesOK
  <2> QED BY <1>13, <2>3, <2>4, <2>5 DEF Receive
<1> QED BY <1>4, <1>5, <1>6, <1>7, <1>8, <1>9, <1>10, <1>11, <1>12, <1>13

LEMMA CommandStepTypes ==
  ASSUME Types, DoCommand, UNCHANGED pageVars
  PROVE  Types'
<1>0. SocketOK /\ SessionOK /\ SignalsOK /\ ControlsOK' /\ QueuesOK
  BY TypeParts, SameControls
<1>1. /\ Stopping \in Seq(PageMessages) /\ Leaving \in Seq(PageMessages)
      /\ toPage \in Seq(PageMessages)
  BY <1>0, PostsOK DEF QueuesOK
<1>2. MaxLate \in Nat
  BY WorkerAssumption
<1>3. CASE DoConnect
  <2>1. toWorker' \in Seq(Commands)
    BY <1>0, <1>3, CommandTaken DEF DoConnect
  <2>2. SocketOK'
    BY <1>0, <1>2, <1>3 DEF DoConnect, Connect, GivenUp, SocketOK
  <2>3. SessionOK' /\ SignalsOK' /\ QueuesOK'
    BY <1>0, <1>3, <2>1, SameSignals DEF DoConnect, SessionOK, session, QueuesOK
  <2> QED BY <1>0, <2>2, <2>3, NextTypes DEF QueuesOK
<1>4. CASE DoEnable
  <2>1. toWorker' \in Seq(Commands)
    BY <1>0, <1>4, CommandTaken DEF DoEnable
  <2>2. SocketOK' /\ SessionOK' /\ SignalsOK' /\ QueuesOK'
    BY <1>0, <1>4, <2>1, SameSignals, SameSocket DEF DoEnable, SessionOK, QueuesOK
  <2> QED BY <1>0, <2>2, NextTypes DEF QueuesOK
<1>5. CASE DoDisable
  <2>1. toWorker' \in Seq(Commands)
    BY <1>0, <1>5, CommandTaken DEF DoDisable
  <2>2. toPage' \in Seq(PageMessages)
    <3>1. Post(Stopping)
      BY <1>5 DEF DoDisable, Stopping, StopLimit
    <3> QED BY <1>1, <3>1, PostOK
  <2>3. SocketOK'
    BY <1>0, <1>5 DEF DoDisable, SocketOK, socket
  <2>4. SessionOK'
    BY <1>0, <1>5 DEF DoDisable, SessionOK
  <2>5. SignalsOK'
    BY <1>0, <1>5 DEF DoDisable, Flushed, SignalsOK
  <2> QED BY <1>0, <2>1, <2>2, <2>3, <2>4, <2>5, NextTypes DEF QueuesOK
<1>6. CASE DoReset
  <2>1. toWorker' \in Seq(Commands)
    BY <1>0, <1>6, CommandTaken DEF DoReset
  <2>2. SocketOK' /\ SessionOK'
    BY <1>0, <1>6, SameSocket, WorkerAssumption DEF DoReset, SessionOK, Frames
  <2>3. SignalsOK'
    <3>1. latest' = << >> /\ pending' = {} /\ handle' = FALSE
      BY <1>6 DEF DoReset
    <3>2. flushes' \in Nat
      <4>1. flushes' = flushes \/ (handle /\ flushes' = flushes - 1)
        BY <1>6 DEF DoReset
      <4>2. flushes \in Nat /\ (handle => flushes > 0)
        BY <1>0 DEF SignalsOK
      <4>3. CASE flushes' = flushes
        BY <4>2, <4>3
      <4>4. CASE flushes > 0 /\ flushes' = flushes - 1
        BY <4>2, <4>4
      <4> QED BY <4>1, <4>2, <4>3, <4>4
    <3> QED BY <3>1, <3>2, EmptyTable DEF SignalsOK
  <2> QED BY <1>0, <1>6, <2>1, <2>2, <2>3, NextTypes DEF QueuesOK, DoReset
<1>7. CASE DoDisconnect
  <2>1. toWorker' \in Seq(Commands)
    BY <1>0, <1>7, CommandTaken DEF DoDisconnect
  <2>2. toPage' \in Seq(PageMessages)
    <3>1. Post(Leaving)
      BY <1>7 DEF DoDisconnect, Leaving
    <3> QED BY <1>1, <3>1, PostOK
  <2>3. SocketOK'
    <3>1. late' \in 0..MaxLate
      BY <1>0, <1>2, <1>7 DEF DoDisconnect, GivenUp, SocketOK
    <3> QED BY <1>0, <1>7, <3>1 DEF DoDisconnect, TimerAfterDisconnect, SocketOK
  <2>4. SessionOK'
    BY <1>0, <1>7 DEF DoDisconnect, SessionOK
  <2>5. SignalsOK'
    BY <1>0, <1>7 DEF DoDisconnect, Flushed, SignalsOK
  <2> QED BY <1>0, <2>1, <2>2, <2>3, <2>4, <2>5, NextTypes DEF QueuesOK
<1> QED BY <1>3, <1>4, <1>5, <1>6, <1>7 DEF DoCommand

LEMMA EventStepTypes ==
  ASSUME Types, WorkerEvent, UNCHANGED pageVars
  PROVE  Types'
<1>0. SocketOK /\ SessionOK /\ SignalsOK /\ ControlsOK' /\ QueuesOK
  BY TypeParts, SameControls
<1>1. /\ Batch \in Seq(PageMessages) /\ Closing \in Seq(PageMessages) /\ Failing \in Seq(PageMessages)
      /\ toPage \in Seq(PageMessages) /\ << >> \in Seq(PageMessages)
      /\ \A x \in Told : << Status(x) >> \in Seq(PageMessages)
      /\ "connected" \in Told /\ "error" \in Told
  BY <1>0, PostsOK DEF QueuesOK, Told
<1>2. toWorker' \in Seq(Commands)
  BY <1>0 DEF WorkerEvent, QueuesOK
<1>3. ASSUME NEW id \in CanIds, HandleFrame(id) PROVE Types'
  <2>1. /\ clock' = clock + 1 /\ clock < MaxFrames
        /\ first' = IF NewSession(id) THEN clock + 1 ELSE first
        /\ last' = IF id = Generator THEN last ELSE clock + 1
        /\ UNCHANGED <<socket, canMap, enabled>>
    BY <1>3 DEF HandleFrame
  <2>2. clock + 1 \in 1..MaxFrames /\ clock + 1 \in Frames /\ clock \in Nat
    BY <1>0, <2>1, WorkerAssumption DEF SessionOK, Frames
  <2>3. SessionOK'
    BY <1>0, <2>1, <2>2 DEF SessionOK, NewSession, Frames
  <2>4. SignalsOK'
    <3>1. CASE UNCHANGED signals
      BY <1>0, <2>1, <2>2, <3>1 DEF SignalsOK, signals
    <3>2. ASSUME id \in DOMAIN CanMap, Emit(Published(id, Payload[clock + 1], CanMap[id]), id)
          PROVE  SignalsOK'
      <4> DEFINE n == clock + 1
                 f == FrameTable(id, n)
      <4>1. /\ latest' = Over(f, latest) /\ pending' = pending \cup DOMAIN Pub(id, n)
            /\ handle' = TRUE /\ flushes' = IF handle THEN flushes ELSE flushes + 1
        BY <3>2 DEF Emit, FrameTable, Pub
      <4>2. n \in 1..MaxFrames /\ clock' = n /\ n = clock + 1
        BY <2>1, <2>2
      <4> HIDE DEF n, f
      <4>3. /\ f \in Tables /\ DOMAIN f = DOMAIN Pub(id, n)
            /\ \A x \in DOMAIN f : f[x].at = n /\ f[x].id = id
        <5>1. /\ f \in Tables /\ DOMAIN f = DOMAIN Pub(id, n)
              /\ \A x \in DOMAIN Pub(id, n) : f[x] = [value |-> Pub(id, n)[x], at |-> n, id |-> id]
          BY <3>2, <4>2, FrameTableIs DEF f
        <5> QED BY <5>1
      <4>4. latest \in Tables
        BY <1>0 DEF SignalsOK
      <4>5. /\ latest' \in Tables /\ DOMAIN latest' = DOMAIN f \cup DOMAIN latest
            /\ \A x \in DOMAIN f : latest'[x] = f[x]
            /\ \A x \in DOMAIN latest \ DOMAIN f : latest'[x] = latest[x]
        <5>1. latest' = Over(f, latest) /\ f \in Tables
          BY <4>1, <4>3
        <5>2. /\ Over(f, latest) \in Tables /\ DOMAIN Over(f, latest) = DOMAIN f \cup DOMAIN latest
              /\ \A x \in DOMAIN f : Over(f, latest)[x] = f[x]
              /\ \A x \in DOMAIN latest \ DOMAIN f : Over(f, latest)[x] = latest[x]
          BY <4>4, <5>1, TableOver
        <5> QED BY <5>1, <5>2
      <4>6. ASSUME NEW x \in DOMAIN latest'
            PROVE  latest'[x].at \in 1..clock' /\ latest'[x].id \in CanIds
        <5>1. CASE x \in DOMAIN f
          BY <2>2, <4>2, <4>3, <4>5, <5>1
        <5>2. CASE x \notin DOMAIN f
          BY <1>0, <2>2, <4>2, <4>5, <5>2 DEF SignalsOK
        <5> QED BY <5>1, <5>2
      <4>7. pending' \subseteq DOMAIN latest'
        BY <1>0, <4>1, <4>3, <4>5 DEF SignalsOK
      <4>8. handle' \in BOOLEAN /\ flushes' \in Nat /\ flushes' > 0
        BY <1>0, <4>1 DEF SignalsOK
      <4> QED BY <4>5, <4>6, <4>7, <4>1, <4>8 DEF SignalsOK
    <3> QED BY <1>3, <3>1, <3>2 DEF HandleFrame
  <2>5. \/ /\ Post(<< >>) /\ told' = told
        \/ Post(<< Status("connected") >>) /\ told' = "truth"
    <3>1. PICK rate \in {<< >>, << Status("connected") >>} :
            Post(rate) /\ told' = IF rate = << >> THEN told ELSE "truth"
      BY <1>3 DEF HandleFrame
    <3>2. << Status("connected") >> # << >>
      OBVIOUS
    <3> QED BY <3>1, <3>2
  <2>6. toPage' \in Seq(PageMessages)
    <3>1. CASE Post(<< >>)
      BY <1>1, <3>1, PostOK
    <3>2. CASE Post(<< Status("connected") >>)
      BY <1>1, <3>2, PostOK
    <3> QED BY <2>5, <3>1, <3>2
  <2>7. SocketOK'
    BY <1>0, <2>1, <2>5 DEF SocketOK, socket
  <2> QED BY <1>0, <1>2, <2>3, <2>4, <2>6, <2>7, NextTypes DEF QueuesOK
<1>4. CASE FlushTimer
  <2>1. toPage' \in Seq(PageMessages)
    BY <1>1, <1>4, PostOK DEF FlushTimer
  <2>2. SocketOK' /\ SessionOK'
    BY <1>0, <1>4, SameSocket, SameSession DEF FlushTimer
  <2>3. SignalsOK'
    <3>1. flushes' \in Nat
      BY <1>0, <1>4 DEF FlushTimer, SignalsOK
    <3> QED BY <1>0, <1>4, <3>1 DEF FlushTimer, Flushed, SignalsOK
  <2> QED BY <1>0, <1>2, <2>1, <2>2, <2>3, NextTypes DEF QueuesOK
<1>5. CASE MapAnswer
  <2>1. SessionOK'
    BY <1>0, <1>5 DEF MapAnswer, SessionOK, session
  <2>2. SocketOK' /\ SignalsOK'
    BY <1>0, <1>5, SameSocket, SameSignals DEF MapAnswer
  <2> QED BY <1>0, <1>1, <1>2, <1>5, <2>1, <2>2, NextTypes DEF QueuesOK, MapAnswer
<1>6. CASE Opened
  <2>1. toPage' \in Seq(PageMessages)
    BY <1>1, <1>6, PostOK DEF Opened
  <2>2. SocketOK'
    BY <1>0, <1>6 DEF Opened, SocketOK
  <2>3. SessionOK' /\ SignalsOK'
    BY <1>0, <1>6, SameSession, SameSignals DEF Opened
  <2> QED BY <1>0, <1>2, <2>1, <2>2, <2>3, NextTypes DEF QueuesOK
<1>7. CASE ClosedCleanly \/ Failed
  <2>1. PICK m \in {Closing, Failing} : Closed(m)
    BY <1>7 DEF ClosedCleanly, Failed, OnClosePosts, Closing, Failing
  <2>2. toPage' \in Seq(PageMessages)
    BY <1>1, <2>1, PostOK DEF Closed
  <2>3. SocketOK'
    BY <1>0, <2>1, WorkerAssumption DEF Closed, SocketOK
  <2>4. SessionOK' /\ SignalsOK'
    BY <1>0, <2>1, SameSession, SameSignals DEF Closed
  <2> QED BY <1>0, <1>2, <2>2, <2>3, <2>4, NextTypes DEF QueuesOK
<1>8. CASE LateError
  <2>1. toPage' \in Seq(PageMessages)
    BY <1>1, <1>8, PostOK DEF LateError
  <2>2. SocketOK'
    BY <1>0, <1>8, WorkerAssumption DEF LateError, SocketOK
  <2>3. SessionOK' /\ SignalsOK'
    BY <1>0, <1>8, SameSession, SameSignals DEF LateError
  <2> QED BY <1>0, <1>2, <2>1, <2>2, <2>3, NextTypes DEF QueuesOK
<1>9. CASE ReconnectTimer \/ StrayTimer
  <2>1. toPage' = toPage
    BY <1>9 DEF ReconnectTimer, StrayTimer
  <2>2. SocketOK'
    <3>1. late \in 0..MaxLate /\ strays \in 0..MaxLate /\ late < MaxLate
      BY <1>0, <1>9 DEF ReconnectTimer, StrayTimer, SocketOK
    <3>2. late' \in 0..MaxLate
      BY <1>9, <3>1, WorkerAssumption DEF ReconnectTimer, StrayTimer, Connect, GivenUp
    <3>3. strays' = strays \/ (strays > 0 /\ strays' = strays - 1)
      BY <1>9 DEF ReconnectTimer, StrayTimer
    <3>4. strays' \in 0..MaxLate
      BY <3>1, <3>3, WorkerAssumption
    <3>5. timer' = FALSE \/ timer' = timer
      BY <1>9 DEF ReconnectTimer, StrayTimer
    <3>6. ws' = "connecting" /\ told' = told
      BY <1>9 DEF ReconnectTimer, StrayTimer, Connect
    <3> QED BY <1>0, <3>2, <3>4, <3>5, <3>6 DEF SocketOK
  <2>3. SessionOK' /\ SignalsOK'
    BY <1>0, <1>9, SameSession, SameSignals DEF ReconnectTimer, StrayTimer
  <2> QED BY <1>0, <1>1, <1>2, <2>1, <2>2, <2>3, NextTypes DEF QueuesOK
<1> QED BY <1>3, <1>4, <1>5, <1>6, <1>7, <1>8, <1>9 DEF WorkerEvent

LEMMA TypesStep == Types /\ [Next]_vars => Types'
<1> SUFFICES ASSUME Types, [Next]_vars PROVE Types'
  OBVIOUS
<1>1. CASE UNCHANGED vars
  <2>1. UNCHANGED <<toWorker, toPage, socket, canMap, session, signals, clock, told, pageVars>>
    BY <1>1 DEF vars, workerVars
  <2>2. SocketOK /\ SessionOK /\ SignalsOK /\ ControlsOK /\ QueuesOK
    BY TypeParts
  <2> QED BY <2>1, <2>2, NextTypes, SameWorker, SameControls, SameQueues DEF QueuesOK
<1> QED BY <1>1, PageStepTypes, CommandStepTypes, EventStepTypes DEF Next

\* Every variable keeps its type, however many commands and messages wait; in
\* particular a signal waits to be posted only when a timer will post it.
THEOREM TypeCorrect == Spec => []TypeOK
<1>1. Spec => []Types
  BY InitTypes, TypesStep, PTL DEF Spec
<1>2. Types => TypeOK
  BY DEF Types
<1> QED BY <1>1, <1>2, PTL

LEMMA AlwaysTypes == Spec => []Types
BY InitTypes, TypesStep, PTL DEF Spec

-----------------------------------------------------------------------------
(***************************************************************************)
(* How tables of signals travel from the worker to the screen              *)
(***************************************************************************)

Words == StatusOf(Told) \cup BoundsOf(Frames)
PendingTable == [x \in pending |-> latest[x]]

LEMMA WordsOnly ==
  ASSUME SessionOK
  PROVE  /\ << >> \in Seq(Words)
         /\ \A x \in Told : << Status(x) >> \in Seq(Words)
         /\ Closing \in Seq(Words) /\ Failing \in Seq(Words)
         /\ << Bounds(first, last), Status(IF ws = "none" THEN "disconnected" ELSE "connected") >> \in Seq(Words)
<1>1. ASSUME NEW x \in Told PROVE << Status(x) >> \in Seq(Words) /\ Status(x) \in Words
  <2>1. Status(x) \in Words
    BY Said DEF Words
  <2> QED BY <2>1
<1>2. "connected" \in Told /\ "disconnected" \in Told /\ "error" \in Told
  BY DEF Told
<1>3. Closing \in Seq(Words)
  BY <1>1, <1>2 DEF Closing
<1>4. Failing \in Seq(Words)
  BY <1>1, <1>2, <1>3, ConcatProperties DEF Failing
<1>5. Bounds(first, last) \in Words
  BY Said DEF SessionOK, Words
<1>6. ASSUME NEW m \in Words, NEW k \in Words PROVE << m, k >> \in Seq(Words)
  OBVIOUS
<1>7. << Bounds(first, last), Status(IF ws = "none" THEN "disconnected" ELSE "connected") >> \in Seq(Words)
  BY <1>1, <1>2, <1>5, <1>6
<1> QED BY <1>1, <1>3, <1>4, <1>7

\* What a step does to the messages on their way to the page.
LEMMA MessageFlow ==
  ASSUME Types, [Next]_vars
  PROVE  \/ toPage' = toPage
         \/ toPage' = << >>
         \/ toPage # << >> /\ toPage' = Tail(toPage)
         \/ \E m \in Seq(Words) : toPage' = toPage \o m \/ toPage' = toPage \o (Batch \o m)
<1>0. SocketOK /\ SessionOK /\ SignalsOK /\ ControlsOK /\ QueuesOK
  BY TypeParts
<1>1. /\ << >> \in Seq(Words)
      /\ \A x \in Told : << Status(x) >> \in Seq(Words)
      /\ Closing \in Seq(Words) /\ Failing \in Seq(Words)
      /\ << Bounds(first, last), Status(IF ws = "none" THEN "disconnected" ELSE "connected") >> \in Seq(Words)
      /\ "connected" \in Told /\ "disconnected" \in Told /\ "error" \in Told
  BY <1>0, WordsOnly DEF Told
<1>2. Batch \o << >> = Batch
  <2>1. Batch \in Seq(PageMessages)
    BY <1>0, PostsOK
  <2> QED BY <2>1, ConcatEmptySeq
<1>3. CASE \/ UNCHANGED vars
           \/ \E live \in BOOLEAN : StatusAnswer(live)
           \/ Login \/ Logout \/ StartTelemetry \/ StopTelemetry
           \/ StartAnswer \/ StopAnswer \/ LimitsAnswer \/ Refused \/ Denied
           \/ DoConnect \/ DoEnable \/ DoReset \/ MapAnswer \/ ReconnectTimer \/ StrayTimer
  BY <1>3 DEF vars, workerVars, StatusAnswer, Login, Logout, StartTelemetry, StopTelemetry, Begin,
              StartAnswer, StopAnswer, LimitsAnswer, Refused, Denied,
              DoConnect, DoEnable, DoReset, MapAnswer, ReconnectTimer, StrayTimer
<1>4. CASE Reload
  BY <1>4 DEF Reload
<1>5. CASE Receive
  BY <1>5 DEF Receive, OnSignals, OnStatus, OnBounds, Message
<1>6. CASE DoDisable
  BY <1>1, <1>6 DEF DoDisable, Post, StopLimit
<1>7. CASE DoDisconnect
  BY <1>1, <1>7 DEF DoDisconnect, Post
<1>8. ASSUME NEW id \in CanIds, HandleFrame(id)
      PROVE  \E m \in Seq(Words) : toPage' = toPage \o m
  <2>1. \E rate \in {<< >>, << Status("connected") >>} : Post(rate)
    BY <1>8 DEF HandleFrame
  <2> QED BY <1>1, <2>1 DEF Post
<1>9. CASE FlushTimer
  BY <1>1, <1>2, <1>9 DEF FlushTimer, Post
<1>10. CASE Opened
  BY <1>1, <1>10 DEF Opened, Post
<1>11. CASE ClosedCleanly \/ Failed
  BY <1>1, <1>11 DEF ClosedCleanly, Failed, Closed, Post, OnClosePosts, Closing, Failing
<1>12. CASE LateError
  BY <1>1, <1>12 DEF LateError, Post
<1> QED BY <1>3, <1>4, <1>5, <1>6, <1>7, <1>8, <1>9, <1>10, <1>11, <1>12
        DEF Next, DoCommand, WorkerEvent

LEMMA OnlyFlow ==
  ASSUME Types, [Next]_vars, NEW X, Only(toPage, X), Words \subseteq X, Only(Batch, X)
  PROVE  Only(toPage', X)
<1>0. toPage \in Seq(PageMessages) /\ Batch \in Seq(PageMessages)
  BY TypeParts, PostsOK DEF QueuesOK
<1>1. CASE toPage' = toPage
  BY <1>1
<1>2. CASE toPage' = << >>
  BY <1>2 DEF Only
<1>3. CASE toPage # << >> /\ toPage' = Tail(toPage)
  <2>1. Only(Tail(toPage), X)
    BY <1>0, <1>3, TakenFrom
  <2> QED BY <1>3, <2>1
<1>4. ASSUME NEW m \in Seq(Words), toPage' = toPage \o m \/ toPage' = toPage \o (Batch \o m)
      PROVE  Only(toPage', X)
  <2>1. Words \subseteq PageMessages
    BY DEF Words, PageMessages
  <2>2. m \in Seq(PageMessages)
    BY <2>1, SeqMonotonic
  <2>3. Only(m, X)
    BY DEF Only
  <2>4. Batch \o m \in Seq(PageMessages) /\ Only(Batch \o m, X)
    BY <1>0, <2>2, <2>3, OnlyJoined, ConcatProperties
  <2>5. Only(toPage \o m, X)
    BY <1>0, <2>2, <2>3, OnlyJoined
  <2>6. Only(toPage \o (Batch \o m), X)
    BY <1>0, <2>4, OnlyJoined
  <2> QED BY <1>4, <2>5, <2>6
<1> QED BY <1>1, <1>2, <1>3, <1>4, MessageFlow

\* What a step does to the signals of the worker: a frame, a flush, or a new start.
FrameHandled(id) ==
  /\ enabled /\ id \in DOMAIN CanMap /\ clock + 1 \in 1..MaxFrames
  /\ latest' = Over(FrameTable(id, clock + 1), latest)
  /\ pending' = pending \cup DOMAIN Pub(id, clock + 1)

LEMMA SignalFlow ==
  ASSUME Types, [Next]_vars
  PROVE  \/ latest' = latest /\ pending' \in {pending, {}}
         \/ latest' = << >> /\ pending' = {}
         \/ \E id \in CanIds : FrameHandled(id) /\ shown' = shown
<1>0. SocketOK /\ SessionOK /\ SignalsOK /\ ControlsOK /\ QueuesOK
  BY TypeParts
<1>1. CASE \/ UNCHANGED vars
           \/ \E live \in BOOLEAN : StatusAnswer(live)
           \/ Login \/ Logout \/ StartTelemetry \/ StopTelemetry
           \/ StartAnswer \/ StopAnswer \/ LimitsAnswer \/ Refused \/ Denied \/ Receive
           \/ DoConnect \/ DoEnable
  BY <1>1 DEF vars, workerVars, signals, StatusAnswer, Login, Logout, StartTelemetry, StopTelemetry, Begin,
              StartAnswer, StopAnswer, LimitsAnswer, Refused, Denied, Receive, workerButPosts,
              DoConnect, DoEnable
<1>2. CASE DoDisable \/ DoDisconnect \/ FlushTimer
  BY <1>2 DEF DoDisable, DoDisconnect, FlushTimer, Flushed
<1>3. CASE Reload \/ DoReset
  BY <1>3 DEF Reload, NewWorker, DoReset
<1>4. CASE MapAnswer \/ ReconnectTimer \/ StrayTimer \/ Opened \/ ClosedCleanly \/ Failed \/ LateError
  BY <1>4 DEF MapAnswer, ReconnectTimer, StrayTimer, Opened, ClosedCleanly, Failed, Closed, LateError, signals
<1>5. ASSUME NEW id \in CanIds, HandleFrame(id), UNCHANGED pageVars
      PROVE  UNCHANGED signals \/ (FrameHandled(id) /\ shown' = shown)
  <2>1. enabled /\ clock < MaxFrames /\ shown' = shown
    BY <1>5 DEF HandleFrame, pageVars, store
  <2>2. clock + 1 \in 1..MaxFrames
    BY <1>0, <2>1, WorkerAssumption DEF SessionOK, Frames
  <2>3. CASE UNCHANGED signals
    BY <2>3
  <2>4. CASE id \in DOMAIN CanMap /\ Emit(Published(id, Payload[clock + 1], CanMap[id]), id)
    <3>1. /\ latest' = Over(FrameTable(id, clock + 1), latest)
          /\ pending' = pending \cup DOMAIN Pub(id, clock + 1)
      BY <2>4 DEF Emit, FrameTable, Pub
    <3> QED BY <2>1, <2>2, <2>4, <3>1 DEF FrameHandled
  <2> QED BY <1>5, <2>3, <2>4 DEF HandleFrame
<1>6. ASSUME UNCHANGED signals
      PROVE  latest' = latest /\ pending' \in {pending, {}}
  BY <1>6 DEF signals
<1> QED BY <1>1, <1>2, <1>3, <1>4, <1>5, <1>6 DEF Next, DoCommand, WorkerEvent

LEMMA ShownFlow ==
  ASSUME Types, [Next]_vars
  PROVE  \/ shown' = shown
         \/ shown' = << >>
         \/ /\ toPage # << >> /\ Head(toPage) \in SignalsOf(Tables)
            /\ shown' = Over(Head(toPage).items, shown) /\ UNCHANGED <<latest, pending, toWorker>>
<1>0. QueuesOK
  BY TypeParts
<1>1. CASE OnSignals /\ Receive
  <2>1. Message("signals") /\ shown' = Over(Received.items, shown)
    BY <1>1 DEF OnSignals
  <2>2. toPage # << >> /\ Received = Head(toPage) /\ Received \in PageMessages /\ Received.type = "signals"
    BY <1>0, <2>1, MessageTaken
  <2>3. Received \in SignalsOf(Tables)
    BY <2>2, Kinds
  <2>4. UNCHANGED <<latest, pending, toWorker>>
    BY <1>1 DEF Receive, workerButPosts, signals
  <2> QED BY <2>1, <2>2, <2>3, <2>4
<1>2. CASE Receive /\ ~OnSignals
  BY <1>2 DEF Receive, OnStatus, OnBounds, store
<1>3. CASE \/ UNCHANGED vars \/ UNCHANGED pageVars
           \/ \E live \in BOOLEAN : StatusAnswer(live)
           \/ Login \/ Logout \/ StartTelemetry \/ StopTelemetry
           \/ StopAnswer \/ LimitsAnswer \/ Refused \/ Denied
  BY <1>3 DEF vars, pageVars, store, StatusAnswer, Login, Logout, StartTelemetry, StopTelemetry, Begin,
              StopAnswer, LimitsAnswer, Refused, Denied
<1>4. CASE Reload \/ StartAnswer
  BY <1>4 DEF Reload, StartAnswer, ShownAfterReset
<1> QED BY <1>1, <1>2, <1>3, <1>4 DEF Next

\* A set of tables that has the empty one and those of the frames, and that has with
\* two tables the one put over the other, has all there ever are.
TablesIn(G) ==
  /\ latest \in G /\ shown \in G /\ PendingTable \in G
  /\ Only(toPage, SignalsOf(G) \cup Words)

LEMMA PendingIs ==
  ASSUME SignalsOK
  PROVE  /\ PendingTable \in Tables /\ DOMAIN PendingTable = pending
         /\ \A x \in pending : PendingTable[x] = latest[x]
         /\ pending = {} => PendingTable = << >> /\ Batch = << >>
         /\ pending # {} => Batch = << [type |-> "signals", items |-> PendingTable] >>
<1>1. PendingTable \in Tables
  BY TablePart DEF SignalsOK, PendingTable
<1>2. Batch = << >> \/ Batch = << [type |-> "signals", items |-> PendingTable] >>
  BY DEF Batch, PendingTable
<1>3. pending = {} => PendingTable = << >>
  BY DEF PendingTable
<1> QED BY <1>1, <1>3 DEF PendingTable, Batch

LEMMA TablesInStep ==
  ASSUME NEW G, G \subseteq Tables, << >> \in G, \A f, g \in G : Over(f, g) \in G,
         \A id \in DOMAIN CanMap : \A n \in 1..MaxFrames : FrameTable(id, n) \in G,
         Types, [Next]_vars, TablesIn(G)
  PROVE  TablesIn(G)'
<1>0. SignalsOK /\ SignalsOK' /\ QueuesOK
  <2>1. Types'
    BY TypesStep
  <2>2. Types => SignalsOK
    BY TypeParts
  <2> QED BY <2>1, <2>2, TypeParts DEF Types, TypeOK, WorkerTypeOK, Wires, SignalsOK
<1>1. latest \in G /\ shown \in G /\ PendingTable \in G /\ Only(toPage, SignalsOf(G) \cup Words)
  BY DEF TablesIn
<1>2. Only(toPage', SignalsOf(G) \cup Words)
  <2>1. Only(Batch, SignalsOf(G) \cup Words)
    <3>1. [type |-> "signals", items |-> PendingTable] \in SignalsOf(G)
      BY <1>1 DEF SignalsOf
    <3>2. CASE pending = {}
      BY <1>0, <3>2, PendingIs DEF Only
    <3>3. CASE pending # {}
      BY <1>0, <3>1, <3>3, PendingIs, Single
    <3> QED BY <3>2, <3>3
  <2> QED BY <1>1, <2>1, OnlyFlow
<1>3. shown' \in G
  <2>1. ASSUME toPage # << >>, Head(toPage) \in SignalsOf(Tables)
        PROVE  Head(toPage).items \in G
    <3>1. Head(toPage) \in SignalsOf(G) \cup Words
      BY <1>0, <1>1, <2>1, TakenFrom DEF QueuesOK
    <3>2. Head(toPage).type = "signals"
      BY <2>1 DEF SignalsOf
    <3>3. \A w \in Words : w.type # "signals"
      BY DEF Words, StatusOf, BoundsOf
    <3> QED BY <3>1, <3>2, <3>3 DEF SignalsOf
  <2> QED BY <1>1, <2>1, ShownFlow
<1>4. latest' \in G /\ PendingTable' \in G
  <2>1. PendingTable' = [x \in pending' |-> latest'[x]]
    BY DEF PendingTable
  <2>2. CASE latest' = latest /\ pending' = pending
    BY <1>1, <2>1, <2>2 DEF PendingTable
  <2>3. CASE pending' = {} /\ (latest' = latest \/ latest' = << >>)
    <3>1. PendingTable' = << >>
      BY <2>1, <2>3
    <3> QED BY <1>1, <2>3, <3>1
  <2>4. ASSUME NEW id \in CanIds, FrameHandled(id)
        PROVE  latest' \in G /\ PendingTable' \in G
    <3> DEFINE f == FrameTable(id, clock + 1)
    <3>1. /\ f \in G /\ f \in Tables /\ DOMAIN f = DOMAIN Pub(id, clock + 1)
          /\ latest' = Over(f, latest) /\ pending' = pending \cup DOMAIN f
      BY <2>4, FrameTableIs DEF FrameHandled
    <3> HIDE DEF f
    <3>2. Over(f, PendingTable) \in G /\ Over(f, latest) \in G
      BY <1>1, <3>1
    <3>3. DOMAIN PendingTable = pending /\ pending \subseteq DOMAIN latest
      BY <1>0, PendingIs DEF SignalsOK
    <3>4. PendingTable' = Over(f, PendingTable)
      BY <2>1, <3>1, <3>3 DEF Over, PendingTable
    <3> QED BY <3>1, <3>2, <3>4
  <2> QED BY <2>2, <2>3, <2>4, SignalFlow
<1> QED BY <1>2, <1>3, <1>4 DEF TablesIn

(***************************************************************************)
(* Frames are shown whole                                                  *)
(***************************************************************************)

\* Every frame of a message publishes the same names: so it is of all messages but
\* those that carry one group of the cells of the battery.
FixedNames ==
  \A id \in DOMAIN CanMap : \A n, m \in 1..MaxFrames : DOMAIN Pub(id, n) = DOMAIN Pub(id, m)

SpeedNames == {Plain("INS_SPEED"), Plain("VELOCITY_N"), Plain("Speed_Linear_Y")}
SpeedIsOf(v, a, b) == v = a^2 + b^2

\* A frame that publishes the speed, or a component of it, publishes the three, and the
\* speed is the one of these components: so it is when the map has both components in
\* one message, and none of the three in another.
SpeedTogether ==
  \A id \in DOMAIN CanMap : \A n \in 1..MaxFrames :
    SpeedNames \cap DOMAIN Pub(id, n) # {} =>
      /\ SpeedNames \subseteq DOMAIN Pub(id, n)
      /\ SpeedIsOf(Pub(id, n)[Plain("INS_SPEED")], Pub(id, n)[Plain("VELOCITY_N")],
                   Pub(id, n)[Plain("Speed_Linear_Y")])

\* All the names message id publishes are there, and those still of message id are of
\* one frame.
NamesOf(id) == UNION {DOMAIN Pub(id, n) : n \in 1..MaxFrames}
WholeFrames(f) ==
  /\ \A x \in DOMAIN f : f[x].id \in DOMAIN CanMap /\ x \in NamesOf(f[x].id) /\ NamesOf(f[x].id) \subseteq DOMAIN f
  /\ \A x, y \in DOMAIN f : f[x].id = f[y].id => f[x].at = f[y].at
SpeedFits(f) ==
  SpeedNames \cap DOMAIN f # {} =>
    /\ SpeedNames \subseteq DOMAIN f
    /\ SpeedIsOf(f[Plain("INS_SPEED")].value, f[Plain("VELOCITY_N")].value, f[Plain("Speed_Linear_Y")].value)

WholeTables == {f \in Tables : WholeFrames(f) /\ SpeedFits(f)}

LEMMA WholeEmpty == << >> \in WholeTables
<1>1. << >> \in Tables /\ DOMAIN << >> = {}
  BY EmptyTable
<1> QED BY <1>1 DEF WholeTables, WholeFrames, SpeedFits

LEMMA WholeFrame ==
  ASSUME FixedNames, SpeedTogether, NEW id \in DOMAIN CanMap, NEW n \in 1..MaxFrames
  PROVE  FrameTable(id, n) \in WholeTables
<1> DEFINE f == FrameTable(id, n)
<1>1. /\ f \in Tables /\ DOMAIN f = DOMAIN Pub(id, n)
      /\ \A x \in DOMAIN f : f[x].value = Pub(id, n)[x] /\ f[x].at = n /\ f[x].id = id
  <2>1. /\ f \in Tables /\ DOMAIN f = DOMAIN Pub(id, n)
        /\ \A x \in DOMAIN Pub(id, n) : f[x] = [value |-> Pub(id, n)[x], at |-> n, id |-> id]
    BY FrameTableIs
  <2> HIDE DEF f
  <2> QED BY <2>1
<1> HIDE DEF f
<1>2. NamesOf(id) = DOMAIN f
  <2>1. \A m \in 1..MaxFrames : DOMAIN Pub(id, m) = DOMAIN Pub(id, n)
    BY DEF FixedNames
  <2>2. UNION {DOMAIN Pub(id, m) : m \in 1..MaxFrames} = DOMAIN Pub(id, n)
    BY <2>1
  <2> QED BY <1>1, <2>2 DEF NamesOf
<1>3. WholeFrames(f)
  BY <1>1, <1>2 DEF WholeFrames
<1>4. SpeedFits(f)
  BY <1>1 DEF SpeedFits, SpeedTogether, SpeedNames
<1> QED BY <1>1, <1>3, <1>4 DEF WholeTables, f

LEMMA WholeOver ==
  ASSUME NEW f \in WholeTables, NEW g \in WholeTables
  PROVE  Over(f, g) \in WholeTables
<1> DEFINE h == Over(f, g)
<1>1. /\ f \in Tables /\ WholeFrames(f) /\ SpeedFits(f)
      /\ g \in Tables /\ WholeFrames(g) /\ SpeedFits(g)
  BY DEF WholeTables
<1>2. /\ h \in Tables /\ DOMAIN h = DOMAIN f \cup DOMAIN g
      /\ \A x \in DOMAIN f : h[x] = f[x]
      /\ \A x \in DOMAIN g \ DOMAIN f : h[x] = g[x]
  BY <1>1, TableOver
<1> HIDE DEF h
<1>3. ASSUME NEW x \in DOMAIN h
      PROVE  h[x].id \in DOMAIN CanMap /\ x \in NamesOf(h[x].id) /\ NamesOf(h[x].id) \subseteq DOMAIN h
  <2>1. CASE x \in DOMAIN f
    BY <1>1, <1>2, <2>1 DEF WholeFrames
  <2>2. CASE x \in DOMAIN g \ DOMAIN f
    BY <1>1, <1>2, <2>2 DEF WholeFrames
  <2> QED BY <1>2, <2>1, <2>2
<1>4. ASSUME NEW x \in DOMAIN f, NEW y \in DOMAIN g \ DOMAIN f
      PROVE  f[x].id # g[y].id
  BY <1>1 DEF WholeFrames
<1>5. ASSUME NEW x \in DOMAIN h, NEW y \in DOMAIN h, h[x].id = h[y].id
      PROVE  h[x].at = h[y].at
  <2>1. CASE x \in DOMAIN f /\ y \in DOMAIN f
    BY <1>1, <1>2, <1>5, <2>1 DEF WholeFrames
  <2>2. CASE x \in DOMAIN g \ DOMAIN f /\ y \in DOMAIN g \ DOMAIN f
    BY <1>1, <1>2, <1>5, <2>2 DEF WholeFrames
  <2>3. CASE x \in DOMAIN f /\ y \in DOMAIN g \ DOMAIN f
    BY <1>2, <1>4, <1>5, <2>3
  <2>4. CASE y \in DOMAIN f /\ x \in DOMAIN g \ DOMAIN f
    BY <1>2, <1>4, <1>5, <2>4
  <2> QED BY <1>2, <2>1, <2>2, <2>3, <2>4
<1>6. WholeFrames(h)
  BY <1>3, <1>5 DEF WholeFrames
<1>7. SpeedFits(h)
  <2>1. CASE SpeedNames \cap DOMAIN f # {}
    BY <1>1, <1>2, <2>1 DEF SpeedFits, SpeedNames
  <2>2. CASE SpeedNames \cap DOMAIN f = {}
    BY <1>1, <1>2, <2>2 DEF SpeedFits, SpeedNames
  <2> QED BY <2>1, <2>2
<1> QED BY <1>2, <1>6, <1>7 DEF WholeTables, h

LEMMA WholeInit == Init => TablesIn(WholeTables)
<1> SUFFICES ASSUME Init PROVE TablesIn(WholeTables)
  OBVIOUS
<1>1. latest = << >> /\ pending = {} /\ shown = << >> /\ toPage = << >>
  BY DEF Init, WorkerInit, PageInit
<1>2. PendingTable = << >>
  BY <1>1 DEF PendingTable
<1> QED BY <1>1, <1>2, WholeEmpty DEF TablesIn, Only

LEMMA WholeStep ==
  ASSUME FixedNames, SpeedTogether
  PROVE  Types /\ [Next]_vars /\ TablesIn(WholeTables) => TablesIn(WholeTables)'
<1>1. WholeTables \subseteq Tables
  BY DEF WholeTables
<1>2. \A f, g \in WholeTables : Over(f, g) \in WholeTables
  BY WholeOver
<1>3. \A id \in DOMAIN CanMap : \A n \in 1..MaxFrames : FrameTable(id, n) \in WholeTables
  BY WholeFrame
<1> HIDE DEF WholeTables
<1> QED BY <1>1, <1>2, <1>3, WholeEmpty, TablesInStep

\* Whatever batches the worker made of the frames, whichever of them the page has, and
\* whenever a collection began anew, the signals shown of a message are of one frame of
\* it, and the speed shown is the one of the components beside it.
THEOREM FramesWhole ==
  ASSUME FixedNames, SpeedTogether
  PROVE  Spec => []FramesShownWhole
<1>1. Types /\ [Next]_vars /\ TablesIn(WholeTables) => TablesIn(WholeTables)'
  BY WholeStep
<1>2. TablesIn(WholeTables) => FramesShownWhole
  <2> SUFFICES ASSUME shown \in WholeTables PROVE FramesShownWhole
    BY DEF TablesIn
  <2> QED BY DEF WholeTables, WholeFrames, SpeedFits, SpeedIsOf, SpeedNames, FramesShownWhole
<1> QED BY <1>1, <1>2, WholeInit, AlwaysTypes, PTL DEF Spec

-----------------------------------------------------------------------------
(***************************************************************************)
(* How commands travel from the page to the worker                         *)
(***************************************************************************)

LEMMA Appended ==
  ASSUME NEW S, NEW s \in Seq(S), NEW e \in S, NEW X, NEW T, NEW F
  PROVE  /\ s \o <<e>> \in Seq(S)
         /\ Only(s \o <<e>>, X) <=> Only(s, X) /\ e \in X
         /\ None(s \o <<e>>, X) <=> None(s, X) /\ e \notin X
         /\ EndsOn(s \o <<e>>, T, F) <=> e \in T \/ (EndsOn(s, T, F) /\ e \notin F)
<1>1. <<e>> \in Seq(S)
  OBVIOUS
<1>2. s \o <<e>> \in Seq(S)
  BY <1>1, ConcatProperties
<1>3. /\ Only(s \o <<e>>, X) <=> Only(s, X) /\ Only(<<e>>, X)
      /\ None(s \o <<e>>, X) <=> None(s, X) /\ None(<<e>>, X)
  BY <1>1, OnlyJoined
<1>4. EndsOn(s \o <<e>>, T, F) <=> EndsOn(<<e>>, T, F) \/ (EndsOn(s, T, F) /\ None(<<e>>, F))
  BY <1>1, EndsOnJoined
<1>5. /\ Only(<<e>>, X) <=> e \in X
      /\ None(<<e>>, X) <=> e \notin X
      /\ EndsOn(<<e>>, T, F) <=> e \in T
  BY Single
<1>6. None(<<e>>, F) <=> e \notin F
  BY Single
<1> QED BY <1>2, <1>3, <1>4, <1>5, <1>6

LEMMA AppendedNone ==
  ASSUME NEW S, NEW s \in Seq(S), NEW e \in S, NEW X
  PROVE  s \o <<e>> \in Seq(S) /\ (None(s \o <<e>>, X) <=> None(s, X) /\ e \notin X)
BY Appended

LEMMA AppendedEnds ==
  ASSUME NEW S, NEW s \in Seq(S), NEW e \in S, NEW T, NEW F
  PROVE  EndsOn(s \o <<e>>, T, F) <=> e \in T \/ (EndsOn(s, T, F) /\ e \notin F)
BY Appended

Sends(x) == toWorker' = toWorker \o <<C(x)>> /\ UNCHANGED workerVars
Does(x) == toWorker # << >> /\ Head(toWorker) = C(x) /\ toWorker' = Tail(toWorker) /\ UNCHANGED pageVars

Begun ==
  /\ StartAnswer /\ toWorker' = (toWorker \o <<C("reset")>>) \o <<C("enable")>>
  /\ UNCHANGED workerVars
Cleared == DoReset /\ Does("reset")

\* What each action does to the queue of commands.
LEMMA CommandFlow ==
  ASSUME Types, [Next]_vars
  PROVE  \/ Reload
         \/ Begun
         \/ Login /\ Sends("connect")
         \/ StatusAnswer(TRUE) /\ Sends("enable")
         \/ StatusAnswer(FALSE) /\ Sends("disable")
         \/ StopAnswer /\ Sends("disable")
         \/ (Logout \/ Denied) /\ Sends("disconnect")
         \/ (StartTelemetry \/ StopTelemetry \/ LimitsAnswer \/ Refused) /\ UNCHANGED <<toWorker, workerVars>>
         \/ Receive /\ UNCHANGED <<toWorker, workerButPosts>>
         \/ DoConnect /\ Does("connect")
         \/ DoEnable /\ Does("enable")
         \/ DoDisable /\ Does("disable")
         \/ Cleared
         \/ DoDisconnect /\ Does("disconnect")
         \/ WorkerEvent /\ UNCHANGED <<toWorker, pageVars>>
         \/ UNCHANGED vars
<1>0. QueuesOK /\ toWorker \in Seq(Commands)
  BY TypeParts DEF QueuesOK
<1>1. \A x \in {"connect", "enable", "disable", "reset", "disconnect"} : C(x) \in Commands /\ Cmd(x) = <<C(x)>>
  BY CommandNames
<1>2. ASSUME NEW x, Command(x), UNCHANGED pageVars PROVE Does(x)
  BY <1>0, <1>2, CommandTaken DEF Does
<1>3. CASE StartAnswer
  <2>1. UNCHANGED workerVars /\ toWorker' = toWorker \o (<<C("reset")>> \o <<C("enable")>>)
    BY <1>1, <1>3 DEF StartAnswer, Send
  <2>2. <<C("reset")>> \in Seq(Commands) /\ <<C("enable")>> \in Seq(Commands)
    <3>1. C("reset") \in Commands /\ C("enable") \in Commands
      BY <1>1
    <3> QED BY <3>1
  <2>3. toWorker \o (<<C("reset")>> \o <<C("enable")>>) = (toWorker \o <<C("reset")>>) \o <<C("enable")>>
    BY <1>0, <2>2, ConcatAssociative
  <2> QED BY <1>3, <2>1, <2>3 DEF Begun
<1>4. CASE Login
  BY <1>1, <1>4 DEF Login, Authenticate, Send, Sends
<1>5. ASSUME NEW live \in BOOLEAN, StatusAnswer(live)
      PROVE  (StatusAnswer(TRUE) /\ Sends("enable")) \/ (StatusAnswer(FALSE) /\ Sends("disable"))
  <2>1. CASE live = TRUE
    <3>1. StatusAnswer(TRUE)
      BY <1>5, <2>1
    <3> QED BY <1>1, <3>1 DEF StatusAnswer, Send, Sends
  <2>2. CASE live = FALSE
    <3>1. StatusAnswer(FALSE)
      BY <1>5, <2>2
    <3> QED BY <1>1, <3>1 DEF StatusAnswer, Send, Sends
  <2> QED BY <2>1, <2>2
<1>6. CASE StopAnswer
  BY <1>1, <1>6 DEF StopAnswer, Send, Sends
<1>7. CASE Logout \/ Denied
  BY <1>1, <1>7 DEF Logout, Denied, LogOut, Send, Sends
<1>8. CASE StartTelemetry \/ StopTelemetry \/ LimitsAnswer \/ Refused
  BY <1>8 DEF StartTelemetry, StopTelemetry, Begin, LimitsAnswer, Refused
<1>9. CASE Receive
  BY <1>9 DEF Receive
<1>10. ASSUME DoCommand, UNCHANGED pageVars
       PROVE  \/ DoConnect /\ Does("connect")
              \/ DoEnable /\ Does("enable")
              \/ DoDisable /\ Does("disable")
              \/ Cleared
              \/ DoDisconnect /\ Does("disconnect")
  <2>1. CASE DoConnect
    BY <1>2, <1>10, <2>1 DEF DoConnect
  <2>2. CASE DoEnable
    BY <1>2, <1>10, <2>2 DEF DoEnable
  <2>3. CASE DoDisable
    BY <1>2, <1>10, <2>3 DEF DoDisable
  <2>4. CASE DoReset
    BY <1>2, <1>10, <2>4 DEF DoReset, Cleared
  <2>5. CASE DoDisconnect
    BY <1>2, <1>10, <2>5 DEF DoDisconnect
  <2> QED BY <1>10, <2>1, <2>2, <2>3, <2>4, <2>5 DEF DoCommand
<1>11. CASE WorkerEvent /\ UNCHANGED pageVars
  BY <1>11 DEF WorkerEvent
<1> QED BY <1>3, <1>4, <1>5, <1>6, <1>7, <1>8, <1>9, <1>10, <1>11 DEF Next

\* A step that neither begins nor clears leaves the worker alone, or is a worker's own.
LEMMA OrdinaryStep ==
  ASSUME Types, [Next]_vars, ~Reload, ~Begun, ~Cleared
  PROVE  \/ UNCHANGED workerVars
         \/ Receive /\ UNCHANGED workerButPosts
         \/ WorkerEvent /\ toWorker' = toWorker /\ UNCHANGED pageVars
         \/ DoConnect /\ Does("connect")
         \/ DoEnable /\ Does("enable")
         \/ DoDisable /\ Does("disable")
         \/ DoDisconnect /\ Does("disconnect")
<1>1. ASSUME NEW x, Sends(x) PROVE UNCHANGED workerVars
  BY <1>1 DEF Sends
<1>2. UNCHANGED <<toWorker, workerVars>> \/ UNCHANGED vars => UNCHANGED workerVars
  BY DEF vars
<1>3. UNCHANGED <<toWorker, workerButPosts>> => UNCHANGED workerButPosts
  OBVIOUS
<1>4. UNCHANGED <<toWorker, pageVars>> => toWorker' = toWorker /\ UNCHANGED pageVars
  OBVIOUS
<1>5. CASE WorkerEvent /\ UNCHANGED <<toWorker, pageVars>>
  BY <1>4, <1>5
<1>6. CASE Receive /\ UNCHANGED <<toWorker, workerButPosts>>
  BY <1>3, <1>6
<1>7. CASE UNCHANGED vars
  BY <1>2, <1>7
<1>8. CASE (StartTelemetry \/ StopTelemetry \/ LimitsAnswer \/ Refused) /\ UNCHANGED <<toWorker, workerVars>>
  BY <1>2, <1>8
<1> QED BY <1>1, <1>5, <1>6, <1>7, <1>8, CommandFlow

LEMMA NamesDiffer ==
  /\ C("connect") # C("enable") /\ C("connect") # C("disable") /\ C("connect") # C("reset")
  /\ C("connect") # C("disconnect") /\ C("enable") # C("disable") /\ C("enable") # C("reset")
  /\ C("enable") # C("disconnect") /\ C("disable") # C("reset") /\ C("disable") # C("disconnect")
  /\ C("reset") # C("disconnect")
BY CommandNames

(***************************************************************************)
(* Nothing stale is shown                                                  *)
(***************************************************************************)

\* The tables that are no newer than what the worker has.
UpTo == {f \in Tables : \A x \in DOMAIN f : x \in DOMAIN latest /\ f[x].at <= latest[x].at}

Reset == {C("reset")}
Enable == {C("enable")}

\* When a reset is on its way nothing of before it can be: the worker records nothing,
\* holds nothing back, and gets no command to record before the reset.
StartedClean ==
  /\ NoneAfter(toWorker, Enable, Reset)
  /\ ~None(toWorker, Reset) =>
       ~enabled /\ pending = {} /\ shown = << >> /\ Only(toPage, Words)

NoneNewer == shown \in UpTo /\ Only(toPage, SignalsOf(UpTo) \cup Words)

StaleInv == ~leftover => NoneNewer /\ StartedClean

LEMMA UpToEmpty == << >> \in UpTo
<1>1. << >> \in Tables /\ DOMAIN << >> = {}
  BY EmptyTable
<1> QED BY <1>1 DEF UpTo

\* The worker's own table only gets newer, but for a reset.
LEMMA UpToGrows ==
  ASSUME SignalsOK, clock \in Nat, latest' = latest \/ \E id \in CanIds : FrameHandled(id)
  PROVE  UpTo \subseteq UpTo'
<1>1. CASE latest' = latest
  BY <1>1 DEF UpTo
<1>2. ASSUME NEW id \in CanIds, FrameHandled(id) PROVE UpTo \subseteq UpTo'
  <2> DEFINE f == FrameTable(id, clock + 1)
  <2>1. /\ f \in Tables /\ latest' = Over(f, latest) /\ latest \in Tables
        /\ \A x \in DOMAIN f : f[x].at = clock + 1
    <3>1. /\ f \in Tables /\ DOMAIN f = DOMAIN Pub(id, clock + 1)
          /\ \A x \in DOMAIN Pub(id, clock + 1) :
               f[x] = [value |-> Pub(id, clock + 1)[x], at |-> clock + 1, id |-> id]
      BY <1>2, FrameTableIs DEF FrameHandled
    <3>2. latest' = Over(f, latest) /\ latest \in Tables
      BY <1>2 DEF FrameHandled, SignalsOK
    <3> HIDE DEF f
    <3> QED BY <3>1, <3>2
  <2> HIDE DEF f
  <2>2. /\ DOMAIN latest' = DOMAIN f \cup DOMAIN latest
        /\ \A x \in DOMAIN f : latest'[x] = f[x]
        /\ \A x \in DOMAIN latest \ DOMAIN f : latest'[x] = latest[x]
    BY <2>1, TableOver
  <2>3. \A x \in DOMAIN latest : latest[x].at \in 1..clock
    BY DEF SignalsOK
  <2>4. ASSUME NEW x \in DOMAIN latest, NEW n \in Nat, n <= latest[x].at
        PROVE  x \in DOMAIN latest' /\ n <= latest'[x].at
    <3>1. CASE x \in DOMAIN f
      BY <2>1, <2>2, <2>3, <2>4, <3>1
    <3>2. CASE x \notin DOMAIN f
      BY <2>2, <2>4, <3>2
    <3> QED BY <3>1, <3>2
  <2>5. ASSUME NEW g \in Tables, NEW x \in DOMAIN g PROVE g[x].at \in Nat
    BY <2>5, TableIs DEF Entries
  <2> QED BY <2>4, <2>5 DEF UpTo
<1> QED BY <1>1, <1>2

LEMMA PendingUpTo ==
  ASSUME SignalsOK
  PROVE  PendingTable \in UpTo /\ Only(Batch, SignalsOf(UpTo) \cup Words)
<1>1. PendingTable \in UpTo
  <2>1. /\ PendingTable \in Tables /\ DOMAIN PendingTable = pending
        /\ \A x \in pending : PendingTable[x] = latest[x]
    BY PendingIs
  <2>2. \A x \in pending : x \in DOMAIN latest /\ latest[x].at \in Nat
    BY DEF SignalsOK
  <2> QED BY <2>1, <2>2 DEF UpTo
<1>2. [type |-> "signals", items |-> PendingTable] \in SignalsOf(UpTo)
  BY <1>1 DEF SignalsOf
<1>3. CASE pending = {}
  BY <1>1, <1>3, PendingIs DEF Only
<1>4. CASE pending # {}
  <2> DEFINE m == [type |-> "signals", items |-> PendingTable]
  <2>1. Batch = << m >> /\ m \in SignalsOf(UpTo)
    BY <1>2, <1>4, PendingIs
  <2> HIDE DEF m
  <2>2. \A i \in DOMAIN << m >> : << m >>[i] = m
    OBVIOUS
  <2> QED BY <1>1, <2>1, <2>2 DEF Only
<1> QED BY <1>1, <1>3, <1>4

\* A step that is no new start lets nothing newer in.
LEMMA NoneNewerStep ==
  ASSUME Types, [Next]_vars, NoneNewer, latest' = latest \/ \E id \in CanIds : FrameHandled(id) /\ shown' = shown
  PROVE  NoneNewer'
<1>0. SignalsOK /\ clock \in Nat /\ QueuesOK
  BY TypeParts DEF SessionOK, Frames
<1> DEFINE K == UpTo
<1>1. K \subseteq UpTo'
  BY <1>0, UpToGrows
<1>2. Only(Batch, SignalsOf(UpTo) \cup Words) /\ Only(toPage, SignalsOf(UpTo) \cup Words)
  BY <1>0, PendingUpTo DEF NoneNewer
<1>3. ASSUME NEW k, k = SignalsOf(UpTo) \cup Words
      PROVE  Only(toPage', k)
  BY <1>2, <1>3, OnlyFlow
<1>4. SignalsOf(UpTo) \cup Words \subseteq SignalsOf(UpTo') \cup Words
  BY <1>1 DEF SignalsOf
<1>5. Only(toPage', SignalsOf(UpTo') \cup Words)
  BY <1>3, <1>4 DEF Only
<1>6. shown' \in UpTo'
  <2>1. CASE shown' = shown
    BY <1>1, <2>1 DEF NoneNewer
  <2>2. CASE shown' = << >>
    <3>1. << >> \in UpTo'
      <4>1. (<< >> \in UpTo)'
        BY UpToEmpty, PTL
      <4> QED BY <4>1
    <3> QED BY <2>2, <3>1
  <2>3. CASE /\ toPage # << >> /\ Head(toPage) \in SignalsOf(Tables)
             /\ shown' = Over(Head(toPage).items, shown) /\ latest' = latest
    <3>1. Head(toPage) \in SignalsOf(UpTo) \cup Words
      BY <1>0, <1>2, <2>3, TakenFrom DEF QueuesOK
    <3>2. Head(toPage).type = "signals" /\ \A w \in Words : w.type # "signals"
      BY <2>3 DEF SignalsOf, Words, StatusOf, BoundsOf
    <3>3. Head(toPage).items \in UpTo /\ shown \in UpTo
      BY <3>1, <3>2 DEF SignalsOf, NoneNewer
    <3>4. ASSUME NEW f \in UpTo, NEW g \in UpTo PROVE Over(f, g) \in UpTo
      <4>1. /\ Over(f, g) \in Tables /\ DOMAIN Over(f, g) = DOMAIN f \cup DOMAIN g
            /\ \A x \in DOMAIN f : Over(f, g)[x] = f[x]
            /\ \A x \in DOMAIN g \ DOMAIN f : Over(f, g)[x] = g[x]
        BY TableOver DEF UpTo
      <4> QED BY <4>1 DEF UpTo
    <3> QED BY <1>1, <2>3, <3>3, <3>4
  <2> QED BY <2>1, <2>2, <2>3, ShownFlow
<1> QED BY <1>5, <1>6 DEF NoneNewer

LEMMA StaleInit == Init => StaleInv
<1> SUFFICES ASSUME Init PROVE NoneNewer /\ StartedClean
  BY DEF StaleInv
<1>1. toWorker = << >> /\ toPage = << >> /\ shown = << >>
  BY DEF Init, PageInit
<1>2. NoneAfter(toWorker, Enable, Reset) /\ None(toWorker, Reset) /\ Only(toPage, SignalsOf(UpTo) \cup Words)
  BY <1>1, Empty
<1> QED BY <1>1, <1>2, UpToEmpty DEF NoneNewer, StartedClean

LEMMA StaleStep == Types /\ [Next]_vars /\ StaleInv => StaleInv'
<1> SUFFICES ASSUME Types, [Next]_vars, StaleInv, ~leftover'
             PROVE  NoneNewer' /\ StartedClean'
  BY DEF StaleInv
<1>0. /\ toWorker \in Seq(Commands) /\ toPage \in Seq(PageMessages) /\ SignalsOK
      /\ leftover \in BOOLEAN
  BY TypeParts DEF QueuesOK, ControlsOK
<1>1. (<< >> \in UpTo)'
  BY UpToEmpty, PTL
<1>2. \A x \in {"connect", "enable", "disable", "reset", "disconnect"} : C(x) \in Commands
  BY CommandNames
<1>3. CASE Reload
  <2>1. /\ shown' = << >> /\ toPage' = << >>
        /\ (toWorker' = << >>) \/ (toWorker' = <<C("connect")>>)
    BY <1>3, CommandNames DEF Reload
  <2>2. NoneAfter(toWorker', Enable, Reset) /\ None(toWorker', Reset)
    <3>1. CASE toWorker' = << >>
      BY <3>1, Empty
    <3>2. CASE toWorker' = <<C("connect")>>
      <4>1. << >> \in Seq(Commands) /\ << >> \o <<C("connect")>> = <<C("connect")>>
        BY <1>2
      <4>2. /\ NoneAfter(<< >>, Enable, Reset) /\ None(<< >>, Reset)
            /\ C("connect") \notin Reset /\ C("connect") \in Commands
        BY <1>2, NamesDiffer, Empty DEF Reset
      <4>3. NoneAfter(<< >> \o <<C("connect")>>, Enable, Reset)
        BY <4>1, <4>2, OrderAppended
      <4>4. None(<< >> \o <<C("connect")>>, Reset)
        BY <4>1, <4>2, AppendedNone
      <4> QED BY <3>2, <4>1, <4>3, <4>4
    <3> QED BY <2>1, <3>1, <3>2
  <2>3. Only(toPage', SignalsOf(UpTo') \cup Words)
    BY <2>1 DEF Only
  <2> QED BY <1>1, <2>1, <2>2, <2>3 DEF NoneNewer, StartedClean
<1>4. CASE Begun
  <2>1. ~SignalsOnTheirWay /\ shown' = << >>
    BY <1>4 DEF Begun, StartAnswer, ShownAfterReset
  <2>2. ~enabled /\ pending = {} /\ UNCHANGED <<toPage, enabled, pending, latest>>
    BY <1>4, <2>1 DEF Begun, SignalsOnTheirWay, workerVars, session, signals
  <2>3. Only(toPage, Words)
    <3> SUFFICES ASSUME NEW i \in DOMAIN toPage PROVE toPage[i] \in Words
      BY DEF Only
    <3>1. toPage[i] \in PageMessages /\ toPage[i].type # "signals"
      BY <1>0, <2>1 DEF SignalsOnTheirWay
    <3> QED BY <3>1, Kinds DEF Words
  <2>4. None(toWorker, Enable)
    <3> SUFFICES ASSUME NEW i \in DOMAIN toWorker PROVE toWorker[i] \notin Enable
      BY DEF None
    <3>1. toWorker[i].cmd # "enable" /\ toWorker[i] \in Commands
      BY <1>0, <2>1 DEF SignalsOnTheirWay
    <3> QED BY <3>1 DEF Enable, C
  <2> DEFINE s == toWorker \o <<C("reset")>>
  <2>5. NoneAfter(s, Enable, Reset) /\ s \in Seq(Commands)
    <3>1. NoneAfter(toWorker, Enable, Reset)
      BY <2>4 DEF NoneAfter, None
    <3>2. C("reset") \in Commands
      BY <1>2
    <3> QED BY <1>0, <2>4, <3>1, <3>2, OrderAppended, AppendedNone, AppendedEnds
  <2> HIDE DEF s
  <2>6. NoneAfter(s \o <<C("enable")>>, Enable, Reset)
    <3>1. C("enable") \in Commands /\ C("enable") \notin Reset
      BY <1>2, NamesDiffer DEF Reset
    <3> QED BY <2>5, <3>1, OrderAppended
  <2>7. StartedClean'
    BY <1>4, <2>1, <2>2, <2>3, <2>6 DEF Begun, StartedClean, s
  <2>8. Only(toPage', SignalsOf(UpTo') \cup Words)
    BY <2>2, <2>3 DEF Only
  <2> QED BY <1>1, <2>1, <2>7, <2>8 DEF NoneNewer
<1>5. ASSUME Cleared PROVE NoneNewer' /\ StartedClean'
  <2>1. ~leftover /\ shown' = shown
    BY <1>5 DEF Cleared, Does, pageVars, history, store
  <2>2. C("reset") \in Reset /\ ~None(toWorker, Reset)
    <3>1. C("reset") \in Reset
      BY DEF Reset
    <3> QED BY <1>0, <1>5, <3>1, TakenFrom DEF Cleared, Does
  <2>3. ~enabled /\ pending = {} /\ shown = << >> /\ Only(toPage, Words)
    BY <2>1, <2>2 DEF StaleInv, StartedClean
  <2>4. toPage' = toPage /\ enabled' = enabled /\ pending' = {}
    BY <1>5 DEF Cleared, DoReset
  <2>5. NoneAfter(toWorker', Enable, Reset)
    BY <1>0, <1>5, <2>1, OrderTaken DEF Cleared, StaleInv, StartedClean, Does
  <2>6. StartedClean'
    BY <2>1, <2>3, <2>4, <2>5 DEF StartedClean
  <2>7. Only(toPage', SignalsOf(UpTo') \cup Words)
    BY <2>3, <2>4 DEF Only
  <2> QED BY <1>1, <2>1, <2>3, <2>6, <2>7 DEF NoneNewer
<1>6. ASSUME ~Reload, ~Begun, ~Cleared
      PROVE  /\ ~leftover
             /\ latest' = latest \/ \E id \in CanIds : FrameHandled(id) /\ shown' = shown
  <2>1. leftover' = leftover
    BY <1>6, CommandFlow DEF vars, pageVars, history, Login, StatusAnswer, StopAnswer, Logout, Denied, Receive,
         StartTelemetry, StopTelemetry, LimitsAnswer, Refused, Begin, Does
  <2>2. CASE /\ latest' = << >> /\ pending' = {}
             /\ ~\E id \in CanIds : FrameHandled(id) /\ shown' = shown
    <3>1. ASSUME NEW id \in CanIds, HandleFrame(id), UNCHANGED pageVars PROVE latest' = latest
      <4>1. CASE UNCHANGED signals
        BY <4>1 DEF signals
      <4>2. CASE /\ id \in DOMAIN CanMap
                 /\ Emit(Published(id, Payload[clock + 1], CanMap[id]), id)
        <5>1. enabled /\ clock < MaxFrames /\ clock \in Nat /\ shown' = shown
          BY <3>1, TypeParts DEF HandleFrame, pageVars, store, SessionOK, Frames
        <5>2. clock + 1 \in 1..MaxFrames
          BY <5>1, WorkerAssumption
        <5>3. FrameHandled(id)
          BY <4>2, <5>1, <5>2 DEF FrameHandled, Emit, FrameTable, Pub
        <5> QED BY <2>2, <5>1, <5>3
      <4> QED BY <3>1, <4>1, <4>2 DEF HandleFrame
    <3>2. WorkerEvent /\ UNCHANGED pageVars => latest' = latest
      BY <3>1 DEF WorkerEvent, FlushTimer, MapAnswer, Opened, ClosedCleanly, Failed, Closed, LateError,
                  ReconnectTimer, StrayTimer, signals
    <3>3. DoConnect \/ DoEnable \/ DoDisable \/ DoDisconnect => latest' = latest
      BY DEF DoConnect, DoEnable, DoDisable, DoDisconnect, signals
    <3>4. UNCHANGED workerVars \/ UNCHANGED workerButPosts => latest' = latest
      BY DEF workerVars, workerButPosts, signals
    <3>5. latest' = latest
      BY <1>6, <3>2, <3>3, <3>4, OrdinaryStep
    <3> QED BY <2>1, <3>5
  <2> QED BY <1>0, <2>1, <2>2, SignalFlow
<1>7. ASSUME ~Reload, ~Begun, ~Cleared PROVE NoneNewer'
  <2>1. NoneNewer
    BY <1>6, <1>7 DEF StaleInv
  <2> QED BY <1>6, <1>7, <2>1, NoneNewerStep
<1>8. ASSUME ~Reload, ~Begun, ~Cleared PROVE StartedClean'
  <2>0. StartedClean
    BY <1>6, <1>8 DEF StaleInv
  <2>1. /\ NoneAfter(toWorker', Enable, Reset)
        /\ None(toWorker, Reset) => None(toWorker', Reset)
        /\ toWorker' # toWorker => enabled' = enabled \/ enabled' = FALSE \/ None(toWorker', Reset)
    <3>1. ASSUME NEW x \in {"connect", "enable", "disable", "disconnect"}, Sends(x)
          PROVE  /\ NoneAfter(toWorker', Enable, Reset)
                 /\ None(toWorker, Reset) => None(toWorker', Reset)
                 /\ enabled' = enabled
      <4>1. C(x) \in Commands /\ C(x) \notin Reset
        BY <1>2, CommandNames DEF Reset
      <4>2. toWorker' = toWorker \o <<C(x)>> /\ enabled' = enabled
        BY <3>1 DEF Sends, workerVars, session
      <4>3. NoneAfter(toWorker \o <<C(x)>>, Enable, Reset)
        BY <1>0, <2>0, <4>1, OrderAppended DEF StartedClean
      <4>4. None(toWorker \o <<C(x)>>, Reset) <=> None(toWorker, Reset) /\ C(x) \notin Reset
        BY <1>0, <4>1, AppendedNone
      <4> QED BY <4>1, <4>2, <4>3, <4>4
    <3>2. ASSUME NEW x \in {"connect", "enable", "disable", "disconnect"}, Does(x)
          PROVE  /\ NoneAfter(toWorker', Enable, Reset)
                 /\ None(toWorker, Reset) => None(toWorker', Reset)
                 /\ x = "enable" => None(toWorker', Reset)
      <4>1. NoneAfter(Tail(toWorker), Enable, Reset) /\ (Head(toWorker) \in Enable => None(Tail(toWorker), Reset))
        BY <1>0, <2>0, <3>2, OrderTaken DEF Does, StartedClean
      <4>2. None(toWorker, Reset) => None(Tail(toWorker), Reset)
        BY <1>0, <3>2, TakenFrom DEF Does
      <4> QED BY <3>2, <4>1, <4>2 DEF Does, Enable
    <3>3. CASE toWorker' = toWorker
      BY <2>0, <3>3 DEF StartedClean
    <3>4. CASE \E x \in {"connect", "enable", "disable", "disconnect"} : Sends(x)
      BY <3>1, <3>4
    <3>5. CASE DoConnect /\ Does("connect")
      BY <3>2, <3>5 DEF DoConnect, session
    <3>6. CASE DoEnable /\ Does("enable")
      BY <3>2, <3>6
    <3>7. CASE DoDisable /\ Does("disable")
      BY <3>2, <3>7 DEF DoDisable
    <3>8. CASE DoDisconnect /\ Does("disconnect")
      BY <3>2, <3>8 DEF DoDisconnect
    <3> QED BY <1>8, <3>3, <3>4, <3>5, <3>6, <3>7, <3>8, CommandFlow DEF vars
  <2>2. ASSUME ~None(toWorker', Reset)
        PROVE  ~enabled' /\ pending' = {} /\ shown' = << >> /\ Only(toPage', Words)
    <3>1. ~enabled /\ pending = {} /\ shown = << >> /\ Only(toPage, Words)
      BY <2>0, <2>1, <2>2 DEF StartedClean
    <3>2. Only(toPage', Words)
      <4>1. Only(Batch, Words)
        BY <1>0, <3>1, PendingIs, Empty
      <4> QED BY <3>1, <4>1, OnlyFlow
    <3>3. pending' = {}
      BY <3>1, <1>6, <1>8, SignalFlow DEF FrameHandled
    <3>4. shown' = << >>
      <4>1. ASSUME toPage # << >>, Head(toPage) \in SignalsOf(Tables) PROVE FALSE
        <5>1. Head(toPage) \in Words
          BY <1>0, <3>1, <4>1, TakenFrom
        <5> QED BY <4>1, <5>1 DEF Words, SignalsOf, StatusOf, BoundsOf
      <4> QED BY <3>1, <4>1, ShownFlow
    <3>5. ~enabled'
      <4>1. CASE toWorker' # toWorker
        BY <2>1, <2>2, <3>1, <4>1
      <4>2. CASE toWorker' = toWorker
        <5>1. WorkerEvent => enabled' = enabled
          BY DEF WorkerEvent, HandleFrame, FlushTimer, MapAnswer, Opened, ClosedCleanly, Failed, Closed, LateError,
                 ReconnectTimer, StrayTimer, session
        <5>2. UNCHANGED workerVars \/ UNCHANGED workerButPosts => enabled' = enabled
          BY DEF workerVars, workerButPosts, session
        <5>3. DoConnect \/ DoDisable \/ DoDisconnect => enabled' = enabled \/ enabled' = FALSE
          BY DEF DoConnect, DoDisable, DoDisconnect, session
        <5>4. ~Does("enable")
          <6>1. ASSUME Does("enable") PROVE Len(Tail(toWorker)) = Len(toWorker) - 1 /\ Len(toWorker) \in Nat
            BY <1>0, <6>1, HeadTailProperties, LenProperties DEF Does
          <6> QED BY <4>2, <6>1 DEF Does
        <5>7. enabled' = enabled \/ enabled' = FALSE
          BY <1>8, <5>1, <5>2, <5>3, <5>4, OrdinaryStep
        <5> QED BY <3>1, <5>7
      <4> QED BY <4>1, <4>2
    <3> QED BY <3>2, <3>3, <3>4, <3>5
  <2> QED BY <2>1, <2>2 DEF StartedClean
<1> QED BY <1>3, <1>4, <1>5, <1>6, <1>7, <1>8, CommandFlow

LEMMA AlwaysStale == Spec => []StaleInv
BY StaleInit, StaleStep, AlwaysTypes, PTL DEF Spec

\* Once a collection has begun with nothing of before it on the way, the page shows no
\* signal of an earlier one, however long the reset takes to reach the worker, and none
\* that is newer than what the worker has.
THEOREM NothingStale == Spec => []NothingStaleShown
<1>1. StaleInv => NothingStaleShown
  BY DEF StaleInv, NoneNewer, UpTo, NothingStaleShown
<1> QED BY <1>1, AlwaysStale, PTL


(***************************************************************************)
(* The connection is that of whoever is logged in                          *)
(***************************************************************************)

\* With no login overtaken at most one is unanswered, and then nobody controls anything.
LoginInv == ~crossed => asked <= 1 /\ (asked = 1 => call = "none" /\ user = "out")

PageInv ==
  /\ resolver = "stop" => call = "limits"
  /\ ws = "none" => ~timer
  /\ LoginInv

LEMMA PageInvInit == Init => PageInv
BY DEF Init, WorkerInit, PageInit, PageInv, LoginInv

LEMMA TimerOfSocket ==
  ASSUME Types, [Next]_vars, ws = "none" => ~timer
  PROVE  ws' = "none" => ~timer'
<1>1. UNCHANGED workerVars \/ UNCHANGED workerButPosts => UNCHANGED <<ws, timer>>
  BY DEF workerVars, workerButPosts, socket
<1>2. DoConnect \/ DoDisconnect => (ws' = "none" => ~timer')
  BY DEF DoConnect, Connect, DoDisconnect, TimerAfterDisconnect
<1>3. DoEnable \/ DoDisable \/ Cleared => UNCHANGED <<ws, timer>>
  BY DEF DoEnable, DoDisable, DoReset, Cleared, socket
<1>4. WorkerEvent => UNCHANGED <<ws, timer>> \/ ws' # "none"
  BY DEF WorkerEvent, HandleFrame, FlushTimer, MapAnswer, Opened, ClosedCleanly, Failed, Closed, LateError,
         ReconnectTimer, StrayTimer, Connect, socket
<1>5. Reload => ~timer'
  BY DEF Reload, NewWorker
<1>6. Begun => UNCHANGED workerVars
  BY DEF Begun
<1>7. CASE Reload \/ Begun \/ Cleared
  BY <1>1, <1>3, <1>5, <1>6, <1>7
<1>8. CASE ~Reload /\ ~Begun /\ ~Cleared
  <2>1. UNCHANGED <<ws, timer>> \/ (ws' = "none" => ~timer')
    BY <1>1, <1>2, <1>3, <1>4, <1>8, OrdinaryStep
  <2> QED BY <2>1
<1> QED BY <1>7, <1>8

LEMMA PageInvStep == Types /\ [Next]_vars /\ PageInv => PageInv'
<1> SUFFICES ASSUME Types, [Next]_vars, PageInv PROVE PageInv'
  OBVIOUS
<1>0. asked \in Nat
  BY TypeParts, PageAssumption DEF ControlsOK
<1>1. ws' = "none" => ~timer'
  BY TimerOfSocket DEF PageInv
<1>2. resolver' = "stop" => call' = "limits"
  <2>1. CASE UNCHANGED <<call, resolver>>
    BY <2>1 DEF PageInv
  <2>2. CASE \E live \in BOOLEAN : StatusAnswer(live)
    BY <2>2 DEF StatusAnswer, PageInv
  <2>3. CASE Reload \/ Login \/ Logout \/ StartTelemetry \/ StopTelemetry \/ StartAnswer \/ StopAnswer
             \/ LimitsAnswer \/ Refused \/ Denied
    BY <2>3 DEF PageInv, Reload, Login, Logout, StartTelemetry, StopTelemetry, Begin, MayControl, StartAnswer,
                StopAnswer, LimitsAnswer, Refused, Denied
  <2>4. CASE Receive
    BY <2>4 DEF PageInv, Receive, OnSignals, OnStatus, OnBounds
  <2>5. UNCHANGED vars \/ UNCHANGED pageVars => UNCHANGED <<call, resolver>>
    BY DEF vars, pageVars, controls
  <2> QED BY <2>1, <2>2, <2>3, <2>4, <2>5 DEF Next
<1>3. LoginInv'
  <2> SUFFICES ASSUME ~crossed' PROVE asked' <= 1 /\ (asked' = 1 => call' = "none" /\ user' = "out")
    BY DEF LoginInv
  <2>1. CASE UNCHANGED <<asked, call, user, crossed>>
    BY <2>1 DEF PageInv, LoginInv
  <2>2. ASSUME NEW live \in BOOLEAN, StatusAnswer(live)
        PROVE  asked' <= 1 /\ (asked' = 1 => call' = "none" /\ user' = "out")
    <3>1. asked > 0 /\ asked' = asked - 1 /\ crossed' = crossed
      BY <2>2 DEF StatusAnswer, history
    <3>2. asked <= 1
      BY <3>1 DEF PageInv, LoginInv
    <3> QED BY <1>0, <3>1, <3>2
  <2>3. CASE Login
    <3>1. asked' = asked + 1 /\ ~Unfinished /\ UNCHANGED <<call, user>> /\ user = "out"
      BY <2>3 DEF Login, Authenticate
    <3>2. ~(asked > 0) /\ call = "none"
      BY <3>1 DEF Unfinished
    <3> QED BY <1>0, <3>1, <3>2
  <2>4. CASE Reload
    <3>1. (asked' = 0 \/ asked' = 1) /\ call' = "none" /\ user' = "out"
      BY <2>4 DEF Reload
    <3> QED BY <3>1
  <2>5. CASE Logout \/ Denied
    <3>1. UNCHANGED <<asked, crossed>> /\ (user = "in" \/ call # "none")
      BY <2>5 DEF Logout, Denied, history
    <3>2. asked <= 1 /\ asked # 1
      BY <3>1 DEF PageInv, LoginInv
    <3> QED BY <3>1, <3>2
  <2>6. CASE StartTelemetry \/ StopTelemetry
    <3>1. UNCHANGED <<asked, crossed>> /\ user = "in"
      BY <2>6 DEF StartTelemetry, StopTelemetry, MayControl, Begin, history
    <3>2. asked <= 1 /\ asked # 1
      BY <3>1 DEF PageInv, LoginInv
    <3> QED BY <3>1, <3>2
  <2>7. CASE StartAnswer \/ StopAnswer \/ LimitsAnswer \/ Refused
    <3>1. UNCHANGED <<asked, crossed>> /\ call # "none"
      BY <2>7 DEF StartAnswer, StopAnswer, LimitsAnswer, Refused, history
    <3>2. asked <= 1 /\ asked # 1
      BY <3>1 DEF PageInv, LoginInv
    <3> QED BY <3>1, <3>2
  <2>8. CASE Receive
    <3>1. UNCHANGED <<asked, user, crossed>> /\ (resolver # "stop" => call' = call)
      BY <2>8 DEF Receive, OnSignals, OnStatus, OnBounds, history
    <3>2. asked <= 1 /\ (asked = 1 => call = "none" /\ user = "out") /\ (resolver = "stop" => call = "limits")
      BY <3>1 DEF PageInv, LoginInv
    <3> QED BY <3>1, <3>2
  <2>9. UNCHANGED vars \/ UNCHANGED pageVars => UNCHANGED <<asked, call, user, crossed>>
    BY DEF vars, pageVars, controls, history
  <2> QED BY <2>1, <2>2, <2>3, <2>4, <2>5, <2>6, <2>7, <2>8, <2>9 DEF Next
<1> QED BY <1>1, <1>2, <1>3 DEF PageInv

LEMMA AlwaysPageInv == Spec => []PageInv
BY PageInvInit, PageInvStep, AlwaysTypes, PTL DEF Spec

Dial == {C("connect")}
HangUp == {C("disconnect")}

\* There will be a socket when the worker has done what it was told.
WillConnect == EndsOn(toWorker, Dial, HangUp) \/ (ws # "none" /\ None(toWorker, HangUp))

\* A socket is asked for once, with none there, and given up once.
OneAtATime ==
  /\ Alternate(toWorker, Dial, HangUp)
  /\ ws # "none" => Preceded(toWorker, Dial, HangUp)

TimerIsForIt == strays = 0 /\ (timer <=> ws = "closed")

SocketInv ==
  ~crossed => /\ TimerIsForIt /\ OneAtATime
              /\ WillConnect <=> user = "in" \/ asked = 1

LEMMA SocketInit == Init => SocketInv
<1> SUFFICES ASSUME Init PROVE TimerIsForIt /\ OneAtATime /\ ~WillConnect /\ user # "in" /\ asked # 1
  BY DEF SocketInv
<1>1. toWorker = << >> /\ ws = "none" /\ ~timer /\ strays = 0 /\ user = "out" /\ asked = 0
  BY DEF Init, WorkerInit, PageInit
<1>2. Alternate(toWorker, Dial, HangUp) /\ ~EndsOn(toWorker, Dial, HangUp)
  BY <1>1, Empty
<1> QED BY <1>1, <1>2 DEF TimerIsForIt, OneAtATime, WillConnect

\* A command about something else changes nothing.
LEMMA SocketAsideSent ==
  ASSUME toWorker \in Seq(Commands), NEW x \in {"enable", "disable", "reset"},
         toWorker' = toWorker \o <<C(x)>>, ws' = ws
  PROVE  (OneAtATime => OneAtATime') /\ (WillConnect' <=> WillConnect)
<1>1. C(x) \in Commands /\ C(x) \notin Dial /\ C(x) \notin HangUp
  BY CommandNames DEF Dial, HangUp
<1>2. /\ None(toWorker \o <<C(x)>>, HangUp) <=> None(toWorker, HangUp) /\ C(x) \notin HangUp
      /\ EndsOn(toWorker \o <<C(x)>>, Dial, HangUp)
           <=> C(x) \in Dial \/ (EndsOn(toWorker, Dial, HangUp) /\ C(x) \notin HangUp)
  BY <1>1, AppendedNone, AppendedEnds
<1>3. /\ Alternate(toWorker, Dial, HangUp) => Alternate(toWorker \o <<C(x)>>, Dial, HangUp)
      /\ Preceded(toWorker, Dial, HangUp) => Preceded(toWorker \o <<C(x)>>, Dial, HangUp)
  BY <1>1, OrderAppended
<1> QED BY <1>1, <1>2, <1>3 DEF OneAtATime, WillConnect, Dial, HangUp

LEMMA SocketAsideDone ==
  ASSUME toWorker \in Seq(Commands), NEW x \in {"enable", "disable", "reset"}, Does(x), ws' = ws
  PROVE  (OneAtATime => OneAtATime') /\ (WillConnect' <=> WillConnect)
<1>1. C(x) \notin Dial /\ C(x) \notin HangUp /\ toWorker # << >> /\ Head(toWorker) = C(x) /\ toWorker' = Tail(toWorker)
  BY CommandNames DEF Dial, HangUp, Does
<1>2. /\ None(toWorker, HangUp) <=> Head(toWorker) \notin HangUp /\ None(Tail(toWorker), HangUp)
      /\ EndsOn(toWorker, Dial, HangUp)
           <=> EndsOn(Tail(toWorker), Dial, HangUp) \/ (Head(toWorker) \in Dial /\ None(Tail(toWorker), HangUp))
  BY <1>1, TakenFrom
<1>3. /\ Alternate(toWorker, Dial, HangUp) => Alternate(Tail(toWorker), Dial, HangUp)
      /\ Preceded(toWorker, Dial, HangUp) /\ Head(toWorker) \notin HangUp => Preceded(Tail(toWorker), Dial, HangUp)
  BY <1>1, OrderTaken
<1> QED BY <1>1, <1>2, <1>3 DEF OneAtATime, WillConnect, Dial, HangUp

LEMMA SocketStep == Types /\ [Next]_vars /\ PageInv /\ SocketInv => SocketInv'
<1> SUFFICES ASSUME Types, [Next]_vars, PageInv, SocketInv, ~crossed'
             PROVE  TimerIsForIt' /\ OneAtATime' /\ (WillConnect' <=> user' = "in" \/ asked' = 1)
  BY DEF SocketInv
<1> DEFINE Goal == TimerIsForIt' /\ OneAtATime' /\ (WillConnect' <=> user' = "in" \/ asked' = 1)
<1>0. toWorker \in Seq(Commands) /\ ControlsOK /\ SocketOK /\ asked \in Nat
  BY TypeParts, PageAssumption DEF QueuesOK, ControlsOK
<1>q. toWorker \in Seq(Commands)
  BY <1>0
<1>a. ~crossed => /\ TimerIsForIt /\ OneAtATime /\ (WillConnect <=> user = "in" \/ asked = 1)
                  /\ asked <= 1 /\ (asked = 1 => call = "none" /\ user = "out")
  BY DEF SocketInv, PageInv, LoginInv
<1>b. UNCHANGED <<strays, timer, ws>> /\ TimerIsForIt => TimerIsForIt'
  BY DEF TimerIsForIt
<1>c. UNCHANGED workerVars \/ UNCHANGED workerButPosts => UNCHANGED <<strays, timer, ws>>
  BY DEF workerVars, workerButPosts, socket
<1>d. UNCHANGED <<toWorker, ws>> => (OneAtATime => OneAtATime') /\ (WillConnect' <=> WillConnect)
  BY DEF OneAtATime, WillConnect
<1>1. CASE Reload
  <2>1. /\ ws' = "none" /\ strays' = 0 /\ ~timer' /\ user' = "out"
        /\ \/ toWorker' = << >> /\ asked' = 0
           \/ toWorker' = <<C("connect")>> /\ asked' = 1
    BY <1>1, CommandNames DEF Reload, NewWorker
  <2>2. CASE toWorker' = << >> /\ asked' = 0
    <3>1. Alternate(toWorker', Dial, HangUp) /\ ~EndsOn(toWorker', Dial, HangUp)
      BY <2>2, Empty
    <3> QED BY <2>1, <2>2, <3>1 DEF TimerIsForIt, OneAtATime, WillConnect
  <2>3. CASE toWorker' = <<C("connect")>> /\ asked' = 1
    <3>1. EndsOn(<<C("connect")>>, Dial, HangUp) <=> C("connect") \in Dial
      BY Single
    <3>2. Alternate(<<C("connect")>>, Dial, HangUp)
      <4>1. DOMAIN <<C("connect")>> = {1}
        OBVIOUS
      <4> QED BY <4>1 DEF Alternate
    <3> QED BY <2>1, <2>3, <3>1, <3>2 DEF TimerIsForIt, OneAtATime, WillConnect, Dial
  <2> QED BY <2>1, <2>2, <2>3
<1>2. CASE Begun
  <2> DEFINE s == toWorker \o <<C("reset")>>
  <2>1. toWorker' = s \o <<C("enable")>> /\ UNCHANGED <<strays, timer, ws, user, asked, crossed>>
    BY <1>2, <1>c DEF Begun, StartAnswer
  <2>2. /\ C("reset") \in Commands /\ C("reset") \notin Dial /\ C("reset") \notin HangUp
        /\ C("enable") \in Commands /\ C("enable") \notin Dial /\ C("enable") \notin HangUp
    BY CommandNames DEF Dial, HangUp
  <2>3. /\ s \in Seq(Commands)
        /\ None(s, HangUp) <=> None(toWorker, HangUp)
        /\ EndsOn(s, Dial, HangUp) <=> EndsOn(toWorker, Dial, HangUp)
    <3>1. /\ s \in Seq(Commands)
          /\ None(s, HangUp) <=> None(toWorker, HangUp) /\ C("reset") \notin HangUp
          /\ EndsOn(s, Dial, HangUp)
               <=> C("reset") \in Dial \/ (EndsOn(toWorker, Dial, HangUp) /\ C("reset") \notin HangUp)
      <4>1. C("reset") \in Commands
        BY <2>2
      <4>2. s \in Seq(Commands) /\ (None(s, HangUp) <=> None(toWorker, HangUp) /\ C("reset") \notin HangUp)
        BY <1>q, <4>1, AppendedNone
      <4>3. EndsOn(s, Dial, HangUp)
              <=> C("reset") \in Dial \/ (EndsOn(toWorker, Dial, HangUp) /\ C("reset") \notin HangUp)
        BY <1>q, <4>1, AppendedEnds
      <4> QED BY <4>2, <4>3
    <3> QED BY <2>2, <3>1
  <2>4. /\ Alternate(toWorker, Dial, HangUp) => Alternate(s, Dial, HangUp)
        /\ Preceded(toWorker, Dial, HangUp) => Preceded(s, Dial, HangUp)
    BY <1>0, <2>2, OrderAppended
  <2> HIDE DEF s
  <2>5. /\ None(toWorker', HangUp) <=> None(s, HangUp)
        /\ EndsOn(toWorker', Dial, HangUp) <=> EndsOn(s, Dial, HangUp)
    <3>1. /\ None(s \o <<C("enable")>>, HangUp) <=> None(s, HangUp) /\ C("enable") \notin HangUp
          /\ EndsOn(s \o <<C("enable")>>, Dial, HangUp)
               <=> C("enable") \in Dial \/ (EndsOn(s, Dial, HangUp) /\ C("enable") \notin HangUp)
      BY <2>2, <2>3, AppendedNone, AppendedEnds
    <3> QED BY <2>1, <2>2, <3>1
  <2>6. /\ Alternate(s, Dial, HangUp) => Alternate(toWorker', Dial, HangUp)
        /\ Preceded(s, Dial, HangUp) => Preceded(toWorker', Dial, HangUp)
    BY <2>1, <2>2, <2>3, OrderAppended
  <2>7. (OneAtATime => OneAtATime') /\ (WillConnect' <=> WillConnect)
    BY <2>1, <2>3, <2>4, <2>5, <2>6 DEF OneAtATime, WillConnect
  <2> QED BY <1>a, <1>b, <2>1, <2>7
<1>3. CASE Login /\ Sends("connect")
  <2>1. /\ user' = "out" /\ user = "out" /\ asked' = asked + 1 /\ ~Unfinished
        /\ crossed => toWorker = << >> /\ ws = "none"
        /\ toWorker' = toWorker \o <<C("connect")>> /\ UNCHANGED <<strays, timer, ws>>
    BY <1>3, <1>c DEF Login, Authenticate, Sends
  <2>2. asked = 0 /\ strays = 0
    BY <1>0, <2>1 DEF Unfinished, SocketOK
  <2>3. TimerIsForIt /\ ~EndsOn(toWorker, Dial, HangUp) /\ Alternate(toWorker, Dial, HangUp)
        /\ (ws # "none" => Preceded(toWorker, Dial, HangUp) /\ ~None(toWorker, HangUp))
    <3>1. CASE crossed
      <4>1. Alternate(toWorker, Dial, HangUp) /\ ~EndsOn(toWorker, Dial, HangUp)
        BY <2>1, <3>1, Empty
      <4> QED BY <2>1, <2>2, <3>1, <4>1 DEF TimerIsForIt, PageInv
    <3>2. CASE ~crossed
      <4>1. ~WillConnect
        BY <1>a, <2>1, <2>2, <3>2
      <4> QED BY <1>a, <3>2, <4>1 DEF WillConnect, OneAtATime
    <3> QED BY <3>1, <3>2
  <2>4. C("connect") \in Commands /\ C("connect") \in Dial
    BY CommandNames DEF Dial
  <2>5. /\ EndsOn(toWorker \o <<C("connect")>>, Dial, HangUp)
        /\ Alternate(toWorker \o <<C("connect")>>, Dial, HangUp)
        /\ ws # "none" => Preceded(toWorker \o <<C("connect")>>, Dial, HangUp)
    BY <1>0, <2>3, <2>4, AppendedEnds, OrderAppended
  <2>6. asked' = 1
    BY <2>1, <2>2
  <2> QED BY <1>b, <2>1, <2>3, <2>5, <2>6 DEF OneAtATime, WillConnect
<1>4. ASSUME NEW x \in {"enable", "disable"}, Sends(x), UNCHANGED <<user, asked>>
             \/ (asked > 0 /\ asked' = asked - 1 /\ user' = "in"), crossed' = crossed
      PROVE  Goal
  <2>1. toWorker' = toWorker \o <<C(x)>> /\ UNCHANGED <<strays, timer, ws>>
    BY <1>4, <1>c DEF Sends
  <2>2. (OneAtATime => OneAtATime') /\ (WillConnect' <=> WillConnect)
    BY <1>0, <2>1, SocketAsideSent
  <2>3. user = "in" \/ asked = 1 <=> user' = "in" \/ asked' = 1
    BY <1>0, <1>4, <1>a
  <2> QED BY <1>4, <1>a, <1>b, <2>1, <2>2, <2>3
<1>5. CASE (Logout \/ Denied) /\ Sends("disconnect")
  <2>1. /\ user' = "out" /\ asked' = asked /\ (user = "in" \/ call # "none") /\ crossed' = crossed
        /\ toWorker' = toWorker \o <<C("disconnect")>> /\ UNCHANGED <<strays, timer, ws>>
    BY <1>5, <1>c DEF Logout, Denied, LogOut, Sends, history
  <2>2. asked' # 1
    BY <1>a, <2>1
  <2>3. C("disconnect") \in Commands /\ C("disconnect") \in HangUp /\ C("disconnect") \notin Dial
    BY CommandNames DEF Dial, HangUp
  <2>4. ~EndsOn(toWorker', Dial, HangUp) /\ ~None(toWorker', HangUp)
    <3>1. /\ None(toWorker \o <<C("disconnect")>>, HangUp)
               <=> None(toWorker, HangUp) /\ C("disconnect") \notin HangUp
          /\ EndsOn(toWorker \o <<C("disconnect")>>, Dial, HangUp)
               <=> C("disconnect") \in Dial \/ (EndsOn(toWorker, Dial, HangUp) /\ C("disconnect") \notin HangUp)
      <4>1. C("disconnect") \in Commands
        BY <2>3
      <4> QED BY <1>q, <4>1, AppendedNone, AppendedEnds
    <3> QED BY <2>1, <2>3, <3>1
  <2>5. /\ Alternate(toWorker, Dial, HangUp) => Alternate(toWorker', Dial, HangUp)
        /\ Preceded(toWorker, Dial, HangUp) => Preceded(toWorker', Dial, HangUp)
    BY <1>0, <2>1, <2>3, OrderAppended
  <2> QED BY <1>a, <1>b, <2>1, <2>2, <2>4, <2>5 DEF OneAtATime, WillConnect
<1>6. ASSUME UNCHANGED <<toWorker, strays, timer, ws, user, asked, crossed>> PROVE Goal
  BY <1>6, <1>a, <1>b, <1>d
<1>7. CASE DoConnect /\ Does("connect")
  <2>1. /\ Head(toWorker) = C("connect") /\ toWorker # << >> /\ toWorker' = Tail(toWorker)
        /\ UNCHANGED <<strays, timer, user, asked, crossed>> /\ ws' = "connecting"
    BY <1>7 DEF Does, DoConnect, Connect, pageVars, controls, history
  <2>2. Head(toWorker) \in Dial /\ Head(toWorker) \notin HangUp
    BY <2>1, CommandNames DEF Dial, HangUp
  <2>3. ws = "none" /\ Preceded(Tail(toWorker), Dial, HangUp) /\ Alternate(Tail(toWorker), Dial, HangUp)
    BY <1>0, <1>a, <2>1, <2>2, OrderTaken DEF OneAtATime
  <2>4. EndsOn(toWorker, Dial, HangUp) <=> EndsOn(Tail(toWorker), Dial, HangUp) \/ None(Tail(toWorker), HangUp)
    BY <1>0, <2>1, <2>2, TakenFrom
  <2>5. TimerIsForIt'
    BY <1>a, <2>1, <2>3 DEF TimerIsForIt
  <2>6. OneAtATime' /\ (WillConnect' <=> WillConnect)
    BY <2>1, <2>3, <2>4 DEF OneAtATime, WillConnect
  <2> QED BY <1>a, <2>1, <2>5, <2>6
<1>8. ASSUME NEW x \in {"enable", "disable", "reset"}, Does(x), UNCHANGED socket PROVE Goal
  <2>1. UNCHANGED <<strays, timer, ws, user, asked, crossed>>
    BY <1>8 DEF Does, socket, pageVars, controls, history
  <2>2. (OneAtATime => OneAtATime') /\ (WillConnect' <=> WillConnect)
    BY <1>0, <1>8, <2>1, SocketAsideDone
  <2> QED BY <1>a, <1>b, <2>1, <2>2
<1>9. CASE DoDisconnect /\ Does("disconnect")
  <2>1. /\ Head(toWorker) = C("disconnect") /\ toWorker # << >> /\ toWorker' = Tail(toWorker)
        /\ UNCHANGED <<strays, user, asked, crossed>> /\ ws' = "none" /\ ~timer'
    BY <1>9 DEF Does, DoDisconnect, TimerAfterDisconnect, pageVars, controls, history
  <2>2. Head(toWorker) \notin Dial /\ Head(toWorker) \in HangUp
    BY <2>1, CommandNames DEF Dial, HangUp
  <2>3. Alternate(toWorker, Dial, HangUp) => Alternate(Tail(toWorker), Dial, HangUp)
    BY <1>0, <2>1, OrderTaken
  <2>4. /\ EndsOn(toWorker, Dial, HangUp) <=> EndsOn(Tail(toWorker), Dial, HangUp)
        /\ ~None(toWorker, HangUp)
    BY <1>0, <2>1, <2>2, TakenFrom
  <2>5. TimerIsForIt'
    BY <1>a, <2>1 DEF TimerIsForIt
  <2>6. OneAtATime' /\ (WillConnect' <=> WillConnect)
    BY <1>a, <2>1, <2>3, <2>4 DEF OneAtATime, WillConnect
  <2> QED BY <1>a, <2>1, <2>5, <2>6
<1>10. CASE WorkerEvent /\ UNCHANGED <<toWorker, pageVars>>
  <2>1. UNCHANGED <<toWorker, user, asked, crossed>>
    BY <1>10 DEF pageVars, controls, history
  <2>2. TimerIsForIt /\ strays = 0 /\ (timer <=> ws = "closed")
    BY <1>a, <2>1 DEF TimerIsForIt
  <2>3. strays' = 0 /\ (timer' <=> ws' = "closed") /\ (ws' = "none" <=> ws = "none")
    <3>1. (\E id \in CanIds : HandleFrame(id)) \/ FlushTimer \/ MapAnswer \/ LateError => UNCHANGED <<strays, timer, ws>>
      BY DEF HandleFrame, FlushTimer, MapAnswer, LateError, socket
    <3>2. Opened => ws = "connecting" /\ ws' = "open" /\ ~timer' /\ strays' = strays
      BY DEF Opened
    <3>3. ClosedCleanly \/ Failed =>
            /\ ws \in {"connecting", "open"} /\ ws' = "closed" /\ timer'
            /\ strays' = strays + (IF timer THEN 1 ELSE 0)
      BY DEF ClosedCleanly, Failed, Closed
    <3>4. ReconnectTimer => timer /\ ~timer' /\ ws' = "connecting" /\ strays' = strays
      BY DEF ReconnectTimer, Connect
    <3>5. ~StrayTimer
      BY <2>2 DEF StrayTimer
    <3>6. CASE ClosedCleanly \/ Failed
      <4>1. ~timer
        BY <2>2, <3>3, <3>6
      <4> QED BY <2>2, <3>3, <3>6, <4>1
    <3>7. CASE UNCHANGED <<strays, timer, ws>> \/ Opened \/ ReconnectTimer
      BY <2>2, <3>2, <3>4, <3>7
    <3> QED BY <1>10, <3>1, <3>5, <3>6, <3>7 DEF WorkerEvent
  <2>4. OneAtATime' /\ (WillConnect' <=> WillConnect)
    BY <1>a, <2>1, <2>3 DEF OneAtATime, WillConnect
  <2> QED BY <1>a, <2>1, <2>3, <2>4 DEF TimerIsForIt
<1>11. CASE (StartTelemetry \/ StopTelemetry \/ LimitsAnswer \/ Refused) /\ UNCHANGED <<toWorker, workerVars>>
  <2>1. UNCHANGED <<user, asked, crossed>>
    BY <1>11 DEF StartTelemetry, StopTelemetry, Begin, LimitsAnswer, Refused, history
  <2> QED BY <1>6, <1>11, <1>c, <2>1
<1>12. CASE Receive /\ UNCHANGED <<toWorker, workerButPosts>>
  <2>1. UNCHANGED <<user, asked, crossed>>
    BY <1>12 DEF Receive, history
  <2> QED BY <1>6, <1>12, <1>c, <2>1
<1>13. CASE UNCHANGED vars
  BY <1>6, <1>13 DEF vars, workerVars, socket, pageVars, controls, history
<1>14. CASE (StatusAnswer(TRUE) /\ Sends("enable")) \/ (StatusAnswer(FALSE) /\ Sends("disable"))
  BY <1>4, <1>14 DEF StatusAnswer, history
<1>15. CASE StopAnswer /\ Sends("disable")
  BY <1>4, <1>15 DEF StopAnswer
<1>16. CASE (DoEnable /\ Does("enable")) \/ (DoDisable /\ Does("disable")) \/ Cleared
  BY <1>8, <1>16 DEF DoEnable, DoDisable, DoReset, Cleared
<1> QED BY <1>1, <1>2, <1>3, <1>5, <1>7, <1>9, <1>10, <1>11, <1>12, <1>13, <1>14, <1>15, <1>16, CommandFlow

LEMMA AlwaysSocket == Spec => []SocketInv
BY SocketInit, SocketStep, AlwaysPageInv, AlwaysTypes, PTL DEF Spec

\* With no login overtaken, once the worker has done what it was told there is a socket,
\* or a timer that will make one, exactly while somebody is logged in.
THEOREM ConnectionIsOfTheSession == Spec => []SocketFollowsSession
<1>1. Types /\ SocketInv => SocketFollowsSession
  <2> SUFFICES ASSUME Types, SocketInv, toWorker = << >>, asked = 0, ~crossed
               PROVE  IF user = "out" THEN ws = "none" /\ ~timer /\ strays = 0
                                      ELSE ws \in {"connecting", "open"} \/ timer
    BY DEF SocketFollowsSession
  <2>1. None(toWorker, HangUp) /\ ~EndsOn(toWorker, Dial, HangUp)
    BY Empty
  <2>2. strays = 0 /\ (timer <=> ws = "closed") /\ (ws # "none" <=> user = "in")
    BY <2>1 DEF SocketInv, TimerIsForIt, WillConnect
  <2>3. user \in {"in", "out"} /\ ws \in {"none", "connecting", "open", "closed"}
    BY TypeParts DEF ControlsOK, SocketOK
  <2> QED BY <2>2, <2>3
<1> QED BY <1>1, AlwaysSocket, AlwaysTypes, PTL

(***************************************************************************)
(* What the page says of the connection                                    *)
(***************************************************************************)

Up == {Status("connected")}
Down == {Status("disconnected"), Status("error")}

\* The page will say so when it has read what was posted.
SaysConnected == EndsOn(toPage, Up, Down) \/ (status = "connected" /\ None(toPage, Down))

StatusInv ==
  /\ ws = "none" => ~SaysConnected
  /\ ~crossed /\ told = "truth" /\ None(toWorker, HangUp) => (SaysConnected <=> ws = "open")

LEMMA StatusNames ==
  /\ Status("connected") \in Up /\ Status("connected") \notin Down
  /\ \A x \in {"disconnected", "error"} : Status(x) \in Down /\ Status(x) \notin Up
  /\ \A x \in Told : Status(x) \in PageMessages
<1>1. \A x : Status(x).state = x
  BY DEF Status
<1>2. Status("connected") # Status("disconnected") /\ Status("connected") # Status("error")
  BY <1>1
<1> QED BY <1>2, Said DEF Up, Down

LEMMA OthersSayNothing ==
  ASSUME NEW m \in PageMessages, m.type # "status"
  PROVE  m \notin Up /\ m \notin Down
<1>1. \A x : Status(x).type = "status"
  BY DEF Status
<1> QED BY <1>1 DEF Up, Down

\* What posting does to it.
LEMMA SaysPosted ==
  ASSUME QueuesOK, NEW m \in Seq(PageMessages), toPage' = toPage \o m, status' = status
  PROVE  SaysConnected' <=> EndsOn(m, Up, Down) \/ (SaysConnected /\ None(m, Down))
<1>0. toPage \in Seq(PageMessages)
  BY DEF QueuesOK
<1>1. EndsOn(toPage \o m, Up, Down) <=> EndsOn(m, Up, Down) \/ (EndsOn(toPage, Up, Down) /\ None(m, Down))
  BY <1>0, EndsOnJoined
<1>2. None(toPage \o m, Down) <=> None(toPage, Down) /\ None(m, Down)
  BY <1>0, OnlyJoined
<1>3. SaysConnected' <=> EndsOn(toPage \o m, Up, Down) \/ (status = "connected" /\ None(toPage \o m, Down))
  BY DEF SaysConnected, Up, Down, Status
<1> QED BY <1>1, <1>2, <1>3 DEF SaysConnected

LEMMA SaysOne ==
  ASSUME QueuesOK, NEW x \in Told, toPage' = toPage \o << Status(x) >>, status' = status
  PROVE  SaysConnected' <=> x = "connected"
<1>1. << Status(x) >> \in Seq(PageMessages)
  <2>1. Status(x) \in PageMessages
    BY StatusNames
  <2> QED BY <2>1
<1>2. /\ EndsOn(<< Status(x) >>, Up, Down) <=> Status(x) \in Up
      /\ None(<< Status(x) >>, Down) <=> Status(x) \notin Down
  BY Single
<1>3. SaysConnected' <=> EndsOn(<< Status(x) >>, Up, Down) \/ (SaysConnected /\ None(<< Status(x) >>, Down))
  BY <1>1, SaysPosted
<1> QED BY <1>2, <1>3, StatusNames DEF Told

LEMMA BatchSaysNothing ==
  ASSUME SignalsOK
  PROVE  Batch \in Seq(PageMessages) /\ ~EndsOn(Batch, Up, Down) /\ None(Batch, Down)
<1>1. Batch \in Seq(SignalsOf(Tables))
  BY BatchIs DEF SignalsOK
<1>2. SignalsOf(Tables) \subseteq PageMessages
  BY DEF PageMessages
<1>3. ASSUME NEW i \in DOMAIN Batch PROVE Batch[i] \notin Up /\ Batch[i] \notin Down
  <2>1. Batch[i] \in SignalsOf(Tables)
    BY <1>1
  <2>2. Batch[i] \in PageMessages /\ Batch[i].type # "status"
    BY <1>2, <2>1 DEF SignalsOf
  <2> QED BY <2>2, OthersSayNothing
<1>4. Batch \in Seq(PageMessages)
  BY <1>1, <1>2, SeqMonotonic
<1> QED BY <1>3, <1>4 DEF EndsOn, None

\* What follows a batch has the last word.
LEMMA SaysAfterBatch ==
  ASSUME QueuesOK, SignalsOK, NEW m \in Seq(PageMessages), toPage' = toPage \o (Batch \o m), status' = status
  PROVE  SaysConnected' <=> EndsOn(m, Up, Down) \/ (SaysConnected /\ None(m, Down))
<1>1. Batch \in Seq(PageMessages) /\ ~EndsOn(Batch, Up, Down) /\ None(Batch, Down)
  BY BatchSaysNothing
<1>2. Batch \o m \in Seq(PageMessages)
  BY <1>1, ConcatProperties
<1>3. EndsOn(Batch \o m, Up, Down) <=> EndsOn(m, Up, Down) \/ (EndsOn(Batch, Up, Down) /\ None(m, Down))
  BY <1>1, EndsOnJoined
<1>4. None(Batch \o m, Down) <=> None(Batch, Down) /\ None(m, Down)
  BY <1>1, OnlyJoined
<1>5. SaysConnected' <=> EndsOn(Batch \o m, Up, Down) \/ (SaysConnected /\ None(Batch \o m, Down))
  BY <1>2, SaysPosted
<1> QED BY <1>1, <1>3, <1>4, <1>5

LEMMA Two ==
  ASSUME NEW a, NEW b
  PROVE  <<a>> \o <<b>> = <<a, b>>
<1> DEFINE S == {a, b}
           s == <<a>>
           t == <<b>>
           u == <<a, b>>
<1>1. /\ s \in Seq(S) /\ t \in Seq(S) /\ u \in Seq(S)
      /\ Len(s) = 1 /\ Len(t) = 1 /\ Len(u) = 2
      /\ s[1] = a /\ t[1] = b /\ u[1] = a /\ u[2] = b
  OBVIOUS
<1> HIDE DEF s, t, u, S
<1>2. /\ s \o t \in Seq(S) /\ Len(s \o t) = 2
      /\ (s \o t)[1] = a /\ (s \o t)[2] = b
  <2>1. /\ s \o t \in Seq(S) /\ Len(s \o t) = Len(s) + Len(t)
        /\ \A i \in 1..Len(s) : (s \o t)[i] = s[i]
        /\ \A i \in 1..Len(t) : (s \o t)[Len(s) + i] = t[i]
    BY <1>1, ConcatProperties
  <2>2. 1 \in 1..Len(s) /\ 1 \in 1..Len(t) /\ Len(s) + 1 = 2 /\ Len(s) + Len(t) = 2
    BY <1>1
  <2> QED BY <1>1, <2>1, <2>2
<1>3. ASSUME NEW i \in 1..2 PROVE (s \o t)[i] = u[i]
  <2>1. i = 1 \/ i = 2
    OBVIOUS
  <2> QED BY <1>1, <1>2, <2>1
<1>4. s \o t = u
  BY <1>1, <1>2, <1>3, SeqEqual
<1> QED BY <1>4 DEF s, t, u

\* The last of two words.
LEMMA SaysTwo ==
  ASSUME NEW m \in PageMessages, NEW x \in Told
  PROVE  /\ << m, Status(x) >> \in Seq(PageMessages)
         /\ x = "connected" /\ m \notin Down => EndsOn(<< m, Status(x) >>, Up, Down)
         /\ x # "connected" => ~EndsOn(<< m, Status(x) >>, Up, Down) /\ ~None(<< m, Status(x) >>, Down)
<1>1. Status(x) \in PageMessages
  BY StatusNames
<1>0. << m >> \in Seq(PageMessages)
  OBVIOUS
<1>2. << m >> \o << Status(x) >> = << m, Status(x) >>
  BY Two
<1>3. /\ << m >> \o << Status(x) >> \in Seq(PageMessages)
      /\ None(<< m >> \o << Status(x) >>, Down) <=> None(<< m >>, Down) /\ Status(x) \notin Down
  BY <1>0, <1>1, AppendedNone
<1>4. EndsOn(<< m >> \o << Status(x) >>, Up, Down)
        <=> Status(x) \in Up \/ (EndsOn(<< m >>, Up, Down) /\ Status(x) \notin Down)
  BY <1>0, <1>1, AppendedEnds
<1>5. CASE x = "connected"
  <2>1. Status(x) \in Up
    BY <1>5, StatusNames
  <2> QED BY <1>2, <1>3, <1>4, <1>5, <2>1
<1>6. CASE x # "connected"
  <2>1. Status(x) \notin Up /\ Status(x) \in Down
    BY <1>6, StatusNames DEF Told
  <2> QED BY <1>2, <1>3, <1>4, <1>6, <2>1
<1> QED BY <1>5, <1>6

\* What each action does to what the page says, and to what is so.
LEMMA SaysFlow ==
  ASSUME Types, [Next]_vars
  PROVE  \/ /\ UNCHANGED <<told, ws, crossed>> /\ (SaysConnected' <=> SaysConnected)
            /\ None(toWorker', HangUp) => None(toWorker, HangUp)
         \/ /\ Login /\ UNCHANGED <<told, ws>> /\ (SaysConnected' => SaysConnected)
            /\ None(toWorker', HangUp) => None(toWorker, HangUp)
         \/ told' = "truth" /\ (SaysConnected' <=> ws' = "open")
         \/ told' # "truth" /\ ~(ws' = "none" /\ SaysConnected')
         \/ /\ (DoConnect /\ Does("connect")) \/ ((ReconnectTimer \/ StrayTimer) /\ toWorker' = toWorker)
            /\ UNCHANGED <<told, crossed>> /\ ws' = "connecting" /\ (SaysConnected' <=> SaysConnected)
<1>0. QueuesOK /\ SignalsOK /\ SessionOK /\ SocketOK /\ ControlsOK
  BY TypeParts
<1>q. toWorker \in Seq(Commands) /\ toPage \in Seq(PageMessages)
  BY <1>0 DEF QueuesOK
<1>a. UNCHANGED <<toPage, status>> => (SaysConnected' <=> SaysConnected)
  BY DEF SaysConnected
<1>b. toWorker' = toWorker => (None(toWorker', HangUp) => None(toWorker, HangUp))
  OBVIOUS
<1>c. UNCHANGED workerVars => UNCHANGED <<toPage, told, ws>>
  BY DEF workerVars, socket
<1>d. UNCHANGED pageVars => UNCHANGED <<status, crossed>>
  BY DEF pageVars, store, history
<1>e. "connected" \in Told /\ "disconnected" \in Told /\ "error" \in Told
  BY DEF Told
<1>1. CASE Reload
  <2>1. told' = "truth" /\ ws' = "none" /\ toPage' = << >> /\ status' # "connected"
    BY <1>1 DEF Reload, NewWorker
  <2>2. ~EndsOn(<< >>, Up, Down)
    BY Empty
  <2>3. SaysConnected' <=> EndsOn(toPage', Up, Down) \/ (status' = "connected" /\ None(toPage', Down))
    BY DEF SaysConnected, Up, Down, Status
  <2> QED BY <2>1, <2>2, <2>3
<1>2. CASE Begun
  <2> DEFINE s == toWorker \o <<C("reset")>>
  <2>1. toWorker' = s \o <<C("enable")>> /\ UNCHANGED <<toPage, told, ws, status, crossed>>
    BY <1>2, <1>c DEF Begun, StartAnswer
  <2>2. C("reset") \in Commands /\ C("enable") \in Commands
    BY CommandNames
  <2>3. s \in Seq(Commands) /\ (None(s, HangUp) => None(toWorker, HangUp))
    BY <1>q, <2>2, AppendedNone
  <2> HIDE DEF s
  <2>4. None(s \o <<C("enable")>>, HangUp) => None(s, HangUp)
    BY <2>2, <2>3, AppendedNone
  <2> QED BY <1>a, <2>1, <2>3, <2>4
<1>3. ASSUME NEW x \in {"connect", "enable", "disable", "disconnect"}, Sends(x)
      PROVE  UNCHANGED <<toPage, told, ws>> /\ (None(toWorker', HangUp) => None(toWorker, HangUp))
  <2>1. toWorker' = toWorker \o <<C(x)>> /\ C(x) \in Commands
    BY <1>3, CommandNames DEF Sends
  <2>2. None(toWorker \o <<C(x)>>, HangUp) => None(toWorker, HangUp)
    BY <1>q, <2>1, AppendedNone
  <2> QED BY <1>3, <1>c, <2>1, <2>2 DEF Sends
<1>4. CASE Login /\ Sends("connect")
  <2>1. UNCHANGED <<toPage, told, ws>> /\ (None(toWorker', HangUp) => None(toWorker, HangUp))
    BY <1>3, <1>4
  <2>2. status' = "connecting"
    BY <1>4 DEF Login, Authenticate
  <2>3. SaysConnected' => SaysConnected
    BY <2>1, <2>2 DEF SaysConnected
  <2> QED BY <1>4, <2>1, <2>3
<1>5. CASE \/ StatusAnswer(TRUE) /\ Sends("enable")
           \/ StatusAnswer(FALSE) /\ Sends("disable")
           \/ StopAnswer /\ Sends("disable")
           \/ (Logout \/ Denied) /\ Sends("disconnect")
  <2>1. UNCHANGED <<toPage, told, ws>> /\ (None(toWorker', HangUp) => None(toWorker, HangUp))
    BY <1>3, <1>5
  <2>2. UNCHANGED <<status, crossed>>
    BY <1>5 DEF StatusAnswer, StopAnswer, Logout, Denied, store, history
  <2> QED BY <1>a, <2>1, <2>2
<1>6. CASE (StartTelemetry \/ StopTelemetry \/ LimitsAnswer \/ Refused) /\ UNCHANGED <<toWorker, workerVars>>
  <2>1. UNCHANGED <<toPage, told, ws, status, crossed, toWorker>>
    BY <1>6, <1>c DEF StartTelemetry, StopTelemetry, Begin, LimitsAnswer, Refused, store, history
  <2> QED BY <1>a, <1>b, <2>1
<1>7. CASE Receive /\ UNCHANGED <<toWorker, workerButPosts>>
  <2>1. UNCHANGED <<told, ws, crossed, toWorker>>
    BY <1>7 DEF Receive, workerButPosts, socket, history
  <2>2. toPage # << >> /\ toPage' = Tail(toPage) /\ Received = Head(toPage) /\ Received \in PageMessages
        /\ \/ Received.type = "status" /\ status' = Received.state
           \/ Received.type # "status" /\ status' = status
    <3>1. CASE OnSignals
      BY <1>0, <3>1, MessageTaken DEF OnSignals
    <3>2. CASE OnStatus
      BY <1>0, <3>2, MessageTaken DEF OnStatus
    <3>3. CASE OnBounds
      BY <1>0, <3>3, MessageTaken DEF OnBounds, store
    <3> QED BY <1>7, <3>1, <3>2, <3>3 DEF Receive
  <2>3. /\ None(toPage, Down) <=> Head(toPage) \notin Down /\ None(Tail(toPage), Down)
        /\ EndsOn(toPage, Up, Down)
             <=> EndsOn(Tail(toPage), Up, Down) \/ (Head(toPage) \in Up /\ None(Tail(toPage), Down))
    BY <1>q, <2>2, TakenFrom
  <2>4. SaysConnected' <=> EndsOn(Tail(toPage), Up, Down) \/ (status' = "connected" /\ None(Tail(toPage), Down))
    BY <2>2 DEF SaysConnected, Up, Down, Status
  <2>5. CASE Received.type # "status" /\ status' = status
    <3>1. Head(toPage) \notin Up /\ Head(toPage) \notin Down
      BY <2>2, <2>5, OthersSayNothing
    <3> QED BY <1>b, <2>1, <2>3, <2>4, <2>5, <3>1 DEF SaysConnected
  <2>6. CASE Received.type = "status" /\ status' = Received.state
    <3>1. Received.state \in Told /\ Head(toPage) = Status(Received.state)
      BY <2>2, <2>6, Kinds
    <3>2. CASE Received.state = "connected"
      <4>1. Head(toPage) \in Up /\ Head(toPage) \notin Down /\ status' = "connected"
        BY <2>6, <3>1, <3>2, StatusNames
      <4> QED BY <1>b, <2>1, <2>3, <2>4, <4>1 DEF SaysConnected
    <3>3. CASE Received.state \in {"disconnected", "error"}
      <4>1. Head(toPage) \notin Up /\ Head(toPage) \in Down /\ status' # "connected"
        BY <2>6, <3>1, <3>3, StatusNames
      <4> QED BY <1>b, <2>1, <2>3, <2>4, <4>1 DEF SaysConnected
    <3> QED BY <3>1, <3>2, <3>3 DEF Told
  <2> QED BY <2>2, <2>5, <2>6
<1>8. CASE DoConnect /\ Does("connect")
  <2>1. UNCHANGED <<told, toPage, status, crossed>> /\ ws' = "connecting"
    BY <1>8, <1>d DEF DoConnect, Connect, Does
  <2> QED BY <1>8, <1>a, <2>1
<1>9. ASSUME NEW x \in {"enable", "reset"}, Does(x), UNCHANGED <<toPage, told, ws>>
      PROVE  /\ UNCHANGED <<told, ws, crossed>> /\ (SaysConnected' <=> SaysConnected)
             /\ None(toWorker', HangUp) => None(toWorker, HangUp)
  <2>1. toWorker # << >> /\ toWorker' = Tail(toWorker) /\ Head(toWorker) = C(x) /\ UNCHANGED <<status, crossed>>
    BY <1>9, <1>d DEF Does
  <2>2. C(x) \notin HangUp
    BY CommandNames DEF HangUp
  <2>3. None(toWorker, HangUp) <=> Head(toWorker) \notin HangUp /\ None(Tail(toWorker), HangUp)
    BY <1>q, <2>1, TakenFrom
  <2> QED BY <1>9, <1>a, <2>1, <2>2, <2>3
<1>10. CASE DoEnable /\ Does("enable")
  <2>1. UNCHANGED <<toPage, told, ws>>
    BY <1>10 DEF DoEnable, socket
  <2> QED BY <1>9, <1>10, <2>1
<1>11. CASE Cleared
  <2>1. UNCHANGED <<toPage, told, ws>> /\ Does("reset")
    BY <1>11 DEF Cleared, DoReset, socket
  <2> QED BY <1>9, <2>1
<1>12. CASE DoDisable /\ Does("disable")
  <2> DEFINE x == IF ws = "none" THEN "disconnected" ELSE "connected"
             m == << Bounds(first, last), Status(x) >>
  <2>1. /\ toPage' = toPage \o (Batch \o m) /\ UNCHANGED <<ws, status>>
        /\ told' = IF ws \in {"none", "open"} THEN "truth" ELSE "bluff"
    BY <1>12, <1>d DEF DoDisable, Does, Post, StopLimit, socket
  <2>2. Bounds(first, last) \in PageMessages /\ Bounds(first, last).type # "status"
    BY <1>0, Said DEF SessionOK, Bounds
  <2>3. x \in Told /\ Bounds(first, last) \notin Down
    BY <1>e, <2>2, OthersSayNothing
  <2>4. /\ m \in Seq(PageMessages)
        /\ x = "connected" => EndsOn(m, Up, Down)
        /\ x # "connected" => ~EndsOn(m, Up, Down) /\ ~None(m, Down)
    BY <2>2, <2>3, SaysTwo
  <2>5. x = "connected" <=> ws # "none"
    OBVIOUS
  <2> HIDE DEF m, x
  <2>6. SaysConnected' <=> EndsOn(m, Up, Down) \/ (SaysConnected /\ None(m, Down))
    BY <1>0, <2>1, <2>4, SaysAfterBatch
  <2>7. SaysConnected' <=> ws # "none"
    BY <2>4, <2>5, <2>6
  <2> QED BY <2>1, <2>7
<1>13. CASE DoDisconnect /\ Does("disconnect")
  <2> DEFINE m == << Status("disconnected") >>
  <2>1. toPage' = toPage \o (Batch \o m) /\ ws' = "none" /\ status' = status /\ told' = "truth"
    BY <1>13, <1>d DEF DoDisconnect, Does, Post
  <2>2. m \in Seq(PageMessages) /\ ~EndsOn(m, Up, Down) /\ ~None(m, Down)
    <3>1. Status("disconnected") \in PageMessages /\ Status("disconnected") \notin Up /\ Status("disconnected") \in Down
      BY <1>e, StatusNames
    <3> QED BY <3>1, Single
  <2> HIDE DEF m
  <2>3. SaysConnected' <=> EndsOn(m, Up, Down) \/ (SaysConnected /\ None(m, Down))
    BY <1>0, <2>1, <2>2, SaysAfterBatch
  <2> QED BY <2>1, <2>2, <2>3
<1>14. CASE WorkerEvent /\ UNCHANGED <<toWorker, pageVars>>
  <2>1. UNCHANGED <<toWorker, status, crossed>>
    BY <1>14, <1>d
  <2>2. ASSUME NEW id \in CanIds, HandleFrame(id)
        PROVE  \/ UNCHANGED <<told, ws, crossed, toWorker>> /\ (SaysConnected' <=> SaysConnected)
               \/ told' = "truth" /\ (SaysConnected' <=> ws' = "open")
    <3>1. ws = "open" /\ ws' = ws
      BY <2>2 DEF HandleFrame, socket
    <3>2. \E rate \in {<< >>, << Status("connected") >>} :
            toPage' = toPage \o rate /\ told' = IF rate = << >> THEN told ELSE "truth"
      BY <2>2 DEF HandleFrame, Post
    <3>3. CASE toPage' = toPage \o << >> /\ told' = told
      <4>1. toPage' = toPage
        BY <1>q, <3>3, ConcatEmptySeq
      <4> QED BY <1>a, <2>1, <3>1, <3>3, <4>1
    <3>4. CASE toPage' = toPage \o << Status("connected") >> /\ told' = "truth"
      <4>1. SaysConnected'
        BY <1>0, <1>e, <2>1, <3>4, SaysOne
      <4> QED BY <3>1, <3>4, <4>1
    <3>5. << Status("connected") >> # << >>
      OBVIOUS
    <3> QED BY <3>2, <3>3, <3>4, <3>5
  <2>3. CASE FlushTimer
    <3>1. toPage' = toPage \o Batch /\ UNCHANGED <<told, ws>>
      BY <2>3 DEF FlushTimer, Post, socket
    <3>2. Batch \in Seq(PageMessages) /\ ~EndsOn(Batch, Up, Down) /\ None(Batch, Down)
      BY <1>0, BatchSaysNothing
    <3>3. SaysConnected' <=> EndsOn(Batch, Up, Down) \/ (SaysConnected /\ None(Batch, Down))
      BY <1>0, <2>1, <3>1, <3>2, SaysPosted
    <3> QED BY <1>b, <2>1, <3>1, <3>2, <3>3
  <2>4. CASE MapAnswer
    BY <1>a, <1>b, <2>1, <2>4 DEF MapAnswer, socket
  <2>5. CASE Opened
    <3>1. toPage' = toPage \o << Status("connected") >> /\ told' = "truth" /\ ws' = "open"
      BY <2>5 DEF Opened, Post
    <3>2. SaysConnected'
      BY <1>0, <1>e, <2>1, <3>1, SaysOne
    <3> QED BY <3>1, <3>2
  <2>6. CASE ClosedCleanly
    <3>1. toPage' = toPage \o << Status("disconnected") >> /\ told' = "truth" /\ ws' = "closed"
      BY <2>6 DEF ClosedCleanly, Closed, Post, OnClosePosts
    <3>2. ~SaysConnected'
      BY <1>0, <1>e, <2>1, <3>1, SaysOne
    <3> QED BY <3>1, <3>2
  <2>7. CASE Failed
    <3> DEFINE m == << Status("error"), Status("disconnected") >>
    <3>0. << Status("error") >> \o << Status("disconnected") >> = m
      BY Two
    <3>1. toPage' = toPage \o m /\ told' = "truth" /\ ws' = "closed"
      BY <2>7, <3>0 DEF Failed, Closed, Post, OnClosePosts
    <3>2. Status("error") \in PageMessages
      BY <1>e, StatusNames
    <3>3. m \in Seq(PageMessages) /\ ~EndsOn(m, Up, Down) /\ ~None(m, Down)
      BY <1>e, <3>2, SaysTwo
    <3> HIDE DEF m
    <3>4. SaysConnected' <=> EndsOn(m, Up, Down) \/ (SaysConnected /\ None(m, Down))
      BY <1>0, <2>1, <3>1, <3>3, SaysPosted
    <3> QED BY <3>1, <3>3, <3>4
  <2>8. CASE LateError
    <3>1. toPage' = toPage \o << Status("error") >> /\ told' = "late"
      BY <2>8 DEF LateError, Post
    <3>2. ~SaysConnected'
      BY <1>0, <1>e, <2>1, <3>1, SaysOne
    <3> QED BY <3>1, <3>2
  <2>9. CASE ReconnectTimer \/ StrayTimer
    <3>1. UNCHANGED <<toPage, told>> /\ ws' = "connecting"
      BY <2>9 DEF ReconnectTimer, StrayTimer, Connect
    <3> QED BY <1>a, <2>1, <2>9, <3>1
  <2>10. CASE \E id \in CanIds : HandleFrame(id)
    <3>1. \/ UNCHANGED <<told, ws, crossed, toWorker>> /\ (SaysConnected' <=> SaysConnected)
          \/ told' = "truth" /\ (SaysConnected' <=> ws' = "open")
      BY <2>2, <2>10
    <3> QED BY <1>b, <3>1
  <2> QED BY <1>14, <2>3, <2>4, <2>5, <2>6, <2>7, <2>8, <2>9, <2>10 DEF WorkerEvent
<1>15. CASE UNCHANGED vars
  <2>1. UNCHANGED <<told, ws, crossed, toWorker, toPage, status>>
    BY <1>15, <1>c, <1>d DEF vars
  <2> QED BY <1>a, <1>b, <2>1
<1> QED BY <1>1, <1>2, <1>4, <1>5, <1>6, <1>7, <1>8, <1>10, <1>11, <1>12, <1>13, <1>14, <1>15, CommandFlow

LEMMA StatusInit == Init => StatusInv
<1> SUFFICES ASSUME Init PROVE ~SaysConnected /\ ws # "open"
  BY DEF StatusInv
<1>1. toPage = << >> /\ status = "disconnected" /\ ws = "none"
  BY DEF Init, WorkerInit, PageInit
<1>2. ~EndsOn(toPage, Up, Down)
  BY <1>1, Empty
<1> QED BY <1>1, <1>2 DEF SaysConnected

LEMMA StatusStep == Types /\ [Next]_vars /\ PageInv /\ SocketInv /\ StatusInv => StatusInv'
<1> SUFFICES ASSUME Types, [Next]_vars, PageInv, SocketInv, StatusInv PROVE StatusInv'
  OBVIOUS
<1> DEFINE Truth == told = "truth" /\ None(toWorker, HangUp)
<1>q. toWorker \in Seq(Commands) /\ SocketOK /\ ControlsOK
  BY TypeParts DEF QueuesOK
<1>g. /\ ws = "none" => ~SaysConnected
      /\ ~crossed /\ Truth => (SaysConnected <=> ws = "open")
  BY DEF StatusInv
<1>h. /\ ws' = "none" => ~SaysConnected'
      /\ ~crossed' /\ told' = "truth" /\ None(toWorker', HangUp) => (SaysConnected' <=> ws' = "open")
      => StatusInv'
  <2>1. None(toWorker, HangUp)' <=> None(toWorker', HangUp)
    BY DEF None, HangUp, C
  <2> QED BY <2>1 DEF StatusInv
<1> HIDE DEF Truth
<1>1. CASE /\ UNCHANGED <<told, ws, crossed>> /\ (SaysConnected' <=> SaysConnected)
           /\ None(toWorker', HangUp) => None(toWorker, HangUp)
  BY <1>1, <1>g, <1>h DEF Truth
<1>2. CASE /\ Login /\ UNCHANGED <<told, ws>> /\ (SaysConnected' => SaysConnected)
           /\ None(toWorker', HangUp) => None(toWorker, HangUp)
  <2>1. ASSUME ~crossed', None(toWorker', HangUp) PROVE ws = "none"
    <3>1. /\ ~Unfinished /\ user = "out"
          /\ crossed => toWorker = << >> /\ ws = "none"
      BY <1>2, <2>1 DEF Login
    <3>2. asked # 1
      BY <1>q, <3>1, PageAssumption DEF Unfinished, ControlsOK
    <3>3. ~crossed => ~WillConnect
      BY <3>1, <3>2 DEF SocketInv
    <3> QED BY <1>2, <2>1, <3>1, <3>3 DEF WillConnect
  <2> QED BY <1>2, <1>g, <1>h, <2>1
<1>3. CASE told' = "truth" /\ (SaysConnected' <=> ws' = "open")
  BY <1>3, <1>h
<1>4. CASE told' # "truth" /\ ~(ws' = "none" /\ SaysConnected')
  BY <1>4, <1>h
<1>5. CASE /\ (DoConnect /\ Does("connect")) \/ ((ReconnectTimer \/ StrayTimer) /\ toWorker' = toWorker)
           /\ UNCHANGED <<told, crossed>> /\ ws' = "connecting" /\ (SaysConnected' <=> SaysConnected)
  <2> SUFFICES ASSUME ~crossed', told' = "truth", None(toWorker', HangUp) PROVE ~SaysConnected
    BY <1>5, <1>h
  <2>1. strays = 0 /\ (timer <=> ws = "closed") /\ OneAtATime /\ told = "truth" /\ ~crossed
    BY <1>5 DEF SocketInv, TimerIsForIt
  <2>2. CASE DoConnect /\ Does("connect")
    <3>1. toWorker # << >> /\ Head(toWorker) \in Dial
      BY <2>2 DEF Does, Dial
    <3>2. ~Preceded(toWorker, Dial, HangUp)
      BY <1>q, <3>1, OrderTaken
    <3> QED BY <1>g, <2>1, <3>2 DEF OneAtATime
  <2>3. CASE (ReconnectTimer \/ StrayTimer) /\ toWorker' = toWorker
    <3>1. timer
      BY <1>q, <2>1, <2>3 DEF ReconnectTimer, StrayTimer, SocketOK
    <3>2. None(toWorker, HangUp)
      BY <2>3
    <3> QED BY <1>g, <2>1, <3>1, <3>2 DEF Truth
  <2> QED BY <1>5, <2>2, <2>3
<1> QED BY <1>1, <1>2, <1>3, <1>4, <1>5, SaysFlow

LEMMA AlwaysStatus == Spec => []StatusInv
BY StatusInit, StatusStep, AlwaysSocket, AlwaysPageInv, AlwaysTypes, PTL DEF Spec

\* With nothing under way the page says connected exactly when the socket is open, but
\* for the end of a collection, the error of a socket given up, and overlapping logins.
THEOREM StatusIsTrue == Spec => []StatusTellsSocket
<1>1. StatusInv => StatusTellsSocket
  <2> SUFFICES ASSUME StatusInv, toWorker = << >>, toPage = << >>, told = "truth", ~crossed
               PROVE  status = "connected" <=> ws = "open"
    BY DEF StatusTellsSocket, Quiet
  <2>1. None(toWorker, HangUp) /\ None(toPage, Down) /\ ~EndsOn(toPage, Up, Down)
    BY Empty
  <2> QED BY <2>1 DEF StatusInv, SaysConnected
<1> QED BY <1>1, AlwaysStatus, PTL

\* The connection is that of the session, and the page says how it is (worker.js: connect,
\* disconnect, onclose; App.jsx).
THEOREM ConnectionIsTrue == Spec => []ConnectionTellsTheTruth
<1>1. SocketFollowsSession /\ StatusTellsSocket => ConnectionTellsTheTruth
  BY DEF ConnectionTellsTheTruth
<1> QED BY <1>1, ConnectionIsOfTheSession, StatusIsTrue, PTL

(***************************************************************************)
(* Whether the worker records, and the limits of what it recorded          *)
(***************************************************************************)

Disable == {C("disable")}
Pause == {C("disable"), C("disconnect")}

\* It will record when it has done what it was told.
WillRecord == EndsOn(toWorker, Enable, Pause) \/ (enabled /\ None(toWorker, Pause))

ModeInv ==
  ~crossed /\ user = "in" /\ asked = 0 =>
    IF call \in {"limits", "record"} THEN ~WillRecord ELSE (WillRecord <=> mode = "live")

LEMMA RecordNames ==
  /\ \A x \in {"connect", "reset"} : C(x) \in Commands /\ C(x) \notin Enable /\ C(x) \notin Pause
  /\ \A x \in {"disable", "disconnect"} : C(x) \in Commands /\ C(x) \notin Enable /\ C(x) \in Pause
  /\ C("enable") \in Commands /\ C("enable") \in Enable /\ C("enable") \notin Pause
BY CommandNames DEF Enable, Pause

LEMMA RecordSent ==
  ASSUME toWorker \in Seq(Commands), NEW c \in Commands, toWorker' = toWorker \o <<c>>, enabled' = enabled
  PROVE  WillRecord' <=> c \in Enable \/ (WillRecord /\ c \notin Pause)
<1>1. /\ None(toWorker \o <<c>>, Pause) <=> None(toWorker, Pause) /\ c \notin Pause
      /\ EndsOn(toWorker \o <<c>>, Enable, Pause)
           <=> c \in Enable \/ (EndsOn(toWorker, Enable, Pause) /\ c \notin Pause)
  BY AppendedNone, AppendedEnds
<1>2. WillRecord' <=> EndsOn(toWorker \o <<c>>, Enable, Pause) \/ (enabled /\ None(toWorker \o <<c>>, Pause))
  BY DEF WillRecord, Enable, Pause, C
<1> QED BY <1>1, <1>2 DEF WillRecord

LEMMA RecordDone ==
  ASSUME toWorker \in Seq(Commands), toWorker # << >>, toWorker' = Tail(toWorker), enabled \in BOOLEAN,
         \/ Head(toWorker) \in Enable /\ Head(toWorker) \notin Pause /\ enabled'
         \/ Head(toWorker) \in Pause /\ Head(toWorker) \notin Enable /\ ~enabled'
         \/ Head(toWorker) \notin Pause /\ Head(toWorker) \notin Enable /\ enabled' = enabled
  PROVE  WillRecord' <=> WillRecord
<1>1. /\ None(toWorker, Pause) <=> Head(toWorker) \notin Pause /\ None(Tail(toWorker), Pause)
      /\ EndsOn(toWorker, Enable, Pause)
           <=> EndsOn(Tail(toWorker), Enable, Pause) \/ (Head(toWorker) \in Enable /\ None(Tail(toWorker), Pause))
  BY TakenFrom
<1>2. WillRecord' <=> EndsOn(Tail(toWorker), Enable, Pause) \/ (enabled' /\ None(Tail(toWorker), Pause))
  BY DEF WillRecord, Enable, Pause, C
<1> QED BY <1>1, <1>2 DEF WillRecord

LEMMA EnabledKept ==
  /\ UNCHANGED workerVars => enabled' = enabled
  /\ UNCHANGED workerButPosts => enabled' = enabled
  /\ WorkerEvent => enabled' = enabled
<1>1. (UNCHANGED workerVars \/ UNCHANGED workerButPosts) => enabled' = enabled
  BY DEF workerVars, workerButPosts, session
<1>2. WorkerEvent => enabled' = enabled
  BY DEF WorkerEvent, HandleFrame, FlushTimer, MapAnswer, Opened, ClosedCleanly, Failed, Closed, LateError,
         ReconnectTimer, StrayTimer, session
<1> QED BY <1>1, <1>2

\* What the worker does by itself, or as it is told, changes nothing of it.
LEMMA RecordByWorker ==
  ASSUME Types,
         \/ DoConnect /\ Does("connect")
         \/ DoEnable /\ Does("enable")
         \/ DoDisable /\ Does("disable")
         \/ Cleared
         \/ DoDisconnect /\ Does("disconnect")
         \/ WorkerEvent /\ UNCHANGED <<toWorker, pageVars>>
  PROVE  (WillRecord' <=> WillRecord) /\ UNCHANGED pageVars
<1>0. toWorker \in Seq(Commands) /\ enabled \in BOOLEAN
  BY TypeParts DEF QueuesOK, SessionOK
<1>1. ASSUME NEW x, Does(x) PROVE toWorker # << >> /\ toWorker' = Tail(toWorker) /\ Head(toWorker) = C(x) /\ UNCHANGED pageVars
  BY <1>1 DEF Does
<1>2. CASE DoConnect /\ Does("connect")
  <2>1. enabled' = enabled
    BY <1>2 DEF DoConnect, session
  <2> QED BY <1>0, <1>1, <1>2, <2>1, RecordNames, RecordDone
<1>3. CASE DoEnable /\ Does("enable")
  <2>1. enabled'
    BY <1>3 DEF DoEnable
  <2>2. /\ toWorker # << >> /\ toWorker' = Tail(toWorker) /\ UNCHANGED pageVars
        /\ Head(toWorker) \in Enable /\ Head(toWorker) \notin Pause
    BY <1>1, <1>3, RecordNames
  <2>3. WillRecord' <=> WillRecord
    BY <1>0, <2>1, <2>2, RecordDone
  <2> QED BY <2>2, <2>3
<1>4. CASE DoDisable /\ Does("disable")
  <2>1. ~enabled'
    BY <1>4 DEF DoDisable
  <2> QED BY <1>0, <1>1, <1>4, <2>1, RecordNames, RecordDone
<1>5. CASE Cleared
  <2>1. enabled' = enabled /\ Does("reset")
    BY <1>5 DEF Cleared, DoReset
  <2> QED BY <1>0, <1>1, <2>1, RecordNames, RecordDone
<1>6. CASE DoDisconnect /\ Does("disconnect")
  <2>1. ~enabled'
    BY <1>6 DEF DoDisconnect
  <2> QED BY <1>0, <1>1, <1>6, <2>1, RecordNames, RecordDone
<1>7. CASE WorkerEvent /\ UNCHANGED <<toWorker, pageVars>>
  <2>1. enabled' = enabled /\ toWorker' = toWorker /\ UNCHANGED pageVars
    BY <1>7, EnabledKept
  <2> QED BY <2>1 DEF WillRecord
<1> QED BY <1>2, <1>3, <1>4, <1>5, <1>6, <1>7

LEMMA ModeInit == Init => ModeInv
BY DEF Init, PageInit, ModeInv

LEMMA ModeStep == Types /\ [Next]_vars /\ PageInv /\ ModeInv => ModeInv'
<1> SUFFICES ASSUME Types, [Next]_vars, PageInv, ModeInv, ~crossed', user' = "in", asked' = 0
             PROVE  IF call' \in {"limits", "record"} THEN ~WillRecord' ELSE (WillRecord' <=> mode' = "live")
  BY DEF ModeInv
<1> DEFINE Goal == IF call' \in {"limits", "record"} THEN ~WillRecord' ELSE (WillRecord' <=> mode' = "live")
<1>0. toWorker \in Seq(Commands) /\ asked \in Nat
  BY TypeParts, PageAssumption DEF QueuesOK, ControlsOK
<1>a. ~crossed /\ user = "in" /\ asked = 0 =>
        IF call \in {"limits", "record"} THEN ~WillRecord ELSE (WillRecord <=> mode = "live")
  BY DEF ModeInv
<1>b. UNCHANGED workerVars => enabled' = enabled
  BY EnabledKept
<1>c. ASSUME NEW x \in {"enable", "disable"}, Sends(x) PROVE WillRecord' <=> x = "enable"
  <2>1. toWorker' = toWorker \o <<C(x)>> /\ enabled' = enabled /\ C(x) \in Commands
    BY <1>b, <1>c, CommandNames DEF Sends
  <2>2. WillRecord' <=> C(x) \in Enable \/ (WillRecord /\ C(x) \notin Pause)
    BY <1>0, <2>1, RecordSent
  <2> QED BY <2>2, RecordNames
<1>1. CASE Reload \/ Login \/ Logout \/ Denied
  BY <1>1 DEF Reload, Login, Logout, Denied, LogOut
<1>2. CASE Begun
  <2> DEFINE s == toWorker \o <<C("reset")>>
  <2>1. toWorker' = s \o <<C("enable")>> /\ call' = "none" /\ mode' = "live"
    BY <1>2 DEF Begun, StartAnswer
  <2>2. C("reset") \in Commands /\ C("enable") \in Commands /\ C("enable") \in Enable
    BY RecordNames
  <2>3. s \in Seq(Commands)
    BY <1>0, <2>2, AppendedNone
  <2> HIDE DEF s
  <2>4. EndsOn(s \o <<C("enable")>>, Enable, Pause)
          <=> C("enable") \in Enable \/ (EndsOn(s, Enable, Pause) /\ C("enable") \notin Pause)
    <3>1. C("enable") \in Commands
      BY <2>2
    <3> QED BY <2>3, <3>1, AppendedNone, AppendedEnds
  <2>5. WillRecord' <=> EndsOn(toWorker', Enable, Pause) \/ (enabled' /\ None(toWorker', Pause))
    BY DEF WillRecord, Enable, Pause, C
  <2> QED BY <2>1, <2>2, <2>4, <2>5
<1>3. ASSUME NEW live \in BOOLEAN, StatusAnswer(live)
      PROVE  call' \notin {"limits", "record"} /\ (mode' = "live" <=> live)
  <2>1. asked > 0 /\ asked' = asked - 1 /\ UNCHANGED <<call, crossed>> /\ mode' = IF live THEN "live" ELSE "idle"
    BY <1>3 DEF StatusAnswer, history
  <2>2. asked = 1
    BY <1>0, <2>1
  <2>3. call = "none"
    BY <2>1, <2>2 DEF PageInv, LoginInv
  <2>4. mode' = "live" <=> live
    BY <2>1
  <2> QED BY <2>1, <2>3, <2>4
<1>4. CASE StatusAnswer(TRUE) /\ Sends("enable")
  BY <1>3, <1>4, <1>c
<1>5. CASE StatusAnswer(FALSE) /\ Sends("disable")
  BY <1>3, <1>5, <1>c
<1>6. CASE StopAnswer /\ Sends("disable")
  <2>1. call' = "limits"
    BY <1>6 DEF StopAnswer
  <2> QED BY <1>6, <1>c, <2>1
<1>7. UNCHANGED <<toWorker, enabled>> => (WillRecord' <=> WillRecord)
  BY DEF WillRecord
<1>8. CASE (StartTelemetry \/ StopTelemetry \/ LimitsAnswer \/ Refused) /\ UNCHANGED <<toWorker, workerVars>>
  <2>1. WillRecord' <=> WillRecord
    BY <1>7, <1>8, <1>b
  <2>2. UNCHANGED <<user, asked, crossed>>
    BY <1>8 DEF StartTelemetry, StopTelemetry, Begin, LimitsAnswer, Refused, history
  <2>3. CASE LimitsAnswer
    <3>1. call = "record" /\ mode' = "stopped" /\ call' = "none"
      BY <2>3 DEF LimitsAnswer
    <3> QED BY <1>a, <2>1, <2>2, <3>1
  <2>4. CASE StartTelemetry \/ StopTelemetry \/ Refused
    <3>1. call \notin {"limits", "record"} /\ call' \notin {"limits", "record"} /\ mode' = mode
      BY <2>4 DEF StartTelemetry, StopTelemetry, MayControl, Begin, Refused
    <3> QED BY <1>a, <2>1, <2>2, <3>1
  <2> QED BY <1>8, <2>3, <2>4
<1>9. CASE Receive /\ UNCHANGED <<toWorker, workerButPosts>>
  <2>1. WillRecord' <=> WillRecord
    BY <1>7, <1>9, EnabledKept
  <2>2. UNCHANGED <<user, asked, crossed>>
    BY <1>9 DEF Receive, history
  <2>3. CASE UNCHANGED <<mode, call>>
    BY <1>a, <2>1, <2>2, <2>3
  <2>4. CASE ~UNCHANGED <<mode, call>>
    <3>1. resolver = "stop" /\ (call' = "record" \/ (mode' = "stopped" /\ call' = "none"))
      BY <1>9, <2>4 DEF Receive, OnSignals, OnStatus, OnBounds
    <3>2. call = "limits"
      BY <3>1 DEF PageInv
    <3> QED BY <1>a, <2>1, <2>2, <3>1, <3>2
  <2> QED BY <2>3, <2>4
<1>10. ASSUME WillRecord' <=> WillRecord, UNCHANGED pageVars PROVE Goal
  <2>1. UNCHANGED <<user, asked, crossed, mode, call>>
    BY <1>10 DEF pageVars, controls, history
  <2> QED BY <1>10, <1>a, <2>1
<1>11. CASE \/ DoConnect /\ Does("connect")
            \/ DoEnable /\ Does("enable")
            \/ DoDisable /\ Does("disable")
            \/ Cleared
            \/ DoDisconnect /\ Does("disconnect")
            \/ WorkerEvent /\ UNCHANGED <<toWorker, pageVars>>
  BY <1>10, <1>11, RecordByWorker
<1>12. CASE UNCHANGED vars
  <2>1. UNCHANGED <<toWorker, enabled>> /\ UNCHANGED pageVars
    BY <1>12, <1>b DEF vars
  <2> QED BY <1>7, <1>10, <2>1
<1> QED BY <1>1, <1>2, <1>4, <1>5, <1>6, <1>8, <1>9, <1>11, <1>12, CommandFlow

LEMMA AlwaysMode == Spec => []ModeInv
BY ModeInit, ModeStep, AlwaysPageInv, AlwaysTypes, PTL DEF Spec

\* Messages that are no limits, and limits that are those of the log.
NoLimits == SignalsOf(Tables) \cup StatusOf(Told)
Exact == {m \in PageMessages : m.type = "bounds" => m.from = first /\ m.to = last}

\* What would change the log, or tell its limits once more.
Others == {C("enable"), C("disable"), C("reset")}

\* While a stop waits for its limits: before the worker was told, none are on their way;
\* from then on it does not record, and those on their way are those of its log.
Awaited ==
  /\ Only(toPage, Exact)
  /\ NoneAfter(toWorker, Disable, Others)
  /\ None(toWorker, Disable) => ~enabled /\ None(toWorker, Others)
  /\ ~None(toWorker, Disable) => Only(toPage, NoLimits)

LimitsInv == resolver = "stop" /\ ~behind /\ ~crossed => Awaited

LEMMA NoLimitsExact == NoLimits \subseteq Exact /\ NoLimits \subseteq PageMessages
BY DEF NoLimits, Exact, PageMessages, SignalsOf, StatusOf

LEMMA LimitsInit == Init => LimitsInv
BY DEF Init, PageInit, LimitsInv

\* Only a stop posts limits.
LEMMA PostsNoLimits ==
  ASSUME Types, WorkerEvent \/ DoDisconnect
  PROVE  \E m \in Seq(NoLimits) : toPage' = toPage \o m
<1>0. SignalsOK /\ toPage \in Seq(PageMessages)
  BY TypeParts DEF QueuesOK
<1>1. \A x \in Told : << Status(x) >> \in Seq(NoLimits)
  <2>1. \A x \in Told : Status(x) \in NoLimits
    BY Said DEF NoLimits
  <2> QED BY <2>1
<1>2. "connected" \in Told /\ "disconnected" \in Told /\ "error" \in Told
  BY DEF Told
<1>3. Batch \in Seq(NoLimits)
  <2>1. Batch \in Seq(SignalsOf(Tables)) /\ SignalsOf(Tables) \subseteq NoLimits
    BY <1>0, BatchIs DEF SignalsOK, NoLimits
  <2> QED BY <2>1, SeqMonotonic
<1>4. << >> \in Seq(NoLimits) /\ toPage \o << >> = toPage
  BY <1>0, ConcatEmptySeq
<1>5. CASE DoDisconnect
  <2>1. toPage' = toPage \o (Batch \o << Status("disconnected") >>)
    BY <1>5 DEF DoDisconnect, Post
  <2>2. Batch \o << Status("disconnected") >> \in Seq(NoLimits)
    <3>1. << Status("disconnected") >> \in Seq(NoLimits)
      BY <1>1, <1>2
    <3> QED BY <1>3, <3>1, ConcatProperties
  <2> QED BY <2>1, <2>2
<1>6. ASSUME NEW id \in CanIds, HandleFrame(id) PROVE \E m \in Seq(NoLimits) : toPage' = toPage \o m
  <2>1. \E rate \in {<< >>, << Status("connected") >>} : toPage' = toPage \o rate
    BY <1>6 DEF HandleFrame, Post
  <2> QED BY <1>1, <1>2, <1>4, <2>1
<1>7. CASE FlushTimer
  BY <1>3, <1>7 DEF FlushTimer, Post
<1>8. CASE MapAnswer \/ ReconnectTimer \/ StrayTimer
  <2>1. toPage' = toPage
    BY <1>8 DEF MapAnswer, ReconnectTimer, StrayTimer
  <2> QED BY <1>4, <2>1
<1>9. CASE Opened
  BY <1>1, <1>2, <1>9 DEF Opened, Post
<1>10. CASE ClosedCleanly
  BY <1>1, <1>2, <1>10 DEF ClosedCleanly, Closed, Post, OnClosePosts
<1>11. CASE Failed
  <2>1. toPage' = toPage \o (<< Status("error") >> \o << Status("disconnected") >>)
    BY <1>11 DEF Failed, Closed, Post, OnClosePosts
  <2>2. << Status("error") >> \o << Status("disconnected") >> \in Seq(NoLimits)
    <3>1. << Status("error") >> \in Seq(NoLimits) /\ << Status("disconnected") >> \in Seq(NoLimits)
      BY <1>1, <1>2
    <3> QED BY <3>1, ConcatProperties
  <2> QED BY <2>1, <2>2
<1>12. CASE LateError
  BY <1>1, <1>2, <1>12 DEF LateError, Post
<1> QED BY <1>5, <1>6, <1>7, <1>8, <1>9, <1>10, <1>11, <1>12 DEF WorkerEvent

LEMMA LimitsNames ==
  /\ \A x \in {"connect", "disconnect"} : C(x) \in Commands /\ C(x) \notin Disable /\ C(x) \notin Others
  /\ \A x \in {"enable", "reset"} : C(x) \in Commands /\ C(x) \notin Disable /\ C(x) \in Others
  /\ C("disable") \in Commands /\ C("disable") \in Disable /\ C("disable") \in Others
  /\ Disable \subseteq Others
BY CommandNames DEF Disable, Others

\* The queue of commands, for what an action takes from it.
LEMMA AwaitedTaken ==
  ASSUME toWorker \in Seq(Commands), NEW x, Does(x)
  PROVE  /\ toWorker # << >> /\ toWorker' = Tail(toWorker) /\ Head(toWorker) = C(x) /\ UNCHANGED pageVars
         /\ None(toWorker, Disable) <=> C(x) \notin Disable /\ None(toWorker', Disable)
         /\ None(toWorker, Others) <=> C(x) \notin Others /\ None(toWorker', Others)
         /\ NoneAfter(toWorker, Disable, Others) =>
              NoneAfter(toWorker', Disable, Others) /\ (C(x) \in Disable => None(toWorker', Others))
<1>1. toWorker # << >> /\ toWorker' = Tail(toWorker) /\ Head(toWorker) = C(x) /\ UNCHANGED pageVars
  BY DEF Does
<1>2. None(toWorker, Disable) <=> Head(toWorker) \notin Disable /\ None(Tail(toWorker), Disable)
  BY <1>1, TakenFrom
<1>3. None(toWorker, Others) <=> Head(toWorker) \notin Others /\ None(Tail(toWorker), Others)
  BY <1>1, TakenFrom
<1>4. NoneAfter(toWorker, Disable, Others) =>
        NoneAfter(Tail(toWorker), Disable, Others) /\ (Head(toWorker) \in Disable => None(Tail(toWorker), Others))
  BY <1>1, OrderTaken
<1> QED BY <1>1, <1>2, <1>3, <1>4

LEMMA AwaitedNext ==
  /\ Only(toPage', Exact') /\ NoneAfter(toWorker', Disable, Others)
  /\ None(toWorker', Disable) => ~enabled' /\ None(toWorker', Others)
  /\ ~None(toWorker', Disable) => Only(toPage', NoLimits)
  => Awaited'
<1>1. /\ Only(toPage, Exact)' <=> Only(toPage', Exact')
      /\ NoneAfter(toWorker, Disable, Others)' <=> NoneAfter(toWorker', Disable, Others)
      /\ None(toWorker, Disable)' <=> None(toWorker', Disable)
      /\ None(toWorker, Others)' <=> None(toWorker', Others)
      /\ Only(toPage, NoLimits)' <=> Only(toPage', NoLimits)
  BY DEF Only, None, NoneAfter, Disable, Others, C, NoLimits
<1> QED BY <1>1 DEF Awaited

\* What is posted that is no limits.
LEMMA AwaitedPosted ==
  ASSUME toPage \in Seq(PageMessages), NEW m \in Seq(NoLimits), toPage' = toPage \o m
  PROVE  /\ Only(toPage, NoLimits) => Only(toPage', NoLimits)
         /\ Only(toPage, Exact) => Only(toPage', Exact)
<1>1. m \in Seq(PageMessages)
  BY NoLimitsExact, SeqMonotonic
<1>2. Only(m, NoLimits) /\ Only(m, Exact)
  BY NoLimitsExact DEF Only
<1>3. Only(toPage \o m, NoLimits) <=> Only(toPage, NoLimits) /\ Only(m, NoLimits)
  BY <1>1, OnlyJoined
<1>4. Only(toPage \o m, Exact) <=> Only(toPage, Exact) /\ Only(m, Exact)
  BY <1>1, OnlyJoined
<1> QED BY <1>2, <1>3, <1>4

LEMMA LimitsStep == Types /\ [Next]_vars /\ PageInv /\ LimitsInv => LimitsInv'
<1> SUFFICES ASSUME Types, [Next]_vars, PageInv, LimitsInv, resolver' = "stop", ~behind', ~crossed'
             PROVE  Awaited'
  BY DEF LimitsInv
<1>0. toWorker \in Seq(Commands) /\ toPage \in Seq(PageMessages) /\ asked \in Nat /\ SessionOK /\ SignalsOK
  BY TypeParts, PageAssumption DEF QueuesOK, ControlsOK
<1>a. resolver = "stop" => call = "limits"
  BY DEF PageInv
<1>b. UNCHANGED <<resolver, behind, crossed>> => Awaited
  BY DEF LimitsInv
<1>x. Exact' = {m \in PageMessages : m.type = "bounds" => m.from = first' /\ m.to = last'}
  BY DEF Exact, PageMessages, SignalsOf, StatusOf, BoundsOf, Tables, Entries, Values, ValuesOf, Names, Pub, Told,
         Frames
<1>c. UNCHANGED session => Exact' = Exact
  BY <1>x DEF session, Exact
<1>d. NoLimits \subseteq Exact'
  BY DEF NoLimits, Exact, PageMessages, SignalsOf, StatusOf
<1>e. UNCHANGED pageVars => UNCHANGED <<resolver, behind, crossed>>
  BY DEF pageVars, controls, history
<1>f. UNCHANGED workerVars => UNCHANGED <<toPage, session>>
  BY DEF workerVars
<1>g. UNCHANGED session => enabled' = enabled
  BY DEF session
<1>1. CASE Reload \/ Begun \/ StatusAnswer(FALSE) \/ Denied \/ StartTelemetry \/ StopTelemetry \/ LimitsAnswer \/ Refused
  BY <1>1, <1>a DEF Reload, Begun, StartAnswer, StatusAnswer, Denied, StartTelemetry, StopTelemetry, MayControl, Begin,
                    LimitsAnswer, Refused
<1>2. CASE Login
  <2>1. ~Unfinished /\ resolver' = resolver
    BY <1>2 DEF Login
  <2> QED BY <1>a, <2>1 DEF Unfinished
<1>3. CASE StatusAnswer(TRUE)
  <2>1. asked > 0 /\ UNCHANGED <<resolver, crossed>>
    BY <1>3 DEF StatusAnswer, history
  <2>2. asked <= 1
    BY <2>1 DEF PageInv, LoginInv
  <2>3. asked = 1
    BY <1>0, <2>1, <2>2
  <2> QED BY <1>a, <2>1, <2>3 DEF PageInv, LoginInv
<1>4. CASE StopAnswer /\ Sends("disable")
  <2>1. ~LimitsToCome /\ toWorker' = toWorker \o <<C("disable")>> /\ UNCHANGED toPage
    BY <1>4, <1>f DEF StopAnswer, Sends
  <2>2. Only(toPage, NoLimits)
    <3> SUFFICES ASSUME NEW i \in DOMAIN toPage PROVE toPage[i] \in NoLimits
      BY DEF Only
    <3>1. toPage[i] \in PageMessages /\ toPage[i].type # "bounds"
      BY <1>0, <2>1 DEF LimitsToCome
    <3> QED BY <3>1, Kinds DEF NoLimits, PageMessages
  <2>3. None(toWorker, Disable)
    <3> SUFFICES ASSUME NEW i \in DOMAIN toWorker PROVE toWorker[i] \notin Disable
      BY DEF None
    <3>1. toWorker[i].cmd # "disable"
      BY <2>1 DEF LimitsToCome
    <3> QED BY <3>1 DEF Disable, C
  <2>4. C("disable") \in Commands /\ C("disable") \in Disable
    BY LimitsNames
  <2>5. None(toWorker \o <<C("disable")>>, Disable) <=> None(toWorker, Disable) /\ C("disable") \notin Disable
    <3>1. toWorker \in Seq(Commands)
      BY <1>0
    <3> QED BY <2>4, <3>1, AppendedNone, AppendedEnds
  <2>6. NoneAfter(toWorker \o <<C("disable")>>, Disable, Others)
    <3>1. NoneAfter(toWorker, Disable, Others)
      BY <2>3 DEF NoneAfter, None
    <3>2. toWorker \in Seq(Commands)
      BY <1>0
    <3> QED BY <2>3, <2>4, <3>1, <3>2, OrderAppended
  <2>7. Only(toPage', NoLimits) /\ Only(toPage', Exact')
    BY <1>d, <2>1, <2>2 DEF Only
  <2> QED BY <2>1, <2>4, <2>5, <2>6, <2>7, AwaitedNext
<1>5. CASE Logout /\ Sends("disconnect")
  <2>1. Awaited /\ toWorker' = toWorker \o <<C("disconnect")>> /\ UNCHANGED <<toPage, enabled>> /\ Exact' = Exact
    BY <1>5, <1>b, <1>c, <1>f, <1>g DEF Logout, Sends, history
  <2>2. C("disconnect") \in Commands /\ C("disconnect") \notin Disable /\ C("disconnect") \notin Others
    BY LimitsNames
  <2>3. toWorker \in Seq(Commands)
    BY <1>0
  <2>4. None(toWorker \o <<C("disconnect")>>, Disable) <=> None(toWorker, Disable) /\ C("disconnect") \notin Disable
    BY <2>2, <2>3, AppendedNone
  <2>5. None(toWorker \o <<C("disconnect")>>, Others) <=> None(toWorker, Others) /\ C("disconnect") \notin Others
    BY <2>2, <2>3, AppendedNone
  <2>6. NoneAfter(toWorker, Disable, Others) => NoneAfter(toWorker \o <<C("disconnect")>>, Disable, Others)
    BY <2>2, <2>3, OrderAppended
  <2> QED BY <2>1, <2>2, <2>4, <2>5, <2>6, AwaitedNext DEF Awaited
<1>6. CASE Receive /\ UNCHANGED <<toWorker, workerButPosts>>
  <2>1. UNCHANGED <<toWorker, session, behind, crossed>> /\ resolver' = resolver
    BY <1>6 DEF Receive, OnSignals, OnStatus, OnBounds, workerButPosts, history
  <2>2. Awaited /\ Exact' = Exact /\ enabled' = enabled
    BY <1>b, <1>c, <1>g, <2>1
  <2>3. toPage # << >> /\ toPage' = Tail(toPage)
    BY <1>6 DEF Receive, OnSignals, OnStatus, OnBounds, Message
  <2>4. Only(toPage, Exact) <=> Head(toPage) \in Exact /\ Only(Tail(toPage), Exact)
    BY <1>0, <2>3, TakenFrom
  <2>5. Only(toPage, NoLimits) <=> Head(toPage) \in NoLimits /\ Only(Tail(toPage), NoLimits)
    BY <1>0, <2>3, TakenFrom
  <2> QED BY <2>1, <2>2, <2>3, <2>4, <2>5, AwaitedNext DEF Awaited
<1>7. CASE DoConnect /\ Does("connect")
  <2>1. Awaited /\ UNCHANGED <<toPage, session>>
    BY <1>7, <1>b, <1>e DEF DoConnect, Does
  <2>2. C("connect") \notin Disable /\ C("connect") \notin Others
    BY LimitsNames
  <2>3. /\ None(toWorker, Disable) <=> None(toWorker', Disable)
        /\ None(toWorker, Others) <=> None(toWorker', Others)
        /\ NoneAfter(toWorker, Disable, Others) => NoneAfter(toWorker', Disable, Others)
    BY <1>0, <1>7, <2>2, AwaitedTaken
  <2> QED BY <1>c, <1>g, <2>1, <2>3, AwaitedNext DEF Awaited
<1>8. ASSUME NEW x \in {"enable", "reset"}, Does(x), toPage' = toPage PROVE Awaited'
  <2>1. Awaited
    BY <1>8, <1>b, <1>e DEF Does
  <2>2. C(x) \notin Disable /\ C(x) \in Others
    BY LimitsNames
  <2>3. /\ None(toWorker, Disable) <=> None(toWorker', Disable)
        /\ ~None(toWorker, Others)
        /\ NoneAfter(toWorker, Disable, Others) => NoneAfter(toWorker', Disable, Others)
    BY <1>0, <1>8, <2>2, AwaitedTaken
  <2>4. ~None(toWorker, Disable) /\ Only(toPage, NoLimits)
    BY <2>1, <2>3 DEF Awaited
  <2>5. Only(toPage', NoLimits) /\ Only(toPage', Exact')
    BY <1>8, <1>d, <2>4 DEF Only
  <2> QED BY <2>1, <2>3, <2>4, <2>5, AwaitedNext DEF Awaited
<1>9. CASE DoEnable /\ Does("enable")
  BY <1>8, <1>9 DEF DoEnable
<1>10. CASE Cleared
  BY <1>8, <1>10 DEF Cleared, DoReset
<1>11. CASE DoDisable /\ Does("disable")
  <2>1. Awaited
    BY <1>11, <1>b, <1>e DEF Does
  <2>2. C("disable") \in Disable
    BY LimitsNames
  <2>3. ~None(toWorker, Disable) /\ NoneAfter(toWorker', Disable, Others) /\ None(toWorker', Others)
    BY <1>0, <1>11, <2>1, <2>2, AwaitedTaken DEF Awaited
  <2>4. None(toWorker', Disable)
    BY <2>3, LimitsNames DEF None
  <2> DEFINE w == Status(IF ws = "none" THEN "disconnected" ELSE "connected")
             b == Bounds(first, last)
             m == << b, w >>
  <2>5. toPage' = toPage \o (Batch \o m) /\ ~enabled' /\ UNCHANGED <<first, last>>
    BY <1>11 DEF DoDisable, Post, StopLimit
  <2>6. w \in Exact' /\ b \in Exact' /\ w \in PageMessages /\ b \in PageMessages
    <3>1. w \in StatusOf(Told)
      BY Said DEF Told
    <3>2. b \in PageMessages /\ b.from = first /\ b.to = last
      BY <1>0, Said DEF SessionOK, Bounds
    <3>3. w \in NoLimits
      BY <3>1 DEF NoLimits
    <3>4. b \in Exact'
      BY <1>x, <2>5, <3>2
    <3> QED BY <1>d, <3>2, <3>3, <3>4, NoLimitsExact
  <2> HIDE DEF w, b
  <2>7. m \in Seq(PageMessages) /\ Only(m, Exact')
    BY <2>6 DEF Only
  <2> HIDE DEF m
  <2>8. Batch \in Seq(PageMessages) /\ Only(Batch, Exact')
    <3>1. Batch \in Seq(SignalsOf(Tables)) /\ SignalsOf(Tables) \subseteq NoLimits
      BY <1>0, BatchIs DEF SignalsOK, NoLimits
    <3>2. SignalsOf(Tables) \subseteq PageMessages
      BY DEF PageMessages
    <3>3. Batch \in Seq(PageMessages)
      BY <3>1, <3>2, SeqMonotonic
    <3> QED BY <1>d, <3>1, <3>3 DEF Only
  <2>9. Batch \o m \in Seq(PageMessages)
    BY <2>7, <2>8, ConcatProperties
  <2>10. Only(toPage, Exact')
    BY <1>d, <2>1, <2>3 DEF Awaited, Only
  <2>11. ASSUME NEW k, k = Exact' PROVE Only(toPage \o (Batch \o m), k)
    <3>1. Only(Batch \o m, k) <=> Only(Batch, k) /\ Only(m, k)
      BY <2>7, <2>8, OnlyJoined
    <3>2. Only(toPage \o (Batch \o m), k) <=> Only(toPage, k) /\ Only(Batch \o m, k)
      BY <1>0, <2>9, OnlyJoined
    <3> QED BY <2>7, <2>8, <2>10, <2>11, <3>1, <3>2
  <2>12. Only(toPage', Exact')
    BY <2>5, <2>11
  <2> QED BY <2>3, <2>4, <2>5, <2>12, AwaitedNext
<1>12. CASE DoDisconnect /\ Does("disconnect")
  <2>1. Awaited /\ ~enabled' /\ UNCHANGED <<first, last>>
    BY <1>12, <1>b, <1>e DEF DoDisconnect, Does
  <2>2. C("disconnect") \notin Disable /\ C("disconnect") \notin Others
    BY LimitsNames
  <2>3. /\ None(toWorker, Disable) <=> None(toWorker', Disable)
        /\ None(toWorker, Others) <=> None(toWorker', Others)
        /\ NoneAfter(toWorker, Disable, Others) => NoneAfter(toWorker', Disable, Others)
    BY <1>0, <1>12, <2>2, AwaitedTaken
  <2>4. Exact' = Exact
    BY <1>x, <2>1 DEF Exact
  <2>5. PICK m \in Seq(NoLimits) : toPage' = toPage \o m
    BY <1>12, PostsNoLimits
  <2>6. /\ Only(toPage, NoLimits) => Only(toPage', NoLimits)
        /\ Only(toPage, Exact) => Only(toPage', Exact)
    BY <1>0, <2>5, AwaitedPosted
  <2> QED BY <2>1, <2>3, <2>4, <2>6, AwaitedNext DEF Awaited
<1>13. CASE WorkerEvent /\ UNCHANGED <<toWorker, pageVars>>
  <2>1. Awaited /\ toWorker' = toWorker /\ enabled' = enabled
    BY <1>13, <1>b, <1>e, EnabledKept
  <2>2. PICK m \in Seq(NoLimits) : toPage' = toPage \o m
    BY <1>13, PostsNoLimits
  <2>3. /\ Only(toPage, NoLimits) => Only(toPage', NoLimits)
        /\ Only(toPage, Exact) => Only(toPage', Exact)
    BY <1>0, <2>2, AwaitedPosted
  <2>4. CASE enabled
    <3>1. ~None(toWorker, Disable) /\ Only(toPage', NoLimits)
      BY <2>1, <2>3, <2>4 DEF Awaited
    <3>2. Only(toPage', Exact')
      BY <1>d, <3>1 DEF Only
    <3> QED BY <2>1, <3>1, <3>2, AwaitedNext DEF Awaited
  <2>5. CASE ~enabled
    <3>1. UNCHANGED session
      BY <1>13, <2>5 DEF WorkerEvent, HandleFrame, FlushTimer, MapAnswer, Opened, ClosedCleanly, Failed, Closed, LateError,
                         ReconnectTimer, StrayTimer
    <3> QED BY <1>c, <2>1, <2>3, <3>1, AwaitedNext DEF Awaited
  <2> QED BY <2>4, <2>5
<1>14. CASE UNCHANGED vars
  <2>1. Awaited /\ UNCHANGED <<toWorker, toPage, session>>
    BY <1>14, <1>b, <1>e, <1>f DEF vars
  <2> QED BY <1>c, <1>g, <2>1, AwaitedNext DEF Awaited
<1> QED BY <1>1, <1>2, <1>3, <1>4, <1>5, <1>6, <1>7, <1>9, <1>10, <1>11, <1>12, <1>13, <1>14, CommandFlow

LEMMA AlwaysLimits == Spec => []LimitsInv
BY LimitsInit, LimitsStep, AlwaysPageInv, AlwaysTypes, PTL DEF Spec

\* A stop, or a status answer, leaves the page and the worker agreed, and a stop goes on
\* with the limits of what was recorded.
THEOREM StopsAreExact == Spec => []StopIsExact
<1>1. ModeInv => ModeMatchesWorker
  <2> SUFFICES ASSUME ModeInv, toWorker = << >>, asked = 0, call = "none", ~crossed, user = "in"
               PROVE  enabled <=> mode = "live"
    BY DEF ModeMatchesWorker, Quiet
  <2>1. None(toWorker, Pause) /\ ~EndsOn(toWorker, Enable, Pause)
    BY Empty
  <2> QED BY <2>1 DEF ModeInv, WillRecord
<1>2. Types /\ LimitsInv => StopGetsItsBounds
  <2> SUFFICES ASSUME Types, LimitsInv, resolver = "stop", toPage # << >>, Received.type = "bounds", ~behind, ~crossed
               PROVE  Received.from = first /\ Received.to = last
    BY DEF StopGetsItsBounds
  <2>1. Only(toPage, Exact) /\ toPage \in Seq(PageMessages)
    BY TypeParts DEF LimitsInv, Awaited, QueuesOK
  <2>2. Head(toPage) \in Exact
    BY <2>1, TakenFrom
  <2> QED BY <2>2 DEF Exact, Received
<1>3. Types /\ ModeInv /\ LimitsInv => StopIsExact
  BY <1>1, <1>2 DEF StopIsExact
<1> QED BY <1>3, AlwaysMode, AlwaysLimits, AlwaysTypes, PTL
=============================================================================
