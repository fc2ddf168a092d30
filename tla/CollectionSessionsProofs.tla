------------------------ MODULE CollectionSessionsProofs ------------------------
(***************************************************************************)
(* Starting and stopping collections, for every number of pages, requests  *)
(* and sessions and every order of the server's statements: the types, and *)
(* what one controlling page on a good link is enough for.                 *)
(***************************************************************************)
EXTENDS CollectionSessions, FiniteSetTheorems, SequenceTheorems, TLAPS

LEMMA ConstantFacts ==
  /\ MaxTime \in Nat \ {0} /\ MaxSessions \in Nat /\ MaxLog \in Nat
  /\ NoDash \notin Dashboards /\ Controllers \subseteq Dashboards
  /\ IsFiniteSet(Calls) /\ Cardinality(Calls) \in Nat
BY ConstantsAssumption, FS_CardinalityType

\* Sessions have a newest one, and an ending a latest one: sets of numbers below a bound
\* have a greatest element.
LEMMA GreatestExists ==
  ASSUME NEW n \in Nat, NEW S \in SUBSET (0..n), S # {}
  PROVE  \E x \in S : \A y \in S : y <= x
<1> DEFINE T == {n - x : x \in S}
<1>1. T \subseteq Nat /\ T # {}
  <2>1. PICK x : x \in S
    OBVIOUS
  <2>2. n - x \in T
    BY <2>1
  <2> QED BY <2>2
<1>2. PICK t \in T : \A k \in T : <<k, t>> \notin OpToRel(<, Nat)
  BY <1>1, WFMin, NatLessThanWellFounded, Zenon
<1>3. \A k \in T : ~(k < t)
  BY <1>1, <1>2, Zenon DEF OpToRel
<1>4. PICK x \in S : t = n - x
  OBVIOUS
<1>5. \A y \in S : y <= x
  <2> SUFFICES ASSUME NEW y \in S PROVE y <= x
    OBVIOUS
  <2>1. n - y \in T
    OBVIOUS
  <2>2. ~(n - y < n - x)
    BY <1>3, <1>4, <2>1
  <2>3. x \in Nat /\ y \in Nat
    OBVIOUS
  <2> QED BY <2>2, <2>3
<1> QED BY <1>5

(***************************************************************************)
(* The types                                                               *)
(***************************************************************************)

\* A request that is about to write, or has, names a session of the table; the limits
\* about to be written are valid.
RecordOK(r, n) ==
  /\ r \in CallState
  /\ (r.op \in {"stop", "bounds"} /\ r.at = "write") \/ (r.op = "start" /\ r.at = "reset")
       => r.id \in 1..n
  /\ r.op = "bounds" /\ r.at = "write" => ValidBounds(r)

CallsOK == call \in [Calls -> CallState] /\ \A c \in Calls : RecordOK(call[c], Len(sessions))

\* Requests that may still insert a session.
Starts(r) == r.op = "start" /\ r.at \in {"sent", "write"}
Starting == {c \in Calls : Starts(call[c])}

SessionsOK ==
  /\ sessions \in Seq(SessionRow)
  /\ Len(sessions) + Cardinality(Starting) <= MaxSessions + Cardinality(Calls)
  /\ track \in 0..Len(sessions)

PagesOK ==
  /\ user \in [Dashboards -> {"out", "in"}]
  /\ mode \in [Dashboards -> {"idle", "live", "stopped"}]
  /\ pending \in [Dashboards -> BOOLEAN]
  /\ enabled \in [Dashboards -> BOOLEAN]
  /\ first \in [Dashboards -> Time]
  /\ latest \in [Dashboards -> Time]
  /\ linked \in [Dashboards -> BOOLEAN] /\ replayed \in BOOLEAN

Typing == clock \in 1..MaxTime /\ SessionsOK /\ CallsOK /\ PagesOK

LEMMA Counts ==
  /\ Cardinality(Starting) \in Nat /\ Cardinality(Starting) <= Cardinality(Calls)
  /\ IsFiniteSet(Starting)
  /\ Cardinality(Starting') \in Nat /\ Cardinality(Starting') <= Cardinality(Calls)
  /\ IsFiniteSet(Starting')
  /\ Starting' \subseteq Starting => Cardinality(Starting') <= Cardinality(Starting)
<1>1. Starting \in SUBSET Calls /\ Starting' \in SUBSET Calls
  BY DEF Starting
<1>2. IsFiniteSet(Starting) /\ IsFiniteSet(Starting')
  BY <1>1, ConstantFacts, FS_Subset
<1>3. Cardinality(Starting) <= Cardinality(Calls) /\ Cardinality(Starting') <= Cardinality(Calls)
  BY <1>1, ConstantFacts, FS_Subset
<1>4. Cardinality(Starting) \in Nat /\ Cardinality(Starting') \in Nat
  BY <1>2, FS_CardinalityType
<1>5. ASSUME Starting' \subseteq Starting PROVE Cardinality(Starting') <= Cardinality(Starting)
  BY <1>2, <1>5, FS_Subset
<1> QED BY <1>2, <1>3, <1>4, <1>5

LEMMA IdsAreSessions ==
  ASSUME Typing
  PROVE  /\ Len(sessions) \in Nat /\ 0..Len(sessions) \subseteq SessionIds \cup {0}
         /\ 1..Len(sessions) \subseteq SessionIds /\ clock \in Time /\ 0 \in Time
BY ConstantFacts, Counts DEF Typing, SessionsOK, SessionIds, Time

\* One request goes on, no session is added.
LEMMA CallKeeps ==
  ASSUME Typing, NEW c \in Calls, NEW r, RecordOK(r, Len(sessions)),
         call' = [call EXCEPT ![c] = r], Starts(r) => Starts(call[c]),
         sessions' \in Seq(SessionRow), Len(sessions') = Len(sessions),
         track' \in 0..Len(sessions), clock' = clock, PagesOK'
  PROVE  Typing'
<1>1. call \in [Calls -> CallState] /\ r \in CallState
  BY DEF Typing, CallsOK, RecordOK
<1>2. call' \in [Calls -> CallState] /\ \A e \in Calls : call'[e] = IF e = c THEN r ELSE call[e]
  BY <1>1
<1>3. CallsOK'
  BY <1>2 DEF Typing, CallsOK
<1>4. Starting' \subseteq Starting
  BY <1>2 DEF Starting
<1>5. SessionsOK'
  BY <1>4, Counts, IdsAreSessions, ConstantFacts DEF Typing, SessionsOK
<1> QED BY <1>3, <1>5 DEF Typing

LEMMA FreeIsOK == \A n \in Nat : RecordOK(Free, n) /\ ~Starts(Free)
BY ConstantFacts
   DEF RecordOK, Free, CallState, Starts, Ops, Stages, Answers, Time, SessionIds

LEMMA RequestIs ==
  ASSUME NEW op \in Ops, NEW d \in Dashboards
  PROVE  /\ Request(op, d) \in CallState /\ Request(op, d).op = op
         /\ Request(op, d).by = d /\ Request(op, d).at = "sent"
<1>1. Free \in CallState
  BY FreeIsOK DEF RecordOK
<1>2. Free.at = "sent"
  BY DEF Free
<1> QED BY <1>1, <1>2 DEF Request, CallState

LEMMA ReleaseKeeps ==
  ASSUME Typing, NEW c \in Calls, Release(c), UNCHANGED <<clock, server>>, PagesOK'
  PROVE  Typing'
<1>1. RecordOK(Free, Len(sessions)) /\ ~Starts(Free)
  BY FreeIsOK, IdsAreSessions
<1> QED BY <1>1, CallKeeps DEF Release, server, Typing, SessionsOK

LEMMA BecomeKeeps ==
  ASSUME Typing, NEW c \in Calls, NEW stage, Become(c, stage),
         stage \in Answers \/ (At(c, "start", "sent") /\ stage = "write"),
         sessions' \in Seq(SessionRow), Len(sessions') = Len(sessions),
         track' \in 0..Len(sessions), UNCHANGED <<clock, page, worker>>
  PROVE  Typing'
<1> DEFINE r == [call[c] EXCEPT !.at = stage]
<1>1. call[c] \in CallState /\ stage \in Stages
  BY DEF Typing, CallsOK, Stages
<1>2. r \in CallState /\ r.op = call[c].op /\ r.at = stage
  BY <1>1 DEF CallState
<1>3. call' = [call EXCEPT ![c] = r]
  BY DEF Become
<1> HIDE DEF r
<1>4. RecordOK(r, Len(sessions)) /\ (Starts(r) => Starts(call[c]))
  BY <1>2 DEF RecordOK, Starts, Answers, At
<1>5. PagesOK'
  BY DEF Typing, PagesOK, page, worker
<1> QED BY <1>3, <1>4, <1>5, CallKeeps

LEMMA PickKeeps ==
  ASSUME Typing, NEW c \in Calls, NEW i \in 1..Len(sessions), Pick(c, i),
         \/ At(c, "stop", "sent")
         \/ At(c, "bounds", "sent") /\ ValidBounds(call[c]),
         UNCHANGED <<clock, server, page, worker>>
  PROVE  Typing'
<1> DEFINE r == [call[c] EXCEPT !.at = "write", !.id = i]
<1>1. call[c] \in CallState /\ i \in SessionIds
  BY IdsAreSessions DEF Typing, CallsOK
<1>2. /\ r \in CallState /\ r.op = call[c].op /\ r.at = "write" /\ r.id = i
      /\ r.from = call[c].from /\ r.to = call[c].to
  BY <1>1 DEF CallState, Stages
<1>3. call' = [call EXCEPT ![c] = r]
  BY DEF Pick
<1> HIDE DEF r
<1>4. RecordOK(r, Len(sessions)) /\ (Starts(r) => Starts(call[c]))
  BY <1>2 DEF RecordOK, Starts, At, ValidBounds
<1>5. PagesOK'
  BY DEF Typing, PagesOK, page, worker
<1> QED BY <1>3, <1>4, <1>5, CallKeeps DEF server, Typing, SessionsOK

LEMMA NewestIsOne ==
  ASSUME Typing, Active(sessions) # {}
  PROVE  Newest(Active(sessions)) \in Active(sessions)
         /\ Active(sessions) \subseteq 1..Len(sessions)
<1>1. Active(sessions) \subseteq 1..Len(sessions) /\ Len(sessions) \in Nat
  BY DEF Typing, SessionsOK, Active
<1>2. PICK x \in Active(sessions) : \A y \in Active(sessions) : y <= x
  <2>1. Active(sessions) \in SUBSET (0..Len(sessions))
    BY <1>1
  <2> QED BY <1>1, <2>1, GreatestExists
<1>3. \A y \in Active(sessions) : x >= y
  BY <1>1, <1>2
<1>4. Max(Active(sessions)) \in Active(sessions)
  BY <1>3 DEF Max
<1> QED BY <1>1, <1>4 DEF Newest

LEMMA LatestIsOne ==
  ASSUME Typing, Ended # {}
  PROVE  LatestEnded \in Ended /\ Ended \subseteq 1..Len(sessions)
<1>1. Ended \subseteq 1..Len(sessions) /\ Len(sessions) \in Nat
  BY DEF Typing, SessionsOK, Ended
<1>2. \A i \in Ended : sessions[i].end \in 0..MaxTime
  <2>1. \A i \in Ended : sessions[i] \in SessionRow
    BY <1>1, ElementOfSeq DEF Typing, SessionsOK
  <2> QED BY <2>1 DEF SessionRow, Time
<1> DEFINE E == {sessions[i].end : i \in Ended}
<1>3. PICK e \in E : \A x \in E : x <= e
  <2>1. E \in SUBSET (0..MaxTime) /\ E # {}
    BY <1>2
  <2> QED BY <2>1, GreatestExists, ConstantFacts
<1> DEFINE L == {i \in Ended : sessions[i].end = e}
<1>4. PICK i \in L : \A j \in L : j <= i
  <2>1. PICK k \in Ended : e = sessions[k].end
    BY <1>3
  <2>2. k \in L
    BY <2>1
  <2>3. L \in SUBSET (0..Len(sessions)) /\ L # {}
    <3>1. L \subseteq Ended /\ 1..Len(sessions) \subseteq 0..Len(sessions)
      BY <1>1
    <3> HIDE DEF L
    <3> QED BY <1>1, <2>2, <3>1
  <2> QED BY <1>1, <2>3, GreatestExists
<1>5. i \in Ended /\ sessions[i].end = e
  BY <1>4
<1>6. \A j \in Ended : \/ sessions[j].end < sessions[i].end
                       \/ sessions[j].end = sessions[i].end /\ j <= i
  <2> SUFFICES ASSUME NEW j \in Ended, ~(sessions[j].end < e)
               PROVE  sessions[j].end = e /\ j <= i
    BY <1>5
  <2>1. sessions[j].end <= e /\ sessions[j].end \in 0..MaxTime /\ e \in 0..MaxTime
    BY <1>2, <1>3, <1>5
  <2>2. sessions[j].end = e
    BY <2>1, ConstantFacts
  <2> QED BY <1>4, <2>2
<1>7. LatestEnded \in Ended
  BY <1>5, <1>6 DEF LatestEnded
<1> QED BY <1>1, <1>7

LEMMA ServeTypes ==
  ASSUME Typing, NEW c \in Calls, Serve(c)
  PROVE  Typing'
<1>1. sessions \in Seq(SessionRow) /\ track \in 0..Len(sessions) /\ Len(sessions) \in Nat
  BY IdsAreSessions DEF Typing, SessionsOK
<1>2. CASE StatusSelect(c)
  BY <1>1, <1>2, BecomeKeeps DEF StatusSelect, Status, Answers, server
<1>3. CASE StartSelect(c)
  <2>1. CASE MayStart(sessions)
    BY <1>1, <1>3, <2>1, BecomeKeeps DEF StartSelect, server
  <2>2. CASE ~MayStart(sessions)
    BY <1>1, <1>3, <2>2, BecomeKeeps DEF StartSelect, Answers, server
  <2> QED BY <2>1, <2>2
<1>4. CASE StartInsert(c)
  <2> DEFINE row == [start |-> clock, end |-> 0, from |-> 0, to |-> 0, length |-> 0]
             r == [call[c] EXCEPT !.at = "reset", !.id = Len(sessions) + 1]
  <2>1. /\ sessions' = Append(sessions, row) /\ call' = [call EXCEPT ![c] = r]
        /\ Starts(call[c]) /\ call[c].op = "start"
        /\ UNCHANGED <<clock, track, page, worker>>
    BY <1>4 DEF StartInsert, At, Starts
  <2>2. row \in SessionRow
    BY IdsAreSessions DEF SessionRow
  <2>3. sessions' \in Seq(SessionRow) /\ Len(sessions') = Len(sessions) + 1
    BY <1>1, <2>1, <2>2, AppendProperties
  <2>4. c \in Starting
    BY <2>1 DEF Starting
  <2>5. Len(sessions) + 1 \in SessionIds
    <3>1. Cardinality(Starting) # 0
      BY <2>4, Counts, FS_EmptySet
    <3> QED BY <1>1, <3>1, Counts, ConstantFacts DEF Typing, SessionsOK, SessionIds
  <2>6. call[c] \in CallState /\ call \in [Calls -> CallState]
    BY DEF Typing, CallsOK
  <2>7. r \in CallState /\ r.op = "start" /\ r.at = "reset" /\ r.id = Len(sessions) + 1
    BY <2>1, <2>5, <2>6 DEF CallState, Stages
  <2> HIDE DEF r, row
  <2>8. call' \in [Calls -> CallState] /\ \A d \in Calls : call'[d] = IF d = c THEN r ELSE call[d]
    BY <2>1, <2>6, <2>7
  <2>9. RecordOK(r, Len(sessions'))
    BY <1>1, <2>3, <2>7 DEF RecordOK
  <2>10. CallsOK'
    <3>1. ASSUME NEW d \in Calls, d # c PROVE RecordOK(call[d], Len(sessions'))
      BY <1>1, <2>3 DEF Typing, CallsOK, RecordOK
    <3> QED BY <2>8, <2>9, <3>1 DEF CallsOK
  <2>11. SessionsOK'
    <3>1. Starting' = Starting \ {c}
      BY <2>7, <2>8 DEF Starting, Starts
    <3>2. Cardinality(Starting') = Cardinality(Starting) - 1
      BY <2>4, <3>1, Counts, FS_RemoveElement
    <3> QED BY <1>1, <2>1, <2>3, <3>2, Counts, ConstantFacts DEF Typing, SessionsOK
  <2> QED BY <2>1, <2>10, <2>11 DEF Typing, PagesOK, page, worker
<1>5. CASE StartReset(c)
  <2>1. At(c, "start", "reset") /\ track' = call[c].id /\ Become(c, "ok")
        /\ UNCHANGED <<clock, sessions, page, worker>>
    BY <1>5 DEF StartReset, TrackAfter
  <2>2. call[c].id \in 1..Len(sessions)
    BY <2>1 DEF At, Typing, CallsOK, RecordOK
  <2>3. track' \in 0..Len(sessions)
    BY <1>1, <2>1, <2>2
  <2> QED BY <1>1, <2>1, <2>3, BecomeKeeps DEF Answers
<1>6. CASE StopSelect(c)
  <2>1. CASE Active(sessions) = {}
    BY <1>1, <1>6, <2>1, BecomeKeeps DEF StopSelect, Answers, server
  <2>2. CASE Active(sessions) # {}
    BY <1>6, <2>2, NewestIsOne, PickKeeps DEF StopSelect
  <2> QED BY <2>1, <2>2
<1>7. CASE StopUpdate(c)
  <2>1. call[c].id \in 1..Len(sessions)
    BY <1>7 DEF StopUpdate, At, Typing, CallsOK, RecordOK
  <2> DEFINE row == [sessions[call[c].id] EXCEPT !.end = clock]
  <2>2. row \in SessionRow
    <3>1. sessions[call[c].id] \in SessionRow /\ clock \in Time
      BY <1>1, <2>1, ElementOfSeq, IdsAreSessions
    <3> QED BY <3>1 DEF SessionRow
  <2>3. sessions' = [sessions EXCEPT ![call[c].id] = row]
    BY <1>7 DEF StopUpdate
  <2> HIDE DEF row
  <2>4. sessions' \in Seq(SessionRow) /\ Len(sessions') = Len(sessions)
    BY <1>1, <2>1, <2>2, <2>3, ExceptSeq
  <2> QED BY <1>1, <1>7, <2>4, BecomeKeeps DEF StopUpdate, Answers
<1>8. CASE BoundsSelect(c)
  <2>1. CASE ValidBounds(call[c]) /\ Ended # {}
    BY <1>8, <2>1, LatestIsOne, PickKeeps DEF BoundsSelect
  <2>2. CASE ~(ValidBounds(call[c]) /\ Ended # {})
    BY <1>1, <1>8, <2>2, BecomeKeeps DEF BoundsSelect, Answers, server
  <2> QED BY <2>1, <2>2
<1>9. CASE BoundsUpdate(c)
  <2>1. call[c].id \in 1..Len(sessions) /\ ValidBounds(call[c]) /\ call[c] \in CallState
    BY <1>9 DEF BoundsUpdate, At, Typing, CallsOK, RecordOK
  <2>2. call[c].from \in Time /\ call[c].to \in Time /\ LogLength(call[c]) \in Time
    BY <2>1, ConstantFacts DEF CallState, ValidBounds, LogLength, Time
  <2> DEFINE row == [sessions[call[c].id] EXCEPT !.from = call[c].from, !.to = call[c].to,
                                                 !.length = LogLength(call[c])]
  <2>3. row \in SessionRow
    <3>1. sessions[call[c].id] \in SessionRow
      BY <1>1, <2>1, ElementOfSeq
    <3> QED BY <2>2, <3>1 DEF SessionRow
  <2>4. sessions' = [sessions EXCEPT ![call[c].id] = row]
    BY <1>1, <1>9, <2>1 DEF BoundsUpdate
  <2> HIDE DEF row
  <2>5. sessions' \in Seq(SessionRow) /\ Len(sessions') = Len(sessions)
    BY <1>1, <2>1, <2>3, <2>4, ExceptSeq
  <2> QED BY <1>1, <1>9, <2>5, BecomeKeeps DEF BoundsUpdate, Answers
<1> QED BY <1>2, <1>3, <1>4, <1>5, <1>6, <1>7, <1>8, <1>9 DEF Serve

LEMMA FailureTypes ==
  ASSUME Typing, NEW c \in Calls, Deny(c) \/ StatementFails(c) \/ ReplyLost(c)
  PROVE  Typing'
<1>1. sessions \in Seq(SessionRow) /\ track \in 0..Len(sessions)
  BY DEF Typing, SessionsOK
<1>2. PICK stage \in {"denied", "refused"} : Become(c, stage)
        /\ UNCHANGED <<clock, server, page, worker>>
  BY DEF Deny, StatementFails, ReplyLost
<1>3. stage \in Answers
  BY DEF Answers
<1> QED BY <1>1, <1>2, <1>3, BecomeKeeps DEF server

LEMMA AnswerTypes ==
  ASSUME Typing, NEW c \in Calls, Answer(c)
  PROVE  Typing'
<1>1. sessions \in Seq(SessionRow) /\ track \in 0..Len(sessions) /\ PagesOK /\ 0 \in Time
  BY IdsAreSessions DEF Typing, SessionsOK
<1>2. CASE StatusAnswer(c)
  <2>1. PagesOK' /\ Release(c) /\ UNCHANGED <<clock, server>>
    BY <1>1, <1>2 DEF StatusAnswer, Answered, PagesOK
  <2> QED BY <2>1, ReleaseKeeps
<1>3. ASSUME ActionFails(c, call[c].by), call[c].by \in Dashboards, UNCHANGED <<clock, server>>
      PROVE  Typing'
  <2>1. Release(c)
    BY <1>3 DEF ActionFails
  <2>2. CASE call[c].at = "denied"
    <3>1. PagesOK'
      BY <1>1, <1>3, <2>2 DEF ActionFails, LogOut, PagesOK
    <3> QED BY <1>3, <2>1, <3>1, ReleaseKeeps
  <2>3. CASE call[c].at # "denied"
    <3>1. /\ pending' = [pending EXCEPT ![call[c].by] = FALSE]
          /\ UNCHANGED <<user, mode, enabled, first, latest, linked, replayed>>
      BY <1>3, <2>3 DEF ActionFails, worker
    <3>2. pending' \in [Dashboards -> BOOLEAN]
      BY <1>1, <1>3, <3>1 DEF PagesOK
    <3>3. PagesOK'
      BY <1>1, <3>1, <3>2 DEF PagesOK
    <3> QED BY <1>3, <2>1, <3>3, ReleaseKeeps
  <2> QED BY <2>2, <2>3
<1>4. CASE StartAnswer(c)
  <2>1. CASE call[c].at = "ok"
    <3>1. /\ call[c].by \in Dashboards
          /\ first' = [first EXCEPT ![call[c].by] = 0]
          /\ latest' = [latest EXCEPT ![call[c].by] = 0]
          /\ enabled' = [enabled EXCEPT ![call[c].by] = TRUE]
          /\ mode' = [mode EXCEPT ![call[c].by] = "live"]
          /\ pending' = [pending EXCEPT ![call[c].by] = FALSE]
          /\ UNCHANGED <<user, linked, replayed>>
          /\ Release(c) /\ UNCHANGED <<clock, server>>
      BY <1>4, <2>1 DEF StartAnswer, Answered, FirstAfterStart
    <3>2. first' \in [Dashboards -> Time] /\ latest' \in [Dashboards -> Time]
      BY <1>1, <3>1 DEF PagesOK
    <3>3. /\ enabled' \in [Dashboards -> BOOLEAN] /\ pending' \in [Dashboards -> BOOLEAN]
          /\ mode' \in [Dashboards -> {"idle", "live", "stopped"}]
      BY <1>1, <3>1 DEF PagesOK
    <3>4. PagesOK'
      BY <1>1, <3>1, <3>2, <3>3 DEF PagesOK
    <3> QED BY <3>1, <3>4, ReleaseKeeps
  <2>2. CASE call[c].at # "ok"
    BY <1>3, <1>4, <2>2 DEF StartAnswer, Answered
  <2> QED BY <2>1, <2>2
<1>5. CASE StopAnswer(c)
  <2>0. call[c].by \in Dashboards /\ UNCHANGED <<clock, server>>
    BY <1>5 DEF StopAnswer, Answered
  <2>1. CASE call[c].at = "ok" /\ first[call[c].by] # 0 /\ latest[call[c].by] # 0
    <3> DEFINE d == call[c].by
               r == [Request("bounds", d) EXCEPT !.from = first[d], !.to = latest[d]]
    <3>1. PagesOK' /\ call' = [call EXCEPT ![c] = r]
      BY <1>1, <1>5, <2>0, <2>1 DEF StopAnswer, PagesOK, page
    <3>2. first[d] \in Time /\ latest[d] \in Time
      BY <1>1, <2>0 DEF PagesOK
    <3>3. /\ Request("bounds", d) \in CallState /\ Request("bounds", d).op = "bounds"
          /\ Request("bounds", d).at = "sent"
      BY <2>0, RequestIs DEF Ops
    <3>4. r \in CallState /\ r.op = "bounds" /\ r.at = "sent"
      BY <3>2, <3>3 DEF CallState
    <3> HIDE DEF r
    <3>5. RecordOK(r, Len(sessions)) /\ ~Starts(r)
      BY <3>4 DEF RecordOK, Starts
    <3> QED BY <1>1, <2>0, <3>1, <3>5, CallKeeps DEF server
  <2>2. CASE call[c].at = "ok" /\ ~(first[call[c].by] # 0 /\ latest[call[c].by] # 0)
    <3>1. PagesOK' /\ Release(c)
      BY <1>1, <1>5, <2>0, <2>2 DEF StopAnswer, PagesOK
    <3> QED BY <2>0, <3>1, ReleaseKeeps
  <2>3. CASE call[c].at # "ok"
    BY <1>3, <1>5, <2>0, <2>3 DEF StopAnswer
  <2> QED BY <2>1, <2>2, <2>3
<1>6. CASE BoundsAnswer(c)
  <2>1. PagesOK' /\ Release(c) /\ UNCHANGED <<clock, server>>
    BY <1>1, <1>6 DEF BoundsAnswer, Answered, PendingAfterBounds, PagesOK, worker
  <2> QED BY <2>1, ReleaseKeeps
<1>7. CASE Unheard(c)
  <2>1. PagesOK' /\ Release(c) /\ UNCHANGED <<clock, server>>
    BY <1>1, <1>7 DEF Unheard, PagesOK, page, worker
  <2> QED BY <2>1, ReleaseKeeps
<1> QED BY <1>2, <1>4, <1>5, <1>6, <1>7 DEF Answer

\* A request is sent in a free slot.
LEMMA SendIs ==
  ASSUME NEW op, NEW d, Send(op, d)
  PROVE  \E c \in Calls : call[c] = Free /\ call' = [call EXCEPT ![c] = Request(op, d)]
<1>1. (CHOOSE c \in FreeSlots : TRUE) \in FreeSlots
  BY DEF Send
<1> QED BY <1>1 DEF Send, FreeSlots

LEMMA SendTypes ==
  ASSUME Typing, NEW op \in {"status", "start", "stop"}, NEW d \in Dashboards, Send(op, d),
         op = "start" => Len(sessions) < MaxSessions, UNCHANGED <<clock, server>>, PagesOK'
  PROVE  Typing'
<1>1. PICK c \in Calls : call[c] = Free /\ call' = [call EXCEPT ![c] = Request(op, d)]
  BY SendIs
<1> DEFINE r == Request(op, d)
<1>2. op \in Ops
  BY DEF Ops
<1>3. call' = [call EXCEPT ![c] = r]
  BY <1>1
<1>4. r \in CallState /\ r.op = op /\ r.at = "sent"
  BY <1>2, RequestIs
<1> HIDE DEF r
<1>5. RecordOK(r, Len(sessions))
  BY <1>4 DEF RecordOK
<1>6. CASE op # "start"
  <2>1. ~Starts(r)
    BY <1>4, <1>6 DEF Starts
  <2> QED BY <1>3, <1>5, <2>1, CallKeeps DEF server, Typing, SessionsOK
<1>7. CASE op = "start"
  <2>1. call \in [Calls -> CallState]
    BY DEF Typing, CallsOK
  <2>2. call' \in [Calls -> CallState] /\ \A e \in Calls : call'[e] = IF e = c THEN r ELSE call[e]
    BY <1>3, <1>4, <2>1
  <2>3. CallsOK'
    BY <1>5, <2>2 DEF Typing, CallsOK, server
  <2>4. SessionsOK'
    BY <1>7, Counts, IdsAreSessions, ConstantFacts DEF Typing, SessionsOK, server
  <2> QED BY <2>3, <2>4 DEF Typing
<1> QED BY <1>6, <1>7

LEMMA PageTypes ==
  ASSUME Typing, NEW d \in Dashboards,
         \/ HandleFrame(d) \/ Login(d) \/ StartTelemetry(d) \/ StopTelemetry(d)
         \/ Logout(d) \/ Reload(d)
  PROVE  Typing'
<1>1. PagesOK /\ 0 \in Time /\ clock \in 1..MaxTime
  BY IdsAreSessions DEF Typing
<1>2. CASE HandleFrame(d)
  <2>1. PICK t \in Stamps :
          /\ first' = [first EXCEPT ![d] = IF @ = 0 THEN t ELSE @]
          /\ latest' = [latest EXCEPT ![d] = t]
          /\ replayed' = (replayed \/ t < clock)
    BY <1>2 DEF HandleFrame
  <2>2. t \in Time
    BY <1>1, ConstantFacts DEF Stamps, Time
  <2>3. UNCHANGED <<clock, sessions, track, call, user, mode, pending, enabled, linked>>
    BY <1>2 DEF HandleFrame, server, page
  <2>4. replayed' \in BOOLEAN
    BY <2>1
  <2>5. first' \in [Dashboards -> Time] /\ latest' \in [Dashboards -> Time]
    BY <1>1, <2>1, <2>2 DEF PagesOK
  <2>6. PagesOK'
    BY <1>1, <2>3, <2>4, <2>5 DEF PagesOK
  <2> QED BY <2>3, <2>6 DEF Typing, SessionsOK, CallsOK, Starting
<1>3. CASE Login(d)
  <2>1. PagesOK' /\ Send("status", d) /\ UNCHANGED <<clock, server>>
    BY <1>1, <1>3 DEF Login, PagesOK, page
  <2> QED BY <2>1, SendTypes
<1>4. CASE StartTelemetry(d)
  <2>1. PagesOK' /\ Send("start", d) /\ Len(sessions) < MaxSessions /\ UNCHANGED <<clock, server>>
    BY <1>1, <1>4 DEF StartTelemetry, PagesOK, worker
  <2> QED BY <2>1, SendTypes
<1>5. CASE StopTelemetry(d)
  <2>1. PagesOK' /\ Send("stop", d) /\ UNCHANGED <<clock, server>>
    BY <1>1, <1>5 DEF StopTelemetry, PagesOK, worker
  <2> QED BY <2>1, SendTypes
<1>6. CASE Logout(d)
  <2>1. PagesOK' /\ UNCHANGED <<clock, server, call>>
    BY <1>1, <1>6 DEF Logout, LogOut, PagesOK
  <2> QED BY <2>1 DEF Typing, SessionsOK, CallsOK, Starting, server
<1>7. CASE Reload(d)
  <2>1. PagesOK'
    BY <1>1, <1>7 DEF Reload, PagesOK
  <2>2. /\ UNCHANGED <<clock, sessions, track>>
        /\ call' = [c \in Calls |-> IF call[c].by = d THEN [call[c] EXCEPT !.by = NoDash]
                                    ELSE call[c]]
    BY <1>7 DEF Reload, server
  <2>3. ASSUME NEW c \in Calls
        PROVE  /\ call'[c] \in CallState /\ RecordOK(call'[c], Len(sessions))
               /\ Starts(call'[c]) => Starts(call[c])
    <3>1. call[c] \in CallState /\ RecordOK(call[c], Len(sessions))
      BY DEF Typing, CallsOK
    <3>2. CASE call[c].by # d
      BY <2>2, <3>1, <3>2
    <3>3. CASE call[c].by = d
      <4> DEFINE r == [call[c] EXCEPT !.by = NoDash]
      <4>1. /\ r \in CallState /\ r.op = call[c].op /\ r.at = call[c].at /\ r.id = call[c].id
            /\ r.from = call[c].from /\ r.to = call[c].to
        BY <3>1 DEF CallState
      <4>2. call'[c] = r
        BY <2>2, <3>3
      <4> HIDE DEF r
      <4> QED BY <3>1, <4>1, <4>2 DEF RecordOK, Starts, ValidBounds
    <3> QED BY <3>2, <3>3
  <2>4. CallsOK'
    <3>1. call' \in [Calls -> CallState]
      BY <2>2, <2>3
    <3> QED BY <2>2, <2>3, <3>1 DEF CallsOK
  <2>5. SessionsOK'
    <3>1. Starting' \subseteq Starting
      BY <2>3 DEF Starting
    <3> QED BY <2>2, <3>1, Counts, IdsAreSessions, ConstantFacts DEF Typing, SessionsOK
  <2> QED BY <2>1, <2>2, <2>4, <2>5 DEF Typing
<1> QED BY <1>2, <1>3, <1>4, <1>5, <1>6, <1>7

LEMMA TypingInit == Init => Typing
<1> SUFFICES ASSUME Init PROVE Typing
  OBVIOUS
<1>1. 0 \in Time /\ clock \in 1..MaxTime
  BY ConstantFacts DEF Init, Time
<1>2. PagesOK
  BY <1>1 DEF Init, PagesOK
<1>3. CallsOK
  <2>1. RecordOK(Free, Len(sessions))
    BY FreeIsOK DEF Init
  <2> QED BY <2>1 DEF Init, CallsOK, RecordOK
<1>4. SessionsOK
  <2>1. sessions \in Seq(SessionRow) /\ Len(sessions) = 0 /\ track = 0
    BY EmptySeq DEF Init
  <2> QED BY <2>1, Counts, ConstantFacts DEF SessionsOK
<1> QED BY <1>1, <1>2, <1>3, <1>4 DEF Typing

LEMMA TypingNext == Typing /\ [Next]_vars => Typing'
<1> SUFFICES ASSUME Typing, [Next]_vars PROVE Typing'
  OBVIOUS
<1>1. CASE UNCHANGED vars
  BY <1>1 DEF vars, server, page, worker, Typing, SessionsOK, CallsOK, PagesOK, Starting
<1>2. CASE Tick
  <2>1. clock' \in 1..MaxTime
    BY <1>2, ConstantFacts DEF Tick, Typing
  <2> QED BY <1>2, <2>1
          DEF Tick, server, page, worker, Typing, SessionsOK, CallsOK, PagesOK, Starting
<1>3. CASE \E d \in Dashboards :
             \/ HandleFrame(d) \/ Login(d) \/ StartTelemetry(d) \/ StopTelemetry(d)
             \/ Logout(d) \/ Reload(d)
  BY <1>3, PageTypes
<1>4. CASE \E c \in Calls :
             Serve(c) \/ Answer(c) \/ Deny(c) \/ StatementFails(c) \/ ReplyLost(c)
  BY <1>4, ServeTypes, AnswerTypes, FailureTypes
<1> QED BY <1>1, <1>2, <1>3, <1>4 DEF Next

\* Rows, requests and pages have the values the code gives them: limits are of the right
\* length, an id is one of the table, and a session that is to end is in the table.
THEOREM TypeCorrect == Spec => []TypeOK
<1>1. Typing => TypeOK
  <2> SUFFICES ASSUME Typing PROVE TypeOK
    OBVIOUS
  <2>1. /\ Len(sessions) \in 0..Len(sessions) /\ track \in 0..Len(sessions)
        /\ 0..Len(sessions) \subseteq SessionIds \cup {0} /\ clock \in Time
    BY IdsAreSessions DEF Typing, SessionsOK
  <2>2. Len(sessions) \in SessionIds \cup {0} /\ track \in SessionIds \cup {0}
    BY <2>1
  <2>3. sessions \in Seq(SessionRow) /\ call \in [Calls -> CallState]
    BY DEF Typing, SessionsOK, CallsOK
  <2> QED BY <2>1, <2>2, <2>3 DEF Typing, PagesOK, TypeOK
<1> QED BY <1>1, TypingInit, TypingNext, PTL DEF Spec

(***************************************************************************)
(* One page that controls collections, on a good link                      *)
(***************************************************************************)

OneController ==
  /\ \A d, e \in Controllers : d = e
  /\ Controllers \cap Flaky = {}

ByController(c) == call[c].by \in Controllers
Acts(c) == call[c].op \in {"start", "stop", "bounds"}

\* The controlling page has one request at a time, its status request before the session,
\* and its button is disabled exactly while a request that acts is under way.
Requests ==
  /\ \A c \in Calls : Acts(c) => ByController(c) /\ pending[call[c].by]
  /\ \A c, e \in Calls : ByController(c) /\ ByController(e) => c = e
  /\ \A d \in Dashboards : pending[d] => \E c \in InFlight(d) : Acts(c)
  /\ \A c \in Calls : ByController(c) /\ call[c].op = "status" => user[call[c].by] = "out"
  /\ \A c \in Calls : call[c].op = "none" => call[c].by \notin Dashboards

LEMMA RequestsInit == Init => Requests
BY ConstantFacts DEF Init, Requests, Acts, ByController, InFlight, Free

\* Handlers change neither what a request is nor whose.
LEMMA RequestsKept ==
  ASSUME Requests, UNCHANGED <<user, pending>>,
         \A c \in Calls : call'[c].op = call[c].op /\ call'[c].by = call[c].by
  PROVE  Requests'
BY DEF Requests, Acts, ByController, InFlight

LEMMA ServerRequests ==
  ASSUME Typing, Requests, NEW c \in Calls,
         Serve(c) \/ Deny(c) \/ StatementFails(c) \/ ReplyLost(c)
  PROVE  Requests'
<1>1. UNCHANGED <<user, pending>>
  BY DEF Serve, Deny, StatementFails, ReplyLost, StatusSelect, StartSelect, StartInsert,
         StartReset, StopSelect, StopUpdate, BoundsSelect, BoundsUpdate, page
<1>2. call \in [Calls -> CallState]
  BY DEF Typing, CallsOK
<1>3. \/ \E stage : call' = [call EXCEPT ![c].at = stage]
      \/ \E stage, i : call' = [call EXCEPT ![c].at = stage, ![c].id = i]
  BY DEF Serve, Deny, StatementFails, ReplyLost, StatusSelect, StartSelect, StartInsert,
         StartReset, StopSelect, StopUpdate, BoundsSelect, BoundsUpdate, Become, Pick
<1>4. \A e \in Calls : call'[e].op = call[e].op /\ call'[e].by = call[e].by
  <2>1. CASE \E stage : call' = [call EXCEPT ![c].at = stage]
    BY <1>2, <2>1 DEF CallState
  <2>2. CASE \E stage, i : call' = [call EXCEPT ![c].at = stage, ![c].id = i]
    <3>1. PICK stage, i : call' = [call EXCEPT ![c].at = stage, ![c].id = i]
      BY <2>2
    <3>2. call' = [call EXCEPT ![c] = [call[c] EXCEPT !.at = stage, !.id = i]]
      BY <1>2, <3>1
    <3> QED BY <1>2, <3>2 DEF CallState
  <2> QED BY <1>3, <2>1, <2>2
<1> QED BY <1>1, <1>4, RequestsKept

\* The answer to the last request of the controlling page.
LEMMA RequestsDone ==
  ASSUME Typing, Requests, NEW c \in Calls, Acts(c), Release(c),
         pending' = [pending EXCEPT ![call[c].by] = FALSE]
  PROVE  Requests'
<1>1. /\ call'[c] = Free /\ \A e \in Calls : e # c => call'[e] = call[e]
      /\ pending \in [Dashboards -> BOOLEAN]
  BY DEF Release, Typing, CallsOK, PagesOK
<1>2. Free.by = NoDash /\ Free.op = "none"
  BY DEF Free
<1>3. ByController(c) /\ \A e \in Calls : e # c => ~ByController(e) /\ ~Acts(e)
  BY DEF Requests
<1>4. \A e \in Calls : call'[e].by \notin Controllers /\ ~Acts(e)'
  BY <1>1, <1>2, <1>3, ConstantFacts DEF ByController, Acts
<1>5. \A d \in Dashboards : ~pending'[d]
  BY <1>1, <1>3 DEF Requests, InFlight
<1>6. \A e \in Calls : call'[e].op = "none" => call'[e].by \notin Dashboards
  BY <1>1, <1>2, ConstantFacts DEF Requests
<1> QED BY <1>4, <1>5, <1>6 DEF Requests, ByController

LEMMA AnswerRequests ==
  ASSUME Typing, Requests, NEW c \in Calls, Answer(c)
  PROVE  Requests'
<1>0. call \in [Calls -> CallState] /\ user \in [Dashboards -> {"out", "in"}]
  BY DEF Typing, CallsOK, PagesOK
<1>1. Free.by = NoDash /\ Free.op = "none"
  BY DEF Free
<1>2. CASE StatusAnswer(c)
  <2>1. /\ call[c].op = "status" /\ call[c].by \in Dashboards
        /\ call' = [call EXCEPT ![c] = Free]
        /\ user' = [user EXCEPT ![call[c].by] = "in"] /\ pending' = pending
    BY <1>2 DEF StatusAnswer, Answered, Release
  <2>2. call'[c] = Free /\ \A e \in Calls : e # c => call'[e] = call[e]
    BY <1>0, <2>1
  <2>3. ~Acts(c) /\ ~Acts(c)' /\ ~ByController(c)'
    BY <1>1, <2>1, <2>2, ConstantFacts DEF Acts, ByController
  <2>4. \A e \in Calls : e # c => (Acts(e)' <=> Acts(e)) /\ (ByController(e)' <=> ByController(e))
    BY <2>2 DEF Acts, ByController
  <2>5. \A e \in Calls : Acts(e)' => ByController(e)' /\ pending'[call'[e].by]
    BY <2>1, <2>2, <2>3, <2>4 DEF Requests
  <2>6. \A b, e \in Calls : ByController(b)' /\ ByController(e)' => b = e
    BY <2>3, <2>4 DEF Requests
  <2>7. \A d \in Dashboards : pending'[d] => \E e \in InFlight(d)' : Acts(e)'
    BY <2>1, <2>2, <2>3, <2>4 DEF Requests, InFlight
  <2>8. ASSUME NEW e \in Calls, ByController(e)', call'[e].op = "status"
        PROVE  user'[call'[e].by] = "out"
    <3>1. e # c /\ call'[e] = call[e] /\ ByController(e)
      BY <2>2, <2>3, <2>4, <2>8
    <3>2. user[call[e].by] = "out" /\ call[e].by # call[c].by
      BY <2>8, <3>1 DEF Requests, ByController
    <3> QED BY <2>1, <3>1, <3>2, ConstantFacts DEF ByController
  <2>9. \A e \in Calls : call'[e].op = "none" => call'[e].by \notin Dashboards
    BY <1>1, <2>2, ConstantFacts DEF Requests
  <2> QED BY <2>5, <2>6, <2>7, <2>8, <2>9 DEF Requests
<1>3. ASSUME Acts(c), ActionFails(c, call[c].by) PROVE Requests'
  <2>1. Release(c) /\ pending' = [pending EXCEPT ![call[c].by] = FALSE]
    BY <1>3 DEF ActionFails, LogOut
  <2> QED BY <1>3, <2>1, RequestsDone
<1>4. CASE StartAnswer(c)
  <2>1. Acts(c)
    BY <1>4 DEF StartAnswer, Answered, Acts
  <2>2. CASE call[c].at = "ok"
    BY <1>4, <2>1, <2>2, RequestsDone DEF StartAnswer
  <2> QED BY <1>3, <1>4, <2>1, <2>2 DEF StartAnswer
<1>5. CASE StopAnswer(c)
  <2> DEFINE d == call[c].by
  <2>1. Acts(c) /\ d \in Dashboards
    BY <1>5 DEF StopAnswer, Answered, Acts
  <2>2. CASE call[c].at = "ok" /\ first[d] # 0 /\ latest[d] # 0
    <3> DEFINE r == [Request("bounds", d) EXCEPT !.from = first[d], !.to = latest[d]]
    <3>1. call' = [call EXCEPT ![c] = r] /\ UNCHANGED <<user, pending>>
      BY <1>5, <2>2 DEF StopAnswer, page
    <3>2. r.op = "bounds" /\ r.by = d
      <4>1. /\ Request("bounds", d) \in CallState /\ Request("bounds", d).op = "bounds"
            /\ Request("bounds", d).by = d
        BY <2>1, RequestIs DEF Ops
      <4> QED BY <4>1 DEF CallState
    <3> HIDE DEF r
    <3>3. \A e \in Calls : call'[e] = IF e = c THEN r ELSE call[e]
      BY <1>0, <3>1
    <3>4. \A e \in Calls : /\ call'[e].by = call[e].by /\ (Acts(e)' <=> Acts(e))
                           /\ call'[e].op \in {"none", "status"} => call'[e].op = call[e].op
      BY <2>1, <3>2, <3>3 DEF Acts
    <3> QED BY <3>1, <3>4 DEF Requests, ByController, InFlight
  <2>3. CASE call[c].at = "ok" /\ ~(first[d] # 0 /\ latest[d] # 0)
    BY <1>5, <2>1, <2>3, RequestsDone DEF StopAnswer
  <2>4. CASE call[c].at # "ok"
    BY <1>3, <1>5, <2>1, <2>4 DEF StopAnswer
  <2> QED BY <2>2, <2>3, <2>4
<1>6. CASE BoundsAnswer(c)
  <2>1. Acts(c)
    BY <1>6 DEF BoundsAnswer, Answered, Acts
  <2> QED BY <1>6, <2>1, RequestsDone DEF BoundsAnswer, PendingAfterBounds
<1>7. CASE Unheard(c)
  <2>1. call[c].by = NoDash /\ call' = [call EXCEPT ![c] = Free] /\ UNCHANGED <<user, pending>>
    BY <1>7 DEF Unheard, Release, page
  <2>2. call'[c] = Free /\ \A e \in Calls : e # c => call'[e] = call[e]
    BY <1>0, <2>1
  <2>3. ~ByController(c) /\ ~Acts(c)
    BY <2>1, ConstantFacts DEF Requests, ByController
  <2>4. \A e \in Calls : /\ call'[e].by = call[e].by /\ (Acts(e)' <=> Acts(e))
                         /\ call'[e].op = "status" => call[e].op = "status"
    BY <1>1, <2>1, <2>2, <2>3 DEF Acts
  <2>5. \A e \in Calls : call'[e].op = "none" => call'[e].by \notin Dashboards
    BY <1>1, <2>2, ConstantFacts DEF Requests
  <2> QED BY <2>1, <2>4, <2>5 DEF Requests, ByController, InFlight
<1> QED BY <1>2, <1>4, <1>5, <1>6, <1>7 DEF Answer

\* With one controlling page, all the requests of controlling pages are its own.
LEMMA PageAlone ==
  ASSUME OneController, Requests, NEW d \in Controllers,
         InFlight(d) = {} \/ (user[d] = "in" /\ ~pending[d] /\ Typing)
  PROVE  \A c \in Calls : ~ByController(c) /\ ~Acts(c)
<1> SUFFICES ASSUME NEW c \in Calls, ByController(c) PROVE FALSE
  BY DEF Requests
<1>1. call[c].by = d /\ d \in Dashboards
  BY ConstantFacts DEF OneController, ByController
<1>2. c \in InFlight(d)
  BY <1>1 DEF InFlight
<1>3. call[c].op \in Ops
  BY <1>2 DEF Typing, CallsOK, CallState
<1> QED BY <1>1, <1>2, <1>3 DEF Requests, Acts, Ops, ByController

LEMMA SendRequests ==
  ASSUME Typing, Requests, NEW op \in {"status", "start", "stop"}, NEW d \in Dashboards,
         Send(op, d), user' = user,
         d \in Controllers => \A c \in Calls : ~ByController(c),
         \/ op = "status" /\ user[d] = "out" /\ pending' = pending
         \/ op # "status" /\ d \in Controllers /\ pending' = [pending EXCEPT ![d] = TRUE]
  PROVE  Requests'
<1>1. PICK c \in Calls : call[c] = Free /\ call' = [call EXCEPT ![c] = Request(op, d)]
  BY SendIs
<1>2. Request(op, d).op = op /\ Request(op, d).by = d
  BY RequestIs DEF Ops
<1>3. \A e \in Calls : call'[e] = IF e = c THEN Request(op, d) ELSE call[e]
  BY <1>1 DEF Typing, CallsOK
<1>4. ~ByController(c) /\ ~Acts(c)
  BY <1>1, ConstantFacts DEF Free, ByController, Acts
<1>5. /\ call'[c].op = op /\ call'[c].by = d
      /\ \A e \in Calls : e # c => call'[e] = call[e]
  BY <1>2, <1>3
<1>6. pending' \in [Dashboards -> BOOLEAN] /\ \A e \in Dashboards : pending[e] => pending'[e]
  BY DEF Typing, PagesOK
<1>7. ASSUME NEW e \in Calls, Acts(e)' PROVE ByController(e)' /\ pending'[call'[e].by]
  <2>1. CASE e = c
    <3>1. op # "status"
      BY <1>5, <1>7, <2>1 DEF Acts
    <3> QED BY <1>5, <2>1, <3>1 DEF Typing, PagesOK, ByController
  <2>2. CASE e # c
    BY <1>5, <1>6, <1>7, <2>2, ConstantFacts DEF Requests, Acts, ByController
  <2> QED BY <2>1, <2>2
<1>8. ASSUME NEW b \in Calls, NEW e \in Calls, ByController(b)', ByController(e)' PROVE b = e
  <2>1. CASE d \in Controllers
    BY <1>5, <1>8, <2>1 DEF ByController
  <2>2. CASE d \notin Controllers
    BY <1>5, <1>8, <2>2 DEF ByController, Requests
  <2> QED BY <2>1, <2>2
<1>9. ASSUME NEW e \in Dashboards, pending'[e] PROVE \E b \in InFlight(e)' : Acts(b)'
  <2>1. CASE pending[e]
    <3>1. PICK b \in InFlight(e) : Acts(b)
      BY <2>1 DEF Requests
    <3>2. b \in Calls /\ b # c
      BY <1>4, <3>1 DEF InFlight
    <3> QED BY <1>5, <3>1, <3>2 DEF InFlight, Acts
  <2>2. CASE ~pending[e]
    <3>1. op # "status" /\ e = d
      BY <1>9, <2>2 DEF Typing, PagesOK
    <3> QED BY <1>5, <3>1 DEF InFlight, Acts
  <2> QED BY <2>1, <2>2
<1>10. ASSUME NEW e \in Calls, ByController(e)', call'[e].op = "status"
       PROVE  user'[call'[e].by] = "out"
  <2>1. CASE e = c
    BY <1>5, <1>10, <2>1
  <2>2. CASE e # c
    BY <1>5, <1>10, <2>2 DEF Requests, ByController
  <2> QED BY <2>1, <2>2
<1>11. \A e \in Calls : call'[e].op = "none" => call'[e].by \notin Dashboards
  BY <1>5 DEF Requests
<1> QED BY <1>7, <1>8, <1>9, <1>10, <1>11 DEF Requests

LEMMA PageRequests ==
  ASSUME OneController, Typing, Requests, NEW d \in Dashboards,
         \/ HandleFrame(d) \/ Login(d) \/ StartTelemetry(d) \/ StopTelemetry(d)
         \/ Logout(d) \/ Reload(d)
  PROVE  Requests'
<1>0. /\ user \in [Dashboards -> {"out", "in"}] /\ pending \in [Dashboards -> BOOLEAN]
      /\ call \in [Calls -> CallState]
  BY DEF Typing, PagesOK, CallsOK
<1>1. CASE HandleFrame(d)
  <2>1. UNCHANGED <<user, pending, call>>
    BY <1>1 DEF HandleFrame, page
  <2> QED BY <2>1 DEF Requests, Acts, ByController, InFlight
<1>2. ASSUME MayMove(d), d \in Controllers PROVE \A c \in Calls : ~ByController(c) /\ ~Acts(c)
  <2>1. InFlight(d) = {}
    BY <1>2 DEF MayMove, OneController
  <2> QED BY <1>2, <2>1, PageAlone
<1>3. CASE Login(d)
  BY <1>2, <1>3, SendRequests DEF Login, page
<1>4. CASE StartTelemetry(d)
  <2>1. \A c \in Calls : ~ByController(c)
    BY <1>4, PageAlone DEF StartTelemetry
  <2> QED BY <1>4, <2>1, SendRequests DEF StartTelemetry
<1>5. CASE StopTelemetry(d)
  <2>1. \A c \in Calls : ~ByController(c)
    BY <1>5, PageAlone DEF StopTelemetry
  <2> QED BY <1>5, <2>1, SendRequests DEF StopTelemetry
<1>6. ASSUME MayMove(d), user' = [user EXCEPT ![d] = "out"],
             pending' = [pending EXCEPT ![d] = FALSE],
             \A c \in Calls : /\ call'[c].op = call[c].op
                              /\ \/ call'[c].by = call[c].by
                                 \/ call[c].by = d /\ call'[c].by = NoDash
      PROVE  Requests'
  <2>1. \A c \in Calls : ByController(c)' => /\ ByController(c) /\ call'[c].by = call[c].by
                                             /\ call[c].by # d
    BY <1>2, <1>6, ConstantFacts DEF ByController
  <2>2. \A c \in Calls : Acts(c)' <=> Acts(c)
    BY <1>6 DEF Acts
  <2>3. \A c \in Calls : Acts(c) => /\ ByController(c) /\ call[c].by # d
                                    /\ call'[c].by = call[c].by
    BY <1>2, <1>6 DEF Requests, ByController
  <2>4. \A e \in Dashboards : e # d => user'[e] = user[e] /\ pending'[e] = pending[e]
    BY <1>0, <1>6
  <2>5. ~pending'[d]
    BY <1>0, <1>6
  <2>6. \A c \in Calls : Acts(c)' => ByController(c)' /\ pending'[call'[c].by]
    BY <2>2, <2>3, <2>4, ConstantFacts DEF Requests, ByController
  <2>7. \A e \in Dashboards : pending'[e] => \E c \in InFlight(e)' : Acts(c)'
    BY <2>2, <2>3, <2>4, <2>5 DEF Requests, InFlight
  <2>8. \A c \in Calls : ByController(c)' /\ call'[c].op = "status" => user'[call'[c].by] = "out"
    BY <1>6, <2>1, <2>4, ConstantFacts DEF Requests, ByController
  <2>9. \A c \in Calls : call'[c].op = "none" => call'[c].by \notin Dashboards
    BY <1>6, ConstantFacts DEF Requests
  <2> QED BY <2>1, <2>6, <2>7, <2>8, <2>9 DEF Requests
<1>7. CASE Logout(d)
  BY <1>6, <1>7 DEF Logout, LogOut
<1>8. CASE Reload(d)
  <2>1. \A c \in Calls : /\ call'[c].op = call[c].op
                         /\ \/ call'[c].by = call[c].by
                            \/ call[c].by = d /\ call'[c].by = NoDash
    <3> SUFFICES ASSUME NEW c \in Calls
                 PROVE  /\ call'[c].op = call[c].op
                        /\ \/ call'[c].by = call[c].by
                           \/ call[c].by = d /\ call'[c].by = NoDash
      OBVIOUS
    <3>1. call'[c] = IF call[c].by = d THEN [call[c] EXCEPT !.by = NoDash] ELSE call[c]
      BY <1>8 DEF Reload
    <3>2. call[c] \in CallState
      BY <1>0
    <3> QED BY <3>1, <3>2 DEF CallState
  <2> QED BY <1>6, <1>8, <2>1 DEF Reload
<1> QED BY <1>1, <1>3, <1>4, <1>5, <1>7, <1>8

LEMMA RequestsNext == OneController /\ Typing /\ Requests /\ [Next]_vars => Requests'
<1> SUFFICES ASSUME OneController, Typing, Requests, [Next]_vars PROVE Requests'
  OBVIOUS
<1>1. CASE UNCHANGED vars \/ Tick
  <2>1. UNCHANGED <<user, pending, call>>
    BY <1>1 DEF vars, page, Tick
  <2> QED BY <2>1 DEF Requests, Acts, ByController, InFlight
<1>2. CASE \E d \in Dashboards :
             \/ HandleFrame(d) \/ Login(d) \/ StartTelemetry(d) \/ StopTelemetry(d)
             \/ Logout(d) \/ Reload(d)
  BY <1>2, PageRequests
<1>3. CASE \E c \in Calls :
             Serve(c) \/ Answer(c) \/ Deny(c) \/ StatementFails(c) \/ ReplyLost(c)
  BY <1>3, ServerRequests, AnswerRequests
<1> QED BY <1>1, <1>2, <1>3 DEF Next

\* What is said of the rows while a request is at a given point.
Inserts(c) == At(c, "start", "write")
Resets(c) == At(c, "start", "reset")
FindsLive(c) == At(c, "status", "live") \/ Resets(c) \/ At(c, "start", "ok")
Ends(c) == At(c, "stop", "ok") \/ call[c].op = "bounds"

\* A start that is about to insert still sees no active session, what it inserts is the
\* newest, and what the controlling page was told or shows is so, or is being ended by it.
Collecting ==
  /\ \A i, j \in Active(sessions) : i = j
  /\ \A c \in Calls : Inserts(c) => Active(sessions) = {}
  /\ \A c \in Calls : Resets(c) => call[c].id = Len(sessions)
  /\ TrackFollowsSession
  /\ \A c \in Calls : ByController(c) /\ FindsLive(c) => Active(sessions) # {}
  /\ \A d \in Controllers :
       mode[d] = "live" => Active(sessions) # {} \/ \E c \in InFlight(d) : Ends(c)

LEMMA CollectingInit == Init => Collecting
BY ConstantFacts, EmptySeq
   DEF Init, Collecting, Active, Inserts, Resets, FindsLive, At, Free, TrackFollowsSession

\* Steps that leave the table alone.
LEMMA RowsKept ==
  ASSUME Collecting, UNCHANGED <<sessions, track>>,
         \A c \in Calls :
           /\ Inserts(c)' => Inserts(c) \/ Active(sessions) = {}
           /\ Resets(c)' <=> Resets(c)
           /\ Resets(c) => call'[c].id = call[c].id
           /\ ByController(c)' /\ FindsLive(c)' =>
                (ByController(c) /\ FindsLive(c)) \/ Active(sessions) # {},
         \A d \in Controllers : mode'[d] = "live" =>
           \/ Active(sessions) # {}
           \/ /\ mode[d] = "live"
              /\ \A c \in InFlight(d) : Ends(c) => c \in InFlight(d)' /\ Ends(c)'
  PROVE  Collecting'
<1>1. TrackFollowsSession'
  BY DEF Collecting, TrackFollowsSession, Resets
<1> QED BY <1>1 DEF Collecting

\* A request goes on.
LEMMA RequestGoesOn ==
  ASSUME Collecting, NEW c \in Calls, UNCHANGED <<sessions, track, mode>>,
         \A e \in Calls : /\ call'[e].op = call[e].op /\ call'[e].by = call[e].by
                          /\ e # c => call'[e] = call[e],
         Inserts(c)' => Active(sessions) = {}, ~Resets(c), ~Resets(c)',
         ByController(c) /\ FindsLive(c)' => Active(sessions) # {},
         ByController(c) /\ Ends(c) => Ends(c)'
  PROVE  Collecting'
<1>1. \A e \in Calls : ByController(e)' <=> ByController(e)
  BY DEF ByController
<1>2. \A e \in Calls : e # c => /\ Inserts(e)' <=> Inserts(e)
                                /\ Resets(e)' <=> Resets(e)
                                /\ FindsLive(e)' <=> FindsLive(e)
                                /\ Ends(e)' <=> Ends(e)
  BY DEF Inserts, Resets, FindsLive, Ends, At
<1>3. ASSUME NEW d \in Controllers, NEW e \in InFlight(d), Ends(e)
      PROVE  e \in InFlight(d)' /\ Ends(e)'
  BY <1>2, <1>3 DEF InFlight, ByController
<1> QED BY <1>1, <1>2, <1>3, RowsKept

LEMMA OneGoesOn ==
  ASSUME Typing, NEW c \in Calls, NEW stage, NEW i,
         Become(c, stage) \/ (Pick(c, i) /\ stage = "write")
  PROVE  /\ \A e \in Calls : /\ call'[e].op = call[e].op /\ call'[e].by = call[e].by
                             /\ e # c => call'[e] = call[e]
         /\ call'[c].at = stage
<1>1. call \in [Calls -> CallState]
  BY DEF Typing, CallsOK
<1>2. CASE Become(c, stage)
  BY <1>1, <1>2 DEF Become, CallState
<1>3. CASE Pick(c, i) /\ stage = "write"
  <2>1. call' = [call EXCEPT ![c] = [call[c] EXCEPT !.at = "write", !.id = i]]
    BY <1>1, <1>3 DEF Pick
  <2> QED BY <1>1, <1>3, <2>1 DEF CallState
<1> QED BY <1>2, <1>3

\* Handlers that read, and failures.
LEMMA ReadersCollect ==
  ASSUME OneController, Typing, Requests, Collecting, NEW c \in Calls,
         \/ StatusSelect(c) \/ StartSelect(c) \/ StopSelect(c) \/ BoundsSelect(c)
         \/ Deny(c) \/ StatementFails(c) \/ ReplyLost(c)
  PROVE  Collecting'
<1>1. UNCHANGED <<sessions, track, mode>>
  BY DEF StatusSelect, StartSelect, StopSelect, BoundsSelect, Deny, StatementFails, ReplyLost,
         server, page
<1>2. PICK stage, i : Become(c, stage) \/ (Pick(c, i) /\ stage = "write")
  BY DEF StatusSelect, StartSelect, StopSelect, BoundsSelect, Deny, StatementFails, ReplyLost
<1>3. /\ \A e \in Calls : /\ call'[e].op = call[e].op /\ call'[e].by = call[e].by
                          /\ e # c => call'[e] = call[e]
      /\ call'[c].at = stage
  BY <1>2, OneGoesOn
<1>4. CASE StatusSelect(c)
  <2>1. At(c, "status", "sent") /\ Become(c, Status(sessions))
    BY <1>4 DEF StatusSelect
  <2>2. call'[c].op = "status" /\ call'[c].at = Status(sessions)
    BY <2>1, OneGoesOn DEF At
  <2> QED BY <1>1, <1>3, <2>1, <2>2, RequestGoesOn
          DEF At, Inserts, Resets, FindsLive, Ends, Status
<1>5. CASE StartSelect(c)
  <2>1. At(c, "start", "sent") /\ Become(c, IF MayStart(sessions) THEN "write" ELSE "refused")
    BY <1>5 DEF StartSelect
  <2>2. /\ call'[c].op = "start"
        /\ call'[c].at = IF MayStart(sessions) THEN "write" ELSE "refused"
    BY <2>1, OneGoesOn DEF At
  <2> QED BY <1>1, <1>3, <2>1, <2>2, RequestGoesOn
          DEF At, Inserts, Resets, FindsLive, Ends, MayStart
<1>6. CASE StopSelect(c) \/ BoundsSelect(c)
  <2>1. call[c].op \in {"stop", "bounds"} /\ call[c].at = "sent"
    BY <1>6 DEF StopSelect, BoundsSelect, At
  <2> QED BY <1>1, <1>3, <2>1, RequestGoesOn DEF At, Inserts, Resets, FindsLive, Ends
<1>7. CASE Deny(c) \/ StatementFails(c) \/ ReplyLost(c)
  <2>1. /\ Become(c, "denied") \/ Become(c, "refused")
        /\ call[c].at \in {"sent", "write"} \/ call[c].by \in Flaky
        /\ call[c].at # "reset"
    BY <1>7 DEF Deny, StatementFails, ReplyLost, Answers
  <2>2. call'[c].at \in {"denied", "refused"}
    BY <2>1, OneGoesOn
  <2>3. ByController(c) => call[c].at \in {"sent", "write"}
    BY <2>1 DEF OneController, ByController
  <2> QED BY <1>1, <1>3, <2>1, <2>2, <2>3, RequestGoesOn
          DEF At, Inserts, Resets, FindsLive, Ends
<1> QED BY <1>4, <1>5, <1>6, <1>7

\* What the writing statements do to the table.
LEMMA InsertIs ==
  ASSUME Typing, Collecting, NEW c \in Calls, StartInsert(c)
  PROVE  /\ Active(sessions) = {} /\ Active(sessions)' = {Len(sessions) + 1}
         /\ DOMAIN sessions = 1..Len(sessions) /\ Len(sessions') = Len(sessions) + 1
         /\ DOMAIN sessions' = 1..(Len(sessions) + 1)
         /\ \A i \in 1..Len(sessions) : sessions'[i] = sessions[i]
         /\ sessions'[Len(sessions) + 1] =
              [start |-> clock, end |-> 0, from |-> 0, to |-> 0, length |-> 0]
         /\ call'[c].op = "start" /\ call'[c].at = "reset" /\ call'[c].by = call[c].by
         /\ call'[c].id = Len(sessions) + 1
         /\ \A e \in Calls : e # c => call'[e] = call[e]
<1>1. /\ call \in [Calls -> CallState] /\ sessions \in Seq(SessionRow)
      /\ Len(sessions) \in Nat
  BY IdsAreSessions DEF Typing, CallsOK, SessionsOK
<1> DEFINE row == [start |-> clock, end |-> 0, from |-> 0, to |-> 0, length |-> 0]
           r == [call[c] EXCEPT !.at = "reset", !.id = Len(sessions) + 1]
<1>2. Inserts(c) /\ sessions' = Append(sessions, row) /\ call' = [call EXCEPT ![c] = r]
  BY DEF StartInsert, Inserts
<1>3. /\ r.op = "start" /\ r.at = "reset" /\ r.id = Len(sessions) + 1 /\ r.by = call[c].by
      /\ row.end = 0
  BY <1>1, <1>2 DEF CallState, Inserts, At
<1>4. call'[c] = r /\ \A e \in Calls : e # c => call'[e] = call[e]
  BY <1>1, <1>2
<1> HIDE DEF r, row
<1>5. /\ DOMAIN sessions = 1..Len(sessions) /\ Len(sessions') = Len(sessions) + 1
      /\ DOMAIN sessions' = 1..(Len(sessions) + 1)
      /\ \A i \in 1..Len(sessions) : sessions'[i] = sessions[i]
      /\ sessions'[Len(sessions) + 1] = row
  BY <1>1, <1>2
<1>6. Active(sessions) = {}
  BY <1>2 DEF Collecting
<1>7. Active(sessions)' = {Len(sessions) + 1}
  <2>1. ASSUME NEW i \in 1..(Len(sessions) + 1)
        PROVE  sessions'[i].end = 0 <=> i = Len(sessions) + 1
    <3>1. CASE i \in 1..Len(sessions)
      BY <1>1, <1>5, <1>6, <3>1 DEF Active
    <3>2. CASE i = Len(sessions) + 1
      BY <1>3, <1>5, <3>2
    <3> QED BY <1>1, <3>1, <3>2
  <2>2. Len(sessions) + 1 \in 1..(Len(sessions) + 1)
    BY <1>1
  <2> QED BY <1>5, <2>1, <2>2 DEF Active
<1> QED BY <1>3, <1>4, <1>5, <1>6, <1>7 DEF row

LEMMA UpdateIs ==
  ASSUME Typing, NEW c \in Calls, StopUpdate(c) \/ BoundsUpdate(c)
  PROVE  /\ Len(sessions) \in Nat /\ call[c].id \in 1..Len(sessions)
         /\ DOMAIN sessions = 1..Len(sessions) /\ DOMAIN sessions' = DOMAIN sessions
         /\ Len(sessions') = Len(sessions)
         /\ \A i \in DOMAIN sessions : i # call[c].id => sessions'[i] = sessions[i]
         /\ sessions'[call[c].id].start = sessions[call[c].id].start
         /\ StopUpdate(c) =>
              /\ sessions'[call[c].id].end = clock /\ clock # 0
              /\ sessions'[call[c].id].from = sessions[call[c].id].from
              /\ sessions'[call[c].id].to = sessions[call[c].id].to
         /\ BoundsUpdate(c) =>
              /\ sessions'[call[c].id].end = sessions[call[c].id].end
              /\ sessions'[call[c].id].from = call[c].from
              /\ sessions'[call[c].id].to = call[c].to
         /\ Active(sessions)' \subseteq Active(sessions)
<1> DEFINE i == call[c].id
           old == sessions[i]
<1>1. /\ sessions \in Seq(SessionRow) /\ Len(sessions) \in Nat /\ i \in 1..Len(sessions)
      /\ DOMAIN sessions = 1..Len(sessions) /\ clock # 0
  BY IdsAreSessions, ConstantFacts
     DEF Typing, SessionsOK, StopUpdate, BoundsUpdate, At, CallsOK, RecordOK
<1>2. old \in SessionRow
  BY <1>1, ElementOfSeq
<1> HIDE DEF old, i
<1>3. ASSUME NEW row, sessions' = [sessions EXCEPT ![i] = row],
             row.end = 0 => old.end = 0
      PROVE  /\ DOMAIN sessions' = DOMAIN sessions /\ Len(sessions') = Len(sessions)
             /\ \A j \in DOMAIN sessions : sessions'[j] = IF j = i THEN row ELSE sessions[j]
             /\ Active(sessions)' \subseteq Active(sessions)
  <2>1. /\ DOMAIN sessions' = DOMAIN sessions
        /\ \A j \in DOMAIN sessions : sessions'[j] = IF j = i THEN row ELSE sessions[j]
    BY <1>1, <1>3
  <2>2. Len(sessions') = Len(sessions)
    BY <1>1, <1>3
  <2> QED BY <1>3, <2>1, <2>2 DEF Active, old
<1>4. CASE StopUpdate(c)
  <2> DEFINE row == [old EXCEPT !.end = clock]
  <2>1. /\ row.start = old.start /\ row.end = clock /\ row.from = old.from /\ row.to = old.to
    BY <1>2 DEF SessionRow
  <2>2. sessions' = [sessions EXCEPT ![i] = row]
    BY <1>4 DEF StopUpdate, old, i
  <2>3. ~BoundsUpdate(c)
    BY <1>4 DEF StopUpdate, BoundsUpdate, At
  <2> HIDE DEF row
  <2> QED BY <1>1, <1>3, <2>1, <2>2, <2>3 DEF old, i
<1>5. CASE BoundsUpdate(c)
  <2> DEFINE row == [old EXCEPT !.from = call[c].from, !.to = call[c].to,
                                !.length = LogLength(call[c])]
  <2>1. /\ row.start = old.start /\ row.end = old.end
        /\ row.from = call[c].from /\ row.to = call[c].to
    BY <1>2 DEF SessionRow
  <2>2. sessions' = [sessions EXCEPT ![i] = row]
    BY <1>1, <1>5 DEF BoundsUpdate, old, i
  <2>3. ~StopUpdate(c)
    BY <1>5 DEF StopUpdate, BoundsUpdate, At
  <2> HIDE DEF row
  <2> QED BY <1>1, <1>3, <2>1, <2>2, <2>3 DEF old, i
<1> QED BY <1>4, <1>5

\* Handlers that write: the one acting request writes, so nobody was told otherwise.
LEMMA WritersCollect ==
  ASSUME OneController, Typing, Requests, Collecting, NEW c \in Calls,
         StartInsert(c) \/ StartReset(c) \/ StopUpdate(c) \/ BoundsUpdate(c)
  PROVE  Collecting'
<1>1. Acts(c) /\ ByController(c)
  <2>1. Acts(c)
    BY DEF StartInsert, StartReset, StopUpdate, BoundsUpdate, At, Acts
  <2> QED BY <2>1 DEF Requests
<1>2. \A e \in Calls : e # c => ~ByController(e) /\ ~Acts(e)
  BY <1>1 DEF Requests
<1>3. CASE StartInsert(c)
  <2>1. \A e \in Calls : (Inserts(e)' => FALSE) /\ (Resets(e)' => e = c)
    BY <1>2, <1>3, InsertIs DEF Inserts, Resets, At, Acts
  <2>2. TrackFollowsSession'
    BY <1>3, InsertIs DEF TrackFollowsSession, At
  <2> QED BY <1>3, <2>1, <2>2, InsertIs DEF Collecting
<1>4. CASE StartReset(c)
  <2>1. /\ Resets(c) /\ track' = call[c].id /\ Become(c, "ok")
        /\ UNCHANGED <<sessions, mode>> /\ call[c].op = "start"
    BY <1>4 DEF StartReset, TrackAfter, Resets, page, At
  <2>2. /\ \A e \in Calls : /\ call'[e].op = call[e].op /\ call'[e].by = call[e].by
                            /\ e # c => call'[e] = call[e]
        /\ call'[c].at = "ok"
    BY <2>1, OneGoesOn
  <2>3. track' = Len(sessions)'
    BY <2>1 DEF Collecting
  <2>4. Active(sessions) # {}
    BY <1>1, <2>1 DEF Collecting, FindsLive
  <2>5. \A e \in Calls : (Inserts(e)' => FALSE) /\ (Resets(e)' => FALSE)
    BY <1>2, <2>1, <2>2 DEF Inserts, Resets, At, Acts
  <2> QED BY <2>1, <2>3, <2>4, <2>5 DEF Collecting, TrackFollowsSession
<1>5. CASE StopUpdate(c) \/ BoundsUpdate(c)
  <2>1. /\ call[c].op \in {"stop", "bounds"} /\ Become(c, "ok") /\ UNCHANGED <<track, mode>>
    BY <1>5 DEF StopUpdate, BoundsUpdate, At, page
  <2>2. /\ \A e \in Calls : /\ call'[e].op = call[e].op /\ call'[e].by = call[e].by
                            /\ e # c => call'[e] = call[e]
        /\ call'[c].at = "ok"
    BY <2>1, OneGoesOn
  <2>3. Len(sessions') = Len(sessions) /\ Active(sessions)' \subseteq Active(sessions)
    BY <1>5, UpdateIs
  <2>4. \A e \in Calls : /\ ~Inserts(e)' /\ ~Resets(e)' /\ ~Resets(e)
                         /\ ByController(e)' => ~FindsLive(e)'
    BY <1>2, <2>1, <2>2 DEF Inserts, Resets, FindsLive, At, Acts, ByController
  <2>5. Ends(c)'
    BY <2>1, <2>2 DEF Ends, At
  <2>6. \A d \in Controllers : c \in InFlight(d)'
    BY <1>1, <2>2 DEF OneController, ByController, InFlight
  <2>7. TrackFollowsSession'
    BY <2>1, <2>3, <2>4 DEF Collecting, TrackFollowsSession, Resets
  <2> QED BY <2>3, <2>4, <2>5, <2>6, <2>7 DEF Collecting
<1> QED BY <1>3, <1>4, <1>5

LEMMA PagesCollect ==
  ASSUME Typing, Collecting, NEW d \in Dashboards,
         \/ HandleFrame(d) \/ Login(d) \/ StartTelemetry(d) \/ StopTelemetry(d)
         \/ Logout(d) \/ Reload(d)
  PROVE  Collecting'
<1>0. call \in [Calls -> CallState] /\ mode \in [Dashboards -> {"idle", "live", "stopped"}]
  BY DEF Typing, CallsOK, PagesOK
<1>1. UNCHANGED <<sessions, track>>
  BY DEF HandleFrame, Login, StartTelemetry, StopTelemetry, Logout, Reload, server
<1>2. CASE HandleFrame(d)
  <2>1. UNCHANGED <<call, mode>>
    BY <1>2 DEF HandleFrame, page
  <2> QED BY <1>1, <2>1 DEF Collecting, Active, Inserts, Resets, FindsLive, Ends, At,
                            ByController, InFlight, TrackFollowsSession
<1>3. CASE Login(d) \/ StartTelemetry(d) \/ StopTelemetry(d)
  <2>1. PICK op \in {"status", "start", "stop"} : Send(op, d) /\ mode' = mode
    BY <1>3 DEF Login, StartTelemetry, StopTelemetry, page
  <2>2. PICK c \in Calls : call[c] = Free /\ call' = [call EXCEPT ![c] = Request(op, d)]
    BY <2>1, SendIs
  <2>3. Request(op, d).op = op /\ Request(op, d).at = "sent"
    BY RequestIs DEF Ops
  <2>4. call'[c] = Request(op, d) /\ \A e \in Calls : e # c => call'[e] = call[e]
    BY <1>0, <2>2
  <2>5. ~Inserts(c) /\ ~Inserts(c)' /\ ~Resets(c) /\ ~Resets(c)' /\ ~FindsLive(c)' /\ ~Ends(c)
    BY <2>2, <2>3, <2>4 DEF Inserts, Resets, FindsLive, Ends, At, Free
  <2>6. \A e \in Calls : e # c =>
          /\ Inserts(e)' <=> Inserts(e)
          /\ Resets(e)' <=> Resets(e)
          /\ FindsLive(e)' <=> FindsLive(e)
          /\ Ends(e)' <=> Ends(e)
          /\ ByController(e)' <=> ByController(e)
    BY <2>4 DEF Inserts, Resets, FindsLive, Ends, At, ByController
  <2>7. ASSUME NEW b \in Controllers, NEW e \in InFlight(b), Ends(e)
        PROVE  e \in InFlight(b)' /\ Ends(e)'
    BY <2>4, <2>5, <2>6, <2>7 DEF InFlight
  <2> QED BY <1>1, <2>1, <2>4, <2>5, <2>6, <2>7, RowsKept
<1>4. CASE Logout(d) \/ Reload(d)
  <2>1. mode' = [mode EXCEPT ![d] = "idle"]
    BY <1>4 DEF Logout, LogOut, Reload
  <2>2. ASSUME NEW c \in Calls
        PROVE  /\ call'[c].op = call[c].op /\ call'[c].at = call[c].at /\ call'[c].id = call[c].id
               /\ \/ call'[c].by = call[c].by
                  \/ call[c].by = d /\ call'[c].by = NoDash
    <3>1. call[c] \in CallState
      BY <1>0
    <3>2. \/ call'[c] = call[c]
          \/ call[c].by = d /\ call'[c] = [call[c] EXCEPT !.by = NoDash]
      BY <1>4 DEF Logout, Reload
    <3> QED BY <3>1, <3>2 DEF CallState
  <2>3. \A c \in Calls : /\ Inserts(c)' <=> Inserts(c)
                         /\ Resets(c)' <=> Resets(c)
                         /\ FindsLive(c)' <=> FindsLive(c)
                         /\ Ends(c)' <=> Ends(c)
    BY <2>2 DEF Inserts, Resets, FindsLive, Ends, At
  <2>4. \A c \in Calls : ByController(c)' => ByController(c)
    BY <2>2, ConstantFacts DEF ByController
  <2>5. ASSUME NEW b \in Controllers, mode'[b] = "live"
        PROVE  mode[b] = "live" /\ \A c \in InFlight(b) : c \in InFlight(b)'
    <3>1. b # d /\ mode[b] = "live"
      BY <1>0, <2>1, <2>5, ConstantFacts
    <3> QED BY <2>2, <3>1 DEF InFlight
  <2>6. \A b \in Controllers : \A c \in InFlight(b) : c \in Calls
    BY DEF InFlight
  <2> QED BY <1>1, <2>2, <2>3, <2>4, <2>5, <2>6, RowsKept
<1> QED BY <1>2, <1>3, <1>4

\* A request is over.
LEMMA RequestOver ==
  ASSUME Typing, Collecting, NEW c \in Calls, Release(c), ~Resets(c),
         UNCHANGED <<sessions, track>>,
         \A d \in Controllers : mode'[d] = "live" =>
           \/ Active(sessions) # {}
           \/ mode[d] = "live" /\ ~(c \in InFlight(d) /\ Ends(c))
  PROVE  Collecting'
<1>1. call'[c] = Free /\ \A e \in Calls : e # c => call'[e] = call[e]
  BY DEF Typing, CallsOK, Release
<1>2. ~Inserts(c)' /\ ~Resets(c)' /\ ~FindsLive(c)'
  BY <1>1 DEF Inserts, Resets, FindsLive, At, Free
<1>3. \A e \in Calls : e # c =>
        /\ Inserts(e)' <=> Inserts(e)
        /\ Resets(e)' <=> Resets(e)
        /\ FindsLive(e)' <=> FindsLive(e)
        /\ Ends(e)' <=> Ends(e)
        /\ ByController(e)' <=> ByController(e)
  BY <1>1 DEF Inserts, Resets, FindsLive, Ends, At, ByController
<1>4. ASSUME NEW d \in Controllers, NEW e \in InFlight(d), e # c, Ends(e)
      PROVE  e \in InFlight(d)' /\ Ends(e)'
  BY <1>1, <1>3, <1>4 DEF InFlight
<1> QED BY <1>1, <1>2, <1>3, <1>4, RowsKept

LEMMA AnswersCollect ==
  ASSUME OneController, Typing, Requests, Collecting, NEW c \in Calls, Answer(c)
  PROVE  Collecting'
<1> DEFINE b == call[c].by
<1>0. /\ call \in [Calls -> CallState] /\ mode \in [Dashboards -> {"idle", "live", "stopped"}]
      /\ UNCHANGED <<sessions, track>> /\ ~Resets(c)
  BY DEF Typing, CallsOK, PagesOK, Answer, StatusAnswer, StartAnswer, StopAnswer, BoundsAnswer,
         Unheard, Answered, Answers, Resets, At, server
<1>1. Acts(c) => ByController(c) /\ \A d \in Controllers : d = b
  BY DEF Requests, OneController, ByController
<1>2. CASE StatusAnswer(c)
  <2>1. /\ call[c].op = "status" /\ Release(c) /\ ~Ends(c)
        /\ mode' = [mode EXCEPT ![b] = IF call[c].at = "live" THEN "live" ELSE "idle"]
    BY <1>2 DEF StatusAnswer, Answered, Ends, At
  <2>2. ASSUME NEW d \in Controllers, mode'[d] = "live"
        PROVE  Active(sessions) # {} \/ mode[d] = "live"
    <3>1. CASE d = b
      <4>1. call[c].at = "live"
        BY <1>0, <2>1, <2>2, <3>1, ConstantFacts
      <4> QED BY <2>1, <3>1, <4>1 DEF Collecting, ByController, FindsLive, At
    <3>2. CASE d # b
      BY <1>0, <2>1, <2>2, <3>2
    <3> QED BY <3>1, <3>2
  <2> QED BY <1>0, <2>1, <2>2, RequestOver
<1>3. ASSUME ActionFails(c, b), ~Ends(c) PROVE Collecting'
  <2>1. Release(c) /\ \A d \in Dashboards : mode'[d] = "live" => mode[d] = "live"
    BY <1>0, <1>3 DEF ActionFails, LogOut
  <2> QED BY <1>0, <1>3, <2>1, RequestOver, ConstantFacts
<1>4. CASE StartAnswer(c)
  <2>1. call[c].op = "start" /\ ~Ends(c) /\ Acts(c)
    BY <1>4 DEF StartAnswer, Answered, Ends, At, Acts
  <2>2. CASE call[c].at = "ok"
    <3>1. Release(c) /\ Active(sessions) # {}
      BY <1>1, <1>4, <2>1, <2>2 DEF StartAnswer, Collecting, FindsLive, At
    <3> QED BY <1>0, <3>1, RequestOver
  <2>3. CASE call[c].at # "ok"
    BY <1>3, <1>4, <2>1, <2>3 DEF StartAnswer
  <2> QED BY <2>2, <2>3
<1>5. CASE StopAnswer(c)
  <2>1. call[c].op = "stop" /\ Acts(c) /\ b \in Dashboards
    BY <1>5 DEF StopAnswer, Answered, Acts
  <2>2. CASE call[c].at = "ok" /\ first[b] # 0 /\ latest[b] # 0
    <3> DEFINE r == [Request("bounds", b) EXCEPT !.from = first[b], !.to = latest[b]]
    <3>1. call' = [call EXCEPT ![c] = r] /\ mode' = mode
      BY <1>5, <2>2 DEF StopAnswer, page
    <3>2. r.op = "bounds" /\ r.by = b
      <4>1. /\ Request("bounds", b) \in CallState /\ Request("bounds", b).op = "bounds"
            /\ Request("bounds", b).by = b
        BY <2>1, RequestIs DEF Ops
      <4> QED BY <4>1 DEF CallState
    <3> HIDE DEF r
    <3>3. call'[c] = r /\ \A e \in Calls : e # c => call'[e] = call[e]
      BY <1>0, <3>1
    <3>4. ~Inserts(c)' /\ ~Resets(c)' /\ ~FindsLive(c)' /\ Ends(c)'
      BY <3>2, <3>3 DEF Inserts, Resets, FindsLive, Ends, At
    <3>5. \A e \in Calls : e # c =>
            /\ Inserts(e)' <=> Inserts(e)
            /\ Resets(e)' <=> Resets(e)
            /\ FindsLive(e)' <=> FindsLive(e)
            /\ Ends(e)' <=> Ends(e)
            /\ ByController(e)' <=> ByController(e)
      BY <3>3 DEF Inserts, Resets, FindsLive, Ends, At, ByController
    <3>6. ASSUME NEW d \in Controllers, NEW e \in InFlight(d), Ends(e)
          PROVE  e \in InFlight(d)' /\ Ends(e)'
      BY <3>2, <3>3, <3>4, <3>5, <3>6 DEF InFlight
    <3> QED BY <1>0, <3>1, <3>3, <3>4, <3>5, <3>6, RowsKept
  <2>3. CASE call[c].at = "ok" /\ ~(first[b] # 0 /\ latest[b] # 0)
    <3>1. Release(c) /\ mode' = [mode EXCEPT ![b] = "stopped"]
      BY <1>5, <2>3 DEF StopAnswer
    <3>2. \A d \in Controllers : mode'[d] # "live"
      BY <1>0, <1>1, <2>1, <3>1
    <3> QED BY <1>0, <3>1, <3>2, RequestOver
  <2>4. CASE call[c].at # "ok"
    <3>1. ActionFails(c, b) /\ ~Ends(c)
      BY <1>5, <2>1, <2>4 DEF StopAnswer, Ends, At
    <3> QED BY <1>3, <3>1
  <2> QED BY <2>2, <2>3, <2>4
<1>6. CASE BoundsAnswer(c)
  <2>1. Acts(c) /\ b \in Dashboards /\ Release(c) /\ mode' = [mode EXCEPT ![b] = "stopped"]
    BY <1>6 DEF BoundsAnswer, Answered, Acts
  <2>2. \A d \in Controllers : mode'[d] # "live"
    BY <1>0, <1>1, <2>1
  <2> QED BY <1>0, <2>1, <2>2, RequestOver
<1>7. CASE Unheard(c)
  <2>1. b = NoDash /\ Release(c) /\ mode' = mode
    BY <1>7 DEF Unheard, page
  <2>2. \A d \in Controllers : c \notin InFlight(d)
    BY <2>1, ConstantFacts DEF InFlight
  <2> QED BY <1>0, <2>1, <2>2, RequestOver
<1> QED BY <1>2, <1>4, <1>5, <1>6, <1>7 DEF Answer

LEMMA CollectingNext ==
  OneController /\ Typing /\ Requests /\ Collecting /\ [Next]_vars => Collecting'
<1> SUFFICES ASSUME OneController, Typing, Requests, Collecting, [Next]_vars PROVE Collecting'
  OBVIOUS
<1>1. CASE UNCHANGED vars \/ Tick
  <2>1. UNCHANGED <<sessions, track, call, mode>>
    BY <1>1 DEF vars, server, page, Tick
  <2> QED BY <2>1 DEF Collecting, Active, Inserts, Resets, FindsLive, Ends, At,
                      ByController, InFlight, TrackFollowsSession
<1>2. CASE \E d \in Dashboards :
             \/ HandleFrame(d) \/ Login(d) \/ StartTelemetry(d) \/ StopTelemetry(d)
             \/ Logout(d) \/ Reload(d)
  BY <1>2, PagesCollect
<1>3. CASE \E c \in Calls :
             Serve(c) \/ Answer(c) \/ Deny(c) \/ StatementFails(c) \/ ReplyLost(c)
  BY <1>3, ReadersCollect, WritersCollect, AnswersCollect DEF Serve
<1> QED BY <1>1, <1>2, <1>3 DEF Next

LEMMA Inductive == ASSUME OneController PROVE Spec => [](Typing /\ Requests /\ Collecting)
<1>1. Init => Typing /\ Requests /\ Collecting
  BY TypingInit, RequestsInit, CollectingInit
<1>2. Typing /\ Requests /\ Collecting /\ [Next]_vars => (Typing /\ Requests /\ Collecting)'
  BY TypingNext, RequestsNext, CollectingNext
<1> QED BY <1>1, <1>2, PTL DEF Spec

\* With one controlling page on a good link there is one collection at a time, although a
\* handler looks for an active session and inserts its own in two statements.
THEOREM OneCollection == ASSUME OneController PROVE Spec => []AtMostOneActive
<1>1. Collecting => AtMostOneActive
  <2> SUFFICES ASSUME Collecting PROVE AtMostOneActive
    OBVIOUS
  <2>1. CASE Active(sessions) = {}
    BY <2>1, FS_EmptySet DEF AtMostOneActive
  <2>2. CASE Active(sessions) # {}
    <3>1. PICK i : Active(sessions) = {i}
      BY <2>2 DEF Collecting
    <3>2. Cardinality({i}) = 1
      BY FS_Singleton
    <3> QED BY <3>1, <3>2 DEF AtMostOneActive
  <2> QED BY <2>1, <2>2
<1> QED BY <1>1, Inductive, PTL

\* Nor does the track map, cleared after the insertion, belong to another session.
THEOREM TrackIsOfSession == ASSUME OneController PROVE Spec => []TrackFollowsSession
<1>1. Collecting => TrackFollowsSession
  BY DEF Collecting
<1> QED BY <1>1, Inductive, PTL

\* The controls of that page are true: it shows a collection as live only if one is or its
\* end is on the way, and its button is disabled only while an answer is awaited.
THEOREM ControlsTrue == ASSUME OneController PROVE Spec => []ControlsAreTrue
<1>1. Requests /\ Collecting => ControlsAreTrue
  <2> SUFFICES ASSUME Requests, Collecting PROVE ControlsAreTrue
    OBVIOUS
  <2>1. LiveIsLive
    BY DEF Collecting, LiveIsLive
  <2>2. DisabledButtonWaits
    <3> SUFFICES ASSUME NEW d \in Dashboards, pending[d]
                 PROVE  \E c \in InFlight(d) : call[c].op # "status"
      BY DEF DisabledButtonWaits
    <3>1. PICK c \in InFlight(d) : Acts(c)
      BY DEF Requests
    <3> QED BY <3>1 DEF Acts
  <2> QED BY <2>1, <2>2 DEF ControlsAreTrue
<1> QED BY <1>1, Inductive, PTL

(***************************************************************************)
(* The logs of the sessions                                                *)
(***************************************************************************)

\* A start of the page has been carried out, and not yet answered.
Inserted(c) == Resets(c) \/ At(c, "start", "ok")

\* Only the newest session may be active, the others ended in order, and no log reaches
\* the start of a later session.
LogRows ==
  /\ Active(sessions) \subseteq {Len(sessions)}
  /\ \A i \in DOMAIN sessions :
       /\ sessions[i].start <= clock /\ sessions[i].end <= clock /\ sessions[i].to <= clock
       /\ ~replayed /\ sessions[i].from # 0 => sessions[i].start <= sessions[i].from
  /\ \A i, j \in DOMAIN sessions : i < j =>
       /\ sessions[i].to <= sessions[j].start
       /\ j \notin Active(sessions) => sessions[i].end <= sessions[j].end

\* What a page has measured is of the past and, but for a start under way, of the newest
\* session.
PageTime(d) == first[d] <= clock /\ latest[d] <= clock
PageLog(d) ==
  ~replayed /\ first[d] # 0 /\ Len(sessions) > 0 /\ (\A c \in InFlight(d) : ~Inserted(c))
    => sessions[Len(sessions)].start <= first[d]

\* A stop, and the limits after it, are those of the newest session.
CallLog(c) ==
  /\ At(c, "stop", "write") \/ At(c, "bounds", "write") => call[c].id = Len(sessions)
  /\ Ends(c) => Len(sessions) > 0 /\ Active(sessions) = {}
  /\ call[c].op = "bounds" =>
       /\ call[c].to <= clock
       /\ ~replayed => sessions[Len(sessions)].start <= call[c].from

Logs ==
  /\ LogRows
  /\ \A d \in Dashboards : PageTime(d)
  /\ \A d \in Controllers : PageLog(d)
  /\ \A c \in Calls : CallLog(c)

LEMMA LogsInit == Init => Logs
<1> SUFFICES ASSUME Init PROVE Logs
  OBVIOUS
<1>1. Len(sessions) = 0 /\ DOMAIN sessions = {} /\ Active(sessions) = {} /\ clock = 1
  BY EmptySeq DEF Init, Active
<1>2. LogRows
  BY <1>1 DEF LogRows
<1>3. \A d \in Dashboards : PageTime(d)
  BY DEF Init, PageTime
<1>4. \A d \in Controllers : PageLog(d)
  BY <1>1 DEF PageLog
<1>5. \A c \in Calls : CallLog(c)
  BY DEF Init, CallLog, Ends, At, Free
<1> QED BY <1>2, <1>3, <1>4, <1>5 DEF Logs

\* Steps that leave the table and the measures alone.
LEMMA MeasuresKept ==
  ASSUME Logs, UNCHANGED <<clock, sessions, replayed>>,
         \A d \in Dashboards : PageTime(d)',
         \A d \in Controllers :
           \/ first'[d] = 0
           \/ /\ first'[d] = first[d]
              /\ \A c \in InFlight(d) : Inserted(c) => c \in InFlight(d)' /\ Inserted(c)',
         \A c \in Calls : CallLog(c)'
  PROVE  Logs'
<1>1. LogRows'
  BY DEF Logs, LogRows, Active
<1>2. \A d \in Controllers : PageLog(d)'
  BY DEF Logs, PageLog, InFlight
<1> QED BY <1>1, <1>2 DEF Logs

LEMMA FramesLog ==
  ASSUME Typing, Logs, NEW d \in Dashboards, HandleFrame(d)
  PROVE  Logs'
<1>1. PICK t \in Stamps :
        /\ first' = [first EXCEPT ![d] = IF @ = 0 THEN t ELSE @]
        /\ latest' = [latest EXCEPT ![d] = t]
        /\ replayed' = (replayed \/ t < clock)
  BY DEF HandleFrame
<1>2. UNCHANGED <<clock, sessions, call>>
  BY DEF HandleFrame, server
<1>3. t \in Nat /\ t <= clock /\ clock \in Nat
  BY ConstantFacts DEF Stamps, Typing
<1>4. first \in [Dashboards -> Time] /\ latest \in [Dashboards -> Time]
  BY DEF Typing, PagesOK
<1>5. \A b \in Dashboards : /\ first'[b] = IF b = d /\ first[b] = 0 THEN t ELSE first[b]
                            /\ latest'[b] = IF b = d THEN t ELSE latest[b]
  BY <1>1, <1>4
<1>6. \A b \in Dashboards : PageTime(b)'
  BY <1>2, <1>3, <1>5 DEF Logs, PageTime
<1>7. LogRows'
  BY <1>1, <1>2 DEF Logs, LogRows, Active
<1>8. \A c \in Calls : CallLog(c)'
  BY <1>1, <1>2 DEF Logs, CallLog, Ends, At, Active
<1>9. ASSUME NEW b \in Controllers PROVE PageLog(b)'
  <2> SUFFICES ASSUME ~replayed', first'[b] # 0, Len(sessions) > 0,
                      \A c \in InFlight(b) : ~Inserted(c)
               PROVE  sessions[Len(sessions)].start <= first'[b]
    BY <1>2 DEF PageLog, InFlight, Inserted, Resets, At
  <2>1. ~replayed /\ t = clock /\ b \in Dashboards
    <3>1. ~replayed /\ ~(t < clock)
      BY <1>1
    <3> QED BY <1>3, <3>1, ConstantFacts
  <2>2. CASE first'[b] = first[b]
    BY <2>1, <2>2 DEF Logs, PageLog
  <2>3. CASE first'[b] # first[b]
    <3>1. first'[b] = clock
      BY <1>5, <2>1, <2>3
    <3>2. Len(sessions) \in DOMAIN sessions
      BY IdsAreSessions DEF Typing, SessionsOK
    <3> QED BY <3>1, <3>2 DEF Logs, LogRows
  <2> QED BY <2>2, <2>3
<1> QED BY <1>6, <1>7, <1>8, <1>9 DEF Logs

LEMMA PagesLog ==
  ASSUME OneController, Typing, Requests, Logs, NEW d \in Dashboards,
         Login(d) \/ StartTelemetry(d) \/ StopTelemetry(d) \/ Logout(d) \/ Reload(d)
  PROVE  Logs'
<1>0. /\ call \in [Calls -> CallState] /\ first \in [Dashboards -> Time]
      /\ latest \in [Dashboards -> Time] /\ 0 \in Time /\ clock \in Nat
  BY IdsAreSessions, ConstantFacts DEF Typing, CallsOK, PagesOK, Time
<1>1. UNCHANGED <<clock, sessions, replayed>>
  BY DEF Login, StartTelemetry, StopTelemetry, Logout, LogOut, Reload, server, worker
<1>2. CASE Login(d) \/ StartTelemetry(d) \/ StopTelemetry(d)
  <2>1. PICK op \in {"status", "start", "stop"} : Send(op, d) /\ UNCHANGED <<first, latest>>
    BY <1>2 DEF Login, StartTelemetry, StopTelemetry, worker
  <2>2. PICK c \in Calls : call[c] = Free /\ call' = [call EXCEPT ![c] = Request(op, d)]
    BY <2>1, SendIs
  <2>3. Request(op, d).op = op /\ Request(op, d).at = "sent"
    BY RequestIs DEF Ops
  <2>4. call'[c] = Request(op, d) /\ \A e \in Calls : e # c => call'[e] = call[e]
    BY <1>0, <2>2
  <2>5. CallLog(c)'
    BY <2>3, <2>4 DEF CallLog, Ends, At
  <2>6. \A e \in Calls : e # c => CallLog(e)'
    BY <1>1, <2>4 DEF Logs, CallLog, Ends, At, Active
  <2>7. ~Inserted(c)
    BY <2>2 DEF Inserted, Resets, At, Free
  <2>8. ASSUME NEW b \in Controllers, NEW e \in InFlight(b), Inserted(e)
        PROVE  e \in InFlight(b)' /\ Inserted(e)'
    BY <2>4, <2>7, <2>8 DEF InFlight, Inserted, Resets, At
  <2>9. \A b \in Dashboards : PageTime(b)'
    BY <1>1, <2>1 DEF Logs, PageTime
  <2> QED BY <1>1, <2>1, <2>5, <2>6, <2>8, <2>9, MeasuresKept
<1>3. CASE Logout(d)
  <2>1. UNCHANGED <<call, first, latest>>
    BY <1>3 DEF Logout, LogOut
  <2> QED BY <1>1, <2>1, MeasuresKept
          DEF Logs, PageTime, CallLog, InFlight, Inserted, Resets, Ends, At, Active
<1>4. CASE Reload(d)
  <2>1. first' = [first EXCEPT ![d] = 0] /\ latest' = [latest EXCEPT ![d] = 0]
    BY <1>4 DEF Reload
  <2>2. ASSUME NEW c \in Calls
        PROVE  /\ call'[c].op = call[c].op /\ call'[c].at = call[c].at /\ call'[c].id = call[c].id
               /\ call'[c].from = call[c].from /\ call'[c].to = call[c].to
               /\ call[c].by # d => call'[c].by = call[c].by
    <3>1. call[c] \in CallState
      BY <1>0
    <3>2. \/ call'[c] = call[c]
          \/ call[c].by = d /\ call'[c] = [call[c] EXCEPT !.by = NoDash]
      BY <1>4 DEF Reload
    <3> QED BY <3>1, <3>2 DEF CallState
  <2>3. \A c \in Calls : CallLog(c)' /\ (Inserted(c)' <=> Inserted(c))
    BY <1>1, <2>2 DEF Logs, CallLog, Ends, Inserted, Resets, At, Active
  <2>4. ASSUME NEW b \in Controllers
        PROVE  \/ first'[b] = 0
               \/ /\ first'[b] = first[b]
                  /\ \A c \in InFlight(b) : Inserted(c) => c \in InFlight(b)' /\ Inserted(c)'
    <3>1. CASE b = d
      BY <1>0, <2>1, <3>1
    <3>2. CASE b # d
      <4>1. first'[b] = first[b]
        BY <1>0, <2>1, <3>2, ConstantFacts
      <4> QED BY <2>2, <2>3, <3>2, <4>1 DEF InFlight
    <3> QED BY <3>1, <3>2
  <2>5. \A b \in Dashboards : PageTime(b)'
    BY <1>0, <1>1, <2>1 DEF Logs, PageTime
  <2> QED BY <1>1, <2>3, <2>4, <2>5, MeasuresKept
<1> QED BY <1>2, <1>3, <1>4

\* The request of a controlling page goes on or fails, others do as they may.
LEMMA RequestLogs ==
  ASSUME OneController, Typing, Requests, Logs, NEW c \in Calls,
         UNCHANGED <<clock, sessions, first, latest, replayed>>,
         \A e \in Calls : e # c => call'[e] = call[e],
         call'[c].by = call[c].by,
         ByController(c) /\ Inserted(c) => Inserted(c)',
         CallLog(c)'
  PROVE  Logs'
<1>1. \A e \in Calls : CallLog(e)'
  BY DEF Logs, CallLog, Ends, At, Active
<1>2. ASSUME NEW d \in Controllers, NEW e \in InFlight(d), Inserted(e)
      PROVE  e \in InFlight(d)' /\ Inserted(e)'
  BY <1>2 DEF InFlight, ByController, Inserted, Resets, At
<1>3. \A d \in Dashboards : PageTime(d)'
  BY DEF Logs, PageTime
<1> QED BY <1>1, <1>2, <1>3, MeasuresKept

LEMMA ReadersLog ==
  ASSUME OneController, Typing, Requests, Logs, NEW c \in Calls,
         \/ StatusSelect(c) \/ StartSelect(c) \/ StartReset(c) \/ Deny(c) \/ StatementFails(c)
         \/ ReplyLost(c)
  PROVE  Logs'
<1>1. UNCHANGED <<clock, sessions, first, latest, replayed>>
  BY DEF StatusSelect, StartSelect, StartReset, Deny, StatementFails, ReplyLost, server, worker
<1>2. PICK stage : Become(c, stage) /\ stage \in {"live", "idle", "write", "ok", "refused", "denied"}
  BY DEF StatusSelect, StartSelect, StartReset, Deny, StatementFails, ReplyLost, Status
<1>3. /\ \A e \in Calls : /\ call'[e].op = call[e].op /\ call'[e].by = call[e].by
                          /\ e # c => call'[e] = call[e]
      /\ call'[c].at = stage
  BY <1>2, OneGoesOn
<1>4. call'[c] = [call[c] EXCEPT !.at = stage] /\ call[c] \in CallState
  BY <1>2 DEF Become, Typing, CallsOK
<1>5. call'[c].from = call[c].from /\ call'[c].to = call[c].to
  BY <1>4 DEF CallState
<1>6. CASE StatusSelect(c) \/ StartSelect(c)
  <2>1. call[c].op \in {"status", "start"} /\ call[c].at = "sent"
    BY <1>6 DEF StatusSelect, StartSelect, At
  <2> QED BY <1>1, <1>3, <2>1, RequestLogs DEF CallLog, Ends, Inserted, Resets, At
<1>7. CASE StartReset(c)
  <2>1. call[c].op = "start" /\ Become(c, "ok")
    BY <1>7 DEF StartReset, At
  <2>2. call'[c].at = "ok"
    BY <2>1, OneGoesOn
  <2> QED BY <1>1, <1>3, <2>1, <2>2, RequestLogs DEF CallLog, Ends, Inserted, Resets, At
<1>8. CASE Deny(c) \/ StatementFails(c) \/ ReplyLost(c)
  <2>1. /\ Become(c, "denied") \/ Become(c, "refused")
        /\ call[c].at \in {"sent", "write"} \/ call[c].by \in Flaky
    BY <1>8 DEF Deny, StatementFails, ReplyLost
  <2>2. call'[c].at \in {"denied", "refused"}
    BY <2>1, OneGoesOn
  <2>3. ByController(c) => ~Inserted(c)
    BY <2>1 DEF OneController, ByController, Inserted, Resets, At
  <2>4. CallLog(c)'
    BY <1>1, <1>3, <1>5, <2>2 DEF Logs, CallLog, Ends, At, Active
  <2> QED BY <1>1, <1>3, <2>3, <2>4, RequestLogs
<1> QED BY <1>6, <1>7, <1>8

\* ORDER BY ended_at_unix DESC, id DESC finds the newest session, once it has ended.
LEMMA LatestIsNewest ==
  ASSUME Typing, LogRows, Active(sessions) = {}, Len(sessions) > 0
  PROVE  Ended # {} /\ LatestEnded = Len(sessions)
<1> DEFINE n == Len(sessions)
<1>1. /\ n \in Nat \ {0} /\ DOMAIN sessions = 1..n /\ Ended = 1..n /\ n \in Ended
      /\ \A i \in 1..n : sessions[i].end \in Nat
  <2>1. n \in Nat \ {0} /\ DOMAIN sessions = 1..n
    BY IdsAreSessions DEF Typing, SessionsOK
  <2>2. \A i \in 1..n : sessions[i] \in SessionRow
    BY ElementOfSeq DEF Typing, SessionsOK
  <2>3. \A i \in 1..n : sessions[i].end \in Nat
    BY <2>2, ConstantFacts DEF SessionRow, Time
  <2> QED BY <2>1, <2>3 DEF Ended
<1> HIDE DEF n
<1>2. \A i \in Ended : i < n => sessions[i].end <= sessions[n].end
  BY <1>1 DEF LogRows
<1>3. ASSUME NEW j \in Ended
      PROVE  \/ sessions[j].end < sessions[n].end
             \/ sessions[j].end = sessions[n].end /\ j <= n
  <2>1. j \in Nat /\ j <= n
    BY <1>1
  <2>2. sessions[j].end <= sessions[n].end
    BY <1>1, <1>2, <2>1
  <2> QED BY <1>1, <2>1, <2>2
<1>4. ASSUME NEW i \in Ended,
             \A j \in Ended : \/ sessions[j].end < sessions[i].end
                              \/ sessions[j].end = sessions[i].end /\ j <= i
      PROVE  i = n
  <2>1. i \in 1..n /\ sessions[n].end \in Nat /\ sessions[i].end \in Nat
    BY <1>1
  <2>2. \/ sessions[n].end < sessions[i].end
        \/ sessions[n].end = sessions[i].end /\ n <= i
    BY <1>1, <1>4
  <2>3. i < n => sessions[i].end <= sessions[n].end
    BY <1>2
  <2> QED BY <1>1, <2>1, <2>2, <2>3
<1>5. LatestEnded = n
  BY <1>1, <1>3, <1>4 DEF LatestEnded
<1> QED BY <1>1, <1>5 DEF n

\* Stops and limits choose the newest session.
LEMMA PickersLog ==
  ASSUME OneController, Typing, Requests, Logs, NEW c \in Calls,
         StopSelect(c) \/ BoundsSelect(c)
  PROVE  Logs'
<1>1. UNCHANGED <<clock, sessions, first, latest, replayed>>
  BY DEF StopSelect, BoundsSelect, server, worker
<1>2. call[c].op \in {"stop", "bounds"} /\ call[c].at = "sent" /\ call[c] \in CallState
  BY DEF StopSelect, BoundsSelect, At, Typing, CallsOK
<1>3. ASSUME NEW stage \in {"refused", "write"}, NEW i,
             call' = [call EXCEPT ![c] = [call[c] EXCEPT !.at = stage, !.id = i]],
             stage = "write" => i = Len(sessions)
      PROVE  Logs'
  <2> DEFINE r == [call[c] EXCEPT !.at = stage, !.id = i]
  <2>1. /\ r.op = call[c].op /\ r.at = stage /\ r.id = i /\ r.by = call[c].by
        /\ r.from = call[c].from /\ r.to = call[c].to
    BY <1>2 DEF CallState
  <2>2. call'[c] = r /\ \A e \in Calls : e # c => call'[e] = call[e]
    BY <1>3 DEF Typing, CallsOK
  <2> HIDE DEF r
  <2>3. CallLog(c)'
    BY <1>1, <1>2, <1>3, <2>1, <2>2 DEF Logs, CallLog, Ends, At, Active
  <2>4. ~Inserted(c)
    BY <1>2 DEF Inserted, Resets, At
  <2> QED BY <1>1, <2>1, <2>2, <2>3, <2>4, RequestLogs
<1>4. ASSUME Become(c, "refused") PROVE Logs'
  <2>1. call' = [call EXCEPT ![c] = [call[c] EXCEPT !.at = "refused"]]
    BY <1>4 DEF Become
  <2>2. [call[c] EXCEPT !.at = "refused"] = [call[c] EXCEPT !.at = "refused", !.id = call[c].id]
    BY <1>2 DEF CallState
  <2> QED BY <1>3, <2>1, <2>2
<1>5. ASSUME Pick(c, Len(sessions)) PROVE Logs'
  <2>1. call' = [call EXCEPT ![c] = [call[c] EXCEPT !.at = "write", !.id = Len(sessions)]]
    BY <1>5 DEF Pick, Typing, CallsOK
  <2> QED BY <1>3, <2>1
<1>6. CASE StopSelect(c)
  <2>1. CASE Active(sessions) = {}
    BY <1>4, <1>6, <2>1 DEF StopSelect
  <2>2. CASE Active(sessions) # {}
    <3>1. Newest(Active(sessions)) = Len(sessions)
      BY <2>2, NewestIsOne DEF Logs, LogRows
    <3> QED BY <1>5, <1>6, <2>2, <3>1 DEF StopSelect
  <2> QED BY <2>1, <2>2
<1>7. CASE BoundsSelect(c)
  <2>1. CASE ValidBounds(call[c]) /\ Ended # {}
    <3>1. Len(sessions) > 0 /\ Active(sessions) = {}
      BY <1>7 DEF BoundsSelect, Logs, CallLog, Ends, At
    <3>2. LatestEnded = Len(sessions)
      BY <3>1, LatestIsNewest DEF Logs
    <3> QED BY <1>5, <1>7, <2>1, <3>2 DEF BoundsSelect
  <2>2. CASE ~(ValidBounds(call[c]) /\ Ended # {})
    BY <1>4, <1>7, <2>2 DEF BoundsSelect
  <2> QED BY <2>1, <2>2
<1> QED BY <1>6, <1>7

LEMMA WritersLog ==
  ASSUME OneController, Typing, Requests, Collecting, Logs, NEW c \in Calls,
         StartInsert(c) \/ StopUpdate(c) \/ BoundsUpdate(c)
  PROVE  Logs'
<1> DEFINE n == Len(sessions)
<1>1. /\ UNCHANGED <<clock, first, latest, replayed>> /\ n \in Nat /\ clock \in Nat
      /\ DOMAIN sessions = 1..n /\ call[c] \in CallState
      /\ \A i \in 1..n : sessions[i] \in SessionRow
  BY IdsAreSessions, ElementOfSeq, ConstantFacts
     DEF StartInsert, StopUpdate, BoundsUpdate, worker, Typing, SessionsOK, CallsOK
<1>2. /\ Acts(c) /\ ByController(c) /\ \A d \in Controllers : d = call[c].by
      /\ \A e \in Calls : e # c => ~Acts(e)
  <2>1. Acts(c)
    BY DEF StartInsert, StopUpdate, BoundsUpdate, At, Acts
  <2> QED BY <2>1 DEF Requests, OneController, ByController
<1>3. \A d \in Dashboards : PageTime(d)'
  BY <1>1 DEF Logs, PageTime
<1>4. ASSUME \A e \in Calls : e # c => call'[e] = call[e], NEW e \in Calls, e # c
      PROVE  CallLog(e)'
  BY <1>2, <1>4 DEF CallLog, Ends, At, Acts
<1>5. CASE StartInsert(c)
  <2>1. LogRows'
    <3>1. Active(sessions)' \subseteq {Len(sessions')}
      BY <1>5, InsertIs
    <3>2. ASSUME NEW i \in 1..(n + 1)
          PROVE  /\ sessions'[i].start <= clock /\ sessions'[i].end <= clock
                 /\ sessions'[i].to <= clock
                 /\ ~replayed /\ sessions'[i].from # 0 => sessions'[i].start <= sessions'[i].from
      <4>1. CASE i \in 1..n
        BY <1>1, <1>5, <4>1, InsertIs DEF Logs, LogRows
      <4>2. CASE i = n + 1
        <5>1. /\ sessions'[i].start = clock /\ sessions'[i].end = 0 /\ sessions'[i].to = 0
              /\ sessions'[i].from = 0
          BY <1>5, <4>2, InsertIs
        <5> QED BY <1>1, <5>1
      <4> QED BY <1>1, <4>1, <4>2
    <3>3. ASSUME NEW i \in 1..(n + 1), NEW j \in 1..(n + 1), i < j
          PROVE  /\ sessions'[i].to <= sessions'[j].start
                 /\ j \notin Active(sessions)' => sessions'[i].end <= sessions'[j].end
      <4>1. i \in 1..n /\ sessions'[i] = sessions[i]
        BY <1>1, <1>5, <3>3, InsertIs
      <4>2. CASE j \in 1..n
        <5>1. sessions'[j] = sessions[j] /\ j \notin Active(sessions)
          BY <1>5, <4>2, InsertIs
        <5> QED BY <1>1, <3>3, <4>1, <4>2, <5>1 DEF Logs, LogRows
      <4>3. CASE j = n + 1
        <5>1. sessions'[j].start = clock /\ j \in Active(sessions)'
          BY <1>5, <4>3, InsertIs
        <5> QED BY <1>1, <4>1, <5>1 DEF Logs, LogRows
      <4> QED BY <1>1, <4>2, <4>3
    <3> HIDE DEF n
    <3>4. DOMAIN sessions' = 1..(n + 1)
      BY <1>5, InsertIs DEF n
    <3> QED BY <1>1, <3>1, <3>2, <3>3, <3>4 DEF LogRows
  <2>2. CallLog(c)'
    BY <1>5, InsertIs DEF CallLog, Ends, At
  <2>3. \A d \in Controllers : PageLog(d)'
    BY <1>2, <1>5, InsertIs DEF PageLog, InFlight, Inserted, Resets, At
  <2>4. \A e \in Calls : CallLog(e)'
    BY <1>4, <1>5, <2>2, InsertIs
  <2> QED BY <1>3, <2>1, <2>3, <2>4 DEF Logs
<1>6. CASE StopUpdate(c) \/ BoundsUpdate(c)
  <2>1. /\ call[c].op \in {"stop", "bounds"} /\ call[c].at = "write" /\ Become(c, "ok")
        /\ StopUpdate(c) => call[c].op = "stop"
        /\ BoundsUpdate(c) => call[c].op = "bounds"
    BY <1>6 DEF StopUpdate, BoundsUpdate, At
  <2>2. /\ \A e \in Calls : /\ call'[e].op = call[e].op /\ call'[e].by = call[e].by
                            /\ e # c => call'[e] = call[e]
        /\ call'[c].at = "ok" /\ call'[c].from = call[c].from /\ call'[c].to = call[c].to
    <3>1. call'[c] = [call[c] EXCEPT !.at = "ok"]
      BY <2>1 DEF Become, Typing, CallsOK
    <3> QED BY <1>1, <2>1, <3>1, OneGoesOn DEF CallState
  <2>3. call[c].id = n /\ n > 0
    <3>1. call[c].id = n
      BY <2>1 DEF Logs, CallLog, At
    <3> QED BY <1>1, <1>6, <3>1, UpdateIs
  <2>4. Active(sessions)' = {}
    <3>1. CASE StopUpdate(c)
      <4>1. n \notin Active(sessions)'
        BY <2>3, <3>1, UpdateIs DEF Active
      <4> QED BY <1>6, <4>1, UpdateIs DEF Logs, LogRows
    <3>2. CASE BoundsUpdate(c)
      BY <1>6, <2>1, <3>2, UpdateIs DEF Logs, CallLog, Ends
    <3> QED BY <1>6, <3>1, <3>2
  <2>5. BoundsUpdate(c) => /\ call[c].to <= clock
                           /\ ~replayed => sessions[n].start <= call[c].from
    BY <2>1 DEF Logs, CallLog
  <2>6. /\ DOMAIN sessions' = 1..n /\ Len(sessions') = n
        /\ \A i \in 1..n : sessions'[i].start = sessions[i].start
        /\ \A i \in 1..n : i # n => sessions'[i] = sessions[i]
    BY <1>1, <1>6, <2>3, UpdateIs
  <2>7. \A i, j \in 1..n : i < j => i # n
    <3> DEFINE k == n
    <3>1. k \in Nat
      BY <1>1
    <3> HIDE DEF k
    <3>2. \A i, j \in 1..k : i < j => i # k
      BY <3>1
    <3> QED BY <3>2 DEF k
  <2>8. ASSUME NEW i \in 1..n, i < n
         PROVE  /\ i # n /\ sessions'[i] = sessions[i] /\ sessions[i].end <= clock
                /\ n \notin Active(sessions) => sessions[i].end <= sessions[n].end
    <3>1. n \in 1..n
      BY <1>1, <2>3
    <3>2. i # n
      BY <2>7, <2>8, <3>1
    <3> QED BY <1>1, <2>6, <2>8, <3>1, <3>2 DEF Logs, LogRows
  <2>9. /\ sessions'[n].end <= clock /\ sessions'[n].to <= clock
        /\ ~replayed /\ sessions'[n].from # 0 => sessions'[n].start <= sessions'[n].from
        /\ \A i \in 1..n : i < n => sessions'[i].end <= sessions'[n].end
    <3>1. n \in 1..n /\ n \in DOMAIN sessions
      BY <1>1, <2>3
    <3>2. CASE StopUpdate(c)
      <4>1. /\ sessions'[n].end = clock /\ sessions'[n].from = sessions[n].from
            /\ sessions'[n].to = sessions[n].to
        BY <2>3, <3>2, UpdateIs
      <4>2. \A i \in 1..n : i < n => sessions'[i].end <= clock
        BY <2>8
      <4>3. clock <= clock
        BY <1>1
      <4>4. /\ sessions[n].to <= clock
            /\ ~replayed /\ sessions[n].from # 0 => sessions[n].start <= sessions[n].from
        BY <3>1 DEF Logs, LogRows
      <4>5. sessions'[n].start = sessions[n].start
        BY <2>6, <3>1
      <4> QED BY <4>1, <4>2, <4>3, <4>4, <4>5
    <3>3. CASE BoundsUpdate(c)
      <4>1. /\ sessions'[n].end = sessions[n].end /\ sessions'[n].from = call[c].from
            /\ sessions'[n].to = call[c].to
        BY <2>3, <3>3, UpdateIs
      <4>2. n \notin Active(sessions)
        BY <2>1, <3>3 DEF Logs, CallLog, Ends
      <4>3. \A i \in 1..n : i < n => sessions'[i].end <= sessions[n].end
        BY <2>8, <4>2
      <4> QED BY <1>1, <2>5, <2>6, <3>1, <3>3, <4>1, <4>3 DEF Logs, LogRows
    <3> QED BY <1>6, <3>2, <3>3
  <2>10. LogRows'
    <3>1. ASSUME NEW i \in 1..n
          PROVE  /\ sessions'[i].start <= clock /\ sessions'[i].end <= clock
                 /\ sessions'[i].to <= clock
                 /\ ~replayed /\ sessions'[i].from # 0 => sessions'[i].start <= sessions'[i].from
      <4>1. sessions'[i].start <= clock
        BY <1>1, <2>6 DEF Logs, LogRows
      <4>2. CASE i = n
        BY <2>9, <4>1, <4>2
      <4>3. CASE i # n
        BY <1>1, <2>6, <4>3 DEF Logs, LogRows
      <4> QED BY <4>2, <4>3
    <3>2. ASSUME NEW i \in 1..n, NEW j \in 1..n, i < j
          PROVE  /\ sessions'[i].to <= sessions'[j].start
                 /\ sessions'[i].end <= sessions'[j].end
      <4>1. i # n /\ sessions'[i] = sessions[i] /\ sessions'[j].start = sessions[j].start
        BY <2>6, <2>7, <3>2
      <4>2. sessions[i].to <= sessions[j].start
        BY <1>1, <3>2 DEF Logs, LogRows
      <4>3. CASE j = n
        BY <2>9, <3>2, <4>1, <4>2, <4>3
      <4>4. CASE j # n
        <5>1. j \notin Active(sessions) /\ sessions'[j] = sessions[j]
          BY <2>6, <4>4 DEF Logs, LogRows
        <5>2. sessions[i].end <= sessions[j].end
          BY <1>1, <3>2, <5>1 DEF Logs, LogRows
        <5> QED BY <4>1, <4>2, <5>1, <5>2
      <4> QED BY <4>3, <4>4
    <3> HIDE DEF n
    <3> QED BY <1>1, <2>4, <2>6, <3>1, <3>2 DEF LogRows
  <2>11. CallLog(c)'
    <3>1. n \in 1..n
      BY <1>1, <2>3
    <3>2. sessions'[Len(sessions')].start = sessions[n].start /\ Len(sessions') = n
      BY <2>6, <3>1
    <3>3. call[c].op = "bounds" => BoundsUpdate(c)
      BY <1>6, <2>1
    <3> QED BY <1>1, <2>2, <2>3, <2>4, <2>5, <3>2, <3>3 DEF CallLog, Ends, At
  <2>12. ASSUME NEW d \in Controllers PROVE PageLog(d)'
    <3>1. n \in 1..n
      BY <1>1, <2>3
    <3>2. \A e \in InFlight(d) : Inserted(e) => e \in InFlight(d)' /\ Inserted(e)'
      BY <2>1, <2>2 DEF InFlight, Inserted, Resets, At
    <3> QED BY <1>1, <2>6, <3>1, <3>2 DEF Logs, PageLog, InFlight
  <2>13. \A e \in Calls : CallLog(e)'
    BY <1>4, <2>2, <2>11
  <2> QED BY <1>3, <2>10, <2>12, <2>13 DEF Logs
<1> QED BY <1>5, <1>6

\* A request is over, and what the page measured is kept.
LEMMA OverLog ==
  ASSUME Typing, Logs, NEW c \in Calls, Release(c), ~Inserted(c),
         UNCHANGED <<clock, sessions, first, latest, replayed>>
  PROVE  Logs'
<1>1. call'[c] = Free /\ \A e \in Calls : e # c => call'[e] = call[e]
  BY DEF Typing, CallsOK, Release
<1>2. CallLog(c)'
  BY <1>1 DEF CallLog, Ends, At, Free
<1>3. \A e \in Calls : CallLog(e)'
  BY <1>1, <1>2 DEF Logs, CallLog, Ends, At, Active
<1>4. ASSUME NEW d \in Controllers, NEW e \in InFlight(d), Inserted(e)
      PROVE  e \in InFlight(d)' /\ Inserted(e)'
  BY <1>1, <1>4 DEF InFlight, Inserted, Resets, At
<1>5. \A d \in Dashboards : PageTime(d)'
  BY DEF Logs, PageTime
<1> QED BY <1>3, <1>4, <1>5, MeasuresKept

LEMMA AnswersLog ==
  ASSUME OneController, Typing, Requests, Logs, NEW c \in Calls, Answer(c)
  PROVE  Logs'
<1> DEFINE b == call[c].by
<1>0. /\ call \in [Calls -> CallState] /\ first \in [Dashboards -> Time]
      /\ latest \in [Dashboards -> Time] /\ 0 \in Time /\ clock \in Nat
  BY IdsAreSessions, ConstantFacts DEF Typing, CallsOK, PagesOK, Time
<1>1. UNCHANGED <<clock, sessions, replayed>>
  BY DEF Answer, StatusAnswer, StartAnswer, StopAnswer, BoundsAnswer, Unheard, ActionFails,
         LogOut, server, worker
<1>2. CASE StatusAnswer(c) \/ BoundsAnswer(c) \/ Unheard(c)
  <2>1. Release(c) /\ UNCHANGED <<first, latest>>
    BY <1>2 DEF StatusAnswer, BoundsAnswer, Unheard, worker
  <2>2. ~Inserted(c)
    <3>1. CASE call[c].op = "start"
      <4>1. b \in Controllers
        BY <3>1 DEF Requests, Acts, ByController
      <4> QED BY <1>2, <3>1, <4>1, ConstantFacts
              DEF StatusAnswer, BoundsAnswer, Unheard, Answered
    <3>2. CASE call[c].op # "start"
      BY <3>2 DEF Inserted, Resets, At
    <3> QED BY <3>1, <3>2
  <2> QED BY <1>1, <2>1, <2>2, OverLog
<1>3. ASSUME ActionFails(c, b), call[c].op \in {"start", "stop"}, call[c].at \in Answers \ {"ok"}
      PROVE  Logs'
  <2>1. Release(c) /\ UNCHANGED <<first, latest>>
    BY <1>3 DEF ActionFails, LogOut, worker
  <2>2. ~Inserted(c)
    BY <1>3 DEF Inserted, Resets, At, Answers
  <2> QED BY <1>1, <2>1, <2>2, OverLog
<1>4. CASE StartAnswer(c)
  <2>1. call[c].op = "start" /\ call[c].at \in Answers /\ b \in Dashboards
    BY <1>4 DEF StartAnswer, Answered
  <2>2. CASE call[c].at = "ok"
    <3>1. /\ Release(c) /\ first' = [first EXCEPT ![b] = 0] /\ latest' = [latest EXCEPT ![b] = 0]
      BY <1>4, <2>2 DEF StartAnswer, FirstAfterStart
    <3>2. call'[c] = Free /\ \A e \in Calls : e # c => call'[e] = call[e]
      BY <1>0, <3>1 DEF Release
    <3>3. CallLog(c)'
      BY <3>2 DEF CallLog, Ends, At, Free
    <3>4. \A e \in Calls : CallLog(e)'
      BY <1>1, <3>2, <3>3 DEF Logs, CallLog, Ends, At, Active
    <3>5. \A d \in Dashboards : PageTime(d)'
      BY <1>0, <1>1, <3>1 DEF Logs, PageTime
    <3>6. \A d \in Controllers : first'[d] = 0
      <4>1. \A d \in Controllers : d = b
        BY <2>1 DEF Requests, Acts, ByController, OneController
      <4> QED BY <1>0, <2>1, <3>1, <4>1
    <3> QED BY <1>1, <3>4, <3>5, <3>6, MeasuresKept
  <2>3. CASE call[c].at # "ok"
    BY <1>3, <1>4, <2>1, <2>3 DEF StartAnswer
  <2> QED BY <2>2, <2>3
<1>5. CASE StopAnswer(c)
  <2>1. call[c].op = "stop" /\ call[c].at \in Answers /\ b \in Dashboards /\ Acts(c)
    BY <1>5 DEF StopAnswer, Answered, Acts
  <2>2. CASE call[c].at = "ok" /\ first[b] # 0 /\ latest[b] # 0
    <3> DEFINE r == [Request("bounds", b) EXCEPT !.from = first[b], !.to = latest[b]]
    <3>1. call' = [call EXCEPT ![c] = r] /\ UNCHANGED <<first, latest>>
      BY <1>5, <2>2 DEF StopAnswer
    <3>2. /\ r.op = "bounds" /\ r.by = b /\ r.at = "sent"
          /\ r.from = first[b] /\ r.to = latest[b]
      <4>1. /\ Request("bounds", b) \in CallState /\ Request("bounds", b).op = "bounds"
            /\ Request("bounds", b).by = b /\ Request("bounds", b).at = "sent"
        BY <2>1, RequestIs DEF Ops
      <4> QED BY <4>1 DEF CallState
    <3> HIDE DEF r
    <3>3. call'[c] = r /\ \A e \in Calls : e # c => call'[e] = call[e]
      BY <1>0, <3>1
    <3>4. b \in Controllers /\ \A e \in InFlight(b) : e = c
      BY <2>1 DEF Requests, ByController, InFlight
    <3>5. \A e \in InFlight(b) : ~Inserted(e)
      BY <2>1, <3>4 DEF Inserted, Resets, At
    <3>6. Len(sessions) > 0 /\ Active(sessions) = {}
      BY <2>1, <2>2 DEF Logs, CallLog, Ends, At
    <3>7. ~replayed => sessions[Len(sessions)].start <= first[b]
      BY <2>2, <3>4, <3>5, <3>6 DEF Logs, PageLog
    <3>8. latest[b] <= clock
      BY <2>1 DEF Logs, PageTime
    <3>9. CallLog(c)'
      BY <1>1, <3>2, <3>3, <3>6, <3>7, <3>8 DEF CallLog, At
    <3>10. ~Inserted(c)
      BY <2>1 DEF Inserted, Resets, At
    <3> QED BY <1>1, <3>1, <3>2, <3>3, <3>9, <3>10, RequestLogs
  <2>3. CASE call[c].at = "ok" /\ ~(first[b] # 0 /\ latest[b] # 0)
    <3>1. Release(c) /\ UNCHANGED <<first, latest>>
      BY <1>5, <2>3 DEF StopAnswer
    <3>2. ~Inserted(c)
      BY <2>1 DEF Inserted, Resets, At
    <3> QED BY <1>1, <3>1, <3>2, OverLog
  <2>4. CASE call[c].at # "ok"
    BY <1>3, <1>5, <2>1, <2>4 DEF StopAnswer
  <2> QED BY <2>2, <2>3, <2>4
<1> QED BY <1>2, <1>4, <1>5 DEF Answer

LEMMA LogsNext ==
  OneController /\ Typing /\ Requests /\ Collecting /\ Logs /\ [Next]_vars => Logs'
<1> SUFFICES ASSUME OneController, Typing, Requests, Collecting, Logs, [Next]_vars
             PROVE  Logs'
  OBVIOUS
<1>1. CASE UNCHANGED vars \/ Tick
  <2>1. /\ UNCHANGED <<sessions, call, first, latest, replayed>>
        /\ clock \in Nat /\ clock' \in Nat /\ clock <= clock'
    BY <1>1, ConstantFacts DEF vars, server, page, worker, Tick, Typing
  <2>2. \A t \in Time : t <= clock => t <= clock'
    BY <2>1, ConstantFacts DEF Time
  <2>3. \A i \in DOMAIN sessions : sessions[i] \in SessionRow
    BY ElementOfSeq DEF Typing, SessionsOK
  <2>4. LogRows'
    BY <2>1, <2>2, <2>3 DEF Logs, LogRows, Active, SessionRow
  <2>5. \A d \in Dashboards : PageTime(d)'
    BY <2>1, <2>2 DEF Logs, PageTime, Typing, PagesOK
  <2>6. \A d \in Controllers : PageLog(d)'
    BY <2>1 DEF Logs, PageLog, InFlight, Inserted, Resets, At
  <2>7. \A c \in Calls : CallLog(c)'
    <3>1. \A c \in Calls : call[c].to \in Time
      BY DEF Typing, CallsOK, CallState
    <3> QED BY <2>1, <2>2, <3>1 DEF Logs, CallLog, Ends, At, Active
  <2> QED BY <2>4, <2>5, <2>6, <2>7 DEF Logs
<1>2. CASE \E d \in Dashboards :
             \/ HandleFrame(d) \/ Login(d) \/ StartTelemetry(d) \/ StopTelemetry(d)
             \/ Logout(d) \/ Reload(d)
  BY <1>2, FramesLog, PagesLog
<1>3. CASE \E c \in Calls :
             Serve(c) \/ Answer(c) \/ Deny(c) \/ StatementFails(c) \/ ReplyLost(c)
  BY <1>3, ReadersLog, PickersLog, WritersLog, AnswersLog DEF Serve
<1> QED BY <1>1, <1>2, <1>3 DEF Next

\* The log of a session, measured by that page and recorded after the session ended, is of
\* its own frames, however often the page was reloaded or its requests failed: none from
\* before its start, and none that the log of another session has.
THEOREM LogsBelong == ASSUME OneController PROVE Spec => []LogsAreOfTheirSessions
<1>1. Typing /\ Logs => LogsAreOfTheirSessions
  <2> SUFFICES ASSUME Typing, Logs PROVE LogsAreOfTheirSessions
    OBVIOUS
  <2>1. LogInsideSession
    BY DEF Logs, LogRows, LogInsideSession
  <2>2. LogsDisjoint
    <3> SUFFICES ASSUME ~replayed, NEW i \in DOMAIN sessions, NEW j \in DOMAIN sessions, i < j,
                        sessions[j].from # 0
                 PROVE  sessions[i].to <= sessions[j].from
      BY DEF LogsDisjoint
    <3>1. sessions[i] \in SessionRow /\ sessions[j] \in SessionRow
      BY ElementOfSeq DEF Typing, SessionsOK
    <3>2. /\ sessions[i].to \in Nat /\ sessions[j].start \in Nat /\ sessions[j].from \in Nat
      BY <3>1, ConstantFacts DEF SessionRow, Time
    <3>3. sessions[i].to <= sessions[j].start /\ sessions[j].start <= sessions[j].from
      BY DEF Logs, LogRows
    <3> QED BY <3>2, <3>3
  <2> QED BY <2>1, <2>2 DEF LogsAreOfTheirSessions
<1>2. Init => Typing /\ Requests /\ Collecting /\ Logs
  BY TypingInit, RequestsInit, CollectingInit, LogsInit
<1>3. /\ Typing /\ Requests /\ Collecting /\ Logs /\ [Next]_vars
      => (Typing /\ Requests /\ Collecting /\ Logs)'
  BY TypingNext, RequestsNext, CollectingNext, LogsNext
<1> QED BY <1>1, <1>2, <1>3, PTL DEF Spec

===============================================================================
