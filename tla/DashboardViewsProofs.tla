------------------------- MODULE DashboardViewsProofs -------------------------
(***************************************************************************)
(* What the views of the dashboard show is true: of the server, of the     *)
(* signals and of themselves, for every value of the constants.  Each view *)
(* has an invariant of its own, which its steps keep and those of the      *)
(* other views do not disturb; the last section puts them together.        *)
(***************************************************************************)
EXTENDS DashboardViews, FiniteSetTheorems, SequenceTheorems, WellFoundedInduction, TLAPS

-----------------------------------------------------------------------------
(* Sequences.                                                              *)

LEMMA BoundedSequences ==
  ASSUME NEW S, NEW n \in Nat, NEW s
  PROVE  s \in BoundedSeq(S, n) <=> s \in Seq(S) /\ Len(s) <= n
<1>1. ASSUME s \in BoundedSeq(S, n)
      PROVE  s \in Seq(S) /\ Len(s) <= n
  <2>1. PICK m \in 0..n : s \in [1..m -> S]
    BY <1>1 DEF BoundedSeq, SeqOf
  <2> QED BY <2>1
<1>2. ASSUME s \in Seq(S), Len(s) <= n
      PROVE  s \in BoundedSeq(S, n)
  <2>1. Len(s) \in 0..n /\ s \in [1..Len(s) -> S]
    BY <1>2
  <2> QED BY <2>1 DEF BoundedSeq, SeqOf
<1> QED BY <1>1, <1>2

(* The set a sequence is over is decided by its elements.                  *)
LEMMA ElementsDecide ==
  ASSUME NEW S, NEW T, NEW s \in Seq(S), \A i \in 1..Len(s) : s[i] \in T
  PROVE  s \in Seq(T)
<1>1. s \in [1..Len(s) -> S] /\ Len(s) \in Nat
  OBVIOUS
<1>2. s \in [1..Len(s) -> T]
  BY <1>1
<1> QED BY <1>1, <1>2

(* What is left of a sequence without one of its places.                   *)
LEMMA Removed ==
  ASSUME NEW S, NEW s \in Seq(S), NEW i \in DOMAIN s
  PROVE  /\ RemoveAt(s, i) \in Seq(S) /\ Len(RemoveAt(s, i)) = Len(s) - 1
         /\ \A k \in DOMAIN RemoveAt(s, i) :
              RemoveAt(s, i)[k] = IF k < i THEN s[k] ELSE s[k + 1]
<1> DEFINE front == SubSeq(s, 1, i - 1)
           back == SubSeq(s, i + 1, Len(s))
<1>1. Len(s) \in Nat /\ i \in 1..Len(s)
  OBVIOUS
<1>2. front \in Seq(S) /\ Len(front) = i - 1 /\ \A k \in 1..(i - 1) : front[k] = s[k]
  BY <1>1, SubSeqProperties
<1>3. back \in Seq(S) /\ Len(back) = Len(s) - i /\ \A k \in 1..(Len(s) - i) : back[k] = s[i + k]
  BY <1>1, SubSeqProperties
<1> HIDE DEF front, back
<1>4. /\ front \o back \in Seq(S) /\ Len(front \o back) = Len(s) - 1
      /\ \A k \in 1..(Len(s) - 1) :
           (front \o back)[k] = IF k < i THEN s[k] ELSE s[k + 1]
  <2>1. front \o back \in Seq(S) /\ Len(front \o back) = Len(front) + Len(back)
    BY <1>2, <1>3, ConcatProperties
  <2>2. ASSUME NEW k \in 1..(Len(s) - 1)
        PROVE  (front \o back)[k] = IF k < i THEN s[k] ELSE s[k + 1]
    <3>1. (front \o back)[k] = IF k <= Len(front) THEN front[k] ELSE back[k - Len(front)]
      BY <1>1, <1>2, <1>3, ConcatProperties
    <3> QED BY <1>1, <1>2, <1>3, <3>1
  <2>3. Len(front \o back) = Len(s) - 1
    BY <1>1, <1>2, <1>3, <2>1
  <2> QED BY <2>1, <2>2, <2>3
<1>5. DOMAIN (front \o back) = 1..(Len(s) - 1)
  BY <1>1, <1>4
<1>6. RemoveAt(s, i) = front \o back
  BY DEF RemoveAt, front, back
<1> QED BY <1>4, <1>5, <1>6

(* What is left of a sequence was in it.                                   *)
LEMMA RemovedWas ==
  ASSUME NEW S, NEW s \in Seq(S), NEW i \in DOMAIN s
  PROVE  /\ RemoveAt(s, i) \in Seq(S) /\ Len(RemoveAt(s, i)) = Len(s) - 1
         /\ \A k \in DOMAIN RemoveAt(s, i) : \E j \in DOMAIN s : RemoveAt(s, i)[k] = s[j]
<1> DEFINE r == RemoveAt(s, i)
<1>1. /\ r \in Seq(S) /\ Len(r) = Len(s) - 1
      /\ \A k \in DOMAIN r : r[k] = IF k < i THEN s[k] ELSE s[k + 1]
  BY Removed
<1> HIDE DEF r
<1>2. Len(s) \in Nat /\ DOMAIN s = 1..Len(s) /\ DOMAIN r = 1..(Len(s) - 1)
  BY <1>1
<1>3. ASSUME NEW k \in DOMAIN r PROVE \E j \in DOMAIN s : r[k] = s[j]
  <2>1. k \in DOMAIN s /\ k + 1 \in DOMAIN s
    BY <1>2
  <2> QED BY <1>1, <2>1
<1> QED BY <1>1, <1>3 DEF r

-----------------------------------------------------------------------------
(* Induction, from the well-foundedness of the natural numbers.            *)
LEMMA Least ==
  ASSUME NEW S \in SUBSET Nat, S # {}
  PROVE  \E m \in S : \A k \in S : m <= k
<1> DEFINE R == {ss \in Nat \X Nat : ss[1] < ss[2]}
<1>1. R = OpToRel(<, Nat)
  BY Zenon DEF OpToRel
<1>2. IsWellFoundedOn(R, Nat)
  BY <1>1, NatLessThanWellFounded
<1>3. PICK m \in S : \A k \in S : ~(<<k, m>> \in R)
  BY <1>2, WFMin, Zenon
<1>4. ASSUME NEW k \in S PROVE m <= k
  <2>1. ~(k < m)
    BY <1>3
  <2> QED BY <2>1
<1> QED BY <1>4

LEMMA InductUpTo ==
  ASSUME NEW n \in Nat, NEW S, 0 \in S, \A m \in 0..(n - 1) : m \in S => m + 1 \in S
  PROVE  \A m \in 0..n : m \in S
<1> DEFINE left == {m \in 0..n : m \notin S}
<1>1. SUFFICES ASSUME left # {} PROVE FALSE
  OBVIOUS
<1>2. PICK m \in left : \A k \in left : m <= k
  <2>1. left \in SUBSET Nat
    OBVIOUS
  <2> HIDE DEF left
  <2> QED BY <1>1, <2>1, Least
<1>3. m \in 1..n /\ m - 1 \notin left
  BY <1>2
<1>4. m - 1 \in 0..(n - 1) /\ m - 1 \in S
  BY <1>3
<1>5. m - 1 + 1 \in S
  BY <1>4
<1> QED BY <1>2, <1>3, <1>5

(* A sum is that of a function of the number of terms.                     *)
SumsTo(f, v, n) == f \in [0..n -> Int] /\ f[0] = 0 /\ \A i \in 1..n : f[i] = f[i - 1] + v[i]

LEMMA SumsExist ==
  ASSUME NEW n \in Nat, NEW v, \A i \in 1..n : v[i] \in Int
  PROVE  \E f : SumsTo(f, v, n)
<1> DEFINE S == {m \in 0..n : \E f : SumsTo(f, v, m)}
<1>1. 0 \in S
  <2> DEFINE f == [i \in 0..0 |-> 0]
  <2>1. SumsTo(f, v, 0)
    BY DEF SumsTo
  <2> QED BY <2>1
<1>2. ASSUME NEW m \in 0..(n - 1), m \in S PROVE m + 1 \in S
  <2>1. PICK f : SumsTo(f, v, m)
    BY <1>2
  <2> DEFINE g == [i \in 0..(m + 1) |-> IF i = m + 1 THEN f[m] + v[m + 1] ELSE f[i]]
  <2>2. v[m + 1] \in Int /\ f[m] \in Int /\ \A i \in 0..m : f[i] \in Int
    BY <2>1 DEF SumsTo
  <2>3. g \in [0..(m + 1) -> Int]
    BY <2>2
  <2>4. g[0] = 0
    BY <2>1 DEF SumsTo
  <2>5. ASSUME NEW i \in 1..(m + 1) PROVE g[i] = g[i - 1] + v[i]
    <3>1. i - 1 \in 0..m /\ g[i - 1] = f[i - 1]
      OBVIOUS
    <3>2. CASE i = m + 1
      BY <3>1, <3>2
    <3>3. CASE i # m + 1
      <4>1. i \in 1..m /\ g[i] = f[i]
        BY <3>3
      <4>2. f[i] = f[i - 1] + v[i]
        BY <2>1, <4>1, Zenon DEF SumsTo
      <4> QED BY <3>1, <4>1, <4>2
    <3> QED BY <3>2, <3>3
  <2>6. SumsTo(g, v, m + 1)
    BY <2>3, <2>4, <2>5 DEF SumsTo
  <2> QED BY <2>6
<1>3. \A m \in 0..n : m \in S
  BY <1>1, <1>2, InductUpTo
<1> QED BY <1>3

LEMMA SumOfIs ==
  ASSUME NEW v \in Seq(Int)
  PROVE  \E f : SumsTo(f, v, Len(v)) /\ SumOf(v) = f[Len(v)]
<1> DEFINE n == Len(v)
           Is(f) == f = [i \in 0..n |-> IF i = 0 THEN 0 ELSE f[i - 1] + v[i]]
           total == CHOOSE f : Is(f)
<1>1. n \in Nat /\ \A i \in 1..n : v[i] \in Int
  OBVIOUS
<1>2. PICK f : SumsTo(f, v, n)
  BY <1>1, SumsExist
<1> HIDE DEF n
<1>3. Is(f)
  BY <1>1, <1>2 DEF SumsTo
<1>4. Is(total)
  BY <1>3
<1>5. SumOf(v) = total[n]
  BY DEF SumOf, n
<1> HIDE DEF total
<1>6. \A m \in 0..n : total[m] \in Int
  <2> DEFINE S == {m \in 0..n : total[m] \in Int}
  <2>1. total[0] \in Int
    BY <1>1, <1>4
  <2>2. ASSUME NEW m \in 0..(n - 1), total[m] \in Int PROVE total[m + 1] \in Int
    <3>1. total[m + 1] = total[m] + v[m + 1]
      BY <1>1, <1>4
    <3> QED BY <1>1, <2>2, <3>1
  <2>3. 0 \in S /\ \A m \in 0..(n - 1) : m \in S => m + 1 \in S
    BY <1>1, <2>1, <2>2
  <2>4. \A m \in 0..n : m \in S
    BY <1>1, <2>3, InductUpTo
  <2> QED BY <2>4
<1>7. SumsTo(total, v, n)
  BY <1>1, <1>4, <1>6 DEF SumsTo
<1> QED BY <1>5, <1>7 DEF n

LEMMA SumsAgree ==
  ASSUME NEW n \in Nat, NEW v, NEW w, NEW f, NEW g, SumsTo(f, v, n), SumsTo(g, w, n),
         \A i \in 1..n : v[i] \in Int /\ w[i] = v[i]
  PROVE  f[n] = g[n]
<1> DEFINE S == {m \in 0..n : f[m] = g[m]}
<1>1. 0 \in S
  BY DEF SumsTo
<1>2. ASSUME NEW m \in 0..(n - 1), m \in S PROVE m + 1 \in S
  <2>1. f[m + 1] = f[m] + v[m + 1] /\ g[m + 1] = g[m] + w[m + 1]
    BY DEF SumsTo
  <2> QED BY <1>2, <2>1
<1>3. \A m \in 0..n : m \in S
  BY <1>1, <1>2, InductUpTo
<1> QED BY <1>3

LEMMA SumAppended ==
  ASSUME NEW v \in Seq(Int), NEW x \in Int
  PROVE  SumOf(v) \in Int /\ SumOf(<< >>) = 0 /\ SumOf(Append(v, x)) = SumOf(v) + x
<1> DEFINE n == Len(v)
           w == Append(v, x)
<1>1. n \in Nat /\ \A i \in 1..n : v[i] \in Int
  OBVIOUS
<1>2. PICK f : SumsTo(f, v, n) /\ SumOf(v) = f[n]
  BY SumOfIs
<1>3. w \in Seq(Int) /\ Len(w) = n + 1 /\ w[n + 1] = x /\ \A i \in 1..n : w[i] = v[i]
  OBVIOUS
<1> HIDE DEF n, w
<1>4. PICK g : SumsTo(g, w, n + 1) /\ SumOf(w) = g[n + 1]
  BY <1>3, SumOfIs
<1> DEFINE h == [i \in 0..n |-> g[i]]
<1>5. SumsTo(h, w, n)
  BY <1>1, <1>4 DEF SumsTo
<1>6. h[n] = f[n]
  BY <1>1, <1>2, <1>3, <1>5, SumsAgree
<1>7. g[n + 1] = g[n] + x
  BY <1>1, <1>3, <1>4 DEF SumsTo
<1>8. SumOf(<< >>) = 0
  <2>1. << >> \in Seq(Int) /\ Len(<< >>) = 0
    OBVIOUS
  <2>2. PICK e : SumsTo(e, << >>, 0) /\ SumOf(<< >>) = e[0]
    BY <2>1, SumOfIs
  <2> QED BY <2>2 DEF SumsTo
<1>9. f[n] \in Int
  BY <1>1, <1>2 DEF SumsTo
<1> QED BY <1>1, <1>2, <1>4, <1>6, <1>7, <1>8, <1>9 DEF w

LEMMA SumBetween ==
  ASSUME NEW v \in Seq(Int), NEW low \in Int, NEW high \in Int,
         \A i \in DOMAIN v : low <= v[i] /\ v[i] <= high
  PROVE  Len(v) * low <= SumOf(v) /\ SumOf(v) <= Len(v) * high
<1> DEFINE n == Len(v)
<1>1. n \in Nat /\ \A i \in 1..n : v[i] \in Int /\ low <= v[i] /\ v[i] <= high
  OBVIOUS
<1>2. PICK f : SumsTo(f, v, n) /\ SumOf(v) = f[n]
  BY SumOfIs
<1> HIDE DEF n
<1> DEFINE S == {m \in 0..n : m * low <= f[m] /\ f[m] <= m * high}
<1>3. 0 \in S
  BY <1>1, <1>2 DEF SumsTo
<1>4. ASSUME NEW m \in 0..(n - 1), m \in S PROVE m + 1 \in S
  <2>1. f[m + 1] = f[m] + v[m + 1] /\ low <= v[m + 1] /\ v[m + 1] <= high
        /\ f[m] \in Int /\ v[m + 1] \in Int
    BY <1>1, <1>2 DEF SumsTo
  <2>2. (m + 1) * low = m * low + low /\ (m + 1) * high = m * high + high
    BY <1>1
  <2>3. m * low \in Int /\ m * high \in Int
    OBVIOUS
  <2> QED BY <1>1, <1>4, <2>1, <2>2, <2>3
<1>5. \A m \in 0..n : m \in S
  BY <1>1, <1>3, <1>4, InductUpTo
<1>6. n \in S
  BY <1>1, <1>5
<1> QED BY <1>2, <1>6 DEF n

-----------------------------------------------------------------------------
(* View: what every step keeps.                                            *)

(* The step, whatever it is, keeps the types of the view.                  *)
LEMMA RefreshedKeeps ==
  ASSUME ViewTypeOK, Refreshed PROVE ViewTypeOK' /\ seen' = recorded' /\ recorded' = recorded
BY DEF ViewTypeOK, Refreshed

LEMMA UnmountedKeeps == ASSUME ViewTypeOK, Unmounted PROVE ViewTypeOK'
BY DEF ViewTypeOK, Unmounted

LEMMA RecordKeeps ==
  ASSUME ViewTypeOK, NEW bound \in Nat, bound <= MaxRecorded, Record(bound)
  PROVE  ViewTypeOK'
BY ViewAssumption DEF ViewTypeOK, Record

LEMMA ViewStays == ASSUME ViewTypeOK, UNCHANGED viewVars PROVE ViewTypeOK'
BY DEF ViewTypeOK, viewVars

-----------------------------------------------------------------------------
(* Accounts.                                                               *)

-----------------------------------------------------------------------------
(* A token made before there were roles, or one of now, which names the    *)
(* permissions of its role (generate_jwt).                                 *)
LEMMA TokenKinds ==
  ASSUME NEW token \in Tokens
  PROVE  /\ token.sub \in Users
         /\ token.exp \in Int
         /\ token.role \in {None, "admin", "member"}
         /\ \/ token.permissions = None
            \/ token.role # None /\ token.permissions = PermissionsForRole(token.role)
         /\ token = [sub |-> token.sub, role |-> token.role,
                     permissions |-> token.permissions, exp |-> token.exp]
BY AccountsAssumption DEF Tokens, OldTokens

(* What generate_jwt makes is a token.                                     *)
LEMMA MadeIsToken ==
  ASSUME AccountsTypeOK, NEW user \in Users
  PROVE  /\ GenerateJwt(user) \in Tokens
         /\ GenerateJwt(user).sub = user
         /\ GenerateJwt(user).exp = clock + Expiry
         /\ GenerateJwt(user).role \in {"admin", "member"}
         /\ GenerateJwt(user).permissions \in SUBSET Permissions
         /\ GenerateJwt(user).permissions = PermissionsForRole(GenerateJwt(user).role)
<1> DEFINE role == ServerRole(roles[user])
<1>1. role \in {"admin", "member"}
  BY DEF ServerRole
<1>2. clock + Expiry \in Expiry..(MaxClock + Expiry)
  BY AccountsAssumption DEF AccountsTypeOK
<1>3. PermissionsForRole(role) \in SUBSET Permissions
  BY DEF PermissionsForRole, Permissions
<1>4. GenerateJwt(user) = [sub |-> user, role |-> role,
                          permissions |-> PermissionsForRole(role), exp |-> clock + Expiry]
  BY DEF GenerateJwt
<1> HIDE DEF role
<1> QED BY <1>1, <1>2, <1>3, <1>4 DEF Tokens

(* What buildSessionFromToken makes of a token.                            *)
LEMMA SessionOfToken ==
  ASSUME NEW token \in Tokens
  PROVE  LET of == BuildSession(token, NoUser)
         IN /\ of.token = token
            /\ of.username = token.sub
            /\ of.role = IF token.role = None THEN "member" ELSE token.role
            /\ of.role \in {"admin", "member"}
            /\ of.permissions \subseteq Permissions
            /\ of.permissions = NormalizePermissions(token.permissions, of.role)
<1>1. /\ NoUser.username = None /\ NoUser.role = None /\ NoUser.permissions = None
  BY DEF NoUser
<1>2. token.role \in {None, "admin", "member"}
  BY TokenKinds
<1>3. NormalizeRole(token, NoUser) = IF token.role = None THEN "member" ELSE token.role
  BY <1>1, <1>2, AccountsAssumption DEF NormalizeRole, Given
<1>4. NormalizePermissions(token.permissions, NormalizeRole(token, NoUser)) \subseteq Permissions
  BY DEF NormalizePermissions, Permissions
<1> QED BY <1>1, <1>2, <1>3, <1>4, AccountsAssumption DEF BuildSession, Given

(* The session a login builds of the server's answer is the one a reload   *)
(* builds of the token.                                                    *)
LEMMA AnswerAgrees ==
  ASSUME AccountsTypeOK, NEW user \in Users
  PROVE  LET token == GenerateJwt(user)
         IN BuildSession(token, [username |-> user, role |-> token.role,
                                 permissions |-> token.permissions])
              = BuildSession(token, NoUser)
<1> DEFINE token == GenerateJwt(user)
           answer == [username |-> user, role |-> token.role, permissions |-> token.permissions]
<1>1. /\ token.sub = user
      /\ token.role \in {"admin", "member"}
      /\ token.permissions \in SUBSET Permissions
  BY MadeIsToken
<1>2. token.role # None /\ token.permissions # None /\ user # None
  BY <1>1, AccountsAssumption
<1>3. /\ answer.username = user /\ answer.role = token.role
      /\ answer.permissions = token.permissions
  OBVIOUS
<1>4. /\ NoUser.username = None /\ NoUser.role = None /\ NoUser.permissions = None
  BY DEF NoUser
<1> HIDE DEF token, answer
<1>5. NormalizeRole(token, answer) = NormalizeRole(token, NoUser)
  BY <1>2, <1>3, <1>4 DEF NormalizeRole, Given
<1>6. BuildSession(token, answer) = BuildSession(token, NoUser)
  BY <1>1, <1>2, <1>3, <1>4, <1>5 DEF BuildSession, Given
<1> QED BY <1>6 DEF token, answer

-----------------------------------------------------------------------------
(* A session is sound, for the token kept and the hour: it is the one    *)
(* its token gives, and that is no newer than the one kept, nor than one *)
(* made now would be.                                                      *)
Sound(of, kept, now) ==
  of # None =>
    /\ of.token \in Tokens /\ of.role \in {"admin", "member"}
    /\ of.username \in Users /\ of.permissions \subseteq Permissions
    /\ of = BuildSession(of.token, NoUser)
    /\ of.token.exp <= now + Expiry
    /\ kept # None => kept.exp >= of.token.exp

LEMMA BuiltIsSound ==
  ASSUME NEW token \in Tokens, NEW kept, NEW now,
         token.exp <= now + Expiry, kept # None => kept.exp >= token.exp
  PROVE  Sound(BuildSession(token, NoUser), kept, now)
<1> DEFINE of == BuildSession(token, NoUser)
<1>1. /\ of.token = token /\ of.username = token.sub
      /\ of.role \in {"admin", "member"} /\ of.permissions \subseteq Permissions
  BY SessionOfToken
<1>2. token.sub \in Users
  BY TokenKinds
<1>3. of = BuildSession(of.token, NoUser)
  BY <1>1
<1> HIDE DEF of
<1>4. Sound(of, kept, now)
  BY <1>1, <1>2, <1>3 DEF Sound
<1> QED BY <1>4 DEF of

(* It stays so as time passes and when the token kept goes, and when the *)
(* one that replaces it is made now.                                       *)
LEMMA SoundStays ==
  ASSUME NEW of, NEW kept, NEW now \in Int, Sound(of, kept, now),
         NEW kept2, NEW now2 \in Int, now2 >= now,
         \/ kept2 = kept
         \/ kept2 = None
         \/ kept2.exp = now + Expiry
  PROVE  Sound(of, kept2, now2)
<1>1. of # None => of.token.exp \in Int
  BY TokenKinds DEF Sound
<1> QED BY <1>1, AccountsAssumption DEF Sound

(* The inductive invariant: types, and every session, begun or about to    *)
(* be, is sound.                                                           *)
AccountsInv ==
  /\ roles \in [Users -> StoredRoles]
  /\ clock \in 0..MaxClock /\ logins \in 0..MaxLogins
  /\ jwt \in Tokens \union {None}
  /\ jwt # None => jwt.exp <= clock + Expiry
  /\ DOMAIN beginning = Tabs /\ DOMAIN session = Tabs
  /\ \A tab \in Tabs : Sound(beginning[tab], jwt, clock) /\ Sound(session[tab], jwt, clock)

LEMMA AccountsInvTypes == AccountsInv => AccountsTypeOK
BY DEF AccountsInv, AccountsTypeOK, Sound

LEMMA AccountsInvInit == AccountsInit => AccountsInv
<1> SUFFICES ASSUME AccountsInit PROVE AccountsInv
  OBVIOUS
<1>1. roles \in [Users -> StoredRoles]
  BY DEF AccountsInit, StoredRoles
<1>2. clock = 0 /\ logins = 0 /\ jwt \in OldTokens \union {None}
  BY DEF AccountsInit
<1>3. /\ clock \in 0..MaxClock /\ logins \in 0..MaxLogins
      /\ jwt \in Tokens \union {None}
      /\ jwt # None => jwt.exp <= clock + Expiry
  BY <1>2, AccountsAssumption DEF Tokens, OldTokens
<1>4. /\ DOMAIN beginning = Tabs /\ DOMAIN session = Tabs
      /\ \A tab \in Tabs : beginning[tab] = None /\ session[tab] = None
  BY DEF AccountsInit
<1> QED BY <1>1, <1>3, <1>4 DEF AccountsInv, Sound

LEMMA AccountsInvNext == AccountsInv /\ AccountsNext => AccountsInv'
<1> SUFFICES ASSUME AccountsInv, AccountsNext PROVE AccountsInv'
  OBVIOUS
<1>1. clock \in Int /\ clock + Expiry \in Int /\ AccountsTypeOK
  BY AccountsInvTypes, AccountsAssumption DEF AccountsInv
<1>2. ASSUME NEW tab \in Tabs, NEW user \in Users, LogIn(tab, user)
      PROVE  AccountsInv'
  <2> DEFINE token == GenerateJwt(user)
             begun == BuildSession(token, NoUser)
  <2>1. token \in Tokens /\ token.exp = clock + Expiry
    BY <1>1, MadeIsToken
  <2>2. /\ jwt' = token /\ beginning' = [beginning EXCEPT ![tab] = begun]
        /\ logins < MaxLogins /\ logins' = logins + 1
        /\ UNCHANGED <<roles, clock, session>>
    BY <1>1, <1>2, AnswerAgrees DEF LogIn, StoreToken
  <2>3. Sound(begun, token, clock)
    BY <1>1, <2>1, BuiltIsSound
  <2> HIDE DEF token, begun
  <2>4. \A t \in Tabs : /\ Sound(beginning[t], token, clock)
                        /\ Sound(session[t], token, clock)
    BY <1>1, <2>1, SoundStays DEF AccountsInv
  <2>5. \A t \in Tabs : /\ Sound(beginning'[t], jwt', clock')
                        /\ Sound(session'[t], jwt', clock')
    BY <2>2, <2>3, <2>4 DEF AccountsInv
  <2> QED BY <1>1, <2>1, <2>2, <2>5, AccountsAssumption DEF AccountsInv
<1>3. ASSUME NEW tab \in Tabs, ReloadTab(tab)
      PROVE  AccountsInv'
  <2>1. /\ jwt' \in {jwt, None} /\ session' = [session EXCEPT ![tab] = None]
        /\ UNCHANGED <<roles, clock, logins>>
    BY <1>3 DEF ReloadTab
  <2>2. PICK begun : /\ beginning' = [beginning EXCEPT ![tab] = begun]
                     /\ begun = IF jwt' = None THEN None ELSE BuildSession(jwt, NoUser)
    BY <1>3 DEF ReloadTab
  <2>3. Sound(begun, jwt', clock)
    <3>1. CASE jwt' = None
      BY <2>2, <3>1 DEF Sound
    <3>2. CASE jwt' # None
      <4>1. jwt' = jwt /\ jwt \in Tokens /\ jwt.exp <= clock + Expiry /\ jwt.exp \in Int
        BY <2>1, <3>2, TokenKinds DEF AccountsInv
      <4> QED BY <2>2, <3>2, <4>1, BuiltIsSound
    <3> QED BY <3>1, <3>2
  <2>4. \A t \in Tabs : /\ Sound(beginning[t], jwt', clock)
                        /\ Sound(session[t], jwt', clock)
    BY <1>1, <2>1, SoundStays DEF AccountsInv
  <2>5. \A t \in Tabs : /\ Sound(beginning'[t], jwt', clock')
                        /\ Sound(session'[t], jwt', clock')
    BY <2>1, <2>2, <2>3, <2>4 DEF AccountsInv, Sound
  <2> QED BY <2>1, <2>2, <2>5 DEF AccountsInv
<1>4. ASSUME NEW tab \in Tabs, SessionBegins(tab)
      PROVE  AccountsInv'
  BY <1>4 DEF SessionBegins, AccountsInv, Sound
<1>5. ASSUME NEW tab \in Tabs, SessionEnds(tab)
      PROVE  AccountsInv'
  BY <1>5 DEF SessionEnds, AccountsInv, Sound
<1>6. CASE RoleChanges
  BY <1>6, AccountsAssumption DEF RoleChanges, browser, AccountsInv
<1>7. CASE ServerStarts
  BY <1>7 DEF ServerStarts, browser, StoredRoles, AccountsInv
<1>8. CASE HourPasses
  <2>1. /\ clock' \in 0..MaxClock /\ clock' = clock + 1
        /\ UNCHANGED <<roles, jwt, beginning, session, logins>>
    BY <1>8, AccountsAssumption DEF HourPasses, browser, AccountsInv
  <2>2. \A t \in Tabs : /\ Sound(beginning[t], jwt, clock + 1)
                        /\ Sound(session[t], jwt, clock + 1)
    BY <1>1, SoundStays DEF AccountsInv
  <2>3. jwt # None => jwt.exp <= clock + 1 + Expiry
    BY <1>1, TokenKinds, AccountsAssumption DEF AccountsInv
  <2> QED BY <2>1, <2>2, <2>3 DEF AccountsInv
<1> QED BY <1>2, <1>3, <1>4, <1>5, <1>6, <1>7, <1>8 DEF AccountsNext

-----------------------------------------------------------------------------
(* With the permissions of a role a token grants what the role does.       *)
LEMMA RoleDecides ==
  ASSUME NEW role \in {"admin", "member"}
  PROVE  LET held == NormalizePermissions(PermissionsForRole(role), role)
         IN /\ held = PermissionsForRole(role)
            /\ "telemetry:start" \in held <=> role = "admin"
            /\ "telemetry:stop" \in held <=> role = "admin"
            /\ "logs:read" \in held
<1>1. PermissionsForRole(role) \in SUBSET Permissions
  BY DEF PermissionsForRole, Permissions
<1>2. NormalizePermissions(PermissionsForRole(role), role) = PermissionsForRole(role)
  BY <1>1, AccountsAssumption DEF NormalizePermissions
<1> QED BY <1>2 DEF PermissionsForRole, Permissions

LEMMA AccountsShown == AccountsInv => ShownIsGranted
<1> SUFFICES ASSUME AccountsInv, NEW tab \in Tabs, session[tab] # None, Validates(session[tab].token)
             PROVE  /\ AdminTabShown(session[tab]) <=> GrantsAdmin(session[tab].token)
                    /\ session[tab].token.permissions # None =>
                         /\ \A live \in BOOLEAN :
                              /\ ControlsShown(session[tab], live) <=> GrantsAdmin(session[tab].token)
                              /\ ControlsShown(session[tab], live) <=>
                                   Grants(session[tab].token,
                                          IF live THEN "telemetry:stop" ELSE "telemetry:start")
                         /\ CanDownload(session[tab]) <=> Grants(session[tab].token, "logs:read")
  BY DEF ShownIsGranted
<1> DEFINE of == session[tab]
           token == of.token
<1>1. token \in Tokens /\ of = BuildSession(token, NoUser)
  BY DEF AccountsInv, Sound
<1>2. /\ of.role = IF token.role = None THEN "member" ELSE token.role
      /\ of.permissions = NormalizePermissions(token.permissions, of.role)
  BY <1>1, SessionOfToken
<1>3. Claims(token).role = of.role
  BY <1>2 DEF Claims
<1>4. Validates(token)
  OBVIOUS
<1>5. \/ token.permissions = None
      \/ /\ token.role \in {"admin", "member"} /\ of.role = token.role
         /\ token.permissions = PermissionsForRole(token.role)
  BY <1>1, <1>2, TokenKinds
<1> HIDE DEF of, token
<1>6. AdminTabShown(of) <=> GrantsAdmin(token)
  BY <1>3, <1>4 DEF AdminTabShown, GrantsAdmin
<1>7. ASSUME token.permissions # None
      PROVE  /\ of.permissions = token.permissions
             /\ "telemetry:start" \in of.permissions <=> of.role = "admin"
             /\ "telemetry:stop" \in of.permissions <=> of.role = "admin"
             /\ "logs:read" \in of.permissions
             /\ Claims(token).permissions = token.permissions
  BY <1>2, <1>5, <1>7, RoleDecides DEF Claims
<1>8. ASSUME token.permissions # None, NEW live \in BOOLEAN
      PROVE  /\ ControlsShown(of, live) <=> GrantsAdmin(token)
             /\ ControlsShown(of, live) <=>
                  Grants(token, IF live THEN "telemetry:stop" ELSE "telemetry:start")
  BY <1>3, <1>4, <1>7, <1>8 DEF ControlsShown, HasPermission, Grants, GrantsAdmin
<1>9. ASSUME token.permissions # None
      PROVE  CanDownload(of) <=> Grants(token, "logs:read")
  BY <1>4, <1>7, <1>9 DEF CanDownload, HasPermission, Grants
<1> QED BY <1>6, <1>8, <1>9 DEF of, token

LEMMA AccountsReload == AccountsInv => ReloadKeepsSession
BY DEF AccountsInv, Sound, ReloadKeepsSession

-----------------------------------------------------------------------------
(* MotecChart.                                                             *)

(* The version v is drawn, or asked for by what is under way.              *)
Coming(v) ==
  \/ drawn >= v
  \/ opening # None /\ opening.asked >= v
  \/ \E i \in DOMAIN updates : updates[i] >= v

ChartInv ==
  /\ ViewTypeOK /\ ChartTypeOK
  /\ opening # None => opening.asked <= recorded
  /\ \A i \in DOMAIN updates : updates[i] <= recorded
  /\ drawn <= recorded
  /\ alive = IF Chart THEN 1 ELSE 0
  \* Nothing is opened beside a chart, nor updated without one.
  /\ opening # None => ~Chart
  /\ updates # << >> => Chart \/ ~mounted
  \* The effect is made by the first opening, which ends but once.
  /\ opening # None /\ opening.first => ~effect
  /\ ~mounted => ~Chart
  /\ ~mounted /\ observer => leftEarly
  /\ ~mounted /\ opening # None /\ opening.first => leftEarly
  \* No other view has a chart.
  /\ view # "chart" => opening = None /\ updates = << >> /\ ~effect /\ ~observer /\ ~raf /\ ~Chart
  \* A change seen is drawn, asked for, or refused.
  /\ mounted /\ effect /\ ~raf => refused \/ Coming(seen)

LEMMA ChartTypes ==
  ChartInv =>
    /\ opening = None \/ (opening.first \in BOOLEAN /\ opening.asked \in 0..MaxRecorded)
    /\ updates \in Seq(0..MaxRecorded) /\ Len(updates) <= MaxFlushes
    /\ drawn \in Nat /\ recorded \in Nat /\ seen \in Nat
    /\ seen <= recorded /\ recorded <= MaxRecorded
    /\ raf \in BOOLEAN /\ effect \in BOOLEAN /\ observer \in BOOLEAN
    /\ refused \in BOOLEAN /\ leftEarly \in BOOLEAN /\ mounted \in BOOLEAN
<1> SUFFICES ASSUME ChartInv PROVE  /\ opening = None \/ (opening.first \in BOOLEAN /\ opening.asked \in 0..MaxRecorded)
    /\ updates \in Seq(0..MaxRecorded) /\ Len(updates) <= MaxFlushes
    /\ drawn \in Nat /\ recorded \in Nat /\ seen \in Nat
    /\ seen <= recorded /\ recorded <= MaxRecorded
    /\ raf \in BOOLEAN /\ effect \in BOOLEAN /\ observer \in BOOLEAN
    /\ refused \in BOOLEAN /\ leftEarly \in BOOLEAN /\ mounted \in BOOLEAN
  OBVIOUS
<1>1. updates \in Seq(0..MaxRecorded) /\ Len(updates) <= MaxFlushes
  BY BoundedSequences, ChartAssumption, Zenon DEF ChartInv, ChartTypeOK
<1> QED BY <1>1, ViewAssumption DEF ChartInv, ChartTypeOK, ViewTypeOK

LEMMA ChartInvInit == ViewInit /\ ChartInit => ChartInv
<1> SUFFICES ASSUME ViewInit, ChartInit PROVE ChartInv
  OBVIOUS
<1>1. ViewTypeOK
  BY ViewAssumption DEF ViewInit, ViewTypeOK, Views
<1>2. updates \in BoundedSeq(0..MaxRecorded, MaxFlushes)
  <2>1. updates \in Seq(0..MaxRecorded) /\ Len(updates) <= MaxFlushes /\ MaxFlushes \in Nat
    BY ChartAssumption DEF ChartInit
  <2> QED BY <2>1, BoundedSequences, Zenon
<1>3. opening \in {None} \union [first : BOOLEAN, asked : 0..MaxRecorded]
  <2>1. recorded \in 0..MaxRecorded
    BY <1>1 DEF ViewTypeOK
  <2> QED BY <2>1 DEF ChartInit
<1>4. ChartTypeOK
  <2>1. drawn \in 0..MaxRecorded /\ alive \in Nat
    BY ViewAssumption DEF ChartInit
  <2>2. /\ raf \in BOOLEAN /\ effect \in BOOLEAN /\ observer \in BOOLEAN
        /\ refused \in BOOLEAN /\ leftEarly \in BOOLEAN
    BY Zenon DEF ChartInit
  <2> QED BY <1>2, <1>3, <2>1, <2>2 DEF ChartTypeOK
<1> QED BY <1>1, <1>4, ChartAssumption DEF ChartInit, ChartInv, Chart, ViewTypeOK, ViewInit

LEMMA ChartInvNext ==
  ASSUME ChartInv, view = "chart", ChartNext PROVE ChartInv'
<1> USE ChartAssumption, ViewAssumption
<1>0. /\ opening = None \/ (opening.first \in BOOLEAN /\ opening.asked \in 0..MaxRecorded)
      /\ updates \in Seq(0..MaxRecorded) /\ Len(updates) <= MaxFlushes
      /\ drawn \in Nat /\ recorded \in Nat /\ seen \in Nat
      /\ seen <= recorded /\ recorded <= MaxRecorded
      /\ raf \in BOOLEAN /\ effect \in BOOLEAN /\ observer \in BOOLEAN
      /\ refused \in BOOLEAN /\ leftEarly \in BOOLEAN /\ mounted \in BOOLEAN
  BY ChartTypes
<1>1. CASE Record(MaxRecorded) /\ UNCHANGED chartVars
  <2>1. ViewTypeOK'
    BY <1>1, RecordKeeps DEF ChartInv
  <2>2. ChartTypeOK' /\ Coming(seen)' = Coming(seen) /\ Chart' = Chart
    BY <1>1 DEF ChartInv, ChartTypeOK, chartVars, Coming, Record, Chart
  <2>3. recorded' = recorded + 1 /\ UNCHANGED <<view, mounted, seen>>
    BY <1>1 DEF Record
  <2> QED BY <1>0, <1>1, <2>1, <2>2, <2>3 DEF ChartInv, chartVars
<1>2. CASE ChartRefreshed
  <2>1. ViewTypeOK'
    BY <1>2, RefreshedKeeps DEF ChartInv, ChartRefreshed
  <2>2. ChartTypeOK'
    BY <1>0, <1>2 DEF ChartInv, ChartTypeOK, ChartRefreshed, Scheduled
  <2> QED BY <1>0, <1>2, <2>1, <2>2 DEF ChartInv, ChartRefreshed, Refreshed, Scheduled, Chart
<1>3. CASE FlushChart
  <2>0. UNCHANGED <<viewVars, effect, observer, drawn, alive, leftEarly>> /\ raf /\ raf' = FALSE
    BY <1>3 DEF FlushChart
  <2>1. ViewTypeOK'
    BY <2>0 DEF viewVars, ChartInv, ViewTypeOK
  <2>2. CASE /\ Chart
             /\ Len(updates) < MaxFlushes
             /\ updates' = Append(updates, recorded)
             /\ UNCHANGED <<opening, refused>>
    <3>1. /\ updates' \in Seq(0..MaxRecorded) /\ Len(updates') <= MaxFlushes
          /\ \A i \in DOMAIN updates' : updates'[i] <= recorded
          /\ \E i \in DOMAIN updates' : updates'[i] >= seen
      <4>1. /\ Len(updates') = Len(updates) + 1 /\ updates' \in Seq(0..MaxRecorded)
            /\ updates'[Len(updates) + 1] = recorded
            /\ \A i \in 1..Len(updates) : updates'[i] = updates[i]
            /\ DOMAIN updates' = 1..(Len(updates) + 1)
        BY <1>0, <2>2
      <4>2. Len(updates) + 1 \in DOMAIN updates'
        BY <1>0, <4>1
      <4> QED BY <1>0, <2>2, <4>1, <4>2 DEF ChartInv
    <3>2. updates' \in BoundedSeq(0..MaxRecorded, MaxFlushes)
      BY <3>1, BoundedSequences, Zenon
    <3>3. ChartTypeOK'
      BY <1>0, <2>0, <2>2, <3>2 DEF ChartInv, ChartTypeOK
    <3> QED BY <1>0, <2>0, <2>1, <2>2, <3>1, <3>3 DEF ChartInv, viewVars, Chart, Coming
  <2>3. CASE /\ ~Chart
             /\ mounted /\ opening = None
             /\ opening' = [first |-> FALSE, asked |-> recorded]
             /\ refused' = FALSE
             /\ UNCHANGED updates
    <3>1. /\ opening' \in [first : BOOLEAN, asked : 0..MaxRecorded]
          /\ opening'.asked = recorded /\ opening'.first = FALSE
      BY <1>0, <2>3
    <3>2. ChartTypeOK'
      <4>1. refused' \in BOOLEAN
        BY <2>3
      <4> QED BY <1>0, <2>0, <2>3, <3>1, <4>1 DEF ChartInv, ChartTypeOK
    <3>3. opening' # None
      BY <3>1
    <3> QED BY <1>0, <2>0, <2>1, <2>3, <3>1, <3>2, <3>3 DEF ChartInv, viewVars, Chart, Coming
  <2>4. CASE /\ ~Chart
             /\ opening # None \/ ~mounted
             /\ refused' = TRUE
             /\ UNCHANGED <<opening, updates>>
    <3>1. ChartTypeOK'
      <4>1. refused' \in BOOLEAN
        BY <2>4
      <4> QED BY <1>0, <2>0, <2>4, <4>1 DEF ChartInv, ChartTypeOK
    <3> QED BY <1>0, <2>0, <2>1, <2>4, <3>1 DEF ChartInv, viewVars, Chart, Coming
  <2> QED BY <1>3, <2>2, <2>3, <2>4 DEF FlushChart
<1>4. CASE ChartOpens
  <2>0. /\ opening # None /\ opening' = None
        /\ effect' = (effect \/ opening.first)
        /\ observer' = (observer \/ opening.first)
        /\ raf' = (raf \/ opening.first)
        /\ UNCHANGED <<viewVars, updates, refused, leftEarly>>
    BY <1>4 DEF ChartOpens
  <2>1. ViewTypeOK'
    BY <2>0 DEF viewVars, ChartInv, ViewTypeOK
  <2>2. PICK version \in Answers(opening.asked) :
          IF MayCreate(version) THEN drawn' = version /\ alive' = alive + 1
          ELSE UNCHANGED <<drawn, alive>>
    BY <1>4 DEF ChartOpens
  <2>3. version \in Nat /\ opening.asked <= version /\ version <= recorded /\ ~Chart /\ alive = 0
    BY <1>0, <2>0 DEF Answers, ChartInv
  <2>4. /\ drawn' \in 0..MaxRecorded /\ drawn' <= recorded
        /\ alive' = IF drawn' > 0 THEN 1 ELSE 0
        /\ mounted => drawn' >= opening.asked
        /\ ~mounted => drawn' = 0
    BY <1>0, <2>2, <2>3 DEF MayCreate, Chart, ChartInv
  <2>5. ChartTypeOK'
    BY <1>0, <2>0, <2>4 DEF ChartInv, ChartTypeOK
  <2> QED BY <1>0, <2>0, <2>1, <2>3, <2>4, <2>5 DEF ChartInv, viewVars, Chart, Coming
<1>5. CASE ChartUpdates
  <2>0. /\ updates # << >> /\ updates' = Tail(updates)
        /\ UNCHANGED <<viewVars, opening, effect, observer, raf, alive, refused, leftEarly>>
    BY <1>5 DEF ChartUpdates
  <2>1. ViewTypeOK'
    BY <2>0 DEF viewVars, ChartInv, ViewTypeOK
  <2>2. PICK version \in Answers(Head(updates)) :
          /\ version >= drawn
          /\ drawn' = IF Chart THEN version ELSE drawn
    BY <1>5 DEF ChartUpdates
  <2>3. /\ Head(updates) = updates[1] /\ 1 \in DOMAIN updates /\ updates[1] \in Nat
        /\ updates' \in Seq(0..MaxRecorded) /\ Len(updates') <= MaxFlushes
        /\ \A i \in DOMAIN updates' : i + 1 \in DOMAIN updates /\ updates'[i] = updates[i + 1]
        /\ \A i \in DOMAIN updates : i = 1 \/ (i - 1 \in DOMAIN updates' /\ updates'[i - 1] = updates[i])
    BY <1>0, <2>0, HeadTailProperties
  <2>4. version \in Nat /\ updates[1] <= version /\ version <= recorded
    BY <1>0, <2>3 DEF Answers
  <2>5. /\ drawn' \in 0..MaxRecorded /\ drawn' <= recorded /\ drawn' >= drawn
        /\ Chart' = Chart
        /\ Chart => drawn' >= updates[1]
    BY <1>0, <2>2, <2>3, <2>4 DEF Chart, ChartInv
  <2>6. updates' \in BoundedSeq(0..MaxRecorded, MaxFlushes)
    BY <2>3, BoundedSequences, Zenon
  <2>7. ChartTypeOK'
    BY <1>0, <2>0, <2>5, <2>6 DEF ChartInv, ChartTypeOK
  <2>8. ASSUME mounted, Coming(seen) PROVE Coming(seen)'
    <3>1. Chart
      BY <2>0, <2>8 DEF ChartInv
    <3>2. CASE drawn >= seen
      BY <1>0, <2>0, <2>5, <3>2 DEF Coming, viewVars
    <3>3. CASE opening # None /\ opening.asked >= seen
      BY <1>0, <2>0, <3>3 DEF Coming, viewVars
    <3>4. CASE \E i \in DOMAIN updates : updates[i] >= seen
      <4>1. PICK i \in DOMAIN updates : updates[i] >= seen
        BY <3>4
      <4>2. CASE i = 1
        BY <1>0, <2>0, <2>3, <2>5, <3>1, <4>1, <4>2 DEF Coming, viewVars
      <4>3. CASE i # 1
        BY <2>0, <2>3, <4>1, <4>3 DEF Coming, viewVars
      <4> QED BY <4>2, <4>3
    <3> QED BY <2>8, <3>2, <3>3, <3>4 DEF Coming
  <2>9. \A i \in DOMAIN updates' : updates'[i] <= recorded
    BY <2>3 DEF ChartInv
  <2> QED BY <1>0, <2>0, <2>1, <2>3, <2>5, <2>7, <2>8, <2>9 DEF ChartInv, viewVars
<1>6. CASE ChartCleanup
  <2>1. ViewTypeOK'
    BY <1>6, UnmountedKeeps DEF ChartInv, ChartCleanup
  <2>2. alive' = 0 /\ ~Chart' /\ ~mounted'
    BY <1>0, <1>6 DEF ChartInv, ChartCleanup, Chart, Unmounted
  <2>3. ChartTypeOK'
    <3>1. /\ leftEarly' \in BOOLEAN /\ raf' \in BOOLEAN /\ observer' \in BOOLEAN
          /\ UNCHANGED <<opening, updates, effect, refused>>
      BY <1>6, Zenon DEF ChartCleanup, ObserverAfterCleanup
    <3>2. drawn' \in 0..MaxRecorded
      BY <1>6 DEF ChartCleanup
    <3> QED BY <1>0, <2>2, <3>1, <3>2 DEF ChartInv, ChartTypeOK
  <2> QED BY <1>0, <1>6, <2>1, <2>2, <2>3 DEF ChartInv, ChartCleanup, Unmounted, ObserverAfterCleanup, Chart
<1> QED BY <1>1, <1>2, <1>3, <1>4, <1>5, <1>6 DEF ChartNext

LEMMA ChartInvElsewhere ==
  ASSUME ChartInv, view # "chart", UNCHANGED <<view, chartVars>>, ViewTypeOK' PROVE ChartInv'
<1>1. UNCHANGED <<opening, updates, effect, observer, raf, drawn, alive, refused, leftEarly, view>>
  BY DEF chartVars
<1>2. opening = None /\ updates = << >> /\ ~effect /\ ~observer /\ ~raf /\ ~Chart
  BY DEF ChartInv
<1>3. ChartTypeOK' /\ Chart' = Chart
  BY <1>1 DEF ChartInv, ChartTypeOK, Chart
<1>4. drawn' = 0 /\ recorded' \in Nat
  BY <1>1, <1>2, ChartTypes, ViewAssumption DEF Chart, ViewTypeOK
<1>5. DOMAIN updates' = {}
  BY <1>1, <1>2
<1> QED BY <1>1, <1>2, <1>3, <1>4, <1>5 DEF ChartInv

LEMMA ChartInvImplies == ChartInv => ChartEndsWithView /\ ChartIsCurrent
<1> SUFFICES ASSUME ChartInv PROVE ChartEndsWithView /\ ChartIsCurrent
  OBVIOUS
<1>1. /\ drawn \in Nat /\ recorded \in Nat /\ seen \in Nat
  BY ChartTypes
<1>2. ChartEndsWithView
  BY <1>1 DEF ChartInv, ChartEndsWithView, Chart
<1>3. ChartIsCurrent
  <2>1. updates = << >> => DOMAIN updates = {}
    OBVIOUS
  <2> QED BY <1>1, <2>1 DEF ChartInv, ChartIsCurrent, Coming
<1> QED BY <1>2, <1>3

-----------------------------------------------------------------------------
(* HistoryReferenceChart.                                                  *)

Signals == {Reference} \union Analysis

(* What a load has brought is of the selection, no older than v, and the   *)
(* rows are computed from it.                                              *)
LoadedSince(v) ==
  /\ DOMAIN buffers = Visible
  /\ \A n \in Visible : buffers[n] >= v
  /\ sampleRows = SampleRows(buffers, cursor)
  /\ windowRows = WindowRows(buffers, range)

HistoryInv ==
  /\ ViewTypeOK /\ HistoryTypeOK
  /\ loading # None => loading.asked <= recorded
  /\ \A n \in DOMAIN buffers : buffers[n] <= recorded
  /\ view # "history" => loading = None /\ ~timer /\ DOMAIN buffers = {}
  \* What changed last waits for the timer, is being loaded or is shown.
  /\ view = "history" /\ mounted /\ ~timer /\ ~passed =>
       \/ loading # None /\ loading.names = Visible /\ loading.asked >= seen
       \/ loading = None /\ LoadedSince(seen)

LEMMA HistoryTypes ==
  ASSUME HistoryInv
  PROVE  /\ seen \in Nat /\ recorded \in Nat /\ seen <= recorded /\ recorded <= MaxRecorded
         /\ mounted \in BOOLEAN /\ timer \in BOOLEAN /\ passed \in BOOLEAN
         /\ selection \subseteq Analysis /\ Visible \subseteq Signals
         /\ loading = None \/ (loading.names \subseteq Signals /\ loading.asked \in 0..MaxRecorded)
         /\ \A n \in DOMAIN buffers : buffers[n] \in 0..MaxRecorded
         /\ DOMAIN buffers \subseteq Signals
BY ViewAssumption DEF HistoryInv, HistoryTypeOK, ViewTypeOK, Visible, Signals

LEMMA HistoryInvInit == ViewInit /\ HistoryInit => HistoryInv
<1> SUFFICES ASSUME ViewInit, HistoryInit PROVE HistoryInv
  OBVIOUS
<1>1. ViewTypeOK /\ recorded \in 0..MaxRecorded /\ seen = recorded
  BY ViewAssumption DEF ViewInit, ViewTypeOK, Views
<1>2. selection \subseteq Analysis /\ DOMAIN buffers = {}
  BY DEF HistoryInit
<1>3. view = "history" => loading \in [names : SUBSET Signals, asked : 0..MaxRecorded]
                            /\ loading.names = Visible /\ loading.asked = recorded
  BY <1>1, <1>2 DEF HistoryInit, Signals, Visible
<1>4. timer \in BOOLEAN /\ passed \in BOOLEAN
  BY Zenon DEF HistoryInit
<1>5. HistoryTypeOK
  BY <1>1, <1>2, <1>3, <1>4, HistoryAssumption DEF HistoryInit, HistoryTypeOK, Signals, Positions
<1>6. view # "history" => ~timer
  BY Zenon DEF HistoryInit
<1>7. view # "history" => loading = None
  BY DEF HistoryInit
<1> HIDE DEF Signals
<1>8. view = "history" => loading # None
  BY <1>3, HistoryAssumption DEF Signals
<1> QED BY <1>1, <1>2, <1>3, <1>5, <1>6, <1>7, <1>8 DEF HistoryInv

LEMMA HistoryInvNext ==
  ASSUME HistoryInv, view = "history", HistoryNext PROVE HistoryInv'
<1>0. /\ seen \in Nat /\ recorded \in Nat /\ seen <= recorded /\ recorded <= MaxRecorded
      /\ mounted \in BOOLEAN /\ timer \in BOOLEAN /\ passed \in BOOLEAN
      /\ selection \subseteq Analysis /\ Visible \subseteq Signals
      /\ loading = None \/ (loading.names \subseteq Signals /\ loading.asked \in 0..MaxRecorded)
      /\ \A n \in DOMAIN buffers : buffers[n] \in 0..MaxRecorded
      /\ DOMAIN buffers \subseteq Signals
  BY HistoryTypes
<1>1. CASE Record(MaxTrailing) /\ UNCHANGED historyVars
  <2>1. ViewTypeOK'
    BY <1>1, RecordKeeps, HistoryAssumption, ViewAssumption DEF HistoryInv
  <2>2. UNCHANGED <<selection, timer, loading, buffers, cursor, range, sampleRows, windowRows,
                    passed, toggles>>
    BY <1>1 DEF historyVars
  <2>3. HistoryTypeOK' /\ LoadedSince(seen)' = LoadedSince(seen) /\ Visible' = Visible
    BY <1>1, <2>2 DEF HistoryInv, HistoryTypeOK, LoadedSince, Visible, Record, SampleRows, WindowRows
  <2>4. recorded' = recorded + 1 /\ UNCHANGED <<view, mounted, seen>>
    BY <1>1 DEF Record
  <2> QED BY <1>0, <2>1, <2>2, <2>3, <2>4 DEF HistoryInv
<1>2. CASE HistoryRefreshed
  <2>1. ViewTypeOK'
    BY <1>2, RefreshedKeeps DEF HistoryInv, HistoryRefreshed
  <2>2. HistoryTypeOK'
    BY <1>0, <1>2 DEF HistoryInv, HistoryTypeOK, HistoryRefreshed
  <2> QED BY <1>0, <1>2, <2>1, <2>2 DEF HistoryInv, HistoryRefreshed, Refreshed
<1>3. CASE SelectSignals
  <2>1. ViewTypeOK'
    BY <1>3, ViewStays DEF HistoryInv, SelectSignals
  <2>2. selection' \subseteq Analysis
    BY <1>0, <1>3 DEF SelectSignals
  <2>3. toggles' \in 0..MaxToggles
    BY <1>3, HistoryAssumption DEF SelectSignals, HistoryInv, HistoryTypeOK
  <2>4. timer' = TRUE /\ UNCHANGED <<viewVars, loading, buffers, cursor, range, passed>>
    BY <1>3 DEF SelectSignals
  <2>5. HistoryTypeOK'
    BY <2>2, <2>3, <2>4 DEF HistoryInv, HistoryTypeOK
  <2> QED BY <1>0, <2>1, <2>4, <2>5 DEF HistoryInv, viewVars
<1>4. CASE HistoryTimer
  <2>1. ViewTypeOK' /\ UNCHANGED viewVars
    BY <1>4, ViewStays DEF HistoryInv, HistoryTimer
  <2>2. timer' = FALSE /\ UNCHANGED <<selection, buffers, cursor, range, sampleRows, windowRows, toggles>>
    BY <1>4 DEF HistoryTimer
  <2>3. Visible' = Visible
    BY <2>2 DEF Visible
  <2>4. CASE loading = None
    <3>1. loading' = [names |-> Visible, asked |-> recorded] /\ passed' = FALSE
      BY <1>4, <2>4 DEF HistoryTimer
    <3>2. /\ loading' \in [names : SUBSET Signals, asked : 0..MaxRecorded]
          /\ loading'.names = Visible /\ loading'.asked = recorded
      BY <1>0, <3>1
    <3>3. HistoryTypeOK'
      <4>1. passed' \in BOOLEAN
        BY <3>1
      <4> QED BY <1>0, <2>2, <3>2, <4>1 DEF HistoryInv, HistoryTypeOK, Signals
    <3>4. loading' # None
      BY <3>2, HistoryAssumption DEF Signals
    <3> QED BY <1>0, <2>1, <2>2, <2>3, <3>2, <3>3, <3>4 DEF HistoryInv, viewVars
  <2>5. CASE loading # None
    <3>1. UNCHANGED loading /\ passed' = TRUE
      BY <1>4, <2>5 DEF HistoryTimer
    <3>2. HistoryTypeOK'
      <4>1. passed' \in BOOLEAN
        BY <3>1
      <4> QED BY <1>0, <2>2, <3>1, <4>1 DEF HistoryInv, HistoryTypeOK
    <3> QED BY <1>0, <2>1, <2>2, <3>1, <3>2 DEF HistoryInv, viewVars
  <2> QED BY <2>4, <2>5
<1>5. CASE HistoryLoaded
  <2>1. ViewTypeOK' /\ UNCHANGED viewVars
    BY <1>5, ViewStays DEF HistoryInv, HistoryLoaded
  <2>2. loading # None /\ loading' = None /\ UNCHANGED <<selection, timer, range, passed, toggles>>
    BY <1>5 DEF HistoryLoaded
  <2>3. CASE mounted
    <3>1. PICK cache \in [loading.names -> Answers(loading.asked)] :
            LET at == IF cursor = None THEN 0 ELSE cursor IN
            /\ buffers' = cache
            /\ cursor' = at
            /\ sampleRows' = SampleRows(cache, at)
            /\ windowRows' = WindowRowsAfterLoad(cache)
      BY <1>5, <2>3 DEF HistoryLoaded
    <3>2. /\ DOMAIN buffers' = loading.names
          /\ \A n \in DOMAIN buffers' : /\ buffers'[n] \in 0..MaxRecorded
                                        /\ buffers'[n] <= recorded /\ buffers'[n] >= loading.asked
      <4>1. loading.asked \in Nat /\ cache \in [loading.names -> loading.asked..recorded]
        BY <1>0, <2>2, <3>1 DEF Answers
      <4>2. buffers' = cache
        BY <3>1
      <4>3. DOMAIN cache = loading.names
        BY <4>1
      <4>4. ASSUME NEW n \in loading.names PROVE cache[n] \in loading.asked..recorded
        BY <4>1
      <4> QED BY <1>0, <4>1, <4>2, <4>3, <4>4, ViewAssumption
    <3>3. HistoryTypeOK'
      <4>1. cursor' \in Positions \union {None}
        BY <3>1 DEF HistoryInv, HistoryTypeOK, Positions
      <4> QED BY <1>0, <2>2, <3>2, <4>1 DEF HistoryInv, HistoryTypeOK, Signals
    <3>4. Visible' = Visible
      BY <2>2 DEF Visible
    <3>5. sampleRows' = SampleRows(buffers, cursor)' /\ windowRows' = WindowRows(buffers, range)'
      BY <2>2, <3>1 DEF WindowRowsAfterLoad, SampleRows, WindowRows
    <3>6. loading.names = Visible /\ loading.asked >= seen => LoadedSince(seen)'
      BY <1>0, <2>1, <2>2, <3>2, <3>4, <3>5 DEF LoadedSince, viewVars
    <3> QED BY <1>0, <2>1, <2>2, <3>2, <3>3, <3>6 DEF HistoryInv, viewVars
  <2>4. CASE ~mounted
    <3>1. UNCHANGED <<buffers, cursor, sampleRows, windowRows>>
      BY <1>5, <2>4 DEF HistoryLoaded
    <3>2. HistoryTypeOK'
      BY <1>0, <2>2, <3>1 DEF HistoryInv, HistoryTypeOK
    <3> QED BY <1>0, <2>1, <2>2, <2>4, <3>1, <3>2 DEF HistoryInv, viewVars
  <2> QED BY <2>3, <2>4
<1>6. CASE MoveCursor
  <2>1. ViewTypeOK' /\ UNCHANGED viewVars
    BY <1>6, ViewStays DEF HistoryInv, MoveCursor
  <2>2. /\ cursor' \in Positions /\ sampleRows' = SampleRows(buffers, cursor')
        /\ UNCHANGED <<selection, timer, loading, buffers, range, windowRows, passed, toggles>>
    BY <1>6 DEF MoveCursor
  <2>3. HistoryTypeOK'
    BY <1>0, <2>2 DEF HistoryInv, HistoryTypeOK
  <2>4. LoadedSince(seen) => LoadedSince(seen)'
    BY <2>1, <2>2 DEF LoadedSince, Visible, SampleRows, WindowRows, viewVars
  <2>5. Visible' = Visible
    BY <2>2 DEF Visible
  <2> QED BY <1>0, <2>1, <2>2, <2>3, <2>4, <2>5 DEF HistoryInv, viewVars
<1>7. CASE SelectRange
  <2>1. ViewTypeOK' /\ UNCHANGED viewVars
    BY <1>7, ViewStays DEF HistoryInv, SelectRange
  <2>2. /\ range' \in Positions /\ cursor' = range' /\ sampleRows' = SampleRows(buffers, cursor')
        /\ windowRows' = WindowRows(buffers, range')
        /\ UNCHANGED <<selection, timer, loading, buffers, passed, toggles>>
    BY <1>7 DEF SelectRange
  <2>3. HistoryTypeOK'
    BY <1>0, <2>2 DEF HistoryInv, HistoryTypeOK
  <2>4. LoadedSince(seen) => LoadedSince(seen)'
    BY <2>1, <2>2 DEF LoadedSince, Visible, SampleRows, WindowRows, viewVars
  <2>5. Visible' = Visible
    BY <2>2 DEF Visible
  <2> QED BY <1>0, <2>1, <2>2, <2>3, <2>4, <2>5 DEF HistoryInv, viewVars
<1>8. CASE HistoryCleanup
  <2>1. ViewTypeOK'
    BY <1>8, UnmountedKeeps DEF HistoryInv, HistoryCleanup
  <2>2. timer' = FALSE /\ UNCHANGED <<selection, loading, buffers, cursor, range, passed, toggles>>
    BY <1>8 DEF HistoryCleanup
  <2>3. HistoryTypeOK'
    <3>1. timer' \in BOOLEAN
      BY <2>2
    <3> QED BY <1>0, <2>2, <3>1 DEF HistoryInv, HistoryTypeOK
  <2> QED BY <1>0, <1>8, <2>1, <2>2, <2>3 DEF HistoryInv, HistoryCleanup, Unmounted
<1> QED BY <1>1, <1>2, <1>3, <1>4, <1>5, <1>6, <1>7, <1>8 DEF HistoryNext

LEMMA HistoryInvElsewhere ==
  ASSUME HistoryInv, view # "history", UNCHANGED <<view, historyVars>>, ViewTypeOK'
  PROVE  HistoryInv'
<1>1. UNCHANGED <<view, selection, timer, loading, buffers, cursor, range, sampleRows, windowRows,
                  passed, toggles>>
  BY DEF historyVars
<1>2. HistoryTypeOK'
  BY <1>1 DEF HistoryInv, HistoryTypeOK
<1> QED BY <1>1, <1>2 DEF HistoryInv

LEMMA HistoryInvImplies == HistoryInv => HistoryIsCurrent
<1> SUFFICES ASSUME HistoryInv PROVE HistoryIsCurrent
  OBVIOUS
<1>1. \A n \in DOMAIN buffers : buffers[n] \in Nat /\ buffers[n] <= recorded /\ recorded \in Nat
  BY HistoryTypes, ViewAssumption DEF HistoryInv
<1> QED BY <1>1 DEF HistoryInv, HistoryIsCurrent, LoadedSince

-----------------------------------------------------------------------------
(* AdminPage.                                                              *)

AdminInv ==
  /\ AdminTypeOK
  /\ \A k \in Reports : \A i \in DOMAIN awaited[k] : awaited[k][i] <= measured

LEMMA MeasuredLength == Len(Measured) \in Nat
<1> DEFINE S == [latency : Int, rssi : Int \union {None}]
<1>1. Measured \in Seq(S)
  BY AdminAssumption
<1> HIDE DEF S
<1> QED BY <1>1

LEMMA AdminBounds == MaxReports \in Nat /\ MaxReports >= 1 /\ MaxFaults \in Nat
<1>1. MaxReports \in Nat \ {0} /\ MaxFaults \in Nat
  BY AdminAssumption, Zenon
<1> QED BY <1>1

LEMMA AdminTypes ==
  ASSUME AdminInv
  PROVE  /\ measured \in Nat /\ measured <= Len(Measured) /\ Len(Measured) \in Nat
         /\ DOMAIN awaited = Reports /\ DOMAIN report = Reports
         /\ \A k \in Reports : /\ awaited[k] \in Seq(0..measured) /\ Len(awaited[k]) <= MaxReports
                               /\ report[k] \in 0..Len(Measured)
<1>1. Len(Measured) \in Nat
  BY MeasuredLength
<1>2. ASSUME NEW k \in Reports
      PROVE  awaited[k] \in Seq(0..measured) /\ Len(awaited[k]) <= MaxReports
  <2>1. awaited[k] \in BoundedSeq(0..Len(Measured), MaxReports)
    BY DEF AdminInv, AdminTypeOK
  <2>2. awaited[k] \in Seq(0..Len(Measured)) /\ Len(awaited[k]) <= MaxReports
    BY <2>1, BoundedSequences, AdminAssumption, Zenon
  <2>3. /\ DOMAIN awaited[k] = 1..Len(awaited[k]) /\ Len(awaited[k]) \in Nat
        /\ \A i \in DOMAIN awaited[k] : awaited[k][i] \in 0..Len(Measured)
    BY <2>2
  <2>4. \A i \in 1..Len(awaited[k]) : awaited[k][i] \in 0..measured
    BY <1>1, <2>3 DEF AdminInv, AdminTypeOK
  <2>5. awaited[k] \in Seq(0..measured)
    BY <2>2, <2>4, ElementsDecide, Zenon
  <2> QED BY <2>2, <2>5
<1> QED BY <1>1, <1>2 DEF AdminInv, AdminTypeOK

LEMMA AwaitedBounded ==
  ASSUME NEW m \in 0..Len(Measured), NEW a, DOMAIN a = Reports, a = [k \in Reports |-> a[k]],
         \A k \in Reports : a[k] \in Seq(0..m) /\ Len(a[k]) <= MaxReports
  PROVE  /\ a \in [Reports -> BoundedSeq(0..Len(Measured), MaxReports)]
         /\ \A k \in Reports : \A i \in DOMAIN a[k] : a[k][i] <= m
<1>1. Len(Measured) \in Nat
  BY MeasuredLength
<1>2. ASSUME NEW k \in Reports
      PROVE  a[k] \in BoundedSeq(0..Len(Measured), MaxReports)
  <2>1. a[k] \in Seq(0..Len(Measured)) /\ Len(a[k]) <= MaxReports
    BY <1>1
  <2> QED BY <2>1, BoundedSequences, AdminBounds, Zenon
<1>3. \A k \in Reports : \A i \in DOMAIN a[k] : a[k][i] <= m
  BY <1>1
<1>4. a \in [Reports -> BoundedSeq(0..Len(Measured), MaxReports)]
  BY <1>2
<1> QED BY <1>3, <1>4

LEMMA AdminInvInit == AdminInit => AdminInv
<1> SUFFICES ASSUME AdminInit PROVE AdminInv
  OBVIOUS
<1>1. Len(Measured) \in Nat /\ 0 \in 0..Len(Measured)
  BY MeasuredLength
<1>2. /\ report \in [Reports -> 0..Len(Measured)] /\ faults \in 0..MaxFaults
      /\ notice \in Reports \union {None}
  BY <1>1, AdminBounds DEF AdminInit
<1>5. DOMAIN awaited = Reports /\ awaited = [k \in Reports |-> awaited[k]]
  BY DEF AdminInit
<1>3. measured = 0
  BY DEF AdminInit
<1>4. ASSUME NEW k \in Reports PROVE awaited[k] \in Seq(0..0) /\ Len(awaited[k]) <= MaxReports
  <2>1. awaited[k] = << 0 >> \/ awaited[k] = << >>
    BY DEF AdminInit
  <2>2. << 0 >> \in Seq(0..0) /\ Len(<< 0 >>) = 1 /\ << >> \in Seq(0..0) /\ Len(<< >>) = 0
    OBVIOUS
  <2>3. CASE awaited[k] = << 0 >>
    BY <2>2, <2>3, AdminBounds
  <2>4. CASE awaited[k] = << >>
    BY <2>2, <2>4, AdminBounds
  <2> QED BY <2>1, <2>3, <2>4
<1>6. /\ awaited \in [Reports -> BoundedSeq(0..Len(Measured), MaxReports)]
      /\ \A k \in Reports : \A i \in DOMAIN awaited[k] : awaited[k][i] <= 0
  BY <1>1, <1>4, <1>5, AwaitedBounded
<1> QED BY <1>1, <1>2, <1>3, <1>6 DEF AdminInv, AdminTypeOK

LEMMA AdminInvNext == ASSUME AdminInv, AdminNext PROVE AdminInv'
<1>0. /\ measured \in Nat /\ measured <= Len(Measured) /\ Len(Measured) \in Nat
      /\ DOMAIN awaited = Reports /\ DOMAIN report = Reports
      /\ \A k \in Reports : /\ awaited[k] \in Seq(0..measured) /\ Len(awaited[k]) <= MaxReports
                            /\ report[k] \in 0..Len(Measured)
  BY AdminTypes
<1>1. /\ report \in [Reports -> 0..Len(Measured)] /\ notice \in Reports \union {None}
      /\ faults \in 0..MaxFaults /\ measured \in 0..Len(Measured)
      /\ awaited = [k \in Reports |-> awaited[k]]
  BY DEF AdminInv, AdminTypeOK
\* What remains of the requests under way once one is answered.
<1>2. ASSUME NEW kind \in Reports, NEW i \in DOMAIN awaited[kind],
             awaited' = [awaited EXCEPT ![kind] = RemoveAt(@, i)]
      PROVE  /\ DOMAIN awaited' = Reports /\ awaited' = [k \in Reports |-> awaited'[k]]
             /\ \A k \in Reports : awaited'[k] \in Seq(0..measured) /\ Len(awaited'[k]) <= MaxReports
  <2>1. awaited'[kind] = RemoveAt(awaited[kind], i)
    BY <1>0, <1>2
  <2>2. awaited[kind] \in Seq(0..measured) /\ Len(awaited[kind]) \in Nat
    BY <1>0
  <2>3. RemoveAt(awaited[kind], i) \in Seq(0..measured) /\ Len(RemoveAt(awaited[kind], i)) = Len(awaited[kind]) - 1
    BY <1>2, <2>2, Removed
  <2>4. awaited'[kind] \in Seq(0..measured) /\ Len(awaited'[kind]) <= MaxReports
    BY <1>0, <2>1, <2>2, <2>3, AdminBounds
  <2>5. \A k \in Reports : k # kind => awaited'[k] = awaited[k]
    BY <1>0, <1>2
  <2> QED BY <1>0, <1>1, <1>2, <2>4, <2>5
<1>3. CASE Measure
  <2>1. measured' = measured + 1 /\ measured' \in 0..Len(Measured)
        /\ UNCHANGED <<report, notice, awaited, faults>>
    BY <1>0, <1>3 DEF Measure
  <2>2. ASSUME NEW k \in Reports PROVE awaited'[k] \in Seq(0..measured') /\ Len(awaited'[k]) <= MaxReports
    <3>1. awaited[k] \in Seq(0..measured) /\ \A i \in 1..Len(awaited[k]) : awaited[k][i] \in 0..measured
      BY <1>0
    <3>2. \A i \in 1..Len(awaited[k]) : awaited[k][i] \in 0..measured'
      BY <1>0, <2>1, <3>1
    <3>3. awaited[k] \in Seq(0..measured')
      BY <3>1, <3>2, ElementsDecide, Zenon
    <3> QED BY <1>0, <2>1, <3>3
  <2>3. DOMAIN awaited' = Reports /\ awaited' = [k \in Reports |-> awaited'[k]]
    BY <1>0, <1>1, <2>1
  <2>4. /\ awaited' \in [Reports -> BoundedSeq(0..Len(Measured), MaxReports)]
        /\ \A k \in Reports : \A i \in DOMAIN awaited'[k] : awaited'[k][i] <= measured'
    BY <2>1, <2>2, <2>3, AwaitedBounded
  <2> QED BY <1>1, <2>1, <2>4 DEF AdminInv, AdminTypeOK
<1>4. CASE RefreshReports
  <2>1. /\ awaited' = [k \in Reports |-> Append(awaited[k], measured)]
        /\ \A k \in Reports : Len(awaited[k]) < MaxReports
        /\ UNCHANGED <<measured, report, notice, faults>>
    BY <1>4 DEF RefreshReports
  <2>2. ASSUME NEW k \in Reports PROVE awaited'[k] \in Seq(0..measured) /\ Len(awaited'[k]) <= MaxReports
    <3>1. awaited'[k] = Append(awaited[k], measured) /\ measured \in 0..measured
      BY <1>0, <2>1
    <3>2. awaited[k] \in Seq(0..measured) /\ Len(awaited[k]) \in Nat /\ Len(awaited[k]) < MaxReports
      BY <1>0, <2>1
    <3> QED BY <3>1, <3>2, AdminBounds
  <2>3. DOMAIN awaited' = Reports /\ awaited' = [k \in Reports |-> awaited'[k]]
    BY <2>1
  <2>4. /\ awaited' \in [Reports -> BoundedSeq(0..Len(Measured), MaxReports)]
        /\ \A k \in Reports : \A i \in DOMAIN awaited'[k] : awaited'[k][i] <= measured
    BY <1>1, <2>2, <2>3, AwaitedBounded
  <2> QED BY <1>1, <2>1, <2>4 DEF AdminInv, AdminTypeOK
<1>5. ASSUME NEW kind \in Reports, NEW i \in 1..MaxReports, ReportArrives(kind, i)
      PROVE  AdminInv'
  <2>1. /\ i \in DOMAIN awaited[kind] /\ awaited' = [awaited EXCEPT ![kind] = RemoveAt(@, i)]
        /\ notice' \in {None, notice} /\ UNCHANGED <<measured, faults>>
    BY <1>5 DEF ReportArrives, NoticeAfter
  <2>2. PICK m \in awaited[kind][i]..measured : report' = [report EXCEPT ![kind] = m]
    BY <1>5 DEF ReportArrives
  <2>3. awaited[kind][i] \in 0..measured
    BY <1>0, <2>1
  <2>4. m \in 0..Len(Measured)
    BY <1>0, <2>2, <2>3
  <2>5. report' \in [Reports -> 0..Len(Measured)] /\ notice' \in Reports \union {None}
    BY <1>1, <2>1, <2>2, <2>4
  <2>6. /\ awaited' \in [Reports -> BoundedSeq(0..Len(Measured), MaxReports)]
        /\ \A k \in Reports : \A j \in DOMAIN awaited'[k] : awaited'[k][j] <= measured
    <3>1. /\ DOMAIN awaited' = Reports /\ awaited' = [k \in Reports |-> awaited'[k]]
          /\ \A k \in Reports : awaited'[k] \in Seq(0..measured) /\ Len(awaited'[k]) <= MaxReports
      BY <1>2, <2>1
    <3> QED BY <1>1, <3>1, AwaitedBounded
  <2> QED BY <1>1, <2>1, <2>5, <2>6 DEF AdminInv, AdminTypeOK
<1>6. ASSUME NEW kind \in Reports, NEW i \in 1..MaxReports, ReportFails(kind, i)
      PROVE  AdminInv'
  <2>1. /\ i \in DOMAIN awaited[kind] /\ awaited' = [awaited EXCEPT ![kind] = RemoveAt(@, i)]
        /\ notice' = kind /\ faults < MaxFaults /\ faults' = faults + 1 /\ UNCHANGED <<measured, report>>
    BY <1>6 DEF ReportFails
  <2>2. faults' \in 0..MaxFaults
    BY <1>1, <2>1, AdminBounds
  <2>3. /\ awaited' \in [Reports -> BoundedSeq(0..Len(Measured), MaxReports)]
        /\ \A k \in Reports : \A j \in DOMAIN awaited'[k] : awaited'[k][j] <= measured
    <3>1. /\ DOMAIN awaited' = Reports /\ awaited' = [k \in Reports |-> awaited'[k]]
          /\ \A k \in Reports : awaited'[k] \in Seq(0..measured) /\ Len(awaited'[k]) <= MaxReports
      BY <1>2, <2>1
    <3> QED BY <1>1, <3>1, AwaitedBounded
  <2> QED BY <1>1, <2>1, <2>2, <2>3 DEF AdminInv, AdminTypeOK
<1>7. CASE AdminCleanup
  BY <1>7 DEF AdminCleanup, adminVars, AdminInv, AdminTypeOK
<1> QED BY <1>3, <1>4, <1>5, <1>6, <1>7 DEF AdminNext

LEMMA AdminInvElsewhere == ASSUME AdminInv, UNCHANGED adminVars PROVE AdminInv'
BY DEF adminVars, AdminInv, AdminTypeOK

LEMMA AdminViewKeeps ==
  ASSUME ViewTypeOK, AdminNext PROVE ViewTypeOK' /\ UNCHANGED view
BY DEF AdminNext, Measure, RefreshReports, ReportArrives, ReportFails, AdminCleanup, Unmounted, viewVars, ViewTypeOK

LEMMA AdminInvImplies == AdminInv => CardsAgree
<1> SUFFICES ASSUME AdminInv PROVE CardsAgree
  OBVIOUS
<1>1. ASSUME NEW i \in 1..Len(Measured)
      PROVE  Measured[i].latency \in Int /\ Measured[i].rssi \in Int \union {None}
  <2> DEFINE S == [latency : Int, rssi : Int \union {None}]
  <2>1. Measured \in Seq(S)
    BY AdminAssumption
  <2>2. ASSUME NEW of \in S PROVE of.latency \in Int /\ of.rssi \in Int \union {None}
    OBVIOUS
  <2> HIDE DEF S
  <2>3. Measured[i] \in S
    BY <2>1
  <2> QED BY <2>2, <2>3
<1>2. report["stats"] \in 0..Len(Measured) /\ report["network"] \in 0..Len(Measured) /\ Len(Measured) \in Nat
  BY AdminTypes DEF Reports
<1>3. None \notin Int /\ None # "off" /\ None # "unknown" /\ None # "us" /\ None # "ms"
  BY AdminAssumption, Zenon
<1>4. ASSUME NEW us \in Int
      PROVE  LatencyBadge(us) = "off" <=> LatencyLabel(us) \in {None, "unknown"}
  <2>1. CASE us <= 0
    <3>1. LatencyBadge(us) = "off"
      BY <2>1 DEF LatencyBadge
    <3>2. LatencyLabel(us) = "unknown"
      BY <2>1 DEF LatencyLabel
    <3> QED BY <3>1, <3>2
  <2>2. CASE us > 0
    <3>1. LatencyBadge(us) \in {"ok", "warn", "error"}
      BY <2>2 DEF LatencyBadge
    <3>2. LatencyLabel(us) \in {"us", "ms"}
      BY <2>2 DEF LatencyLabel
    <3>3. LatencyLabel(us) \notin {None, "unknown"} /\ LatencyBadge(us) # "off"
      BY <1>3, <3>1, <3>2
    <3> QED BY <3>3
  <2> QED BY <2>1, <2>2
<1>5. ASSUME NEW rssi \in Int \union {None}
      PROVE  <<RssiBadge(rssi), RssiLabel(rssi)>> \in
               {<<"off", "offline">>, <<"ok", "ok">>, <<"warn", "attention">>, <<"error", "bad">>}
  <2>1. CASE rssi = None
    BY <1>3, <2>1 DEF RssiBadge, RssiLabel
  <2>2. CASE rssi \in Int
    <3>1. rssi # None
      BY <1>3, <2>2
    <3>2. CASE rssi >= -70
      BY <2>2, <3>1, <3>2 DEF RssiBadge, RssiLabel
    <3>3. CASE rssi < -70 /\ rssi >= -82
      BY <2>2, <3>1, <3>3 DEF RssiBadge, RssiLabel
    <3>4. CASE rssi < -82
      BY <2>2, <3>1, <3>4 DEF RssiBadge, RssiLabel
    <3> QED BY <2>2, <3>2, <3>3, <3>4
  <2> QED BY <2>1, <2>2
<1>6. LatencyCard.badge = "off" <=> LatencyCard.label \in {None, "unknown"}
  <2>1. CASE report["stats"] = 0
    BY <2>1 DEF LatencyCard
  <2>2. CASE report["stats"] # 0
    <3> DEFINE us == Measured[report["stats"]].latency
    <3>1. us \in Int
      BY <1>1, <1>2, <2>2
    <3>2. LatencyCard = [badge |-> LatencyBadge(us), label |-> LatencyLabel(us)]
      BY <2>2 DEF LatencyCard
    <3> HIDE DEF us
    <3> QED BY <1>4, <3>1, <3>2
  <2> QED BY <2>1, <2>2
<1>7. <<RssiCard.badge, RssiCard.label>> \in
        {<<"off", "offline">>, <<"ok", "ok">>, <<"warn", "attention">>, <<"error", "bad">>}
  <2>1. CASE report["network"] = 0
    BY <2>1 DEF RssiCard
  <2>2. CASE report["network"] # 0
    <3> DEFINE rssi == Measured[report["network"]].rssi
    <3>1. rssi \in Int \union {None}
      BY <1>1, <1>2, <2>2
    <3>2. RssiCard = [badge |-> RssiBadge(rssi), label |-> RssiLabel(rssi)]
      BY <2>2 DEF RssiCard
    <3> HIDE DEF rssi
    <3> QED BY <1>5, <3>1, <3>2
  <2> QED BY <2>1, <2>2
<1> QED BY <1>6, <1>7 DEF CardsAgree

-----------------------------------------------------------------------------
(* DownloadsPage.                                                          *)

Log == [status : Statuses, name : Names]
Tables == UNION {[ids -> Log] : ids \in SUBSET Logs}
CallStates == {"sent", "done", "refused"}
ListCall == [query : Queries, polled : BOOLEAN, state : CallStates, logs : Tables]
RenameCall == [id : Logs, name : Names, state : CallStates, log : Log]

KindOf(call) == IF call.polled THEN "refreshing" ELSE "loading"

DownloadTypes ==
  /\ DownloadsTypeOK
  /\ lists \in Seq(ListCall) /\ renames \in Seq(RenameCall) /\ list \in Tables
  /\ editing \subseteq DOMAIN list

(* A list under way shows that it is, unless two of them overlapped.       *)
Polling ==
  ~doubled =>
    /\ Len(lists) <= 1 /\ \A i \in DOMAIN lists : KindOf(lists[i]) \in busy
    /\ poll => lists = << >>

(* The names: those of a list handled, those shown, that of a rename.      *)
NamesOf(table, server) == \A id \in DOMAIN table : table[id].name = server[id].name
Naming ==
  ~raced =>
    /\ lists = << >> \/ renames = << >>
    /\ Len(renames) <= 1
    /\ \A i \in DOMAIN lists : lists[i].state = "done" => NamesOf(lists[i].logs, stored)
    /\ \A i \in DOMAIN renames : renames[i].state = "done" => stored[renames[i].id].name = renames[i].name
    /\ ~failed /\ lists = << >> =>
         \A id \in DOMAIN list :
           \/ list[id].name = stored[id].name
           \/ \E i \in DOMAIN renames : renames[i].id = id /\ renames[i].state # "sent"

DownloadsInv == DownloadTypes /\ Polling /\ Naming

LEMMA TableIs ==
  ASSUME NEW table PROVE table \in Tables <=> /\ table = [id \in DOMAIN table |-> table[id]]
                                              /\ DOMAIN table \subseteq Logs
                                              /\ \A id \in DOMAIN table : table[id] \in Log
<1>1. ASSUME table \in Tables PROVE /\ table = [id \in DOMAIN table |-> table[id]]
                                    /\ DOMAIN table \subseteq Logs
                                    /\ \A id \in DOMAIN table : table[id] \in Log
  <2>1. PICK ids \in SUBSET Logs : table \in [ids -> Log]
    BY <1>1 DEF Tables
  <2> QED BY <2>1
<1>2. ASSUME table = [id \in DOMAIN table |-> table[id]], DOMAIN table \subseteq Logs,
             \A id \in DOMAIN table : table[id] \in Log
      PROVE  table \in Tables
  <2>1. table \in [DOMAIN table -> Log]
    BY <1>2
  <2> QED BY <1>2, <2>1 DEF Tables
<1> QED BY <1>1, <1>2

LEMMA EmptyTable == << >> \in Tables
<1>1. DOMAIN << >> = {} /\ << >> = [id \in DOMAIN << >> |-> << >>[id]]
  OBVIOUS
<1> QED BY <1>1, TableIs

LEMMA DownloadsInit1 == DownloadsInit => DownloadsInv
<1> SUFFICES ASSUME DownloadsInit PROVE DownloadsInv
  OBVIOUS
<1> DEFINE first == [query |-> "all", polled |-> FALSE, state |-> "sent", logs |-> << >>]
<1>1. first \in ListCall /\ first.polled = FALSE /\ first.state = "sent"
  BY EmptyTable DEF ListCall, Queries, CallStates
<1> HIDE DEF first
<1>2. (lists = << first >> /\ busy = {"loading"}) \/ (lists = << >> /\ busy = {})
  BY DEF DownloadsInit, first
<1>3. /\ renames = << >> /\ list = << >> /\ poll = FALSE /\ failed = FALSE
      /\ doubled = FALSE /\ raced = FALSE
  BY DEF DownloadsInit
<1>4. lists \in Seq(ListCall) /\ Len(lists) <= 1
  <2>1. CASE lists = << first >>
    BY <1>1, <2>1
  <2>2. CASE lists = << >>
    BY <2>2
  <2> QED BY <1>2, <2>1, <2>2
<1>5. stored \in [Logs -> Log]
  BY DownloadsAssumption DEF DownloadsInit, Log, Statuses
<1>6. DownloadsTypeOK
  <2>1. /\ doubled \in BOOLEAN /\ raced \in BOOLEAN /\ failed \in BOOLEAN /\ poll \in BOOLEAN
    BY <1>3, Zenon
  <2>2. /\ downloads \in 0..MaxRequests /\ actions \in 0..MaxActions /\ Len(renames) <= MaxRequests
        /\ Len(lists) <= MaxRequests /\ query \in Queries
    BY <1>3, <1>4, DownloadsAssumption DEF DownloadsInit, Queries
  <2>3. editing = {} /\ renamingId = None /\ downloadingId = None /\ busy \subseteq {"loading", "refreshing"}
    BY <1>2 DEF DownloadsInit
  <2>4. DOMAIN list \subseteq Logs
    BY <1>3
  <2> QED BY <1>5, <2>1, <2>2, <2>3, <2>4 DEF DownloadsTypeOK, Log
<1>7. DownloadTypes
  <2>1. editing = {}
    BY DEF DownloadsInit
  <2> QED BY <1>3, <1>4, <1>6, <2>1, EmptyTable DEF DownloadTypes
<1>8. Polling
  <2>1. \A i \in DOMAIN lists : KindOf(lists[i]) \in busy
    <3>1. CASE lists = << first >> /\ busy = {"loading"}
      BY <1>1, <3>1 DEF KindOf
    <3>2. CASE lists = << >>
      BY <3>2
    <3> QED BY <1>2, <3>1, <3>2
  <2> QED BY <1>3, <1>4, <2>1 DEF Polling
<1>9. Naming
  <2>1. \A i \in DOMAIN lists : lists[i].state # "done"
    <3>1. CASE lists = << first >>
      BY <1>1, <3>1
    <3>2. CASE lists = << >>
      BY <3>2
    <3> QED BY <1>2, <3>1, <3>2
  <2>2. DOMAIN list = {} /\ DOMAIN renames = {} /\ Len(renames) = 0
    BY <1>3
  <2> QED BY <1>3, <2>1, <2>2 DEF Naming
<1> QED BY <1>7, <1>8, <1>9 DEF DownloadsInv

(* What the types say, unfolded once.                                      *)
LEMMA DownloadFacts ==
  ASSUME DownloadTypes
  PROVE  /\ stored \in [Logs -> Log] /\ list \in Tables /\ DOMAIN list \subseteq Logs
         /\ \A id \in DOMAIN list : list[id] \in Log
         /\ lists \in Seq(ListCall) /\ renames \in Seq(RenameCall)
         /\ query \in Queries
         /\ busy \subseteq {"loading", "refreshing"} /\ failed \in BOOLEAN /\ poll \in BOOLEAN
         /\ doubled \in BOOLEAN /\ raced \in BOOLEAN
         /\ Len(lists) \in 0..MaxRequests /\ Len(renames) \in 0..MaxRequests
         /\ renamingId \in Logs \union {None} /\ downloadingId \in Logs \union {None}
         /\ editing \subseteq DOMAIN list /\ downloads \in 0..MaxRequests /\ actions \in 0..MaxActions
<1>1. Len(lists) \in Nat /\ Len(renames) \in Nat
  BY DEF DownloadTypes
<1>2. Len(lists) \in 0..MaxRequests /\ Len(renames) \in 0..MaxRequests
  BY <1>1, DownloadsAssumption DEF DownloadTypes, DownloadsTypeOK
<1>3. DOMAIN list \subseteq Logs /\ \A id \in DOMAIN list : list[id] \in Log
  BY TableIs DEF DownloadTypes
<1> QED BY <1>2, <1>3 DEF DownloadTypes, DownloadsTypeOK, Log

LEMMA DownloadTypesOf ==
  ASSUME stored' \in [Logs -> Log], list' \in Tables,
         lists' \in Seq(ListCall), renames' \in Seq(RenameCall), query' \in Queries,
         busy' \subseteq {"loading", "refreshing"}, failed' \in BOOLEAN, poll' \in BOOLEAN,
         doubled' \in BOOLEAN, raced' \in BOOLEAN,
         Len(lists') <= MaxRequests, Len(renames') <= MaxRequests,
         renamingId' \in Logs \union {None}, downloadingId' \in Logs \union {None},
         editing' \subseteq DOMAIN list', downloads' \in 0..MaxRequests, actions' \in 0..MaxActions
  PROVE  DownloadTypes'
<1>1. DOMAIN list' \subseteq Logs
  BY TableIs
<1>2. editing' \subseteq Logs
  BY <1>1
<1> QED BY <1>1, <1>2 DEF DownloadTypes, DownloadsTypeOK, Log

LEMMA LoadTypes ==
  ASSUME DownloadTypes, NEW polled \in BOOLEAN, Load(polled), actions' \in 0..MaxActions
  PROVE  DownloadTypes'
<1> DEFINE call == [query |-> query, polled |-> polled, state |-> "sent", logs |-> << >>]
<1>1. call \in ListCall
  BY DownloadFacts, EmptyTable DEF ListCall, CallStates
<1>2. lists' = Append(lists, call) /\ Len(lists) < MaxRequests
  BY DEF Load
<1> HIDE DEF call
<1>3. lists' \in Seq(ListCall) /\ Len(lists') <= MaxRequests
  BY <1>1, <1>2, DownloadFacts, DownloadsAssumption
<1>4. /\ busy' \subseteq {"loading", "refreshing"} /\ editing' \subseteq DOMAIN list'
      /\ stored' = stored /\ query' = query /\ list' = list /\ renames' = renames
      /\ renamingId' = renamingId /\ downloadingId' = downloadingId /\ downloads' = downloads
  BY DownloadFacts DEF Load
<1>5. failed' \in BOOLEAN /\ poll' \in BOOLEAN /\ doubled' \in BOOLEAN /\ raced' \in BOOLEAN
  BY DownloadFacts, Zenon DEF Load
<1> QED BY <1>3, <1>4, <1>5, DownloadFacts, DownloadTypesOf

LEMMA UserActsBounded == ASSUME DownloadTypes, UserActs PROVE actions' \in 0..MaxActions
BY DownloadFacts, DownloadsAssumption DEF UserActs

LEMMA DownloadTypesNext == DownloadTypes /\ DownloadsNext => DownloadTypes'
<1> SUFFICES ASSUME DownloadTypes, DownloadsNext PROVE DownloadTypes'
  OBVIOUS
<1> USE DownloadFacts, DownloadsAssumption
<1>1. CASE LogIsGenerated
  <2>1. PICK id \in Logs, s \in {"ready", "failed"} : stored' = [stored EXCEPT ![id].status = s]
    BY <1>1 DEF LogIsGenerated
  <2>2. [stored[id] EXCEPT !.status = s] \in Log
    BY DEF Log, Statuses
  <2>3. stored' \in [Logs -> Log]
    BY <2>1, <2>2
  <2> QED BY <1>1, <2>3, DownloadTypesOf DEF LogIsGenerated
<1>2. CASE ServerLists
  <2>1. PICK i \in DOMAIN lists :
          lists' = [lists EXCEPT ![i].state = "done",
                                 ![i].logs = [id \in Matching(lists[i].query) |-> stored[id]]]
    BY <1>2, Zenon DEF ServerLists
  <2> DEFINE answer == [id \in Matching(lists[i].query) |-> stored[id]]
             call == [lists[i] EXCEPT !.state = "done", !.logs = answer]
  <2>2. answer \in Tables
    <3>1. Matching(lists[i].query) \in SUBSET Logs
      BY DEF Matching
    <3>2. answer \in [Matching(lists[i].query) -> Log]
      BY <3>1
    <3> QED BY <3>1, <3>2 DEF Tables
  <2>3. lists' = [lists EXCEPT ![i] = call]
    BY <2>1
  <2> HIDE DEF answer
  <2>4. call \in ListCall
    <3>1. lists[i] \in ListCall
      OBVIOUS
    <3> QED BY <2>2, <3>1 DEF ListCall, CallStates
  <2> HIDE DEF call
  <2>5. lists' \in Seq(ListCall) /\ Len(lists') = Len(lists)
    BY <2>3, <2>4
  <2>6. UNCHANGED <<stored, query, list, busy, failed, poll, renames, renamingId,
                    downloadingId, downloads, editing, doubled, raced, actions>>
    BY <1>2, Zenon DEF ServerLists
  <2>7. Len(lists') <= MaxRequests /\ Len(renames') <= MaxRequests
    BY <2>5, <2>6, DownloadFacts DEF DownloadTypes, DownloadsTypeOK
  <2>8. /\ stored' \in [Logs -> Log] /\ list' \in Tables /\ renames' \in Seq(RenameCall) /\ query' \in Queries
        /\ renamingId' \in Logs \union {None} /\ downloadingId' \in Logs \union {None}
        /\ editing' \subseteq DOMAIN list' /\ downloads' \in 0..MaxRequests /\ actions' \in 0..MaxActions
    BY <2>6, DownloadFacts
  <2>9. /\ busy' \subseteq {"loading", "refreshing"} /\ failed' \in BOOLEAN /\ poll' \in BOOLEAN
        /\ doubled' \in BOOLEAN /\ raced' \in BOOLEAN
    BY <2>6, DownloadFacts
  <2> HIDE DEF answer
  <2> QED BY <2>5, <2>7, <2>8, <2>9, DownloadTypesOf
<1>3. CASE ServerRenames
  <2>1. PICK i \in DOMAIN renames :
          /\ stored' = [stored EXCEPT ![renames[i].id].name = renames[i].name]
          /\ renames' = [renames EXCEPT ![i].state = "done", ![i].log = stored'[renames[i].id]]
    BY <1>3 DEF ServerRenames
  <2>2. renames[i] \in RenameCall
    OBVIOUS
  <2>3. renames[i].id \in Logs /\ renames[i].name \in Names
    BY <2>2 DEF RenameCall
  <2>4. [stored[renames[i].id] EXCEPT !.name = renames[i].name] \in Log
    BY <2>3 DEF Log
  <2>5. stored' \in [Logs -> Log]
    BY <2>1, <2>3, <2>4
  <2> DEFINE log == stored'[renames[i].id]
             call == [renames[i] EXCEPT !.state = "done", !.log = log]
  <2>log. log \in Log
    BY <2>3, <2>5
  <2>9. renames' = [renames EXCEPT ![i].state = "done", ![i].log = log]
    BY <2>1
  <2> HIDE DEF log
  <2>6. call \in RenameCall
    BY <2>2, <2>log DEF RenameCall, CallStates
  <2>7. renames' = [renames EXCEPT ![i] = call]
    BY <2>9
  <2> HIDE DEF call
  <2>8. renames' \in Seq(RenameCall) /\ Len(renames') = Len(renames)
    BY <2>6, <2>7
  <2> QED BY <1>3, <2>5, <2>8, DownloadTypesOf DEF ServerRenames
<1>4. CASE RequestFails
  <2>1. actions' \in 0..MaxActions
    BY <1>4, UserActsBounded DEF RequestFails
  <2>2. lists' \in Seq(ListCall) /\ Len(lists') = Len(lists)
    <3>1. CASE lists' = lists
      BY <3>1
    <3>2. ASSUME NEW i \in DOMAIN lists, lists' = [lists EXCEPT ![i].state = "refused"]
          PROVE  lists' \in Seq(ListCall) /\ Len(lists') = Len(lists)
      <4>1. lists[i] \in ListCall
        OBVIOUS
      <4>2. [lists[i] EXCEPT !.state = "refused"] \in ListCall
        BY <4>1 DEF ListCall, CallStates
      <4> QED BY <3>2, <4>2
    <3> QED BY <1>4, <3>1, <3>2 DEF RequestFails
  <2>3. renames' \in Seq(RenameCall) /\ Len(renames') = Len(renames)
    <3>1. CASE renames' = renames
      BY <3>1
    <3>2. ASSUME NEW i \in DOMAIN renames, renames' = [renames EXCEPT ![i].state = "refused"]
          PROVE  renames' \in Seq(RenameCall) /\ Len(renames') = Len(renames)
      <4>1. renames[i] \in RenameCall
        OBVIOUS
      <4>2. [renames[i] EXCEPT !.state = "refused"] \in RenameCall
        BY <4>1 DEF RenameCall, CallStates
      <4> QED BY <3>2, <4>2
    <3> QED BY <1>4, <3>1, <3>2 DEF RequestFails
  <2> QED BY <1>4, <2>1, <2>2, <2>3, DownloadTypesOf DEF RequestFails
<1>5. CASE SubmitQuery
  BY <1>5, UserActsBounded, LoadTypes DEF SubmitQuery
<1>6. CASE ChangeQuery
  BY <1>6, UserActsBounded, DownloadTypesOf DEF ChangeQuery
<1>7. CASE PollLogs
  BY <1>7, LoadTypes DEF PollLogs
<1>8. CASE LogsAnswered
  <2>1. PICK i \in DOMAIN lists :
          /\ lists' = RemoveAt(lists, i)
          /\ list' = IF lists[i].state = "done" THEN lists[i].logs ELSE << >>
          /\ failed' = (failed \/ ~(lists[i].state = "done"))
          /\ busy' = BusyAfter(lists[i].state = "done", IF lists[i].polled THEN "refreshing" ELSE "loading")
          /\ poll' = (mounted /\ Polls(list', busy', failed'))
    BY <1>8 DEF LogsAnswered
  <2>2. lists' \in Seq(ListCall) /\ Len(lists') <= MaxRequests
    BY <2>1, RemovedWas
  <2>3. list' \in Tables
    <3>1. lists[i] \in ListCall
      OBVIOUS
    <3>2. lists[i].logs \in Tables
      BY <3>1 DEF ListCall
    <3> QED BY <2>1, <3>2, EmptyTable
  <2>4. busy' \subseteq {"loading", "refreshing"}
    BY <2>1 DEF BusyAfter
  <2>5. failed' \in BOOLEAN /\ poll' \in BOOLEAN
    BY <2>1, Zenon
  <2>6. editing' \subseteq DOMAIN list'
    BY <1>8 DEF LogsAnswered
  <2> QED BY <1>8, <2>2, <2>3, <2>4, <2>5, <2>6, DownloadTypesOf DEF LogsAnswered
<1>9. CASE StartDownload
  <2>1. actions' \in 0..MaxActions
    BY <1>9, UserActsBounded DEF StartDownload
  <2> QED BY <1>9, <2>1, DownloadTypesOf DEF StartDownload
<1>10. CASE EndDownload
  <2>1. poll' \in BOOLEAN
    BY <1>10, Zenon DEF EndDownload
  <2>2. editing' \subseteq DOMAIN list' /\ downloads' \in 0..MaxRequests
    BY <1>10 DEF EndDownload
  <2>3. failed' \in BOOLEAN
    BY <1>10, Zenon DEF EndDownload
  <2> QED BY <1>10, <2>1, <2>2, <2>3, DownloadTypesOf DEF EndDownload
<1>11. CASE EditName
  <2>1. actions' \in 0..MaxActions
    BY <1>11, UserActsBounded DEF EditName
  <2> QED BY <1>11, <2>1, DownloadTypesOf DEF EditName
<1>12. CASE SaveName
  <2>1. actions' \in 0..MaxActions
    BY <1>12, UserActsBounded DEF SaveName
  <2>2. PICK id \in editing, name \in Names :
          IF name = list[id].name
          THEN /\ editing' = editing \ {id}
               /\ UNCHANGED <<renames, renamingId, raced>>
          ELSE /\ Len(renames) < MaxRequests
               /\ renames' = Append(renames, [id |-> id, name |-> name,
                                             state |-> "sent", log |-> list[id]])
               /\ renamingId' = id
               /\ raced' = (raced \/ lists # << >> \/ renames # << >>)
               /\ UNCHANGED editing
    BY <1>12 DEF SaveName
  <2> DEFINE call == [id |-> id, name |-> name, state |-> "sent", log |-> list[id]]
  <2>3. call \in RenameCall
    BY DEF RenameCall, CallStates
  <2> HIDE DEF call
  <2>4. \/ renames' = renames
        \/ Len(renames) < MaxRequests /\ renames' = Append(renames, call)
    BY <2>2 DEF call
  <2>5. renames' \in Seq(RenameCall) /\ Len(renames') <= MaxRequests
    BY <2>3, <2>4
  <2>6. editing' \subseteq DOMAIN list /\ renamingId' \in Logs \union {None}
    BY <2>2
  <2>7. raced' \in BOOLEAN
    BY <2>2, Zenon
  <2> QED BY <1>12, <2>1, <2>5, <2>6, <2>7, DownloadTypesOf DEF SaveName
<1>13. CASE RenameAnswered
  <2>1. PICK i \in DOMAIN renames :
          /\ renames' = RemoveAt(renames, i)
          /\ list' = IF renames[i].state = "done" THEN RenamedList(renames[i]) ELSE list
          /\ failed' = (failed \/ ~(renames[i].state = "done"))
          /\ editing' = IF renames[i].state = "done" THEN editing \ {renames[i].id} ELSE {}
          /\ poll' = (mounted /\ Polls(list', busy, failed'))
    BY <1>13 DEF RenameAnswered
  <2>2. renames' \in Seq(RenameCall) /\ Len(renames') <= MaxRequests
    BY <2>1, RemovedWas
  <2>3. renames[i] \in RenameCall
    OBVIOUS
  <2>4. [renames[i].log EXCEPT !.name = renames[i].name] \in Log
    BY <2>3 DEF RenameCall, Log
  <2>5. /\ DOMAIN RenamedList(renames[i]) = DOMAIN list
        /\ RenamedList(renames[i]) \in [DOMAIN list -> Log]
    BY <2>4 DEF RenamedList
  <2>6. RenamedList(renames[i]) \in Tables
    BY <2>5 DEF Tables
  <2>7. list' \in Tables /\ DOMAIN list' = DOMAIN list
    BY <2>1, <2>5, <2>6
  <2>8. editing' \subseteq DOMAIN list'
    BY <2>1, <2>7
  <2>9. failed' \in BOOLEAN /\ poll' \in BOOLEAN
    BY <2>1, Zenon
  <2> QED BY <1>13, <2>2, <2>7, <2>8, <2>9, DownloadTypesOf DEF RenameAnswered
<1>14. CASE DownloadsCleanup
  <2>1. poll' \in BOOLEAN
    BY <1>14, Zenon DEF DownloadsCleanup
  <2> QED BY <1>14, <2>1, DownloadTypesOf DEF DownloadsCleanup
<1> QED BY <1>1, <1>2, <1>3, <1>4, <1>5, <1>6, <1>7, <1>8, <1>9, <1>10, <1>11, <1>12,
           <1>13, <1>14 DEF DownloadsNext

LEMMA PollsMeans ==
  ASSUME NEW shown, NEW waits, NEW error, Polls(shown, waits, error)
  PROVE  waits = {} /\ ~error
BY DEF Polls

LEMMA PollingNext == DownloadTypes /\ Polling /\ DownloadsNext => Polling'
<1> DEFINE Kept == /\ Len(lists') <= 1 /\ \A i \in DOMAIN lists' : KindOf(lists'[i]) \in busy'
                   /\ poll' => lists' = << >>
<1> SUFFICES ASSUME DownloadTypes, Polling, DownloadsNext, ~doubled' PROVE Kept
  BY DEF Polling
<1> USE DownloadFacts
<1>1. ASSUME ~doubled
      PROVE  /\ Len(lists) <= 1 /\ \A i \in DOMAIN lists : KindOf(lists[i]) \in busy
             /\ poll => lists = << >>
  BY <1>1 DEF Polling
<1>2. ASSUME UNCHANGED <<lists, busy, poll, doubled>> PROVE Kept
  BY <1>1, <1>2
<1>3. ASSUME UNCHANGED doubled, poll' = poll, busy' = busy, Len(lists') = Len(lists),
             \A i \in DOMAIN lists' : i \in DOMAIN lists /\ lists'[i].polled = lists[i].polled,
             lists' = << >> <=> lists = << >>
      PROVE  Kept
  BY <1>1, <1>3 DEF KindOf
<1>4. ASSUME NEW polled \in BOOLEAN, Load(polled), polled => poll
      PROVE  Kept
  <2> DEFINE call == [query |-> query, polled |-> polled, state |-> "sent", logs |-> << >>]
  <2>1. ~doubled /\ (~polled => lists = << >>)
    BY <1>4 DEF Load
  <2>2. lists = << >>
    BY <1>1, <1>4, <2>1
  <2>3. lists' = Append(lists, call) /\ poll' = FALSE
    BY <1>4 DEF Load
  <2>4. KindOf(call) \in busy'
    BY <1>4 DEF Load, KindOf
  <2> HIDE DEF call
  <2>5. lists' = << call >>
    BY <2>2, <2>3
  <2> QED BY <2>3, <2>4, <2>5
<1>5. ASSUME LogsAnswered PROVE Kept
  <2>1. PICK i \in DOMAIN lists :
          /\ lists' = RemoveAt(lists, i) /\ poll' = (mounted /\ Polls(list', busy', failed'))
    BY <1>5 DEF LogsAnswered
  <2>2. ~doubled
    BY <1>5 DEF LogsAnswered
  <2>3. lists' \in Seq(ListCall) /\ Len(lists') = Len(lists) - 1
    BY <2>1, RemovedWas
  <2>4. Len(lists') = 0
    BY <1>1, <2>2, <2>3
  <2>6. lists' = << >>
    BY <2>3, <2>4
  <2>5. lists' = << >> /\ DOMAIN lists' = {} /\ Len(lists') <= 1
    BY <2>4, <2>6
  <2> QED BY <2>5
<1>6. ASSUME NEW shown, UNCHANGED <<lists, busy, doubled>>, poll' = (mounted /\ Polls(shown, busy, failed'))
      PROVE  Kept
  <2>1. poll' => busy = {}
    BY <1>6, PollsMeans
  <2> QED BY <1>1, <1>6, <2>1
<1>7. CASE ServerLists
  <2>1. PICK i \in DOMAIN lists :
          lists' = [lists EXCEPT ![i].state = "done",
                                 ![i].logs = [id \in Matching(lists[i].query) |-> stored[id]]]
    BY <1>7, Zenon DEF ServerLists
  <2> DEFINE answer == [id \in Matching(lists[i].query) |-> stored[id]]
  <2>2. lists' = [lists EXCEPT ![i].state = "done", ![i].logs = answer]
    BY <2>1
  <2> HIDE DEF answer
  <2>3. /\ Len(lists') = Len(lists) /\ lists' # << >> /\ lists # << >>
        /\ \A k \in DOMAIN lists' : k \in DOMAIN lists /\ lists'[k].polled = lists[k].polled
    <3>1. lists[i] \in ListCall
      OBVIOUS
    <3> QED BY <2>2, <3>1 DEF ListCall
  <2>4. UNCHANGED <<busy, poll, doubled>>
    BY <1>7 DEF ServerLists
  <2> QED BY <1>3, <2>3, <2>4, Zenon
<1>8. CASE RequestFails
  <2>1. CASE lists' = lists
    BY <1>2, <1>8, <2>1 DEF RequestFails
  <2>2. ASSUME NEW i \in DOMAIN lists, lists' = [lists EXCEPT ![i].state = "refused"] PROVE Kept
    <3>1. lists[i] \in ListCall
      OBVIOUS
    <3>3. /\ Len(lists') = Len(lists) /\ lists' # << >> /\ lists # << >>
          /\ \A k \in DOMAIN lists' : k \in DOMAIN lists /\ lists'[k].polled = lists[k].polled
      BY <2>2, <3>1 DEF ListCall
    <3>4. UNCHANGED <<busy, poll, doubled>>
      BY <1>8 DEF RequestFails
    <3> QED BY <1>3, <3>3, <3>4, Zenon
  <2> QED BY <1>8, <2>1, <2>2 DEF RequestFails
<1>9. CASE LogIsGenerated \/ ServerRenames \/ ChangeQuery \/ StartDownload \/ EditName \/ SaveName
  BY <1>2, <1>9 DEF LogIsGenerated, ServerRenames, ChangeQuery, StartDownload, EditName, SaveName
<1>10. CASE SubmitQuery
  BY <1>4, <1>10 DEF SubmitQuery
<1>11. CASE PollLogs
  BY <1>4, <1>11 DEF PollLogs
<1>12. CASE EndDownload
  BY <1>6, <1>12 DEF EndDownload
<1>13. CASE RenameAnswered
  <2>1. poll' = (mounted /\ Polls(list', busy, failed')) /\ UNCHANGED <<lists, busy, doubled>>
    BY <1>13 DEF RenameAnswered
  <2> QED BY <1>6, <2>1
<1>14. CASE DownloadsCleanup
  <2>1. poll' = FALSE /\ UNCHANGED <<lists, busy, doubled>>
    BY <1>14 DEF DownloadsCleanup
  <2> QED BY <1>1, <2>1
<1> QED BY <1>5, <1>7, <1>8, <1>9, <1>10, <1>11, <1>12, <1>13, <1>14 DEF DownloadsNext

-----------------------------------------------------------------------------
(* The names shown, kept by each action that answers, asks or renames.     *)
LEMMA NamingNext == DownloadTypes /\ Naming /\ DownloadsNext => Naming'
<1> DEFINE Kept ==
      /\ lists' = << >> \/ renames' = << >>
      /\ Len(renames') <= 1
      /\ \A i \in DOMAIN lists' : lists'[i].state = "done" => NamesOf(lists'[i].logs, stored')
      /\ \A i \in DOMAIN renames' :
           renames'[i].state = "done" => stored'[renames'[i].id].name = renames'[i].name
      /\ ~failed' /\ lists' = << >> =>
           \A id \in DOMAIN list' :
             \/ list'[id].name = stored'[id].name
             \/ \E i \in DOMAIN renames' : renames'[i].id = id /\ renames'[i].state # "sent"
<1> SUFFICES ASSUME DownloadTypes, Naming, DownloadsNext, ~raced' PROVE Kept
  BY DEF Naming
<1> USE DownloadFacts
<1>1. ASSUME ~raced
      PROVE  /\ lists = << >> \/ renames = << >>
             /\ Len(renames) <= 1
             /\ \A i \in DOMAIN lists : lists[i].state = "done" => NamesOf(lists[i].logs, stored)
             /\ \A i \in DOMAIN renames :
                  renames[i].state = "done" => stored[renames[i].id].name = renames[i].name
             /\ ~failed /\ lists = << >> =>
                  \A id \in DOMAIN list :
                    \/ list[id].name = stored[id].name
                    \/ \E i \in DOMAIN renames : renames[i].id = id /\ renames[i].state # "sent"
  BY <1>1 DEF Naming
<1>2. ASSUME NEW i \in DOMAIN lists
      PROVE  lists[i] \in ListCall /\ lists[i].logs \in Tables /\ DOMAIN lists[i].logs \subseteq Logs
  <2>1. lists[i] \in ListCall
    OBVIOUS
  <2>2. lists[i].logs \in Tables
    BY <2>1 DEF ListCall
  <2> QED BY <2>1, <2>2, TableIs
<1>3. ASSUME NEW i \in DOMAIN renames
      PROVE  /\ renames[i] \in RenameCall /\ renames[i].id \in Logs /\ renames[i].name \in Names
             /\ renames[i].log \in Log
  <2>1. renames[i] \in RenameCall
    OBVIOUS
  <2> QED BY <2>1 DEF RenameCall
<1>4. ASSUME UNCHANGED <<lists, renames, list, stored, raced>>, failed' \in {failed, TRUE} PROVE Kept
  <2>1. ~failed' => ~failed
    BY <1>4, Zenon
  <2> QED BY <1>1, <1>4, <2>1
<1>5. ASSUME LogIsGenerated PROVE Kept
  <2>1. PICK id \in Logs, s \in {"ready", "failed"} : stored' = [stored EXCEPT ![id].status = s]
    BY <1>5 DEF LogIsGenerated
  <2>2. \A x \in Logs : stored'[x].name = stored[x].name
    BY <2>1 DEF Log
  <2>3. UNCHANGED <<lists, renames, list, raced, failed>>
    BY <1>5 DEF LogIsGenerated
  <2>4. \A i \in DOMAIN lists : lists[i].state = "done" => NamesOf(lists[i].logs, stored')
    BY <1>1, <1>2, <2>2, <2>3 DEF NamesOf
  <2> QED BY <1>1, <1>3, <2>2, <2>3, <2>4
<1>6. ASSUME ServerLists PROVE Kept
  <2>1. PICK i \in DOMAIN lists :
          lists' = [lists EXCEPT ![i].state = "done",
                                 ![i].logs = [id \in Matching(lists[i].query) |-> stored[id]]]
    BY <1>6, Zenon DEF ServerLists
  <2>2. UNCHANGED <<renames, list, raced, failed, stored>>
    BY <1>6 DEF ServerLists
  <2> DEFINE answer == [id \in Matching(lists[i].query) |-> stored[id]]
  <2>3. NamesOf(answer, stored)
    BY DEF NamesOf
  <2>4. lists' = [lists EXCEPT ![i].state = "done", ![i].logs = answer]
    BY <2>1
  <2> HIDE DEF answer
  <2>here. lists[i] \in ListCall
    OBVIOUS
  <2>5. /\ lists' # << >> /\ lists # << >> /\ DOMAIN lists' = DOMAIN lists
        /\ \A k \in DOMAIN lists : IF k = i THEN lists'[k].logs = answer ELSE lists'[k] = lists[k]
    <3> DEFINE call == [lists[i] EXCEPT !.state = "done", !.logs = answer]
    <3>1. lists' = [lists EXCEPT ![i] = call]
      BY <2>4
    <3>2. call.logs = answer
      BY <2>here DEF ListCall
    <3> HIDE DEF call
    <3> QED BY <3>1, <3>2
  <2>6. ASSUME NEW k \in DOMAIN lists', lists'[k].state = "done" PROVE NamesOf(lists'[k].logs, stored')
    BY <1>1, <2>2, <2>3, <2>5, <2>6 DEF NamesOf
  <2> QED BY <1>1, <2>2, <2>5, <2>6, Zenon
<1>7. ASSUME ServerRenames PROVE Kept
  <2>1. PICK i \in DOMAIN renames :
          /\ stored' = [stored EXCEPT ![renames[i].id].name = renames[i].name]
          /\ renames' = [renames EXCEPT ![i].state = "done", ![i].log = stored'[renames[i].id]]
    BY <1>7 DEF ServerRenames
  <2>2. UNCHANGED <<lists, list, raced, failed>>
    BY <1>7 DEF ServerRenames
  <2>one. Len(renames) \in Nat /\ DOMAIN renames = 1..Len(renames) /\ renames # << >>
    OBVIOUS
  <2>3. renames # << >> /\ lists = << >> /\ i = 1 /\ Len(renames) = 1
    BY <1>1, <2>2, <2>one
  <2> DEFINE log == stored'[renames[i].id]
             rename == renames[i]
  <2>4. renames' = [renames EXCEPT ![i].state = "done", ![i].log = log]
    BY <2>1
  <2>5. rename.id \in Logs /\ \A x \in Logs : stored'[x].name = IF x = rename.id THEN rename.name ELSE stored[x].name
    BY <1>3, <2>1 DEF Log
  <2> HIDE DEF log
  <2>6. /\ Len(renames') = 1 /\ DOMAIN renames' = {1}
        /\ renames'[1].id = rename.id /\ renames'[1].name = rename.name /\ renames'[1].state = "done"
    BY <1>3, <2>3, <2>4 DEF RenameCall
  <2> HIDE DEF rename
  <2>7. \A k \in DOMAIN renames' :
          renames'[k].state = "done" => stored'[renames'[k].id].name = renames'[k].name
    BY <2>5, <2>6
  <2>8. ASSUME ~failed, NEW id \in DOMAIN list, id # rename.id
        PROVE  list[id].name = stored'[id].name
    <3>1. list[id].name = stored[id].name \/ \E k \in DOMAIN renames : renames[k].id = id
      BY <1>1, <2>2, <2>3, <2>8
    <3>2. ~\E k \in DOMAIN renames : renames[k].id = id
      BY <2>3, <2>8 DEF rename
    <3> QED BY <2>5, <2>8, <3>1, <3>2
  <2> QED BY <2>2, <2>3, <2>6, <2>7, <2>8
<1>8. ASSUME RequestFails PROVE Kept
  <2>1. UNCHANGED <<list, raced, failed, stored>>
    BY <1>8 DEF RequestFails
  <2>2. ASSUME NEW i \in DOMAIN lists, lists' = [lists EXCEPT ![i].state = "refused"], renames' = renames
        PROVE Kept
    <3>1. /\ lists' # << >> /\ lists # << >> /\ DOMAIN lists' = DOMAIN lists
          /\ \A k \in DOMAIN lists : IF k = i THEN lists'[k].state = "refused" ELSE lists'[k] = lists[k]
      BY <1>2, <2>2 DEF ListCall
    <3>2. ASSUME NEW k \in DOMAIN lists', lists'[k].state = "done" PROVE NamesOf(lists'[k].logs, stored')
      BY <1>1, <2>1, <3>1, <3>2 DEF NamesOf
    <3> QED BY <1>1, <2>1, <2>2, <3>1, <3>2
  <2>3. ASSUME NEW i \in DOMAIN renames, renames' = [renames EXCEPT ![i].state = "refused"], lists' = lists
        PROVE Kept
    <3>1. /\ renames' # << >> /\ renames # << >> /\ Len(renames') = Len(renames) /\ DOMAIN renames' = DOMAIN renames
          /\ \A k \in DOMAIN renames :
               /\ renames'[k].id = renames[k].id
               /\ IF k = i THEN renames'[k].state = "refused" ELSE renames'[k] = renames[k]
      BY <1>3, <2>3 DEF RenameCall
    <3>2. \A k \in DOMAIN lists : lists[k].state = "done" => NamesOf(lists[k].logs, stored')
      BY <1>1, <2>1 DEF NamesOf
    <3>3. ASSUME NEW id \in DOMAIN list, NEW k \in DOMAIN renames, renames[k].id = id, renames[k].state # "sent"
          PROVE  renames'[k].id = id /\ renames'[k].state # "sent"
      BY <3>1, <3>3
    <3> QED BY <1>1, <2>1, <2>3, <3>1, <3>2, <3>3
  <2> QED BY <1>8, <2>2, <2>3 DEF RequestFails
<1>9. ASSUME NEW polled \in BOOLEAN, Load(polled) PROVE Kept
  <2> DEFINE call == [query |-> query, polled |-> polled, state |-> "sent", logs |-> << >>]
  <2>1. ~raced /\ renames = << >> /\ UNCHANGED <<renames, stored>>
    BY <1>9 DEF Load
  <2>2. lists' = Append(lists, call) /\ call.state = "sent"
    BY <1>9 DEF Load
  <2> HIDE DEF call
  <2>3. /\ lists' # << >>
        /\ \A k \in DOMAIN lists' : IF k \in DOMAIN lists THEN lists'[k] = lists[k] ELSE lists'[k] = call
    BY <2>2
  <2>4. ASSUME NEW k \in DOMAIN lists', lists'[k].state = "done" PROVE NamesOf(lists'[k].logs, stored')
    BY <1>1, <2>1, <2>2, <2>3, <2>4 DEF NamesOf
  <2> QED BY <2>1, <2>3, <2>4
<1>10. ASSUME LogsAnswered PROVE Kept
  <2>1. PICK i \in DOMAIN lists :
          /\ lists' = RemoveAt(lists, i)
          /\ list' = IF lists[i].state = "done" THEN lists[i].logs ELSE << >>
          /\ failed' = (failed \/ ~(lists[i].state = "done"))
    BY <1>10 DEF LogsAnswered
  <2>2. UNCHANGED <<renames, stored, raced>>
    BY <1>10 DEF LogsAnswered
  <2>3. renames = << >>
    BY <1>1, <2>2
  <2>4. \A k \in DOMAIN lists' : \E j \in DOMAIN lists : lists'[k] = lists[j]
    BY <2>1, RemovedWas
  <2>5. ASSUME NEW k \in DOMAIN lists', lists'[k].state = "done" PROVE NamesOf(lists'[k].logs, stored')
    BY <1>1, <2>2, <2>4, <2>5 DEF NamesOf
  <2>6. ASSUME ~failed' PROVE \A id \in DOMAIN list' : list'[id].name = stored'[id].name
    BY <1>1, <2>1, <2>2, <2>6 DEF NamesOf
  <2> QED BY <2>2, <2>3, <2>5, <2>6
<1>11. ASSUME SaveName PROVE Kept
  <2>1. UNCHANGED <<stored, list, failed, lists>>
    BY <1>11 DEF SaveName
  <2>2. PICK id \in editing, name \in Names :
          IF name = list[id].name
          THEN UNCHANGED <<renames, renamingId, raced>>
          ELSE /\ renames' = Append(renames, [id |-> id, name |-> name,
                                             state |-> "sent", log |-> list[id]])
               /\ raced' = (raced \/ lists # << >> \/ renames # << >>)
    BY <1>11 DEF SaveName
  <2>3. CASE UNCHANGED <<renames, raced>>
    BY <1>4, <2>1, <2>3
  <2>4. CASE /\ renames' = Append(renames, [id |-> id, name |-> name, state |-> "sent", log |-> list[id]])
             /\ raced' = (raced \/ lists # << >> \/ renames # << >>)
    <3> DEFINE call == [id |-> id, name |-> name, state |-> "sent", log |-> list[id]]
    <3>1. ~raced /\ lists = << >> /\ renames = << >>
      BY <2>4
    <3>2. renames' = << call >> /\ call.state = "sent"
      BY <2>4, <3>1
    <3> HIDE DEF call
    <3> QED BY <1>1, <2>1, <3>1, <3>2
  <2> QED BY <2>2, <2>3, <2>4
<1>12. ASSUME RenameAnswered PROVE Kept
  <2>1. PICK i \in DOMAIN renames :
          /\ renames' = RemoveAt(renames, i)
          /\ list' = IF renames[i].state = "done" THEN RenamedList(renames[i]) ELSE list
          /\ failed' = (failed \/ ~(renames[i].state = "done"))
    BY <1>12 DEF RenameAnswered
  <2>2. UNCHANGED <<lists, stored, raced>>
    BY <1>12 DEF RenameAnswered
  <2>one. Len(renames) \in Nat /\ DOMAIN renames = 1..Len(renames) /\ renames # << >>
    OBVIOUS
  <2>3. Len(renames) = 1 /\ i = 1 /\ lists = << >>
    BY <1>1, <2>2, <2>one
  <2>4. renames' = << >>
    <3>1. renames' \in Seq(RenameCall) /\ Len(renames') = 0
      BY <2>1, <2>3, RemovedWas
    <3> QED BY <3>1
  <2>5. ASSUME ~failed', NEW id \in DOMAIN list' PROVE list'[id].name = stored'[id].name
    <3> DEFINE rename == renames[i]
    <3>1. /\ ~failed /\ rename.state = "done" /\ list' = RenamedList(rename)
          /\ stored[rename.id].name = rename.name /\ rename.log \in Log
      BY <1>1, <1>3, <2>1, <2>2, <2>5
    <3> HIDE DEF rename
    <3>2. id \in DOMAIN list /\ list'[id] = IF id = rename.id THEN [rename.log EXCEPT !.name = rename.name] ELSE list[id]
      BY <3>1, <2>5 DEF RenamedList
    <3>3. CASE id = rename.id
      BY <2>2, <3>1, <3>2, <3>3 DEF Log
    <3>4. CASE id # rename.id
      <4>1. list[id].name = stored[id].name \/ \E k \in DOMAIN renames : renames[k].id = id
        BY <1>1, <2>2, <2>3, <3>1, <3>2
      <4>2. ~\E k \in DOMAIN renames : renames[k].id = id
        BY <2>3, <3>4 DEF rename
      <4> QED BY <2>2, <3>2, <3>4, <4>1, <4>2
    <3> QED BY <3>3, <3>4
  <2> QED BY <2>2, <2>3, <2>4, <2>5
<1>13. CASE ChangeQuery \/ StartDownload \/ EditName \/ DownloadsCleanup \/ EndDownload
  <2>1. UNCHANGED <<lists, renames, list, stored, raced>> /\ failed' \in {failed, TRUE}
    BY <1>13 DEF ChangeQuery, StartDownload, EditName, DownloadsCleanup, EndDownload
  <2> QED BY <1>4, <2>1
<1>14. CASE SubmitQuery \/ PollLogs
  BY <1>9, <1>14 DEF SubmitQuery, PollLogs
<1> QED BY <1>5, <1>6, <1>7, <1>8, <1>10, <1>11, <1>12, <1>13, <1>14 DEF DownloadsNext

LEMMA DownloadsInvNext == DownloadsInv /\ DownloadsNext => DownloadsInv'
BY DownloadTypesNext, PollingNext, NamingNext DEF DownloadsInv

LEMMA DownloadsInvElsewhere == DownloadsInv /\ UNCHANGED downloadsVars => DownloadsInv'
<1> SUFFICES ASSUME DownloadsInv, UNCHANGED downloadsVars PROVE DownloadsInv'
  OBVIOUS
<1>1. DownloadTypes'
  <2>1. UNCHANGED downloadsVars
    OBVIOUS
  <2> QED BY <2>1, Zenon DEF DownloadsInv, DownloadTypes, DownloadsTypeOK, downloadsVars
<1>2. Polling'
  BY Zenon DEF DownloadsInv, Polling, downloadsVars
<1>3. Naming'
  BY Zenon DEF DownloadsInv, Naming, NamesOf, downloadsVars
<1> QED BY <1>1, <1>2, <1>3 DEF DownloadsInv

LEMMA DownloadsInvImplies == DownloadsInv => DownloadsTypeOK /\ DownloadsTellTheTruth
<1> SUFFICES ASSUME DownloadsInv PROVE DownloadsTypeOK /\ DownloadsTellTheTruth
  OBVIOUS
<1>1. DownloadsTypeOK
  BY DEF DownloadsInv, DownloadTypes
<1>2. PollsWait
  BY DownloadFacts DEF DownloadsInv, Polling, PollsWait
<1>3. RenamesStick
  BY DownloadFacts DEF DownloadsInv, Naming, RenamesStick
<1> QED BY <1>1, <1>2, <1>3 DEF DownloadsTellTheTruth

-----------------------------------------------------------------------------
Lap == [lap : Nat, time : Nat]
LapMessage == [laps : Seq(Lap), best : Lap \union {None}]
LapState == [all : Seq(Lap), best : Lap]
Packet == [lap : 1..MaxPasses, t : Int]
LapTimesOf(row) == [i \in DOMAIN row |-> row[i].time]

LapTypes ==
  /\ gate \in [lap : Nat, t : Int] /\ passes \in 0..MaxPasses /\ gate.lap <= passes
  /\ packets \subseteq Packet
  /\ lastPass \in Int \union {None} /\ since \in Int \union {None}
  /\ laps \in Seq(Lap) /\ \A i \in DOMAIN laps : laps[i].lap \in 1..MaxPasses
  /\ feed \in Seq(LapMessage) /\ Len(feed) <= MaxFeed
  /\ shownLaps \in LapState \union {None}
  /\ behindLaps \in BOOLEAN

(* The times of the laps, counted from a pass even when there are none.    *)
LapsCount ==
  /\ lastPass = None => laps = << >>
  /\ lastPass # None => since # None /\ SumOf(LapTimesOf(laps)) = lastPass - since
  /\ \A i \in DOMAIN laps : laps[i].time > Debounce
  /\ \A i \in 1..(Len(laps) - 1) : laps[i].lap <= laps[i + 1].lap

(* What is on its way ends with the laps there are, each with its best.    *)
LapsOnTheirWay ==
  /\ \A i \in DOMAIN feed :
       feed[i].best = IF feed[i].laps = << >> THEN None ELSE Shortest(feed[i].laps)
  /\ feed # << >> => feed[Len(feed)].laps = laps
  /\ feed = << >> /\ ~behindLaps /\ laps # << >> => shownLaps # None /\ shownLaps.all = laps
  /\ shownLaps # None => shownLaps.all # << >> /\ shownLaps.best = Shortest(shownLaps.all)

LapsInv == LapTypes /\ LapsCount /\ LapsOnTheirWay

(* The shortest lap is one of them, and none is shorter.                   *)
LEMMA ShortestIs ==
  ASSUME NEW row \in Seq(Lap), row # << >>
  PROVE  /\ Shortest(row) \in Lap
         /\ \E i \in DOMAIN row : row[i] = Shortest(row)
         /\ \A i \in DOMAIN row : Shortest(row).time <= row[i].time
<1> DEFINE times == {row[i].time : i \in DOMAIN row}
           First(i) == \A k \in DOMAIN row :
                         row[i].time < row[k].time \/ (row[i].time = row[k].time /\ i <= k)
<1>1. /\ DOMAIN row = 1..Len(row) /\ Len(row) \in Nat /\ DOMAIN row # {}
      /\ \A i \in DOMAIN row : row[i] \in Lap
  <2>1. Len(row) \in Nat /\ Len(row) # 0 /\ DOMAIN row = 1..Len(row)
    OBVIOUS
  <2>2. 1 \in DOMAIN row
    BY <2>1
  <2> QED BY <2>1, <2>2
<1>2. \A i \in DOMAIN row : row[i].time \in Nat
  BY <1>1 DEF Lap
<1>3. times \in SUBSET Nat /\ times # {}
  BY <1>1, <1>2
<1> HIDE DEF times
<1>4. PICK m \in times : \A k \in times : m <= k
  BY <1>3, Least
<1> DEFINE at == {i \in DOMAIN row : row[i].time = m}
<1>5. at \in SUBSET Nat /\ at # {}
  BY <1>1, <1>4 DEF times
<1> HIDE DEF at
<1>6. PICK j \in at : \A k \in at : j <= k
  BY <1>5, Least
<1>7. j \in DOMAIN row /\ row[j].time = m
  BY DEF at
<1>8. ASSUME NEW k \in DOMAIN row
      PROVE  row[j].time < row[k].time \/ (row[j].time = row[k].time /\ j <= k)
  <2>1. m <= row[k].time /\ m \in Nat /\ row[k].time \in Nat
    BY <1>2, <1>3, <1>4 DEF times
  <2>2. row[k].time = m => j <= k
    BY <1>6 DEF at
  <2> QED BY <1>7, <2>1, <2>2
<1>9. \E i \in DOMAIN row : First(i)
  BY <1>7, <1>8
<1> DEFINE best == CHOOSE i \in DOMAIN row : First(i)
<1>10. best \in DOMAIN row /\ First(best)
  BY <1>9
<1>11. Shortest(row) = row[best]
  BY DEF Shortest
<1> HIDE DEF best
<1>12. \A i \in DOMAIN row : row[best].time <= row[i].time
  BY <1>2, <1>10
<1> QED BY <1>1, <1>10, <1>11, <1>12

LEMMA TimesAre ==
  ASSUME NEW row \in Seq(Lap), NEW lap \in Lap
  PROVE  /\ LapTimesOf(row) \in Seq(Int)
         /\ LapTimesOf(<< >>) = << >>
         /\ LapTimesOf(Append(row, lap)) = Append(LapTimesOf(row), lap.time)
<1>1. ASSUME NEW l \in Seq(Lap) PROVE LapTimesOf(l) \in [1..Len(l) -> Int] /\ Len(l) \in Nat
  <2>1. \A i \in DOMAIN l : l[i] \in Lap
    OBVIOUS
  <2>2. \A i \in DOMAIN l : l[i].time \in Int
    BY <2>1 DEF Lap
  <2> QED BY <2>2 DEF LapTimesOf
<1>2. ASSUME NEW l \in Seq(Lap) PROVE LapTimesOf(l) \in Seq(Int) /\ Len(LapTimesOf(l)) = Len(l)
  BY <1>1
<1>3. LapTimesOf(<< >>) = << >>
  BY DEF LapTimesOf
<1>4. LapTimesOf(Append(row, lap)) = Append(LapTimesOf(row), lap.time)
  <2> DEFINE s == LapTimesOf(Append(row, lap))
             r == Append(LapTimesOf(row), lap.time)
  <2>1. Append(row, lap) \in Seq(Lap) /\ Len(Append(row, lap)) = Len(row) + 1
    OBVIOUS
  <2>2. lap.time \in Int
    BY DEF Lap
  <2>3. s \in Seq(Int) /\ Len(s) = Len(row) + 1
    BY <1>2, <2>1
  <2>4. r \in Seq(Int) /\ Len(r) = Len(row) + 1
    BY <1>2, <2>2
  <2>5. \A i \in 1..(Len(row) + 1) : s[i] = r[i]
    <3>1. ASSUME NEW i \in 1..(Len(row) + 1) PROVE s[i] = Append(row, lap)[i].time
      BY <2>1 DEF LapTimesOf
    <3>2. ASSUME NEW i \in 1..Len(row) PROVE r[i] = row[i].time
      BY <1>2, <2>2 DEF LapTimesOf
    <3>3. r[Len(row) + 1] = lap.time
      BY <1>2, <2>2
    <3> HIDE DEF s, r
    <3> QED BY <3>1, <3>2, <3>3
  <2> HIDE DEF s, r
  <2>6. s = r
    BY <2>3, <2>4, <2>5, SeqEqual
  <2> QED BY <2>6 DEF s, r
<1> QED BY <1>2, <1>3, <1>4

LEMMA LapTypesOf ==
  ASSUME gate' \in [lap : Nat, t : Int], passes' \in 0..MaxPasses, gate'.lap <= passes',
         packets' \subseteq Packet,
         lastPass' \in Int \union {None}, since' \in Int \union {None},
         laps' \in Seq(Lap), \A i \in DOMAIN laps' : laps'[i].lap \in 1..MaxPasses,
         feed' \in Seq(LapMessage), Len(feed') <= MaxFeed,
         shownLaps' \in LapState \union {None}, behindLaps' \in BOOLEAN
  PROVE  LapTypes'
BY DEF LapTypes

LEMMA LapFacts ==
  ASSUME LapTypes
  PROVE  /\ gate \in [lap : Nat, t : Int] /\ passes \in 0..MaxPasses /\ gate.lap <= passes
         /\ packets \subseteq Packet
         /\ lastPass \in Int \union {None} /\ since \in Int \union {None}
         /\ laps \in Seq(Lap) /\ \A i \in DOMAIN laps : laps[i].lap \in 1..MaxPasses
         /\ feed \in Seq(LapMessage) /\ Len(feed) <= MaxFeed
         /\ shownLaps \in LapState \union {None}
         /\ behindLaps \in BOOLEAN
BY DEF LapTypes

LEMMA LapsInvInit == LapsInit => LapsInv
<1> SUFFICES ASSUME LapsInit PROVE LapsInv
  OBVIOUS
<1>1. /\ gate = [lap |-> 0, t |-> 0] /\ passes = 0 /\ packets = {}
      /\ lastPass = None /\ laps = << >> /\ since = None
      /\ feed = << >> /\ shownLaps = None /\ behindLaps = FALSE
  BY DEF LapsInit
<1>2. LapTypes
  <2>1. gate \in [lap : Nat, t : Int] /\ gate.lap = 0
    BY <1>1
  <2>2. behindLaps \in BOOLEAN
    BY <1>1, Zenon
  <2>3. Len(feed) = 0 /\ feed \in Seq(LapMessage) /\ laps \in Seq(Lap) /\ DOMAIN laps = {}
    BY <1>1
  <2> QED BY <1>1, <2>1, <2>2, <2>3, LapsAssumption DEF LapTypes
<1>3. LapsCount
  <2>1. DOMAIN laps = {} /\ Len(laps) = 0
    BY <1>1
  <2> QED BY <1>1, <2>1 DEF LapsCount
<1>4. LapsOnTheirWay
  <2>1. DOMAIN feed = {}
    BY <1>1
  <2> QED BY <1>1, <2>1 DEF LapsOnTheirWay
<1> QED BY <1>2, <1>3, <1>4 DEF LapsInv

(* What the feed becomes when a row is broadcast.                         *)
LEMMA Broadcast ==
  ASSUME LapTypes, laps' \in Seq(Lap), BroadcastLaps, LapsOnTheirWay
  PROVE  /\ feed' \in Seq(LapMessage) /\ Len(feed') <= MaxFeed /\ feed' # << >>
         /\ feed'[Len(feed')].laps = laps'
         /\ \A i \in DOMAIN feed' :
              feed'[i].best = IF feed'[i].laps = << >> THEN None ELSE Shortest(feed'[i].laps)
<1> DEFINE message == [laps |-> laps', best |-> IF laps' = << >> THEN None ELSE Shortest(laps')]
<1>1. /\ message \in LapMessage /\ message.laps = laps'
      /\ message.best = IF message.laps = << >> THEN None ELSE Shortest(message.laps)
  BY ShortestIs DEF LapMessage
<1>2. feed' = IF Len(feed) < MaxFeed THEN Append(feed, message) ELSE Append(Tail(feed), message)
  BY DEF BroadcastLaps
<1> HIDE DEF message
<1>3. feed \in Seq(LapMessage) /\ Len(feed) <= MaxFeed /\ MaxFeed \in Nat \ {0}
  BY LapFacts, LapsAssumption
<1>4. \A i \in DOMAIN feed :
        feed[i].best = IF feed[i].laps = << >> THEN None ELSE Shortest(feed[i].laps)
  BY DEF LapsOnTheirWay
<1>5. ASSUME NEW kept \in Seq(LapMessage), Len(kept) < MaxFeed, feed' = Append(kept, message),
             \A i \in DOMAIN kept : \E k \in DOMAIN feed : kept[i] = feed[k]
      PROVE  /\ feed' \in Seq(LapMessage) /\ Len(feed') <= MaxFeed /\ feed' # << >>
             /\ feed'[Len(feed')] = message
             /\ \A i \in DOMAIN feed' : feed'[i] = message \/ \E k \in DOMAIN feed : feed'[i] = feed[k]
  <2>1. feed' \in Seq(LapMessage) /\ Len(feed') = Len(kept) + 1 /\ Len(kept) \in Nat
        /\ feed'[Len(kept) + 1] = message /\ DOMAIN feed' = 1..(Len(kept) + 1)
        /\ \A i \in DOMAIN kept : feed'[i] = kept[i]
    BY <1>1, <1>5
  <2>2. Len(feed') <= MaxFeed /\ feed' # << >>
    BY <1>3, <1>5, <2>1
  <2>3. \A i \in DOMAIN feed' : i = Len(kept) + 1 \/ i \in DOMAIN kept
    BY <2>1
  <2> QED BY <1>5, <2>1, <2>2, <2>3
<1>6. CASE Len(feed) < MaxFeed
  BY <1>1, <1>2, <1>3, <1>4, <1>5, <1>6
<1>7. CASE ~(Len(feed) < MaxFeed)
  <2>1. feed # << >> /\ Len(feed) = MaxFeed
    BY <1>3, <1>7
  <2>2. /\ Tail(feed) \in Seq(LapMessage) /\ Len(Tail(feed)) = Len(feed) - 1
        /\ \A i \in DOMAIN Tail(feed) : i + 1 \in DOMAIN feed /\ Tail(feed)[i] = feed[i + 1]
    BY <1>3, <2>1
  <2>3. Len(Tail(feed)) < MaxFeed /\ \A i \in DOMAIN Tail(feed) : \E k \in DOMAIN feed : Tail(feed)[i] = feed[k]
    BY <1>3, <2>1, <2>2
  <2>4. feed' = Append(Tail(feed), message)
    BY <1>2, <1>7
  <2> QED BY <1>1, <1>4, <1>5, <2>2, <2>3, <2>4, Zenon
<1> QED BY <1>6, <1>7

LEMMA PacketKeeps == ASSUME LapsInv, NEW p \in packets, HandlePacket(p) PROVE LapsInv'
<1>1. /\ LapTypes /\ LapsCount /\ LapsOnTheirWay
      /\ laps \in Seq(Lap) /\ \A i \in DOMAIN laps : laps[i].lap \in 1..MaxPasses
      /\ lastPass \in Int \union {None} /\ since \in Int \union {None}
  BY DEF LapsInv, LapTypes
<1>2. p \in Packet /\ p.lap \in 1..MaxPasses /\ p.t \in Int
  <2>1. p \in Packet
    BY LapFacts, <1>1
  <2> QED BY <2>1 DEF Packet
<1>3. UNCHANGED <<gate, passes, shownLaps, behindLaps>> /\ packets' = packets \ {p}
  BY DEF HandlePacket
<1>types. ASSUME lastPass' \in Int, since' \in Int \union {None}, laps' \in Seq(Lap),
                 \A i \in DOMAIN laps' : laps'[i].lap \in 1..MaxPasses,
                 feed' \in Seq(LapMessage), Len(feed') <= MaxFeed
          PROVE  LapTypes'
  <2>1. packets' \subseteq Packet
    BY LapFacts, <1>1, <1>3
  <2> QED BY <1>1, <1>3, <1>types, <2>1, LapFacts, LapTypesOf
<1>4. ASSUME BroadcastLaps, laps' \in Seq(Lap)
      PROVE  LapsOnTheirWay' /\ feed' \in Seq(LapMessage) /\ Len(feed') <= MaxFeed
  <2>1. /\ feed' \in Seq(LapMessage) /\ Len(feed') <= MaxFeed /\ feed' # << >>
        /\ feed'[Len(feed')].laps = laps'
        /\ \A i \in DOMAIN feed' :
             feed'[i].best = IF feed'[i].laps = << >> THEN None ELSE Shortest(feed'[i].laps)
    BY <1>1, <1>4, Broadcast
  <2>2. shownLaps' # None => shownLaps'.all # << >> /\ shownLaps'.best = Shortest(shownLaps'.all)
    BY <1>1, <1>3 DEF LapsOnTheirWay
  <2> QED BY <2>1, <2>2 DEF LapsOnTheirWay
<1>5. CASE Restarts(p) /\ lastPass' = p.t /\ laps' = << >> /\ since' = p.t /\ BroadcastLaps
  <2>1. laps' \in Seq(Lap) /\ DOMAIN laps' = {} /\ Len(laps') = 0
    BY <1>5
  <2>2. LapTypes' /\ LapsOnTheirWay'
    BY <1>2, <1>4, <1>5, <1>types, <2>1
  <2>3. LapTimesOf(laps') = << >> /\ SumOf(<< >>) = 0
    <3>1. << >> \in Seq(Int) /\ 0 \in Int
      OBVIOUS
    <3>2. SumOf(<< >>) = 0
      BY <3>1, SumAppended
    <3> QED BY <1>5, <3>2 DEF LapTimesOf
  <2>4. LapsCount'
    BY <1>2, <1>5, <2>1, <2>3, LapsAssumption DEF LapsCount
  <2> QED BY <2>2, <2>4 DEF LapsInv
<1>6. ASSUME ~Restarts(p) PROVE /\ p.lap # 1 /\ lastPass # None /\ lastPass \in Int /\ since \in Int
                                /\ SumOf(LapTimesOf(laps)) = lastPass - since
                                /\ laps # << >> /\ p.t - lastPass > Debounce => p.lap > Last(laps).lap
  <2>1. p.lap # 1 /\ lastPass # None /\ lastPass \in Int /\ since \in Int /\ SumOf(LapTimesOf(laps)) = lastPass - since
    BY <1>1, <1>6 DEF Restarts, LapsCount
  <2>2. ASSUME laps # << >>, p.t - lastPass > Debounce PROVE p.lap > Last(laps).lap
    <3>1. Len(laps) \in DOMAIN laps
      BY <1>1, <2>2
    <3>2. Last(laps).lap \in 1..MaxPasses
      BY <1>1, <3>1 DEF Last
    <3>3. ~(p.lap <= Last(laps).lap)
      BY <1>6, <2>2 DEF Restarts
    <3> QED BY <1>2, <3>2, <3>3
  <2> QED BY <2>1, <2>2
<1>7. CASE ~Restarts(p) /\ p.t - lastPass <= Debounce /\ lastPass' = LastPassAfterBounce(p)
           /\ UNCHANGED <<laps, since, feed>>
  <2>1. lastPass' = lastPass
    BY <1>7 DEF LastPassAfterBounce
  <2>2. LapTypes'
    BY <1>1, <1>6, <1>7, <1>types, <2>1, LapFacts
  <2>3. LapsCount'
    BY <1>1, <1>7, <2>1 DEF LapsCount, LapTimesOf
  <2>4. LapsOnTheirWay'
    BY <1>1, <1>3, <1>7 DEF LapsOnTheirWay
  <2> QED BY <2>2, <2>3, <2>4 DEF LapsInv
<1>8. CASE /\ ~Restarts(p) /\ p.t - lastPass > Debounce
           /\ lastPass' = p.t
           /\ laps' = Append(laps, [lap |-> p.lap - 1, time |-> p.t - lastPass])
           /\ BroadcastLaps
           /\ UNCHANGED since
  <2> DEFINE lap == [lap |-> p.lap - 1, time |-> p.t - lastPass]
  <2>1. lap \in Lap /\ lap.lap = p.lap - 1 /\ lap.time = p.t - lastPass /\ lap.lap \in 1..MaxPasses
        /\ lap.time > Debounce
    BY <1>2, <1>6, <1>8, LapsAssumption DEF Lap, Debounce
  <2>2. laps' = Append(laps, lap)
    BY <1>8
  <2> HIDE DEF lap
  <2>3. /\ laps' \in Seq(Lap) /\ Len(laps') = Len(laps) + 1 /\ Len(laps) \in Nat /\ laps'[Len(laps) + 1] = lap
        /\ DOMAIN laps = 1..Len(laps) /\ DOMAIN laps' = 1..(Len(laps) + 1)
        /\ \A i \in 1..Len(laps) : laps'[i] = laps[i]
    BY <1>1, <2>1, <2>2
  <2>4. \A i \in DOMAIN laps' : laps'[i].lap \in 1..MaxPasses
    BY <1>1, <2>1, <2>3
  <2>5. LapTypes' /\ LapsOnTheirWay'
    BY <1>1, <1>2, <1>4, <1>8, <1>types, <2>3, <2>4
  <2>6. SumOf(LapTimesOf(laps')) = SumOf(LapTimesOf(laps)) + lap.time
    <3>1. LapTimesOf(laps') = Append(LapTimesOf(laps), lap.time) /\ LapTimesOf(laps) \in Seq(Int) /\ lap.time \in Int
      BY <1>1, <2>1, <2>2, TimesAre DEF Lap
    <3> QED BY <3>1, SumAppended
  <2>7. SumOf(LapTimesOf(laps')) = lastPass' - since'
    BY <1>2, <1>6, <1>8, <2>1, <2>6
  <2>8. \A i \in DOMAIN laps' : laps'[i].time > Debounce
    BY <1>1, <2>1, <2>3 DEF LapsCount
  <2>9. \A i \in 1..(Len(laps') - 1) : laps'[i].lap <= laps'[i + 1].lap
    <3>1. ASSUME NEW i \in 1..(Len(laps) - 1) PROVE laps'[i].lap <= laps'[i + 1].lap
      BY <1>1, <2>3 DEF LapsCount
    <3>2. ASSUME Len(laps) # 0 PROVE laps'[Len(laps)].lap <= laps'[Len(laps) + 1].lap
      <4>1. laps # << >> /\ Len(laps) \in DOMAIN laps /\ laps'[Len(laps)] = Last(laps)
        BY <1>1, <2>3, <3>2 DEF Last
      <4>2. p.lap > Last(laps).lap /\ Last(laps).lap \in Int
        BY <1>1, <1>6, <1>8, <4>1 DEF Last
      <4> QED BY <1>2, <2>1, <2>3, <4>1, <4>2
    <3> QED BY <2>3, <3>1, <3>2
  <2>10. LapsCount'
    BY <1>2, <1>6, <1>8, <2>7, <2>8, <2>9, LapsAssumption DEF LapsCount
  <2> QED BY <2>5, <2>10 DEF LapsInv
<1> QED BY <1>5, <1>7, <1>8 DEF HandlePacket

(* What the store makes of a message.                                      *)
LEMMA Applied ==
  ASSUME NEW m \in LapMessage, m.best = IF m.laps = << >> THEN None ELSE Shortest(m.laps)
  PROVE  ApplyBackendLapTimes(m) =
           IF m.laps = << >> THEN shownLaps ELSE [all |-> m.laps, best |-> Shortest(m.laps)]
<1>1. m.laps \in Seq(Lap)
  BY DEF LapMessage
<1>2. CASE m.laps = << >>
  <2>1. m.best = None
    BY <1>2
  <2> QED BY <1>2, <2>1, Zenon DEF ApplyBackendLapTimes, NormalizeBackendLaps
<1>3. CASE m.laps # << >>
  <2>1. Shortest(m.laps) \in Lap
    BY <1>1, <1>3, ShortestIs
  <2>2. m.best # None /\ m.best = Shortest(m.laps)
    BY <1>3, <2>1, LapsAssumption DEF Lap
  <2> DEFINE new == NormalizeBackendLaps(m)
  <2>3. new = [all |-> m.laps, best |-> Shortest(m.laps)]
    BY <2>2 DEF NormalizeBackendLaps
  <2>4. ApplyBackendLapTimes(m) = IF new.all = << >> /\ new.best = None THEN shownLaps
                                  ELSE [new EXCEPT !.all = IF @ = << >> THEN << new.best >> ELSE @]
    BY DEF ApplyBackendLapTimes
  <2> HIDE DEF new
  <2>5. new.all = m.laps
    BY <2>3
  <2>6. ApplyBackendLapTimes(m) = [new EXCEPT !.all = m.laps]
    BY <1>3, <2>4, <2>5
  <2> QED BY <1>3, <2>3, <2>6
<1> QED BY <1>2, <1>3

LEMMA LapsInvNext == LapsInv /\ LapsNext => LapsInv'
<1> SUFFICES ASSUME LapsInv, LapsNext PROVE LapsInv'
  OBVIOUS
<1>1. LapTypes /\ LapsCount /\ LapsOnTheirWay
  BY DEF LapsInv
<1> USE LapFacts
<1>2. ASSUME UNCHANGED serverLaps PROVE LapsCount'
  BY <1>1, <1>2 DEF serverLaps, LapsCount, LapTimesOf
<1>3. CASE CarPasses
  <2>1. PICK gap \in Gaps, lap \in {1, gate.lap + 1} :
          /\ gate' = [lap |-> lap, t |-> gate.t + gap] /\ packets' = packets \union {gate'}
    BY <1>3 DEF CarPasses
  <2>2. /\ passes < MaxPasses /\ passes' = passes + 1
        /\ UNCHANGED <<lastPass, laps, since, feed, shownLaps, behindLaps>>
    BY <1>3 DEF CarPasses, serverLaps
  <2>3. gate.lap \in Nat /\ gate.t \in Int /\ gate.lap <= passes /\ passes \in Nat /\ gap \in Int /\ MaxPasses \in Nat
    BY <1>1, LapsAssumption
  <2>4. lap \in 1..MaxPasses /\ lap <= passes'
    BY <2>2, <2>3
  <2>5. gate' \in [lap : Nat, t : Int] /\ gate' \in Packet /\ gate'.lap <= passes'
    BY <2>1, <2>3, <2>4 DEF Packet
  <2>6. LapTypes'
    BY <1>1, <2>1, <2>2, <2>3, <2>5, LapTypesOf
  <2>7. LapsCount'
    BY <1>2, <2>2 DEF serverLaps
  <2>8. LapsOnTheirWay'
    BY <1>1, <2>2 DEF LapsOnTheirWay
  <2> QED BY <2>6, <2>7, <2>8 DEF LapsInv
<1>4. CASE PacketIsLost
  <2>1. UNCHANGED <<gate, passes, lastPass, laps, since, feed, shownLaps, behindLaps>> /\ packets' \subseteq packets
    BY <1>4 DEF PacketIsLost, serverLaps
  <2>2. LapTypes'
    BY <1>1, <2>1, LapTypesOf
  <2>3. LapsCount'
    BY <1>2, <2>1 DEF serverLaps
  <2>4. LapsOnTheirWay'
    BY <1>1, <2>1 DEF LapsOnTheirWay
  <2> QED BY <2>2, <2>3, <2>4 DEF LapsInv
<1>5. ASSUME NEW p \in packets, HandlePacket(p) PROVE LapsInv'
  BY <1>5, PacketKeeps
<1>6. ASSUME feed # << >>, feed' = Tail(feed)
      PROVE  /\ feed' \in Seq(LapMessage) /\ Len(feed') <= MaxFeed
             /\ \A i \in DOMAIN feed' :
                  feed'[i].best = IF feed'[i].laps = << >> THEN None ELSE Shortest(feed'[i].laps)
             /\ feed' # << >> => feed'[Len(feed')].laps = laps
             /\ feed' = << >> => Head(feed).laps = laps
             /\ Head(feed) \in LapMessage
             /\ Head(feed).best = IF Head(feed).laps = << >> THEN None ELSE Shortest(Head(feed).laps)
  <2>1. feed \in Seq(LapMessage) /\ Len(feed) \in Nat \ {0} /\ Len(feed) <= MaxFeed /\ MaxFeed \in Nat
    BY <1>1, <1>6, LapsAssumption
  <2>2. /\ feed' \in Seq(LapMessage) /\ Len(feed') = Len(feed) - 1 /\ Head(feed) = feed[1]
        /\ DOMAIN feed' = 1..(Len(feed) - 1) /\ DOMAIN feed = 1..Len(feed)
        /\ \A i \in 1..(Len(feed) - 1) : feed'[i] = feed[i + 1]
    BY <1>6, <2>1
  <2>3. \A i \in DOMAIN feed :
          feed[i].best = IF feed[i].laps = << >> THEN None ELSE Shortest(feed[i].laps)
    BY <1>1 DEF LapsOnTheirWay
  <2>4. feed[Len(feed)].laps = laps
    BY <1>1, <1>6 DEF LapsOnTheirWay
  <2>5. \A i \in DOMAIN feed' :
          feed'[i].best = IF feed'[i].laps = << >> THEN None ELSE Shortest(feed'[i].laps)
    BY <2>1, <2>2, <2>3
  <2>6. feed' # << >> => Len(feed') # 0 /\ feed'[Len(feed')] = feed[Len(feed)]
    BY <2>1, <2>2
  <2>7. feed' = << >> => Len(feed) = 1
    BY <2>1, <2>2
  <2>8. 1 \in DOMAIN feed /\ feed[1] \in LapMessage
    BY <2>1
  <2> QED BY <2>1, <2>2, <2>3, <2>4, <2>5, <2>6, <2>7, <2>8
<1>7. CASE LapsReceived
  <2>1. /\ feed # << >> /\ feed' = Tail(feed) /\ behindLaps' = FALSE
        /\ shownLaps' = ApplyBackendLapTimes(Head(feed))
        /\ UNCHANGED <<gate, passes, packets, lastPass, laps, since>>
    BY <1>7 DEF LapsReceived, serverLaps
  <2> DEFINE m == Head(feed)
  <2>2. /\ m \in LapMessage /\ m.laps \in Seq(Lap)
        /\ m.best = IF m.laps = << >> THEN None ELSE Shortest(m.laps)
    BY <1>6, <2>1 DEF LapMessage
  <2>3. feed' = << >> => m.laps = laps
    BY <1>6, <2>1
  <2>4. shownLaps' = IF m.laps = << >> THEN shownLaps ELSE [all |-> m.laps, best |-> Shortest(m.laps)]
    BY <2>1, <2>2, Applied
  <2> HIDE DEF m
  <2>5. CASE m.laps = << >>
    <3>1. shownLaps' = shownLaps
      BY <2>4, <2>5
    <3>2. LapTypes'
      <4>1. behindLaps' \in BOOLEAN
        BY <2>1, Zenon
      <4> QED BY <1>1, <1>6, <2>1, <3>1, <4>1, LapTypesOf
    <3>3. LapsOnTheirWay'
      BY <1>1, <1>6, <2>1, <2>3, <2>5, <3>1 DEF LapsOnTheirWay
    <3> QED BY <1>2, <2>1, <3>2, <3>3 DEF LapsInv, serverLaps
  <2>6. CASE m.laps # << >>
    <3>1. shownLaps' = [all |-> m.laps, best |-> Shortest(m.laps)] /\ Shortest(m.laps) \in Lap
      BY <2>2, <2>4, <2>6, ShortestIs
    <3>2. shownLaps' \in LapState /\ shownLaps' # None /\ shownLaps'.all = m.laps /\ shownLaps'.best = Shortest(m.laps)
      BY <2>2, <3>1, LapsAssumption DEF LapState, Lap
    <3>3. LapTypes'
      <4>1. behindLaps' \in BOOLEAN
        BY <2>1, Zenon
      <4> QED BY <1>1, <1>6, <2>1, <3>2, <4>1, LapTypesOf
    <3>4. LapsOnTheirWay'
      BY <1>6, <2>1, <2>3, <2>6, <3>2 DEF LapsOnTheirWay
    <3> QED BY <1>2, <2>1, <3>3, <3>4 DEF LapsInv, serverLaps
  <2> QED BY <2>5, <2>6
<1>8. CASE LapsAreLost
  <2>1. /\ feed # << >> /\ feed' = Tail(feed) /\ behindLaps' = (behindLaps \/ feed' = << >>)
        /\ UNCHANGED <<gate, passes, packets, lastPass, laps, since, shownLaps>>
    BY <1>8 DEF LapsAreLost, serverLaps
  <2>2. LapTypes'
    <3>1. behindLaps' \in BOOLEAN
      BY <2>1, Zenon
    <3> QED BY <1>1, <1>6, <2>1, <3>1, LapTypesOf
  <2>3. LapsOnTheirWay'
    BY <1>1, <1>6, <2>1 DEF LapsOnTheirWay
  <2> QED BY <1>2, <2>1, <2>2, <2>3 DEF LapsInv, serverLaps
<1>9. CASE LapsCleared
  <2>1. /\ shownLaps' = None /\ behindLaps' = TRUE
        /\ UNCHANGED <<gate, passes, packets, lastPass, laps, since, feed>>
    BY <1>9 DEF LapsCleared, serverLaps
  <2>2. LapTypes'
    <3>1. behindLaps' \in BOOLEAN
      BY <2>1, Zenon
    <3> QED BY <1>1, <2>1, <3>1, LapTypesOf
  <2>3. LapsOnTheirWay'
    BY <1>1, <2>1 DEF LapsOnTheirWay
  <2> QED BY <1>2, <2>1, <2>2, <2>3 DEF LapsInv, serverLaps
<1> QED BY <1>3, <1>4, <1>5, <1>7, <1>8, <1>9 DEF LapsNext

LEMMA LapsInvElsewhere == LapsInv /\ UNCHANGED lapVars => LapsInv'
<1> SUFFICES ASSUME LapsInv, UNCHANGED lapVars PROVE LapsInv'
  OBVIOUS
<1>1. LapTypes'
  BY Zenon DEF LapsInv, LapTypes, lapVars, serverLaps
<1>2. LapsCount'
  BY Zenon DEF LapsInv, LapsCount, lapVars, serverLaps
<1>3. LapsOnTheirWay'
  BY Zenon DEF LapsInv, LapsOnTheirWay, lapVars, serverLaps
<1> QED BY <1>1, <1>2, <1>3 DEF LapsInv

LEMMA LapsInvImplies == LapsInv => LapsTypeOK /\ LapsAddUp /\ LapsShown
<1> SUFFICES ASSUME LapsInv PROVE LapsTypeOK /\ LapsAddUp /\ LapsShown
  OBVIOUS
<1>1. LapTypes /\ LapsCount /\ LapsOnTheirWay
  BY DEF LapsInv
<1>2. LapsTypeOK
  <2>1. gate.lap \in 0..MaxPasses
    BY <1>1, LapsAssumption DEF LapTypes
  <2>2. \A p \in packets : p.lap \in 1..MaxPasses
    BY <1>1 DEF LapTypes, Packet
  <2>3. \A i \in DOMAIN laps : laps[i].time > 0
    <3>1. \A i \in DOMAIN laps : laps[i].time \in Int
      <4>1. laps \in Seq(Lap)
        BY <1>1 DEF LapTypes
      <4>2. \A i \in DOMAIN laps : laps[i] \in Lap
        BY <4>1
      <4> QED BY <4>2 DEF Lap
    <3> QED BY <1>1, <3>1 DEF LapsCount, Debounce
  <2> QED BY <1>1, <2>1, <2>2, <2>3 DEF LapTypes, LapsTypeOK
<1>3. LapsAddUp
  BY <1>1 DEF LapsAddUp, LapsCount, LapTimesOf
<1>4. LapsShown
  <2>1. ASSUME shownLaps # None
        PROVE  /\ MarkedBest # {}
               /\ \A i \in DOMAIN shownLaps.all : shownLaps.best.time <= shownLaps.all[i].time
    <3>1. shownLaps \in LapState /\ shownLaps.all # << >> /\ shownLaps.best = Shortest(shownLaps.all)
      BY <1>1, <2>1 DEF LapTypes, LapsOnTheirWay
    <3>2. shownLaps.all \in Seq(Lap)
      BY <3>1 DEF LapState
    <3>3. /\ \E i \in DOMAIN shownLaps.all : shownLaps.all[i] = Shortest(shownLaps.all)
          /\ \A i \in DOMAIN shownLaps.all : Shortest(shownLaps.all).time <= shownLaps.all[i].time
      BY <3>1, <3>2, ShortestIs
    <3> QED BY <3>1, <3>3 DEF MarkedBest
  <2> QED BY <1>1, <2>1 DEF LapsShown, LapsOnTheirWay
<1> QED BY <1>2, <1>3, <1>4

-----------------------------------------------------------------------------
Figures == [max : Int, min : Int, sum : Int, count : Nat \ {0}]
Source == [name : STRING, value : Int]
IsShown(shown) == shown \in [DOMAIN shown -> Int]

CardTypes ==
  /\ IsShown(values) /\ IsFiniteSet(DOMAIN values)
  /\ stats \in [DOMAIN Cards -> Figures \union {None}]
  /\ cleared \in BOOLEAN /\ batches \in 0..MaxBatches

(* The figures of a card, and the source it has.                           *)
Encloses(figures, source) == source # None => figures.min <= source.value /\ source.value <= figures.max
Averages(figures) ==
  figures.min * figures.count <= figures.sum /\ figures.sum <= figures.max * figures.count

CardFigures ==
  \A c \in DOMAIN Cards :
    /\ ResolveSource(values, c) # None => stats[c] # None
    /\ stats[c] # None =>
         /\ Encloses(stats[c], ResolveSource(values, c))
         /\ Averages(stats[c])
         /\ ResolveSource(values, c) # None \/ cleared

CardCopies == sampled = FaultSnapshot(values) /\ catalog = DOMAIN values

CardsInv == CardTypes /\ CardFigures /\ CardCopies

Places(shown, names) == {i \in DOMAIN names : Shows(shown, names[i])}

(* Among values of places there is a best, the first of its equals.        *)
LEMMA BestIs ==
  ASSUME NEW n \in Nat, NEW places \in SUBSET (1..n), places # {},
         NEW vals \in [places -> Int], NEW aggregate
  PROVE  /\ BestIndex(aggregate, vals) \in places
         /\ \A k \in places : vals[BestIndex(aggregate, vals)] = vals[k]
                                \/ Better(aggregate, vals[BestIndex(aggregate, vals)], vals[k])
<1> DEFINE First(i, m) == \A k \in (places \intersect (1..m)) \ {i} :
                            Better(aggregate, vals[i], vals[k]) \/ (vals[i] = vals[k] /\ i < k)
           S == {m \in 0..n : \/ places \intersect (1..m) = {}
                              \/ \E i \in places \intersect (1..m) : First(i, m)}
<1>1. 0 \in S
  OBVIOUS
<1>2. ASSUME NEW m \in 0..(n - 1), m \in S PROVE m + 1 \in S
  <2>1. 1..(m + 1) = (1..m) \union {m + 1} /\ m + 1 \in 0..n
    OBVIOUS
  <2>2. CASE m + 1 \notin places
    <3>1. places \intersect (1..(m + 1)) = places \intersect (1..m)
      BY <2>1, <2>2
    <3> QED BY <1>2, <2>1, <3>1
  <2>3. CASE m + 1 \in places /\ places \intersect (1..m) = {}
    <3>1. places \intersect (1..(m + 1)) = {m + 1}
      BY <2>1, <2>3
    <3>2. First(m + 1, m + 1)
      BY <3>1
    <3> QED BY <2>1, <3>1, <3>2
  <2>4. CASE m + 1 \in places /\ places \intersect (1..m) # {}
    <3>1. PICK j \in places \intersect (1..m) : First(j, m)
      BY <1>2, <2>4
    <3>2. j \in places /\ j < m + 1 /\ j \in places \intersect (1..(m + 1))
          /\ m + 1 \in places \intersect (1..(m + 1))
      BY <2>1, <2>4
    <3>3. /\ vals[j] \in Int /\ vals[m + 1] \in Int
          /\ \A k \in places \intersect (1..m) : vals[k] \in Int
      BY <2>4
    <3>4. CASE Better(aggregate, vals[m + 1], vals[j])
      <4>1. ASSUME NEW k \in (places \intersect (1..(m + 1))) \ {m + 1}
            PROVE  Better(aggregate, vals[m + 1], vals[k])
        <5>1. k \in places \intersect (1..m) /\ vals[k] \in Int
          BY <2>1
        <5>2. k = j \/ Better(aggregate, vals[j], vals[k]) \/ vals[j] = vals[k]
          BY <3>1, <5>1
        <5> QED BY <3>3, <3>4, <5>1, <5>2 DEF Better
      <4>2. First(m + 1, m + 1)
        BY <4>1
      <4> QED BY <2>1, <3>2, <4>2
    <3>5. CASE ~Better(aggregate, vals[m + 1], vals[j])
      <4>1. Better(aggregate, vals[j], vals[m + 1]) \/ vals[j] = vals[m + 1]
        BY <3>3, <3>5 DEF Better
      <4>2. ASSUME NEW k \in (places \intersect (1..(m + 1))) \ {j}
            PROVE  Better(aggregate, vals[j], vals[k]) \/ (vals[j] = vals[k] /\ j < k)
        <5>1. CASE k = m + 1
          BY <3>2, <4>1, <5>1
        <5>2. CASE k # m + 1
          BY <2>1, <3>1, <5>2
        <5> QED BY <5>1, <5>2
      <4>3. First(j, m + 1)
        BY <4>2
      <4> QED BY <2>1, <3>2, <4>3
    <3> QED BY <3>4, <3>5
  <2> QED BY <2>2, <2>3, <2>4
<1> HIDE DEF First
<1>3. \A m \in 0..n : m \in S
  BY <1>1, <1>2, InductUpTo
<1>4. \E i \in places : First(i, n)
  <2>0. places \intersect (1..n) = places
    BY Zenon
  <2>1. n \in 0..n /\ places \intersect (1..n) = places
    BY <2>0
  <2>2. n \in S
    BY <1>3, <2>1
  <2> QED BY <2>1, <2>2
<1>5. DOMAIN vals = places /\ (places \intersect (1..n)) = places
  OBVIOUS
<1> DEFINE Best(i) == \A k \in DOMAIN vals \ {i} :
                        Better(aggregate, vals[i], vals[k]) \/ (vals[i] = vals[k] /\ i < k)
<1>6. \E i \in DOMAIN vals : Best(i)
  BY <1>4, <1>5 DEF First
<1> DEFINE best == CHOOSE i \in DOMAIN vals : Best(i)
<1>7. best \in DOMAIN vals /\ Best(best)
  BY <1>6
<1>8. BestIndex(aggregate, vals) = best
  BY DEF BestIndex
<1> HIDE DEF best
<1>9. \A k \in places : k = best \/ Better(aggregate, vals[best], vals[k]) \/ vals[best] = vals[k]
  BY <1>5, <1>7
<1> QED BY <1>5, <1>7, <1>8, <1>9

LEMMA ValuesAre ==
  ASSUME NEW shown, IsShown(shown), NEW names \in Seq(STRING)
  PROVE  /\ ValuesOf(shown, names) \in [Places(shown, names) -> Int]
         /\ \A i \in Places(shown, names) : ValuesOf(shown, names)[i] = shown[names[i]]
         /\ Places(shown, names) \in SUBSET (1..Len(names))
         /\ Len(names) \in Nat
<1>1. \A i \in DOMAIN names : Shows(shown, names[i]) => shown[names[i]] \in Int
  BY DEF IsShown, Shows
<1> QED BY <1>1 DEF ValuesOf, Places

LEMMA SourceIs ==
  ASSUME NEW shown, IsShown(shown), NEW c \in DOMAIN Cards
  PROVE  /\ ResolveSource(shown, c) \in Source \union {None}
         /\ ResolveSource(shown, c) # None <=>
              (\E i \in DOMAIN Cards[c].names : Shows(shown, Cards[c].names[i])) \/ Shows(shown, c)
<1>1. PICK names : names = Cards[c].names /\ names \in Seq(STRING) /\ c \in STRING
  BY CardsAssumption
<1> DEFINE places == Places(shown, names)
           vals == ValuesOf(shown, names)
           best == BestIndex(Cards[c].aggregate, vals)
<1>2. vals \in [places -> Int] /\ places \in SUBSET (1..Len(names)) /\ Len(names) \in Nat
      /\ DOMAIN vals = places
  <2>1. names \in Seq(STRING)
    BY <1>1
  <2>2. vals \in [places -> Int] /\ places \in SUBSET (1..Len(names)) /\ Len(names) \in Nat
    BY <2>1, ValuesAre
  <2> QED BY <2>2
<1>3. Shows(shown, c) => shown[c] \in Int
  BY DEF IsShown, Shows
<1>4. ResolveSource(shown, c) =
        IF DOMAIN vals # {} THEN [name |-> names[best], value |-> vals[best]]
        ELSE IF Shows(shown, c) THEN [name |-> c, value |-> shown[c]] ELSE None
  BY <1>1, Zenon DEF ResolveSource
<1>5. places # {} => best \in places
  <2> HIDE DEF places, vals
  <2> QED BY <1>2, BestIs
<1>6. places # {} => names[best] \in STRING /\ vals[best] \in Int
  <2>1. \A i \in places : names[i] \in STRING
    BY <1>1 DEF Places
  <2> HIDE DEF vals, best, places
  <2> QED BY <1>2, <1>5, <2>1
<1>7. places # {} <=> \E i \in DOMAIN names : Shows(shown, names[i])
  BY DEF Places
<1> HIDE DEF places, vals, best
<1>8. CASE places # {}
  <2>1. ResolveSource(shown, c) \in Source
    BY <1>2, <1>4, <1>6, <1>8 DEF Source
  <2> QED BY <1>7, <1>8, <2>1, <1>1, CardsAssumption DEF Source
<1>9. CASE places = {} /\ Shows(shown, c)
  <2>1. ResolveSource(shown, c) \in Source
    BY <1>1, <1>2, <1>3, <1>4, <1>9 DEF Source
  <2> QED BY <1>9, <2>1, CardsAssumption DEF Source
<1>10. CASE places = {} /\ ~Shows(shown, c)
  <2>1. ResolveSource(shown, c) = None
    BY <1>2, <1>4, <1>10
  <2> QED BY <1>1, <1>7, <1>10, <2>1
<1> QED BY <1>8, <1>9, <1>10

LEMMA TimesKeepsOrder ==
  ASSUME NEW a \in Int, NEW b \in Int, a <= b, NEW n \in Nat
  PROVE  a * n <= b * n
<1> DEFINE S == {m \in 0..n : a * m <= b * m}
<1>1. 0 \in S
  OBVIOUS
<1>2. ASSUME NEW m \in 0..(n - 1), m \in S PROVE m + 1 \in S
  <2>1. a * (m + 1) = a * m + a /\ b * (m + 1) = b * m + b /\ a * m \in Int /\ b * m \in Int
    OBVIOUS
  <2> QED BY <1>2, <2>1
<1>3. \A m \in 0..n : m \in S
  BY <1>1, <1>2, InductUpTo
<1>4. n \in 0..n
  OBVIOUS
<1>5. n \in S
  BY <1>3, <1>4
<1> QED BY <1>5

(* Figures that enclose what they are made of still do with one more.      *)
LEMMA AddedIs ==
  ASSUME NEW figures \in Figures \union {None}, figures # None => Averages(figures), NEW value \in Int
  PROVE  /\ Added(figures, value) \in Figures /\ Averages(Added(figures, value))
         /\ Added(figures, value).min <= value /\ value <= Added(figures, value).max
<1>1. CASE figures = None
  BY <1>1 DEF Added, Figures, Averages
<1>2. CASE figures \in Figures
  <2>1. /\ figures.max \in Int /\ figures.min \in Int /\ figures.sum \in Int /\ figures.count \in Nat \ {0}
        /\ figures # None
    BY <1>2, CardsAssumption DEF Figures
  <2> DEFINE max == IF value > figures.max THEN value ELSE figures.max
             min == IF value < figures.min THEN value ELSE figures.min
             n == figures.count
  <2>2. Added(figures, value) = [max |-> max, min |-> min, sum |-> figures.sum + value, count |-> n + 1]
    BY <2>1 DEF Added
  <2>3. max \in Int /\ min \in Int /\ min <= value /\ value <= max /\ min <= figures.min /\ figures.max <= max
    BY <2>1
  <2>4. n \in Nat
    BY <2>1
  <2> HIDE DEF max, min
  <2>5. min * n <= figures.min * n /\ figures.max * n <= max * n
    BY <2>1, <2>3, <2>4, TimesKeepsOrder
  <2>6. min * (n + 1) = min * n + min /\ max * (n + 1) = max * n + max /\ min * n \in Int /\ max * n \in Int
    BY <2>3, <2>4
  <2>7. figures.min * n <= figures.sum /\ figures.sum <= figures.max * n
    BY <2>1 DEF Averages
  <2>8. figures.min * n \in Int /\ figures.max * n \in Int
    BY <2>1, <2>4
  <2> HIDE DEF n
  <2>9. min * (n + 1) <= figures.sum + value /\ figures.sum + value <= max * (n + 1)
    BY <2>1, <2>3, <2>5, <2>6, <2>7, <2>8
  <2>10. [max |-> max, min |-> min, sum |-> figures.sum + value, count |-> n + 1] \in Figures
    BY <2>1, <2>3, <2>4 DEF Figures
  <2> QED BY <2>2, <2>3, <2>9, <2>10 DEF Averages
<1> QED BY <1>1, <1>2

LEMMA BatchIs ==
  ASSUME NEW shown, IsShown(shown), IsFiniteSet(DOMAIN shown), NEW batch \in Batches
  PROVE  /\ IsShown(Changed(shown, batch)) /\ IsFiniteSet(DOMAIN Changed(shown, batch))
         /\ DOMAIN shown \subseteq DOMAIN Changed(shown, batch)
<1>1. batch \in [DOMAIN batch -> Int] /\ IsFiniteSet(DOMAIN batch)
  BY CardsAssumption
<1>2. DOMAIN Changed(shown, batch) = DOMAIN shown \union DOMAIN batch
  BY DEF Changed
<1>3. IsFiniteSet(DOMAIN shown \union DOMAIN batch)
  BY <1>1, FS_Union
<1>4. Changed(shown, batch) \in [DOMAIN shown \union DOMAIN batch -> Int]
  BY <1>1 DEF Changed, IsShown
<1> QED BY <1>2, <1>3, <1>4 DEF IsShown

LEMMA NothingShown == IsShown(<< >>) /\ IsFiniteSet(DOMAIN << >>) /\ DOMAIN << >> = {}
<1>1. DOMAIN << >> = {} /\ << >> \in [{} -> Int]
  OBVIOUS
<1> QED BY <1>1, FS_EmptySet DEF IsShown

(* An effect that runs when a fault has changed has the faults of now.     *)
LEMMA SnapshotIs ==
  ASSUME NEW new, sampled = FaultSnapshot(values)
  PROVE  SnapshotAfter(new) = FaultSnapshot(new)
<1> DEFINE changed == \E f \in Faults : \/ Shows(new, f[1]) # Shows(values, f[1])
                                        \/ Shows(new, f[1]) /\ new[f[1]] # values[f[1]]
<1>1. CASE changed
  BY <1>1, Zenon DEF SnapshotAfter
<1>2. CASE ~changed
  <2>1. SnapshotAfter(new) = FaultSnapshot(values)
    BY <1>2, Zenon DEF SnapshotAfter
  <2>2. \A f \in Faults : /\ Shows(new, f[1]) <=> Shows(values, f[1])
                          /\ Shows(new, f[1]) => new[f[1]] = values[f[1]]
    BY <1>2, Zenon DEF Shows
  <2>3. ActiveFaults(new) = ActiveFaults(values)
    BY <2>2 DEF ActiveFaults
  <2>4. (\E f \in Faults : Shows(new, f[1])) <=> \E f \in Faults : Shows(values, f[1])
    BY <2>2
  <2>5. FaultGroupState(new) = FaultGroupState(values)
    BY <2>3, <2>4 DEF FaultGroupState
  <2> QED BY <2>1, <2>3, <2>5 DEF FaultSnapshot
<1> QED BY <1>1, <1>2

LEMMA CatalogIs ==
  ASSUME NEW new, IsFiniteSet(DOMAIN new), IsFiniteSet(catalog)
  PROVE  CatalogAfter(new) = DOMAIN new
<1>1. CASE Cardinality(catalog) # Cardinality(DOMAIN new) \/ DOMAIN new \ catalog # {}
  BY <1>1 DEF CatalogAfter
<1>2. CASE Cardinality(catalog) = Cardinality(DOMAIN new) /\ DOMAIN new \subseteq catalog
  <2>1. catalog = DOMAIN new
    BY <1>2, FS_Subset
  <2> QED BY <2>1 DEF CatalogAfter
<1> QED BY <1>1, <1>2

(* What a message, or a start of the collection, does to the figures.      *)
LEMMA ShownKeeps ==
  ASSUME CardsInv, NEW new, IsShown(new), IsFiniteSet(DOMAIN new), ShowValues(new),
         cleared' \in BOOLEAN, batches' \in 0..MaxBatches,
         cleared' \/ (cleared' = cleared /\ DOMAIN values \subseteq DOMAIN new)
  PROVE  CardsInv'
<1>1. /\ values' = new /\ stats' = NextStats(new) /\ sampled' = SnapshotAfter(new)
      /\ catalog' = CatalogAfter(new)
  BY DEF ShowValues
<1>2. IsShown(values) /\ stats \in [DOMAIN Cards -> Figures \union {None}]
  BY DEF CardsInv, CardTypes
<1>3. CardCopies'
  BY <1>1, SnapshotIs, CatalogIs DEF CardsInv, CardTypes, CardCopies
<1>4. ASSUME NEW c \in DOMAIN Cards
      PROVE  /\ stats'[c] \in Figures \union {None}
             /\ ResolveSource(new, c) # None => stats'[c] # None
             /\ stats'[c] # None =>
                  /\ Encloses(stats'[c], ResolveSource(new, c))
                  /\ Averages(stats'[c])
                  /\ ResolveSource(new, c) # None \/ cleared'
  <2> DEFINE source == ResolveSource(new, c)
             old == ResolveSource(values, c)
  <2>1. stats'[c] = IF source \in {None, old} THEN stats[c] ELSE Added(stats[c], source.value)
    BY <1>1 DEF NextStats
  <2>2. source \in Source \union {None}
    BY SourceIs
  <2>3. /\ stats[c] \in Figures \union {None}
        /\ old # None => stats[c] # None
        /\ stats[c] # None => Encloses(stats[c], old) /\ Averages(stats[c]) /\ (old # None \/ cleared)
    BY <1>2 DEF CardsInv, CardFigures
  <2>4. old # None => source # None \/ cleared'
    <3>1. ASSUME DOMAIN values \subseteq DOMAIN new, old # None PROVE source # None
      <4>1. old # None <=> (\E i \in DOMAIN Cards[c].names : Shows(values, Cards[c].names[i])) \/ Shows(values, c)
        BY <1>2, SourceIs
      <4>2. source # None <=> (\E i \in DOMAIN Cards[c].names : Shows(new, Cards[c].names[i])) \/ Shows(new, c)
        BY SourceIs
      <4> QED BY <3>1, <4>1, <4>2 DEF Shows
    <3> QED BY <3>1
  <2>5. cleared => cleared'
    OBVIOUS
  <2> HIDE DEF source, old
  <2>6. CASE source = None
    BY <2>1, <2>3, <2>4, <2>5, <2>6 DEF Encloses, source
  <2>7. CASE source # None /\ source = old
    BY <2>1, <2>3, <2>7 DEF source
  <2>8. CASE source # None /\ source # old
    <3>1. source.value \in Int
      BY <2>2, <2>8 DEF Source
    <3>2. stats'[c] = Added(stats[c], source.value)
      BY <2>1, <2>8
    <3>3. /\ Added(stats[c], source.value) \in Figures /\ Averages(Added(stats[c], source.value))
          /\ Added(stats[c], source.value).min <= source.value /\ source.value <= Added(stats[c], source.value).max
      BY <2>3, <3>1, AddedIs
    <3>4. \A f \in Figures : f # None
      BY CardsAssumption DEF Figures
    <3> QED BY <2>8, <3>2, <3>3, <3>4 DEF Encloses, source
  <2> QED BY <2>6, <2>7, <2>8
<1>5. stats' \in [DOMAIN Cards -> Figures \union {None}]
  <2>1. stats' = [c \in DOMAIN Cards |-> stats'[c]]
    BY <1>1 DEF NextStats
  <2> QED BY <1>4, <2>1
<1>6. CardTypes'
  BY <1>1, <1>5 DEF CardTypes
<1>7. CardFigures'
  BY <1>1, <1>4 DEF CardFigures
<1> QED BY <1>3, <1>6, <1>7 DEF CardsInv

LEMMA CardsInvInit == CardsInit => CardsInv
<1> SUFFICES ASSUME CardsInit PROVE CardsInv
  OBVIOUS
<1>1. IsShown(values) /\ IsFiniteSet(DOMAIN values)
  <2>1. values = << >> \/ values \in Batches
    BY DEF CardsInit
  <2>2. ASSUME values \in Batches PROVE IsShown(values) /\ IsFiniteSet(DOMAIN values)
    BY <2>2, CardsAssumption DEF IsShown
  <2> QED BY <2>1, <2>2, NothingShown
<1>2. ASSUME NEW c \in DOMAIN Cards
      PROVE  /\ stats[c] \in Figures \union {None}
             /\ ResolveSource(values, c) # None <=> stats[c] # None
             /\ stats[c] # None => Encloses(stats[c], ResolveSource(values, c)) /\ Averages(stats[c])
  <2> DEFINE source == ResolveSource(values, c)
  <2>1. stats[c] = IF source = None THEN None ELSE Added(None, source.value)
    BY DEF CardsInit
  <2>2. source \in Source \union {None}
    BY <1>1, SourceIs
  <2> HIDE DEF source
  <2>3. CASE source # None
    <3>1. source.value \in Int
      BY <2>2, <2>3 DEF Source
    <3>2. /\ Added(None, source.value) \in Figures /\ Averages(Added(None, source.value))
          /\ Added(None, source.value).min <= source.value /\ source.value <= Added(None, source.value).max
      BY <3>1, AddedIs
    <3>3. \A f \in Figures : f # None
      BY CardsAssumption DEF Figures
    <3> QED BY <2>1, <2>3, <3>2, <3>3 DEF Encloses, source
  <2> QED BY <2>1, <2>3 DEF source
<1>3. stats \in [DOMAIN Cards -> Figures \union {None}]
  <2>1. stats = [c \in DOMAIN Cards |-> stats[c]]
    BY DEF CardsInit
  <2> QED BY <1>2, <2>1
<1>4. CardTypes
  <2>1. cleared \in BOOLEAN
    BY Zenon DEF CardsInit
  <2>2. batches \in 0..MaxBatches
    BY CardsAssumption DEF CardsInit
  <2> QED BY <1>1, <1>3, <2>1, <2>2 DEF CardTypes
<1>5. CardFigures
  BY <1>2 DEF CardFigures
<1>6. CardCopies
  BY DEF CardsInit, CardCopies
<1> QED BY <1>4, <1>5, <1>6 DEF CardsInv

LEMMA CardsInvNext == CardsInv /\ CardsNext => CardsInv'
<1> SUFFICES ASSUME CardsInv, CardsNext PROVE CardsInv'
  OBVIOUS
<1>1. /\ IsShown(values) /\ IsFiniteSet(DOMAIN values) /\ cleared \in BOOLEAN /\ batches \in 0..MaxBatches
  BY DEF CardsInv, CardTypes
<1>2. CASE SignalsShown
  <2>1. PICK batch \in Batches : ShowValues(Changed(values, batch))
    BY <1>2 DEF SignalsShown
  <2>2. batches' \in 0..MaxBatches /\ cleared' = cleared
    BY <1>1, <1>2, CardsAssumption DEF SignalsShown
  <2>3. /\ IsShown(Changed(values, batch)) /\ IsFiniteSet(DOMAIN Changed(values, batch))
        /\ DOMAIN values \subseteq DOMAIN Changed(values, batch)
    BY <1>1, BatchIs
  <2> QED BY <1>1, <2>1, <2>2, <2>3, ShownKeeps
<1>3. CASE StoreCleared
  <2>1. ShowValues(<< >>) /\ batches' = batches
    BY <1>3 DEF StoreCleared
  <2>2. cleared' /\ cleared' \in BOOLEAN
    BY <1>3, Zenon DEF StoreCleared
  <2> QED BY <1>1, <2>1, <2>2, NothingShown, ShownKeeps
<1>4. CASE SampleFaults
  <2>1. UNCHANGED <<values, stats, catalog, cleared, batches>> /\ sampled' = FaultSnapshot(values)
    BY <1>4 DEF SampleFaults
  <2>2. CardTypes'
    BY <2>1 DEF CardsInv, CardTypes
  <2>3. CardFigures'
    BY <2>1 DEF CardsInv, CardFigures
  <2>4. CardCopies'
    BY <2>1 DEF CardsInv, CardCopies
  <2> QED BY <2>2, <2>3, <2>4 DEF CardsInv
<1> QED BY <1>2, <1>3, <1>4 DEF CardsNext

LEMMA CardsInvElsewhere == CardsInv /\ UNCHANGED cardVars => CardsInv'
<1> SUFFICES ASSUME CardsInv, UNCHANGED cardVars PROVE CardsInv'
  OBVIOUS
<1>1. UNCHANGED <<values, stats, sampled, catalog, cleared, batches>>
  BY DEF cardVars
<1>2. CardTypes'
  BY <1>1 DEF CardsInv, CardTypes
<1>3. CardFigures'
  BY <1>1 DEF CardsInv, CardFigures
<1>4. CardCopies'
  BY <1>1 DEF CardsInv, CardCopies
<1> QED BY <1>2, <1>3, <1>4 DEF CardsInv

LEMMA FiguresTrue == CardsInv => FiguresEncloseValue
<1> SUFFICES ASSUME CardsInv, NEW c \in DOMAIN Cards
             PROVE  /\ ResolveSource(values, c) # None =>
                         /\ stats[c].min <= ResolveSource(values, c).value
                         /\ ResolveSource(values, c).value <= stats[c].max
                         /\ stats[c].min * stats[c].count <= stats[c].sum
                         /\ stats[c].sum <= stats[c].max * stats[c].count
                    /\ stats[c] # None => ResolveSource(values, c) # None \/ cleared
  BY Zenon DEF FiguresEncloseValue
<1> QED BY DEF CardsInv, CardFigures, Encloses, Averages

(* A total is that of all the signals, which lie between the best two.     *)
LEMMA TotalTrue == CardsInv => TotalFitsExtremes
<1> SUFFICES ASSUME CardsInv, ResolveSumSource(values) # None,
                    NEW low \in DOMAIN Cards, NEW high \in DOMAIN Cards,
                    Cards[low] = [names |-> Summed, aggregate |-> "min"],
                    Cards[high] = [names |-> Summed, aggregate |-> "max"]
             PROVE  /\ Len(Summed) * ResolveSource(values, low).value <= ResolveSumSource(values)
                    /\ ResolveSumSource(values) <= Len(Summed) * ResolveSource(values, high).value
  BY Zenon DEF TotalFitsExtremes
<1> DEFINE places == Places(values, Summed)
           vals == ValuesOf(values, Summed)
           terms == [i \in DOMAIN Summed |-> IF Shows(values, Summed[i]) THEN values[Summed[i]] ELSE 0]
<1>1. IsShown(values)
  BY DEF CardsInv, CardTypes
<1>2. /\ vals \in [places -> Int] /\ places \in SUBSET (1..Len(Summed)) /\ Len(Summed) \in Nat
      /\ \A i \in places : vals[i] = values[Summed[i]]
  BY <1>1, CardsAssumption, ValuesAre
<1>3. \A i \in DOMAIN Summed : Shows(values, Summed[i])
  BY Zenon DEF ResolveSumSource
<1>4. DOMAIN Summed = 1..Len(Summed)
  BY CardsAssumption
<1>5. places = 1..Len(Summed)
  BY <1>3, <1>4 DEF Places
<1>6. ~\A i \in DOMAIN Summed : ~Shows(values, Summed[i])
  BY Zenon DEF ResolveSumSource, SumOfSome
<1>7. places # {}
  BY <1>4, <1>5, <1>6
<1>8. ResolveSumSource(values) = SumOf(terms)
  BY <1>3, <1>6, Zenon DEF ResolveSumSource, SumOfSome
<1>9. terms = vals
  BY <1>2, <1>3, <1>4, <1>5
<1> HIDE DEF places, terms, vals
<1>10. vals \in Seq(Int) /\ Len(vals) = Len(Summed) /\ DOMAIN vals = places
  BY <1>2, <1>5
<1>11. ASSUME NEW c \in DOMAIN Cards, NEW aggregate, Cards[c] = [names |-> Summed, aggregate |-> aggregate]
       PROVE  /\ ResolveSource(values, c).value \in Int
              /\ \A k \in places : \/ ResolveSource(values, c).value = vals[k]
                                   \/ Better(aggregate, ResolveSource(values, c).value, vals[k])
  <2> DEFINE best == BestIndex(aggregate, vals)
  <2>1. Cards[c].names = Summed /\ Cards[c].aggregate = aggregate
    BY <1>11
  <2>2. ResolveSource(values, c) = [name |-> Summed[best], value |-> vals[best]]
    BY <1>7, <1>10, <2>1 DEF ResolveSource, vals
  <2>3. /\ best \in places
        /\ \A k \in places : vals[best] = vals[k] \/ Better(aggregate, vals[best], vals[k])
    BY <1>2, <1>7, BestIs
  <2>4. ResolveSource(values, c).value = vals[best]
    BY <2>2
  <2> HIDE DEF best
  <2>5. vals[best] \in Int
    BY <1>2, <2>3
  <2> QED BY <2>3, <2>4, <2>5
<1> DEFINE least == ResolveSource(values, low).value
           most == ResolveSource(values, high).value
<1>12. least \in Int /\ \A k \in places : least = vals[k] \/ Better("min", least, vals[k])
  BY <1>11
<1>13. most \in Int /\ \A k \in places : most = vals[k] \/ Better("max", most, vals[k])
  BY <1>11
<1> HIDE DEF least, most
<1>14. \A i \in DOMAIN vals : least <= vals[i] /\ vals[i] <= most
  <2>1. \A k \in places : vals[k] \in Int
    BY <1>2
  <2> QED BY <1>10, <1>12, <1>13, <2>1 DEF Better
<1>15. Len(vals) * least <= SumOf(vals) /\ SumOf(vals) <= Len(vals) * most
  BY <1>10, <1>12, <1>13, <1>14, SumBetween
<1> QED BY <1>8, <1>9, <1>10, <1>15 DEF least, most

LEMMA IndicatorsTrue == CardsInv => IndicatorsAgree
<1> SUFFICES ASSUME CardsInv PROVE IndicatorsAgree
  OBVIOUS
<1>1. ASSUME NEW i \in DOMAIN Indicators
      PROVE  /\ IndicatorState(values, i) = "idle" <=> StateText(values, i) = "unknown"
             /\ Indicators[i].kind # "state" =>
                  (IndicatorState(values, i) = "active" <=> StateText(values, i) = "on")
  <2> DEFINE value == Entry(values, i)
             config == Indicators[i]
  <2>1. CASE value = None
    BY <2>1 DEF IndicatorState, StateText
  <2>2. CASE value # None /\ config.kind = "state"
    <3>1. IndicatorState(values, i) = IF value \in config.alerts THEN "critical" ELSE "active"
      BY <2>2 DEF IndicatorState
    <3>2. StateText(values, i) = "state"
      BY <2>2 DEF StateText
    <3> QED BY <2>2, <3>1, <3>2
  <2>3. CASE value # None /\ config.kind # "state"
    <3>1. IndicatorState(values, i) = IF value # 0 THEN "active" ELSE "ok"
      BY <2>3 DEF IndicatorState
    <3>2. StateText(values, i) = IF value # 0 THEN "on" ELSE "off"
      BY <2>3 DEF StateText
    <3> QED BY <3>1, <3>2
  <2> QED BY <2>1, <2>2, <2>3
<1>2. sampled = FaultSnapshot(values)
  BY DEF CardsInv, CardCopies
<1>3. sampled.state = "critical" <=> sampled.active # {}
  BY <1>2 DEF FaultSnapshot, FaultGroupState
<1> QED BY <1>1, <1>2, <1>3 DEF IndicatorsAgree

LEMMA CardsInvImplies == CardsInv => CardsTypeOK /\ CardsTellTheTruth
<1> SUFFICES ASSUME CardsInv PROVE CardsTypeOK /\ CardsTellTheTruth
  OBVIOUS
<1>1. CardTypes /\ CardCopies
  BY DEF CardsInv
<1>2. \A n \in DOMAIN values : values[n] \in Int
  BY <1>1 DEF CardTypes, IsShown
<1>3. \A c \in DOMAIN Cards : stats[c] = None \/ stats[c].count > 0
  <2>1. ASSUME NEW c \in DOMAIN Cards, stats[c] # None PROVE stats[c].count > 0
    <3>1. stats[c] \in Figures
      BY <1>1, <2>1 DEF CardTypes
    <3> QED BY <3>1 DEF Figures
  <2> QED BY <2>1
<1>4. sampled.active \subseteq Faults
  BY <1>1 DEF CardCopies, FaultSnapshot, ActiveFaults
<1>5. CardsTypeOK
  BY <1>1, <1>2, <1>3, <1>4 DEF CardTypes, CardsTypeOK
<1> QED BY <1>1, <1>5, FiguresTrue, TotalTrue, IndicatorsTrue DEF CardsTellTheTruth, CardCopies

-----------------------------------------------------------------------------
(* SignalHistory.                                                          *)
Samples == [t : Int, v : Int]
Frames == [t : Int, v : [id : DOMAIN Descriptors, data : Contents]]
Slots == 0..(Capacity - 1)
Rings == [slots : [Slots -> Samples], head : Slots, count : 0..Capacity]

SeriesTypes ==
  /\ rings \in [DOMAIN Descriptors -> Rings]
  /\ received \in Seq(Frames) /\ Len(received) <= MaxReceived

LEMMA Bounds ==
  /\ Capacity \in Nat /\ Capacity >= 1 /\ MaxReceived \in Nat
  /\ \A dt \in Steps : dt \in Nat /\ dt >= 1
<1>1. Steps \subseteq Nat \ {0} /\ Capacity \in Nat \ {0} /\ MaxReceived \in Nat
  BY SeriesAssumption, Zenon
<1> QED BY <1>1

LEMMA Decoded ==
  ASSUME NEW id \in DOMAIN Descriptors, NEW data \in Contents
  PROVE  DecodeSignal(data, Descriptors[id]) \in Int
BY SeriesAssumption, Zenon

LEMMA RingSize == ASSUME NEW ring \in Rings PROVE Size(ring) = Capacity
<1>1. DOMAIN ring.slots = 0..(Capacity - 1)
  BY DEF Rings, Slots
<1>2. Cardinality(0..(Capacity - 1)) = Capacity
  BY Bounds, FS_Interval
<1> QED BY <1>1, <1>2 DEF Size

LEMMA PushedRing ==
  ASSUME NEW ring \in Rings, NEW x \in Samples
  PROVE  /\ Push(ring, x) \in Rings
         /\ Push(ring, x).slots = [ring.slots EXCEPT ![ring.head] = x]
         /\ Push(ring, x).head = (ring.head + 1) % Capacity
         /\ Push(ring, x).count = IF ring.count < Capacity THEN ring.count + 1 ELSE Capacity
<1>1. Size(ring) = Capacity
  BY RingSize
<1>2. [ring.slots EXCEPT ![ring.head] = x] \in [Slots -> Samples]
  BY DEF Rings
<1>3. ring.head \in 0..(Capacity - 1) /\ ring.count \in 0..Capacity
  BY DEF Rings, Slots
<1>4. (ring.head + 1) % Capacity \in Slots
  BY <1>3, Bounds DEF Slots
<1>5. Smaller(ring.count + 1, Capacity) = IF ring.count < Capacity THEN ring.count + 1 ELSE Capacity
  BY <1>3, Bounds DEF Smaller
<1>6. (IF ring.count < Capacity THEN ring.count + 1 ELSE Capacity) \in 0..Capacity
  BY <1>3, Bounds
<1> QED BY <1>1, <1>2, <1>4, <1>5, <1>6 DEF Push, NextHead, Rings

LEMMA SeriesTypesInit == SeriesInit => SeriesTypes
<1> SUFFICES ASSUME SeriesInit PROVE SeriesTypes
  OBVIOUS
<1>1. received = << >> /\ received \in Seq(Frames) /\ Len(received) <= MaxReceived
  BY Bounds DEF SeriesInit
<1>2. EmptyRing(Capacity) \in Rings
  <2>1. Sample(0, 0) \in Samples
    BY DEF Sample, Samples
  <2>2. 0 \in Slots /\ 0 \in 0..Capacity
    BY Bounds DEF Slots
  <2> QED BY <2>1, <2>2 DEF EmptyRing, Rings, Slots
<1> QED BY <1>1, <1>2 DEF SeriesInit, SeriesTypes

(* One frame: where it goes, and when it was sent.                         *)
FrameReceived(id, data, t) ==
  /\ t \in Int
  /\ received' = Append(received, Sample(t, [id |-> id, data |-> data]))
  /\ rings' = [rings EXCEPT ![id] = Push(@, Sample(t, DecodeSignal(data, Descriptors[id])))]

LEMMA FrameIs ==
  ASSUME SeriesTypes, SeriesNext
  PROVE  /\ Len(received) < MaxReceived
         /\ UNCHANGED viewVars
         /\ \E id \in DOMAIN Descriptors, data \in Contents, t \in Int :
              /\ FrameReceived(id, data, t)
              /\ received # << >> => t > received[Len(received)].t
<1>1. PICK id \in DOMAIN Descriptors, data \in Contents, dt \in Steps :
        LET t == IF received = << >> THEN 10 ELSE Last(received).t + dt
        IN /\ received' = Append(received, Sample(t, [id |-> id, data |-> data]))
           /\ rings' = [rings EXCEPT ![id] = Push(@, Sample(t, DecodeSignal(data, Descriptors[id])))]
  BY Zenon DEF SeriesNext, ReceiveFrame
<1> DEFINE t == IF received = << >> THEN 10 ELSE Last(received).t + dt
<1>2. ASSUME received # << >>
      PROVE  Last(received) = received[Len(received)] /\ received[Len(received)].t \in Int
  <2>1. Len(received) \in Nat /\ Len(received) # 0
    BY <1>2 DEF SeriesTypes
  <2>2. received[Len(received)] \in Frames
    BY <2>1 DEF SeriesTypes
  <2> QED BY <2>2 DEF Last, Frames
<1>3. dt \in Nat /\ dt >= 1
  BY Bounds
<1>4. t \in Int /\ (received # << >> => t > received[Len(received)].t)
  BY <1>2, <1>3
<1>5. Len(received) < MaxReceived /\ UNCHANGED viewVars
  BY DEF SeriesNext, ReceiveFrame
<1> HIDE DEF t
<1> QED BY <1>1, <1>4, <1>5 DEF FrameReceived, t

LEMMA SeriesTypesNext == SeriesTypes /\ SeriesNext => SeriesTypes'
<1> SUFFICES ASSUME SeriesTypes, SeriesNext PROVE SeriesTypes'
  OBVIOUS
<1>1. PICK id \in DOMAIN Descriptors, data \in Contents, t \in Int : FrameReceived(id, data, t)
  BY FrameIs
<1> DEFINE x == Sample(t, DecodeSignal(data, Descriptors[id]))
           f == Sample(t, [id |-> id, data |-> data])
<1>2. x \in Samples /\ f \in Frames
  BY Decoded DEF Sample, Samples, Frames
<1>3. rings[id] \in Rings
  BY DEF SeriesTypes
<1>4. Push(rings[id], x) \in Rings
  BY <1>2, <1>3, PushedRing
<1>5. rings' = [rings EXCEPT ![id] = Push(rings[id], x)] /\ received' = Append(received, f)
  BY <1>1 DEF FrameReceived
<1> HIDE DEF x, f
<1>6. received' \in Seq(Frames) /\ Len(received') = Len(received) + 1
  BY <1>2, <1>5 DEF SeriesTypes
<1>7. Len(received') <= MaxReceived
  BY <1>6, FrameIs, Bounds DEF SeriesTypes
<1> QED BY <1>4, <1>5, <1>6, <1>7 DEF SeriesTypes

LEMMA SeriesTypesOK == SeriesTypes => SeriesTypeOK
BY DEF SeriesTypes, SeriesTypeOK, Rings, Slots

-----------------------------------------------------------------------------
(* A function defined by recursion on a number: it exists.                 *)
Follows(f, n, D, base, h) ==
  f \in [0..n -> D] /\ f[0] = base /\ \A i \in 1..n : f[i] = h[i][f[i - 1]]

LEMMA RecursionExists ==
  ASSUME NEW n \in Nat, NEW D, NEW base \in D, NEW h \in [1..n -> [D -> D]]
  PROVE  \E f : Follows(f, n, D, base, h)
<1> DEFINE Is(f, m) == f \in [0..m -> D] /\ f[0] = base /\ \A i \in 1..m : f[i] = h[i][f[i - 1]]
           S == {m \in 0..n : \E f : Is(f, m)}
<1>1. 0 \in S
  <2> DEFINE f == [i \in 0..0 |-> base]
  <2>1. Is(f, 0)
    OBVIOUS
  <2> HIDE DEF f, Is
  <2> QED BY <2>1
<1>2. ASSUME NEW m \in 0..(n - 1), m \in S PROVE m + 1 \in S
  <2>1. PICK f : Is(f, m)
    BY <1>2
  <2> DEFINE y == h[m + 1][f[m]]
             g == [i \in 0..(m + 1) |-> IF i = m + 1 THEN y ELSE f[i]]
  <2>2. y \in D
    BY <2>1
  <2>3. g \in [0..(m + 1) -> D]
    BY <2>1, <2>2
  <2>4. g[0] = base
    BY <2>1
  <2>5. ASSUME NEW i \in 1..(m + 1) PROVE g[i] = h[i][g[i - 1]]
    <3>1. CASE i = m + 1
      <4>1. g[i] = y /\ g[i - 1] = f[m]
        BY <3>1
      <4> QED BY <3>1, <4>1
    <3>2. CASE i # m + 1
      <4>1. i \in 1..m /\ i - 1 \in 0..m
        BY <3>2
      <4>2. g[i] = f[i] /\ g[i - 1] = f[i - 1]
        BY <3>2, <4>1
      <4> QED BY <2>1, <4>1, <4>2
    <3> QED BY <3>1, <3>2
  <2> HIDE DEF g
  <2>6. Is(g, m + 1)
    BY <2>3, <2>4, <2>5
  <2> QED BY <2>6
<1> HIDE DEF Is
<1>3. \A m \in 0..n : m \in S
  BY <1>1, <1>2, InductUpTo
<1>4. PICK f : Is(f, n)
  BY <1>3
<1>5. Follows(f, n, D, base, h)
  BY <1>4 DEF Is, Follows
<1> QED BY <1>5

(* The least and the greatest number of a range with a property.           *)
LEMMA LeastOf ==
  ASSUME NEW S \in SUBSET Nat, S # {}
  PROVE  LET m == CHOOSE m \in S : \A k \in S : m <= k
         IN m \in S /\ \A k \in S : m <= k
BY Least

LEMMA GreatestOf ==
  ASSUME NEW n \in Nat, NEW S \in SUBSET (0..n), S # {}
  PROVE  \E m \in S : \A k \in S : k <= m
<1> DEFINE T == {n - k : k \in S}
<1>1. T \in SUBSET Nat /\ T # {}
  <2>1. \A k \in S : n - k \in Nat
    OBVIOUS
  <2>2. \E k \in S : n - k \in T
    OBVIOUS
  <2> QED BY <2>1, <2>2
<1>2. PICK m \in T : \A k \in T : m <= k
  BY <1>1, Least
<1>3. PICK j \in S : m = n - j
  BY <1>2
<1>4. \A k \in S : k <= j
  BY <1>2, <1>3
<1> QED BY <1>4

-----------------------------------------------------------------------------
(* The circular buffer.  While it is not full it is written from the       *)
(* beginning on.                                                           *)
WrittenInTurn(ring) == ring \in Rings /\ (ring.count < Capacity => ring.head = ring.count)

LEMMA Wrapped ==
  ASSUME NEW a \in Nat, a < 2 * Capacity
  PROVE  a % Capacity = IF a < Capacity THEN a ELSE a - Capacity
BY Bounds

(* The place of the i-th sample, oldest first.                             *)
Oldest(ring) == IF ring.count < Capacity THEN 0 ELSE ring.head
Place(ring, i) ==
  LET at == Oldest(ring) + i - 1
  IN IF at < Capacity THEN at ELSE at - Capacity

LEMMA OrderedIs ==
  ASSUME NEW ring \in Rings
  PROVE  /\ Ordered(ring) \in Seq(Samples) /\ Len(Ordered(ring)) = ring.count
         /\ ring.count \in 0..Capacity
         /\ \A i \in 1..ring.count : /\ Place(ring, i) \in Slots
                                     /\ Ordered(ring)[i] = ring.slots[Place(ring, i)]
<1>1. Size(ring) = Capacity
  BY RingSize
<1>2. ring.count \in 0..Capacity /\ ring.head \in 0..(Capacity - 1) /\ ring.slots \in [Slots -> Samples]
  BY DEF Rings, Slots
<1>3. ASSUME NEW i \in 1..ring.count
      PROVE  /\ Place(ring, i) \in Slots
             /\ (RingStart(ring) + i - 1) % Size(ring) = Place(ring, i)
  <2> DEFINE start == Oldest(ring)
  <2>1. RingStart(ring) = start /\ start \in 0..(Capacity - 1)
    BY <1>1, <1>2, Bounds DEF RingStart, Oldest
  <2> HIDE DEF start
  <2> DEFINE at == start + i - 1
  <2>2. at \in Nat /\ at < 2 * Capacity
    BY <1>2, <1>3, <2>1, Bounds
  <2>3. at % Capacity = Place(ring, i)
    <3>1. Place(ring, i) = IF at < Capacity THEN at ELSE at - Capacity
      BY DEF Place, start
    <3> HIDE DEF at
    <3> QED BY <2>2, <3>1, Wrapped
  <2>4. Place(ring, i) \in Slots
    BY <1>2, <1>3, <2>1, <2>2, Bounds DEF Place, start, Slots
  <2> QED BY <1>1, <2>1, <2>3, <2>4
<1>4. Ordered(ring) = [i \in 1..ring.count |-> ring.slots[Place(ring, i)]]
  BY <1>3 DEF Ordered
<1>5. Ordered(ring) \in [1..ring.count -> Samples]
  BY <1>2, <1>3, <1>4
<1> QED BY <1>2, <1>3, <1>4, <1>5

(* A sample pushed comes last, and the first one goes when there is no     *)
(* room.                                                                   *)
LEMMA PushedIs ==
  ASSUME NEW ring, WrittenInTurn(ring), NEW x \in Samples
  PROVE  /\ WrittenInTurn(Push(ring, x))
         /\ Ordered(Push(ring, x)) =
              IF ring.count < Capacity THEN Append(Ordered(ring), x) ELSE Append(Tail(Ordered(ring)), x)
<1> DEFINE pushed == Push(ring, x)
<1>1. ring \in Rings /\ ring.count \in 0..Capacity /\ ring.head \in 0..(Capacity - 1)
  BY DEF Rings, Slots, WrittenInTurn
<1>2. /\ pushed \in Rings /\ pushed.slots = [ring.slots EXCEPT ![ring.head] = x]
      /\ pushed.head = IF ring.head + 1 < Capacity THEN ring.head + 1 ELSE 0
      /\ pushed.count = IF ring.count < Capacity THEN ring.count + 1 ELSE Capacity
  <2>1. (ring.head + 1) % Capacity = IF ring.head + 1 < Capacity THEN ring.head + 1 ELSE 0
    BY <1>1, Bounds
  <2> QED BY <1>1, <2>1, PushedRing
<1> HIDE DEF pushed
<1>3. WrittenInTurn(pushed)
  BY <1>1, <1>2, Bounds DEF WrittenInTurn
<1>4. /\ Ordered(pushed) \in Seq(Samples) /\ Len(Ordered(pushed)) = pushed.count
      /\ \A i \in 1..pushed.count : /\ Place(pushed, i) \in Slots
                                    /\ Ordered(pushed)[i] = pushed.slots[Place(pushed, i)]
  BY <1>2, OrderedIs
<1>5. /\ Ordered(ring) \in Seq(Samples) /\ Len(Ordered(ring)) = ring.count
      /\ \A i \in 1..ring.count : /\ Place(ring, i) \in Slots
                                  /\ Ordered(ring)[i] = ring.slots[Place(ring, i)]
  BY <1>1, OrderedIs
<1>6. /\ pushed.slots[ring.head] = x
      /\ \A k \in Slots : k # ring.head => pushed.slots[k] = ring.slots[k]
  <2>1. ring.slots \in [Slots -> Samples] /\ ring.head \in Slots
    BY <1>1 DEF Rings, Slots
  <2> QED BY <1>2, <2>1
<1>7. CASE ring.count < Capacity
  <2>1. ring.head = ring.count
    BY <1>7 DEF WrittenInTurn
  <2>2. Place(pushed, ring.count + 1) = ring.head
    BY <1>1, <1>2, <1>7, <2>1, Bounds DEF Place, Oldest
  <2>3. \A i \in 1..ring.count : Place(pushed, i) = Place(ring, i) /\ Place(ring, i) # ring.head
    BY <1>1, <1>2, <1>7, <2>1, Bounds DEF Place, Oldest
  <2>4. Ordered(pushed)[ring.count + 1] = x
    <3>1. ring.count + 1 \in 1..pushed.count
      BY <1>1, <1>2, <1>7
    <3> QED BY <1>4, <1>6, <2>2, <3>1
  <2>5. \A i \in 1..ring.count : Ordered(pushed)[i] = Ordered(ring)[i]
    <3>1. \A i \in 1..ring.count : i \in 1..pushed.count
      BY <1>1, <1>2, <1>7
    <3> QED BY <1>4, <1>5, <1>6, <2>3, <3>1
  <2>6. Ordered(pushed) = Append(Ordered(ring), x)
    <3>1. /\ Append(Ordered(ring), x) \in Seq(Samples) /\ Len(Append(Ordered(ring), x)) = ring.count + 1
          /\ Append(Ordered(ring), x)[ring.count + 1] = x
          /\ \A i \in 1..ring.count : Append(Ordered(ring), x)[i] = Ordered(ring)[i]
      BY <1>5
    <3>2. Len(Ordered(pushed)) = ring.count + 1
      BY <1>2, <1>4, <1>7
    <3>3. \A i \in 1..(ring.count + 1) : Ordered(pushed)[i] = Append(Ordered(ring), x)[i]
      BY <1>1, <2>4, <2>5, <3>1
    <3> QED BY <1>4, <3>1, <3>2, <3>3, SeqEqual
  <2> QED BY <1>3, <1>7, <2>6 DEF pushed
<1>8. CASE ring.count = Capacity
  <2>1. Place(pushed, Capacity) = ring.head
    BY <1>1, <1>2, <1>8, Bounds DEF Place, Oldest
  <2>2. \A i \in 1..(Capacity - 1) : Place(pushed, i) = Place(ring, i + 1) /\ Place(pushed, i) # ring.head
    BY <1>1, <1>2, <1>8, Bounds DEF Place, Oldest
  <2>0. pushed.count = Capacity
    BY <1>1, <1>2, <1>8, Bounds
  <2>3. Ordered(pushed)[Capacity] = x
    <3>1. Capacity \in 1..pushed.count
      BY <2>0, Bounds
    <3> QED BY <1>4, <1>6, <2>1, <3>1
  <2>4. \A i \in 1..(Capacity - 1) : Ordered(pushed)[i] = Ordered(ring)[i + 1]
    <3>1. \A i \in 1..(Capacity - 1) : i \in 1..pushed.count /\ i + 1 \in 1..ring.count
      BY <1>8, <2>0, Bounds
    <3> QED BY <1>4, <1>5, <1>6, <2>2, <3>1
  <2> DEFINE rest == Tail(Ordered(ring))
  <2>5. /\ rest \in Seq(Samples) /\ Len(rest) = Capacity - 1
        /\ \A i \in 1..(Capacity - 1) : rest[i] = Ordered(ring)[i + 1]
    BY <1>5, <1>8, Bounds
  <2> HIDE DEF rest
  <2>6. /\ Append(rest, x) \in Seq(Samples) /\ Len(Append(rest, x)) = Capacity
        /\ Append(rest, x)[Capacity] = x
        /\ \A i \in 1..(Capacity - 1) : Append(rest, x)[i] = rest[i]
    BY <2>5, Bounds
  <2>7. \A i \in 1..Capacity : Ordered(pushed)[i] = Append(rest, x)[i]
    BY <2>3, <2>4, <2>5, <2>6, Bounds
  <2>8. Len(Ordered(pushed)) = Capacity
    BY <1>4, <2>0
  <2>9. Ordered(pushed) = Append(rest, x)
    BY <1>4, <2>6, <2>7, <2>8, SeqEqual
  <2>10. ~(ring.count < Capacity)
    BY <1>8, Bounds
  <2>11. Ordered(pushed) = Append(Tail(Ordered(ring)), x)
    BY <2>9 DEF rest
  <2>12. Ordered(pushed) =
           IF ring.count < Capacity THEN Append(Ordered(ring), x) ELSE Append(Tail(Ordered(ring)), x)
    BY <2>10, <2>11
  <2> QED BY <1>3, <2>12 DEF pushed
<1>9. ring.count < Capacity \/ ring.count = Capacity
  BY <1>1, Bounds
<1> QED BY <1>7, <1>8, <1>9

-----------------------------------------------------------------------------
(* What a buffer holds of a set of samples: the newest ones, in order.     *)
Newest(s, S) ==
  /\ InOrder(s) /\ ToSet(s) \subseteq S
  /\ IsFiniteSet(S) /\ Len(s) = Smaller(Cardinality(S), Capacity)
  /\ \A x \in S \ ToSet(s) : \A i \in DOMAIN s : x.t < s[i].t

LEMMA Elements ==
  ASSUME NEW T, NEW s \in Seq(T)
  PROVE  /\ DOMAIN s = 1..Len(s) /\ Len(s) \in Nat
         /\ \A i \in 1..Len(s) : s[i] \in T /\ s[i] \in ToSet(s)
         /\ \A x \in ToSet(s) : \E i \in 1..Len(s) : x = s[i]
<1>1. DOMAIN s = 1..Len(s) /\ Len(s) \in Nat /\ \A i \in 1..Len(s) : s[i] \in T
  OBVIOUS
<1>2. \A i \in 1..Len(s) : s[i] \in ToSet(s)
  BY <1>1 DEF ToSet
<1>3. \A x \in ToSet(s) : \E i \in 1..Len(s) : x = s[i]
  BY <1>1 DEF ToSet
<1> QED BY <1>1, <1>2, <1>3

LEMMA NewestAppended ==
  ASSUME NEW S \in SUBSET Samples, NEW s \in Seq(Samples), Newest(s, S),
         NEW x \in Samples, \A y \in S : y.t < x.t
  PROVE  /\ Len(s) < Capacity => Newest(Append(s, x), S \union {x})
         /\ Len(s) = Capacity => Newest(Append(Tail(s), x), S \union {x})
<1>1. /\ DOMAIN s = 1..Len(s) /\ Len(s) \in Nat
      /\ \A i \in 1..Len(s) : s[i] \in Samples /\ s[i] \in ToSet(s) /\ s[i] \in S
      /\ \A y \in ToSet(s) : \E i \in 1..Len(s) : y = s[i]
  BY Elements DEF Newest
<1>2. \A i \in 1..Len(s) : s[i].t \in Int /\ s[i].t < x.t /\ x.t \in Int
  BY <1>1 DEF Samples
<1>3. x \notin S
  <2>1. x.t \in Int
    BY DEF Samples
  <2> QED BY <2>1
<1>4. /\ IsFiniteSet(S \union {x}) /\ Cardinality(S \union {x}) = Cardinality(S) + 1
      /\ Cardinality(S) \in Nat
  BY <1>3, FS_AddElement, FS_CardinalityType DEF Newest
<1>5. Len(s) = Smaller(Cardinality(S), Capacity)
  BY DEF Newest
<1>6. ASSUME NEW y \in S, NEW i \in 1..Len(s), y \notin ToSet(s) PROVE y.t < s[i].t /\ y.t \in Int
  <2>1. y.t \in Int
    BY DEF Samples
  <2> QED BY <1>1, <1>6, <2>1 DEF Newest
<1>7. ASSUME Len(s) < Capacity PROVE Newest(Append(s, x), S \union {x})
  <2> DEFINE r == Append(s, x)
  <2>1. /\ r \in Seq(Samples) /\ Len(r) = Len(s) + 1 /\ r[Len(s) + 1] = x
        /\ \A i \in 1..Len(s) : r[i] = s[i]
    OBVIOUS
  <2> HIDE DEF r
  <2>2. DOMAIN r = 1..(Len(s) + 1)
    BY <2>1
  <2>3. InOrder(r)
    <3>1. \A i, k \in 1..Len(s) : i < k => s[i].t < s[k].t
      BY <1>1 DEF Newest, InOrder
    <3> QED BY <1>1, <1>2, <2>1, <2>2, <3>1 DEF InOrder
  <2>4. \A y : y \in ToSet(r) <=> y \in ToSet(s) \/ y = x
    <3>1. \A y \in ToSet(r) : \E i \in 1..(Len(s) + 1) : y = r[i]
      BY <2>1, <2>2, Elements
    <3>2. \A i \in 1..(Len(s) + 1) : r[i] \in ToSet(r)
      BY <2>2 DEF ToSet
    <3> QED BY <1>1, <2>1, <3>1, <3>2
  <2>5. ToSet(r) \subseteq S \union {x}
    BY <2>4 DEF Newest
  <2>6. Len(r) = Smaller(Cardinality(S \union {x}), Capacity)
    BY <1>1, <1>4, <1>5, <1>7, <2>1, Bounds DEF Smaller
  <2>7. \A y \in (S \union {x}) \ ToSet(r) : \A i \in DOMAIN r : y.t < r[i].t
    <3> SUFFICES ASSUME NEW y \in S, y \notin ToSet(s), NEW i \in 1..(Len(s) + 1) PROVE y.t < r[i].t
      BY <2>2, <2>4
    <3>1. CASE i = Len(s) + 1
      BY <2>1, <3>1
    <3>2. CASE i # Len(s) + 1
      <4>1. i \in 1..Len(s)
        BY <1>1, <3>2
      <4> QED BY <1>6, <2>1, <4>1
    <3> QED BY <3>1, <3>2
  <2> QED BY <1>4, <2>3, <2>5, <2>6, <2>7 DEF Newest, r
<1>8. ASSUME Len(s) = Capacity PROVE Newest(Append(Tail(s), x), S \union {x})
  <2> DEFINE n == Len(s)
             rest == Tail(s)
             r == Append(rest, x)
  <2>0. n >= 1 /\ n = Capacity /\ n \in Nat /\ s # << >>
    BY <1>8, Bounds
  <2>1. rest \in Seq(Samples) /\ Len(rest) = n - 1 /\ \A i \in 1..(n - 1) : rest[i] = s[i + 1]
    BY <2>0
  <2> HIDE DEF rest
  <2>2. /\ r \in Seq(Samples) /\ Len(r) = n /\ r[n] = x
        /\ \A i \in 1..(n - 1) : r[i] = s[i + 1]
    BY <2>0, <2>1
  <2> HIDE DEF r
  <2>3. DOMAIN r = 1..n
    BY <2>2
  <2> HIDE DEF n
  <2>4. \A i, k \in 1..n : i < k => s[i].t < s[k].t
    BY <1>1 DEF Newest, InOrder, n
  <2>5. InOrder(r)
    <3> SUFFICES ASSUME NEW i \in 1..n, NEW k \in 1..n, i < k PROVE r[i].t < r[k].t
      BY <2>3 DEF InOrder
    <3>1. i \in 1..(n - 1) /\ i + 1 \in 1..n /\ r[i] = s[i + 1] /\ s[i + 1].t < x.t
      BY <1>2, <2>0, <2>2 DEF n
    <3>2. CASE k = n
      BY <2>2, <3>1, <3>2
    <3>3. CASE k # n
      <4>1. k \in 1..(n - 1) /\ k + 1 \in 1..n /\ i + 1 < k + 1 /\ r[k] = s[k + 1]
        BY <2>0, <2>2, <3>3
      <4> QED BY <2>4, <3>1, <4>1
    <3> QED BY <3>2, <3>3
  <2>6. \A y \in ToSet(r) : y = x \/ y \in S
    <3>1. \A y \in ToSet(r) : \E i \in 1..n : y = r[i]
      BY <2>2, <2>3, Elements
    <3>2. \A i \in 1..(n - 1) : r[i] \in S
      <4>1. \A i \in 1..(n - 1) : i + 1 \in 1..n
        BY <2>0
      <4> QED BY <1>1, <2>2, <4>1 DEF n
    <3> QED BY <2>0, <2>2, <3>1, <3>2
  <2>7. \A i \in 1..n : i # 1 => s[i] \in ToSet(r)
    <3> SUFFICES ASSUME NEW i \in 1..n, i # 1 PROVE s[i] \in ToSet(r)
      OBVIOUS
    <3>1. i - 1 \in 1..(n - 1) /\ i - 1 \in DOMAIN r /\ r[i - 1] = s[i]
      BY <2>0, <2>2, <2>3
    <3> QED BY <3>1 DEF ToSet
  <2>8. x \in ToSet(r)
    BY <2>0, <2>2, <2>3 DEF ToSet
  <2>9. \A y \in (S \union {x}) \ ToSet(r) : \A i \in DOMAIN r : y.t < r[i].t
    <3> SUFFICES ASSUME NEW y \in S, y \notin ToSet(r), NEW i \in 1..n PROVE y.t < r[i].t
      BY <2>3, <2>8
    <3>1. y.t \in Int
      BY DEF Samples
    <3>2. CASE i = n
      BY <2>2, <3>2
    <3>3. CASE i # n
      <4>1. i \in 1..(n - 1) /\ i + 1 \in 1..n /\ 1 \in 1..n /\ 1 < i + 1 /\ r[i] = s[i + 1]
        BY <2>0, <2>2, <3>3
      <4>2. CASE y \in ToSet(s)
        <5>1. y = s[1]
          BY <1>1, <2>7, <4>2 DEF n
        <5> QED BY <2>4, <4>1, <5>1
      <4>3. CASE y \notin ToSet(s)
        BY <1>6, <4>1, <4>3 DEF n
      <4> QED BY <4>2, <4>3
    <3> QED BY <3>2, <3>3
  <2>10. Len(r) = Smaller(Cardinality(S \union {x}), Capacity)
    <3>1. Cardinality(S) >= Capacity
      BY <1>4, <1>5, <2>0, Bounds DEF Smaller, n
    <3> QED BY <1>4, <2>0, <2>2, <3>1, Bounds DEF Smaller
  <2>11. Newest(r, S \union {x})
    BY <1>4, <2>5, <2>6, <2>9, <2>10 DEF Newest
  <2> QED BY <2>11 DEF r, rest
<1> QED BY <1>7, <1>8

-----------------------------------------------------------------------------
(* The inductive invariant: frames come in the order of their times, and   *)
(* each buffer holds the newest samples of its signal.                     *)
SeriesInv ==
  /\ SeriesTypes
  /\ InOrder(received)
  /\ \A id \in DOMAIN Descriptors :
       WrittenInTurn(rings[id]) /\ Newest(Ordered(rings[id]), Recorded(id))

LEMMA DecodedIs ==
  ASSUME NEW f \in Frames
  PROVE  /\ DecodedFrame(f) \in Samples /\ DecodedFrame(f).t = f.t
         /\ f.t \in Int /\ f.v.id \in DOMAIN Descriptors
<1>1. f.v.id \in DOMAIN Descriptors /\ f.v.data \in Contents /\ f.t \in Int
  BY DEF Frames
<1>2. DecodeSignal(f.v.data, Descriptors[f.v.id]) \in Int
  BY <1>1, Decoded
<1> QED BY <1>1, <1>2 DEF DecodedFrame, Sample, Samples

LEMMA RecordedIs ==
  ASSUME SeriesTypes, NEW id
  PROVE  /\ Recorded(id) \in SUBSET Samples
         /\ \A x \in Recorded(id) : \E i \in 1..Len(received) : x.t = received[i].t
<1>1. /\ DOMAIN received = 1..Len(received)
      /\ \A i \in 1..Len(received) : received[i] \in Frames
  BY DEF SeriesTypes
<1>2. \A i \in 1..Len(received) : /\ DecodedFrame(received[i]) \in Samples
                                  /\ DecodedFrame(received[i]).t = received[i].t
  BY <1>1, DecodedIs
<1> QED BY <1>1, <1>2 DEF Recorded

LEMMA SeriesInvInit == SeriesInit => SeriesInv
<1> SUFFICES ASSUME SeriesInit PROVE SeriesInv
  OBVIOUS
<1>1. SeriesTypes
  BY SeriesTypesInit
<1>2. received = << >> /\ DOMAIN received = {}
  BY DEF SeriesInit
<1>3. InOrder(received)
  BY <1>2 DEF InOrder
<1>4. ASSUME NEW id \in DOMAIN Descriptors
      PROVE  WrittenInTurn(rings[id]) /\ Newest(Ordered(rings[id]), Recorded(id))
  <2>1. rings[id] \in Rings /\ rings[id].count = 0 /\ rings[id].head = 0
    BY <1>1 DEF SeriesTypes, SeriesInit, EmptyRing
  <2>2. WrittenInTurn(rings[id])
    BY <2>1 DEF WrittenInTurn
  <2> DEFINE s == Ordered(rings[id])
  <2>3. Len(s) = 0 /\ s \in Seq(Samples) /\ DOMAIN s = {}
    BY <2>1, OrderedIs
  <2> HIDE DEF s
  <2>4. Recorded(id) = {} /\ ToSet(s) = {}
    BY <1>2, <2>3 DEF Recorded, ToSet
  <2>5. IsFiniteSet({}) /\ Cardinality({}) = 0
    BY FS_EmptySet
  <2>6. Smaller(0, Capacity) = 0
    BY Bounds DEF Smaller
  <2>7. Newest(s, Recorded(id))
    BY <2>3, <2>4, <2>5, <2>6 DEF Newest, InOrder
  <2> QED BY <2>2, <2>7 DEF s
<1> QED BY <1>1, <1>3, <1>4 DEF SeriesInv

LEMMA SeriesInvNext == SeriesInv /\ SeriesNext => SeriesInv'
<1> SUFFICES ASSUME SeriesInv, SeriesNext PROVE SeriesInv'
  OBVIOUS
<1>1. SeriesTypes /\ SeriesTypes'
  BY SeriesTypesNext DEF SeriesInv
<1>2. PICK id \in DOMAIN Descriptors, data \in Contents, t \in Int :
        /\ FrameReceived(id, data, t)
        /\ received # << >> => t > received[Len(received)].t
  BY <1>1, FrameIs
<1> DEFINE n == Len(received)
           f == Sample(t, [id |-> id, data |-> data])
           x == Sample(t, DecodeSignal(data, Descriptors[id]))
<1>3. f \in Frames /\ DecodedFrame(f) = x /\ f.v.id = id /\ f.t = t /\ x.t = t /\ x \in Samples
  BY Decoded DEF Sample, Frames, DecodedFrame, Samples
<1>4. received' = Append(received, f) /\ rings' = [rings EXCEPT ![id] = Push(rings[id], x)]
  BY <1>2 DEF FrameReceived
<1> HIDE DEF f, x
<1>5. /\ DOMAIN received = 1..n /\ n \in Nat /\ DOMAIN received' = 1..(n + 1)
      /\ \A i \in 1..n : received'[i] = received[i] /\ received[i] \in Frames
      /\ received'[n + 1] = f
  BY <1>1, <1>3, <1>4 DEF SeriesTypes
<1>6. \A i \in 1..n : received[i].t < t /\ received[i].t \in Int
  <2> SUFFICES ASSUME NEW i \in 1..n PROVE received[i].t < t /\ received[i].t \in Int
    OBVIOUS
  <2>1. received # << >> /\ n \in 1..n
    BY <1>5
  <2>2. received[i].t \in Int /\ received[n].t \in Int
    BY <1>5, <2>1, DecodedIs
  <2>3. i < n => received[i].t < received[n].t
    BY <1>5, <2>1 DEF SeriesInv, InOrder
  <2> QED BY <1>2, <2>1, <2>2, <2>3
<1>7. InOrder(received)'
  <2>1. \A i, k \in 1..n : i < k => received[i].t < received[k].t
    BY <1>5 DEF SeriesInv, InOrder
  <2> QED BY <1>3, <1>5, <1>6, <2>1 DEF InOrder
<1>8. ASSUME NEW j \in DOMAIN Descriptors
      PROVE  Recorded(j)' = IF j = id THEN Recorded(j) \union {x} ELSE Recorded(j)
  <2>1. \A y : y \in Recorded(j) <=> \E i \in 1..n : received[i].v.id = j /\ y = DecodedFrame(received[i])
    BY <1>5 DEF Recorded
  <2>2. \A y : y \in Recorded(j)' <=>
               \E i \in 1..(n + 1) : received'[i].v.id = j /\ y = DecodedFrame(received'[i])
    BY <1>5 DEF Recorded
  <2>3. \A y : y \in Recorded(j)' <=> y \in Recorded(j) \/ (j = id /\ y = x)
    BY <1>3, <1>5, <2>1, <2>2
  <2> QED BY <2>3
<1>9. ASSUME NEW j \in DOMAIN Descriptors
      PROVE  WrittenInTurn(rings'[j]) /\ Newest(Ordered(rings'[j]), Recorded(j)')
  <2>1. WrittenInTurn(rings[j]) /\ Newest(Ordered(rings[j]), Recorded(j))
    BY DEF SeriesInv
  <2>2. CASE j # id
    <3>1. rings'[j] = rings[j]
      BY <1>1, <1>4, <2>2 DEF SeriesTypes
    <3> QED BY <1>8, <2>1, <2>2, <3>1
  <2>3. CASE j = id
    <3>1. rings'[j] = Push(rings[j], x)
      BY <1>1, <1>4, <2>3 DEF SeriesTypes
    <3> DEFINE s == Ordered(rings[j])
    <3>2. rings[j] \in Rings
      BY <1>1 DEF SeriesTypes
    <3>3. s \in Seq(Samples) /\ Len(s) = rings[j].count /\ rings[j].count \in 0..Capacity
      BY <3>2, OrderedIs
    <3>4. /\ WrittenInTurn(rings'[j])
          /\ Ordered(rings'[j]) = IF rings[j].count < Capacity THEN Append(s, x) ELSE Append(Tail(s), x)
      BY <1>3, <2>1, <3>1, PushedIs
    <3>5. Recorded(j) \in SUBSET Samples /\ \A y \in Recorded(j) : y.t < x.t
      BY <1>1, <1>3, <1>6, RecordedIs
    <3> HIDE DEF s
    <3>6. Newest(s, Recorded(j))
      BY <2>1 DEF s
    <3>7. /\ Len(s) < Capacity => Newest(Append(s, x), Recorded(j) \union {x})
          /\ Len(s) = Capacity => Newest(Append(Tail(s), x), Recorded(j) \union {x})
      BY <1>3, <3>3, <3>5, <3>6, NewestAppended
    <3>8. Newest(Ordered(rings'[j]), Recorded(j) \union {x})
      <4>1. CASE rings[j].count < Capacity
        BY <3>3, <3>4, <3>7, <4>1
      <4>2. CASE ~(rings[j].count < Capacity)
        <5>1. Len(s) = Capacity
          BY <3>3, <4>2, Bounds
        <5> QED BY <3>4, <3>7, <4>2, <5>1
      <4> QED BY <4>1, <4>2
    <3> QED BY <1>8, <2>3, <3>4, <3>8
  <2> QED BY <2>2, <2>3
<1> QED BY <1>1, <1>7, <1>9 DEF SeriesInv

-----------------------------------------------------------------------------
(* A part of a series.                                                     *)
LEMMA SliceIs ==
  ASSUME NEW s \in Seq(Samples), InOrder(s), NEW a \in 1..(Len(s) + 1), NEW b \in (a - 1)..Len(s)
  PROVE  /\ SubSeq(s, a, b) \in Seq(Samples) /\ Len(SubSeq(s, a, b)) = b - a + 1
         /\ DOMAIN SubSeq(s, a, b) = 1..(b - a + 1)
         /\ \A i \in 1..(b - a + 1) : SubSeq(s, a, b)[i] = s[a + i - 1] /\ a + i - 1 \in a..b
         /\ InOrder(SubSeq(s, a, b))
         /\ \A x : x \in ToSet(SubSeq(s, a, b)) <=> \E i \in a..b : x = s[i]
<1> DEFINE r == SubSeq(s, a, b)
<1>1. /\ r \in Seq(Samples) /\ Len(r) = b - a + 1
      /\ \A i \in 1..(b - a + 1) : r[i] = s[a + i - 1]
  <2>1. /\ SubSeq(s, a, b) \in Seq(Samples)
        /\ Len(SubSeq(s, a, b)) = IF a <= b THEN b - a + 1 ELSE 0
        /\ \A i \in 1..(b - a + 1) : SubSeq(s, a, b)[i] = s[a + i - 1]
    BY SubSeqProperties
  <2> QED BY <2>1
<1> HIDE DEF r
<1>2. DOMAIN r = 1..(b - a + 1) /\ Len(s) \in Nat
  BY <1>1
<1>3. \A i \in 1..(b - a + 1) : a + i - 1 \in a..b /\ a + i - 1 \in 1..Len(s)
  BY <1>2
<1>4. \A i, k \in 1..Len(s) : i < k => s[i].t < s[k].t
  BY DEF InOrder
<1>5. InOrder(r)
  <2> SUFFICES ASSUME NEW i \in 1..(b - a + 1), NEW k \in 1..(b - a + 1), i < k PROVE r[i].t < r[k].t
    BY <1>2 DEF InOrder
  <2>1. a + i - 1 < a + k - 1
    OBVIOUS
  <2> QED BY <1>1, <1>3, <1>4, <2>1
<1>6. ASSUME NEW x PROVE x \in ToSet(r) <=> \E i \in a..b : x = s[i]
  <2>1. x \in ToSet(r) <=> \E i \in 1..(b - a + 1) : x = r[i]
    BY <1>2 DEF ToSet
  <2>2. ASSUME NEW i \in a..b PROVE i - a + 1 \in 1..(b - a + 1) /\ r[i - a + 1] = s[i]
    <3>1. i - a + 1 \in 1..(b - a + 1) /\ a + (i - a + 1) - 1 = i
      OBVIOUS
    <3> QED BY <1>1, <3>1
  <2> QED BY <1>1, <1>3, <2>1, <2>2
<1> QED BY <1>1, <1>2, <1>3, <1>5, <1>6 DEF r

LEMMA EverythingIs ==
  ASSUME SeriesInv
  PROVE  /\ Everything \in Seq(Samples) /\ InOrder(Everything) /\ Len(Everything) = Len(received)
<1>1. DOMAIN received = 1..Len(received) /\ Len(received) \in Nat
      /\ \A i \in 1..Len(received) : received[i] \in Frames
  BY DEF SeriesInv, SeriesTypes
<1>2. \A i \in 1..Len(received) : /\ DecodedFrame(received[i]) \in Samples
                                  /\ DecodedFrame(received[i]).t = received[i].t
  BY <1>1, DecodedIs
<1>3. Everything \in [1..Len(received) -> Samples]
  BY <1>1, <1>2 DEF Everything
<1>4. \A i \in 1..Len(received) : Everything[i].t = received[i].t
  BY <1>1, <1>2 DEF Everything
<1>5. \A i, k \in 1..Len(received) : i < k => received[i].t < received[k].t
  BY <1>1 DEF SeriesInv, InOrder
<1>6. Everything \in Seq(Samples) /\ Len(Everything) = Len(received) /\ DOMAIN Everything = 1..Len(received)
  BY <1>1, <1>3
<1> QED BY <1>4, <1>5, <1>6 DEF InOrder

-----------------------------------------------------------------------------
(* toArrays with a time: the newest samples, from that time on.            *)
LEMMA ArraysAre ==
  ASSUME NEW ring, WrittenInTurn(ring), InOrder(Ordered(ring)), NEW from \in Int
  PROVE  /\ InOrder(ToArrays(ring, from))
         /\ \A x : x \in ToSet(ToArrays(ring, from)) <=> x \in ToSet(Ordered(ring)) /\ x.t >= from
<1> DEFINE s == Ordered(ring)
           I == {i \in 1..Len(s) : s[i].t < from}
           k == SelectLastInSeq(s, LAMBDA x : x.t < from)
<1>1. s \in Seq(Samples) /\ InOrder(s)
  BY OrderedIs DEF WrittenInTurn
<1>2. /\ DOMAIN s = 1..Len(s) /\ Len(s) \in Nat /\ \A i \in 1..Len(s) : s[i].t \in Int
      /\ \A i, j \in 1..Len(s) : i < j => s[i].t < s[j].t
  <2>1. DOMAIN s = 1..Len(s) /\ Len(s) \in Nat /\ \A i \in 1..Len(s) : s[i] \in Samples
    BY <1>1, Elements
  <2>2. \A i \in 1..Len(s) : s[i].t \in Int
    BY <2>1 DEF Samples
  <2> QED BY <1>1, <2>1, <2>2 DEF InOrder
<1>3. ToArrays(ring, from) = SubSeq(s, k + 1, Len(s))
  BY DEF ToArrays
<1>4. k = IF I # {} THEN Max(I) ELSE 0
  BY DEF SelectLastInSeq
<1> HIDE DEF s, k
<1>5. k \in 0..Len(s) /\ \A i \in 1..Len(s) : s[i].t >= from <=> i > k
  <2>1. CASE I = {}
    BY <1>2, <1>4, <2>1
  <2>2. CASE I # {}
    <3>1. PICK m \in I : \A i \in I : i <= m
      <4>1. I \in SUBSET (0..Len(s))
        OBVIOUS
      <4> HIDE DEF I
      <4> QED BY <1>2, <2>2, <4>1, GreatestOf
    <3>2. k \in I /\ \A i \in I : k >= i
      <4>1. \A i \in I : m >= i
        BY <1>2, <3>1
      <4> HIDE DEF I
      <4> QED BY <1>4, <2>2, <3>1, <4>1 DEF Max
    <3> QED BY <1>2, <3>2
  <2> QED BY <2>1, <2>2
<1>6. /\ InOrder(SubSeq(s, k + 1, Len(s)))
      /\ \A x : x \in ToSet(SubSeq(s, k + 1, Len(s))) <=> \E i \in (k + 1)..Len(s) : x = s[i]
  <2>1. k + 1 \in 1..(Len(s) + 1) /\ Len(s) \in k..Len(s) /\ (k + 1) - 1 = k
    BY <1>2, <1>5
  <2> QED BY <1>1, <2>1, SliceIs
<1>7. ASSUME NEW x PROVE x \in ToSet(s) /\ x.t >= from <=> \E i \in (k + 1)..Len(s) : x = s[i]
  <2>1. x \in ToSet(s) <=> \E i \in 1..Len(s) : x = s[i]
    BY <1>2 DEF ToSet
  <2>2. \A i \in 1..Len(s) : i > k <=> i \in (k + 1)..Len(s)
    BY <1>2, <1>5
  <2>3. \A i \in (k + 1)..Len(s) : i \in 1..Len(s)
    BY <1>2, <1>5
  <2> QED BY <1>5, <2>1, <2>2, <2>3
<1> QED BY <1>3, <1>6, <1>7 DEF s

LEMMA LastTimestampIs ==
  ASSUME NEW ring, WrittenInTurn(ring), Ordered(ring) # << >>
  PROVE  LastTimestamp(ring) = Last(Ordered(ring)).t /\ LastTimestamp(ring) \in Int
<1> DEFINE s == Ordered(ring)
<1>1. /\ s \in Seq(Samples) /\ Len(s) = ring.count /\ ring.count \in 0..Capacity /\ ring \in Rings
      /\ \A i \in 1..ring.count : s[i] = ring.slots[Place(ring, i)]
  BY OrderedIs DEF WrittenInTurn
<1>2. ring.head \in 0..(Capacity - 1)
  BY <1>1 DEF Rings, Slots
<1> HIDE DEF s
<1>3. ring.count \in 1..Capacity
  <2>1. Len(s) # 0
    BY <1>1 DEF s
  <2> QED BY <1>1, <2>1
<1>4. Place(ring, ring.count) = (ring.head - 1 + Capacity) % Capacity
  <2> DEFINE a == ring.head - 1 + Capacity
  <2>1. a \in Nat /\ a < 2 * Capacity
    BY <1>2, Bounds
  <2>2. a % Capacity = IF a < Capacity THEN a ELSE a - Capacity
    <3> HIDE DEF a
    <3> QED BY <2>1, Wrapped
  <2>3. CASE ring.count < Capacity
    <3>1. ring.head = ring.count
      BY <2>3 DEF WrittenInTurn
    <3> QED BY <1>2, <1>3, <2>2, <2>3, <3>1, Bounds DEF Place, Oldest
  <2>4. CASE ring.count = Capacity
    BY <1>2, <1>3, <2>2, <2>4, Bounds DEF Place, Oldest
  <2> QED BY <1>3, <2>3, <2>4, Bounds
<1>5. Size(ring) = Capacity
  BY <1>1, RingSize
<1>6. s[ring.count] = ring.slots[(ring.head - 1 + Capacity) % Capacity]
  BY <1>1, <1>3, <1>4
<1>7. Last(s) = s[ring.count] /\ s[ring.count].t \in Int
  <2>1. s[ring.count] \in Samples
    BY <1>1, <1>3
  <2> QED BY <1>1, <2>1 DEF Last, Samples
<1> QED BY <1>5, <1>6, <1>7 DEF LastTimestamp, s

LEMMA BuffersHold == SeriesInv => BuffersHoldTheNewest
<1> SUFFICES ASSUME SeriesInv, NEW id \in DOMAIN Descriptors
             PROVE  LET held == Ordered(rings[id])
                        recordedOf == Recorded(id)
                    IN /\ InOrder(held) /\ ToSet(held) \subseteq recordedOf
                       /\ Len(held) = Smaller(Cardinality(recordedOf), Capacity)
                       /\ \A x \in recordedOf \ ToSet(held) : \A i \in DOMAIN held : x.t < held[i].t
                       /\ held # << >> =>
                            \A w \in 0..4 :
                              LET window == WindowOf(rings[id], w)
                              IN /\ InOrder(window)
                                 /\ ToSet(window) = {x \in ToSet(held) : x.t >= Last(held).t - w}
  BY Zenon DEF BuffersHoldTheNewest
<1> DEFINE held == Ordered(rings[id])
<1>1. WrittenInTurn(rings[id]) /\ Newest(held, Recorded(id))
  BY DEF SeriesInv
<1>2. InOrder(held)
  BY <1>1 DEF Newest
<1>3. ASSUME held # << >>, NEW w \in 0..4
      PROVE  /\ InOrder(WindowOf(rings[id], w))
             /\ ToSet(WindowOf(rings[id], w)) = {x \in ToSet(held) : x.t >= Last(held).t - w}
  <2> DEFINE from == LastTimestamp(rings[id]) - w
  <2>1. from \in Int /\ from = Last(held).t - w
    BY <1>1, <1>3, LastTimestampIs
  <2>2. WindowOf(rings[id], w) = ToArrays(rings[id], from)
    BY DEF WindowOf
  <2> HIDE DEF from
  <2>3. /\ InOrder(ToArrays(rings[id], from))
        /\ \A x : x \in ToSet(ToArrays(rings[id], from)) <=> x \in ToSet(held) /\ x.t >= from
    BY <1>1, <1>2, <2>1, ArraysAre
  <2>4. {x \in ToSet(held) : x.t >= Last(held).t - w} = {x \in ToSet(held) : x.t >= from}
    BY <2>1
  <2> HIDE DEF held
  <2>5. ToSet(ToArrays(rings[id], from)) = {x \in ToSet(held) : x.t >= from}
    BY <2>3
  <2> QED BY <2>2, <2>3, <2>4, <2>5
<1> QED BY <1>1, <1>3 DEF Newest

-----------------------------------------------------------------------------
(* Whole parts: what the buckets begin with.                               *)
LEMMA WholePart ==
  ASSUME NEW x \in Nat, NEW m \in Nat, m >= 1
  PROVE  /\ x \div m \in Nat /\ m * (x \div m) <= x /\ x < m * (x \div m) + m
<1>1. x \div m \in Int
  OBVIOUS
<1>2. x \div m >= 0
  OBVIOUS
<1>3. m * (x \div m) <= x
  OBVIOUS
<1>4. x < m * (x \div m) + m
  OBVIOUS
<1> QED BY <1>1, <1>2, <1>3, <1>4

LEMMA WholePartIs ==
  ASSUME NEW x \in Nat, NEW m \in Nat, m >= 1, NEW q \in Nat, m * q <= x, x < m * q + m
  PROVE  x \div m = q
<1> DEFINE p == x \div m
<1>1. p \in Nat /\ m * p <= x /\ x < m * p + m
  BY WholePart
<1> HIDE DEF p
<1>2. ~(p < q)
  <2> SUFFICES ASSUME p < q PROVE FALSE
    OBVIOUS
  <2>1. m * q >= m * (p + 1)
    BY <1>1
  <2>2. m * (p + 1) = m * p + m
    BY <1>1
  <2> QED BY <1>1, <2>1, <2>2
<1>3. ~(q < p)
  <2> SUFFICES ASSUME q < p PROVE FALSE
    OBVIOUS
  <2>1. m * p >= m * (q + 1)
    BY <1>1
  <2>2. m * (q + 1) = m * q + m
    OBVIOUS
  <2> QED BY <1>1, <2>1, <2>2
<1> QED BY <1>1, <1>2, <1>3 DEF p

LEMMA WholePartGrows ==
  ASSUME NEW x \in Nat, NEW y \in Nat, NEW m \in Nat, m >= 1, x <= y
  PROVE  /\ x \div m <= y \div m
         /\ y >= x + m => y \div m >= x \div m + 1
<1> DEFINE p == x \div m
           q == y \div m
<1>1. p \in Nat /\ m * p <= x /\ x < m * p + m
  BY WholePart
<1>2. q \in Nat /\ m * q <= y /\ y < m * q + m
  BY WholePart
<1> HIDE DEF p, q
<1>3. p <= q
  <2> SUFFICES ASSUME q < p PROVE FALSE
    BY <1>1, <1>2
  <2>1. m * p >= m * (q + 1)
    BY <1>1, <1>2
  <2>2. m * (q + 1) = m * q + m
    BY <1>2
  <2>3. m * p \in Int /\ m * q \in Int
    BY <1>1, <1>2
  <2> QED BY <1>1, <1>2, <2>1, <2>2, <2>3
<1>4. ASSUME y >= x + m PROVE q >= p + 1
  <2> SUFFICES ASSUME q <= p PROVE FALSE
    BY <1>1, <1>2
  <2>1. m * p >= m * q
    BY <1>1, <1>2
  <2>2. m * p \in Int /\ m * q \in Int
    BY <1>1, <1>2
  <2> QED BY <1>1, <1>2, <1>4, <2>1, <2>2
<1> QED BY <1>3, <1>4 DEF p, q

LEMMA BucketsAre ==
  ASSUME NEW s \in Seq(Samples), NEW n \in 3..Len(s), n < Len(s)
  PROVE  /\ BucketStart(s, n, 0) = 2 /\ BucketStart(s, n, n - 2) = Len(s)
         /\ \A i \in 0..(n - 1) : BucketStart(s, n, i) \in Nat /\ BucketStart(s, n, i) >= 2
         /\ \A i, k \in 0..(n - 1) :
              i < k => BucketStart(s, n, i) + 1 <= BucketStart(s, n, k)
<1> DEFINE m == n - 2
           L == Len(s) - 2
           B(i) == BucketStart(s, n, i)
<1>1. m \in Nat /\ m >= 1 /\ L \in Nat /\ L > m
  OBVIOUS
<1>2. \A i \in 0..(n - 1) : B(i) = (i * L) \div m + 2
  BY DEF BucketStart
<1>3. 0 \in 0..(n - 1) /\ m \in 0..(n - 1) /\ Len(s) = L + 2
  OBVIOUS
<1> HIDE DEF m, L, B
<1>4. \A i \in 0..(n - 1) : i * L \in Nat
  BY <1>1
<1>5. 0 * L = 0 /\ m * L \in Nat
  BY <1>1
<1>6. (0 * L) \div m = 0
  BY <1>1, <1>5, WholePartIs
<1>7. (m * L) \div m = L
  <2>1. m >= 1 /\ m \in Nat /\ L \in Nat /\ m * L \in Nat
    BY <1>1, <1>5
  <2>2. m * L <= m * L /\ m * L < m * L + m
    BY <2>1
  <2> QED BY <2>1, <2>2, WholePartIs
<1>8. \A i \in 0..(n - 1) : B(i) \in Nat /\ B(i) >= 2
  BY <1>1, <1>2, <1>4, WholePart
<1>9. ASSUME NEW i \in 0..(n - 1), NEW k \in 0..(n - 1), i < k PROVE B(i) + 1 <= B(k)
  <2>1. i * L \in Nat /\ k * L \in Nat
    BY <1>4
  <2>2. k * L >= (i + 1) * L /\ (i + 1) * L = i * L + L
    BY <1>1, <1>9
  <2>3. i * L <= k * L /\ k * L >= i * L + m
    BY <1>1, <2>1, <2>2
  <2> DEFINE x == i * L
             y == k * L
  <2>4. x \in Nat /\ y \in Nat /\ x <= y /\ y >= x + m
    BY <2>1, <2>3
  <2>5. B(i) = x \div m + 2 /\ B(k) = y \div m + 2
    BY <1>2
  <2> HIDE DEF x, y
  <2>6. x \div m \in Nat /\ y \div m \in Nat /\ y \div m >= x \div m + 1
    BY <1>1, <2>4, WholePart, WholePartGrows
  <2> QED BY <2>5, <2>6
<1>10. B(0) = 2 /\ B(m) = Len(s)
  BY <1>1, <1>2, <1>3, <1>6, <1>7
<1> QED BY <1>8, <1>9, <1>10 DEF B, m

(* A bucket has a sample with the largest area, the first of those.        *)
LEMMA FirstOfLargest ==
  ASSUME NEW lo \in Int, NEW hi \in Int, lo <= hi, NEW area, \A j \in lo..hi : area[j] \in Int
  PROVE  \E j \in lo..hi : \A k \in lo..hi : area[k] < area[j] \/ (area[k] = area[j] /\ j <= k)
<1> DEFINE Best(j, m) == \A k \in lo..(lo + m) : area[k] < area[j] \/ (area[k] = area[j] /\ j <= k)
           n == hi - lo
           S == {m \in 0..n : \E j \in lo..(lo + m) : Best(j, m)}
<1>1. n \in Nat
  OBVIOUS
<1>2. 0 \in S
  <2>1. lo \in lo..(lo + 0) /\ Best(lo, 0)
    OBVIOUS
  <2> QED BY <1>1, <2>1
<1>3. ASSUME NEW m \in 0..(n - 1), m \in S PROVE m + 1 \in S
  <2>1. PICK j \in lo..(lo + m) : Best(j, m)
    BY <1>3
  <2> DEFINE next == lo + (m + 1)
  <2>2. /\ next \in lo..hi /\ j \in lo..hi /\ j < next /\ area[next] \in Int /\ area[j] \in Int
        /\ \A k \in lo..next : k \in lo..(lo + m) \/ k = next
        /\ \A k \in lo..(lo + m) : area[k] \in Int
    OBVIOUS
  <2>3. CASE area[next] > area[j]
    <3>1. Best(next, m + 1)
      BY <2>1, <2>2, <2>3
    <3>2. next \in lo..(lo + (m + 1)) /\ m + 1 \in 0..n
      OBVIOUS
    <3> HIDE DEF Best, next, n
    <3> QED BY <3>1, <3>2
  <2>4. CASE ~(area[next] > area[j])
    <3>1. Best(j, m + 1)
      BY <2>1, <2>2, <2>4
    <3>2. j \in lo..(lo + (m + 1)) /\ m + 1 \in 0..n
      BY <2>2
    <3> HIDE DEF Best, next, n
    <3> QED BY <3>1, <3>2
  <2> QED BY <2>3, <2>4
<1> HIDE DEF Best
<1>4. \A m \in 0..n : m \in S
  <2> HIDE DEF n, S
  <2> QED BY <1>1, <1>2, <1>3, InductUpTo
<1>5. n \in S /\ lo + n = hi
  BY <1>1, <1>4
<1>6. \E j \in lo..hi : Best(j, n)
  BY <1>5
<1> QED BY <1>5, <1>6 DEF Best

-----------------------------------------------------------------------------
(* The reduction.                                                          *)
LEMMA SeriesAre ==
  ASSUME NEW s \in Seq(Samples)
  PROVE  /\ DOMAIN s = 1..Len(s) /\ Len(s) \in Nat
         /\ \A i \in 1..Len(s) : s[i] \in Samples /\ s[i].t \in Int /\ s[i].v \in Int
         /\ Times(s) \in Seq(Int) /\ Values(s) \in Seq(Int)
         /\ Len(Times(s)) = Len(s) /\ Len(Values(s)) = Len(s)
         /\ \A i \in 1..Len(s) : Times(s)[i] = s[i].t /\ Values(s)[i] = s[i].v
<1>1. DOMAIN s = 1..Len(s) /\ Len(s) \in Nat /\ \A i \in 1..Len(s) : s[i] \in Samples
  OBVIOUS
<1>2. \A i \in 1..Len(s) : s[i].t \in Int /\ s[i].v \in Int
  BY <1>1 DEF Samples
<1>3. Times(s) \in [1..Len(s) -> Int] /\ \A i \in 1..Len(s) : Times(s)[i] = s[i].t
  BY <1>1, <1>2 DEF Times
<1>4. Values(s) \in [1..Len(s) -> Int] /\ \A i \in 1..Len(s) : Values(s)[i] = s[i].v
  BY <1>1, <1>2 DEF Values
<1>5. Times(s) \in Seq(Int) /\ Len(Times(s)) = Len(s)
  BY <1>1, <1>3
<1>6. Values(s) \in Seq(Int) /\ Len(Values(s)) = Len(s)
  BY <1>1, <1>4
<1> QED BY <1>1, <1>2, <1>3, <1>4, <1>5, <1>6

LEMMA DistanceIs ==
  ASSUME NEW a \in Int, NEW b \in Int
  PROVE  Distance(a, b) = (IF a >= b THEN a - b ELSE b - a) /\ Distance(a, b) \in Nat
BY DEF Distance, Larger

LEMMA AreaIs ==
  ASSUME NEW s \in Seq(Samples), NEW next \in Seq(Samples), NEW a \in 1..Len(s), NEW j \in 1..Len(s)
  PROVE  Area(s, a, j, next) \in Int
<1> DEFINE n == Len(next)
           ts == SumOf(Times(next))
           vs == SumOf(Values(next))
           p == (n * s[a].t - ts) * (s[j].v - s[a].v)
           q == (s[a].t - s[j].t) * (vs - n * s[a].v)
<1>1. n \in Int /\ ts \in Int /\ vs \in Int
  BY SeriesAre, SumAppended, 0 \in Int
<1>2. s[a].t \in Int /\ s[a].v \in Int /\ s[j].t \in Int /\ s[j].v \in Int
  BY SeriesAre
<1>3. Area(s, a, j, next) = Distance(p, q)
  BY DEF Area
<1> HIDE DEF n, ts, vs
<1>4. n * s[a].t \in Int /\ n * s[a].v \in Int
  BY <1>1, <1>2
<1>5. p \in Int /\ q \in Int
  <2> DEFINE c1 == n * s[a].t
             c2 == n * s[a].v
             a1 == n * s[a].t - ts
             a2 == s[j].v - s[a].v
             b1 == s[a].t - s[j].t
             b2 == vs - n * s[a].v
  <2>0. c1 \in Int /\ c2 \in Int /\ a1 = c1 - ts /\ b2 = vs - c2
    BY <1>4
  <2>1. a1 \in Int /\ a2 \in Int /\ b1 \in Int /\ b2 \in Int
    <3>1. a2 \in Int /\ b1 \in Int
      BY <1>2
    <3> HIDE DEF c1, c2, a1, b2
    <3> QED BY <1>1, <2>0, <3>1
  <2>2. p = a1 * a2 /\ q = b1 * b2
    OBVIOUS
  <2> HIDE DEF a1, a2, b1, b2, p, q
  <2> QED BY <2>1, <2>2
<1> HIDE DEF p, q
<1> QED BY <1>3, <1>5, DistanceIs

LEMMA ChoiceIs ==
  ASSUME NEW s \in Seq(Samples), NEW n \in 3..Len(s), n < Len(s), NEW i \in 0..(n - 3), NEW a \in 1..Len(s)
  PROVE  /\ Choice(s, n, i, a) \in BucketStart(s, n, i)..(BucketStart(s, n, i + 1) - 1)
         /\ Choice(s, n, i, a) \in 1..Len(s)
<1> DEFINE B(k) == BucketStart(s, n, k)
           next == SubSeq(s, B(i + 1), BucketEnd(s, n, i + 1))
           lo == B(i)
           hi == BucketEnd(s, n, i)
           area(j) == Area(s, a, j, next)
<1>1. /\ B(n - 2) = Len(s) /\ \A k \in 0..(n - 1) : B(k) \in Nat /\ B(k) >= 2
      /\ \A k, l \in 0..(n - 1) : k < l => B(k) + 1 <= B(l)
  BY BucketsAre
<1>2. i \in 0..(n - 1) /\ i + 1 \in 0..(n - 1) /\ i + 2 \in 0..(n - 1) /\ n - 2 \in 0..(n - 1)
      /\ i + 1 + 1 = i + 2 /\ Len(s) \in Nat
  OBVIOUS
<1> HIDE DEF B
<1>3. B(i) + 1 <= B(i + 1) /\ B(i + 1) + 1 <= B(i + 2)
  BY <1>1, <1>2
<1>4. B(i + 1) <= Len(s) /\ B(i + 1) \in Nat /\ B(i + 2) \in Nat /\ B(i + 1) >= 2
  <2>1. B(i + 1) \in Nat /\ B(i + 2) \in Nat /\ B(i + 1) >= 2 /\ B(n - 2) \in Nat
    BY <1>1, <1>2
  <2>0. B(n - 2) = Len(s)
    BY <1>1
  <2>2. CASE i + 1 = n - 2
    BY <2>0, <2>1, <2>2
  <2>3. CASE i + 1 < n - 2
    <3>1. B(i + 1) + 1 <= B(n - 2)
      BY <1>1, <1>2, <2>3
    <3> QED BY <2>0, <2>1, <3>1
  <2>4. i + 1 = n - 2 \/ i + 1 < n - 2
    OBVIOUS
  <2> QED BY <2>1, <2>2, <2>3, <2>4
<1>5. hi = B(i + 1) - 1
  <2>1. hi = Smaller(B(i + 1) - 1, Len(s))
    BY DEF BucketEnd, B
  <2> QED BY <1>1, <1>2, <1>4, <2>1 DEF Smaller
<1>6. BucketEnd(s, n, i + 1) \in B(i + 1)..Len(s)
  <2>1. BucketEnd(s, n, i + 1) = Smaller(B(i + 2) - 1, Len(s))
    BY <1>2 DEF BucketEnd, B
  <2> QED BY <1>2, <1>3, <1>4, <2>1 DEF Smaller
<1>7. next \in Seq(Samples)
  <2>1. B(i + 1) \in 1..Len(s) /\ BucketEnd(s, n, i + 1) \in 1..Len(s)
    BY <1>1, <1>2, <1>4, <1>6
  <2> QED BY <2>1, SubSeqProperties
<1>8. lo \in Int /\ hi \in Int /\ lo <= hi /\ \A j \in lo..hi : j \in 1..Len(s)
  <2>1. lo = B(i) /\ B(i) \in Nat /\ B(i) >= 2 /\ B(i + 1) \in Nat
    BY <1>1, <1>2
  <2> HIDE DEF lo, hi
  <2> QED BY <1>2, <1>3, <1>4, <1>5, <2>1
<1>9. Choice(s, n, i, a) = CHOOSE j \in lo..hi : \A k \in lo..hi : area(k) < area(j) \/ (area(k) = area(j) /\ j <= k)
  BY DEF Choice, B
<1> HIDE DEF next, lo, hi
<1>10. \A j \in lo..hi : area(j) \in Int
  BY <1>7, <1>8, AreaIs
<1> HIDE DEF area
<1>11. \E j \in lo..hi : \A k \in lo..hi : area(k) < area(j) \/ (area(k) = area(j) /\ j <= k)
  <2> DEFINE f == [j \in lo..hi |-> area(j)]
  <2>1. \A j \in lo..hi : f[j] = area(j)
    OBVIOUS
  <2>2. \A j \in lo..hi : f[j] \in Int
    BY <1>10
  <2> HIDE DEF f
  <2>3. \E j \in lo..hi : \A k \in lo..hi : f[k] < f[j] \/ (f[k] = f[j] /\ j <= k)
    BY <1>8, <2>2, FirstOfLargest, Zenon
  <2> QED BY <2>1, <2>3
<1>12. Choice(s, n, i, a) \in lo..hi
  BY <1>9, <1>11
<1> QED BY <1>5, <1>8, <1>12 DEF lo, B

(* The samples taken, by their places in the series.                       *)
LEMMA LttbIs ==
  ASSUME NEW s \in Seq(Samples), NEW n \in 3..Len(s), n < Len(s)
  PROVE  \E g \in [1..n -> 1..Len(s)] :
           /\ Lttb(s, n) = [i \in 1..n |-> s[g[i]]]
           /\ g[1] = 1 /\ g[n] = Len(s)
           /\ \A i, k \in 1..n : i < k => g[i] < g[k]
<1> DEFINE m == n - 2
           D == 1..Len(s)
           Is(f) == f = [i \in 0..m |-> IF i = 0 THEN 1 ELSE Choice(s, n, i - 1, f[i - 1])]
           pick == CHOOSE f : Is(f)
           B(k) == BucketStart(s, n, k)
<1>1. m \in Nat /\ m >= 1 /\ 1 \in D /\ Len(s) \in D
  OBVIOUS
<1>2. \A i \in 1..m, a \in D : Choice(s, n, i - 1, a) \in D /\ Choice(s, n, i - 1, a) \in B(i - 1)..(B(i) - 1)
  <2> SUFFICES ASSUME NEW i \in 1..m, NEW a \in D
               PROVE Choice(s, n, i - 1, a) \in D /\ Choice(s, n, i - 1, a) \in B(i - 1)..(B(i) - 1)
    OBVIOUS
  <2>1. i - 1 \in 0..(n - 3) /\ i - 1 + 1 = i
    OBVIOUS
  <2> QED BY <2>1, ChoiceIs
<1>3. \E f : Is(f)
  <2> DEFINE h == [i \in 1..m |-> [a \in D |-> Choice(s, n, i - 1, a)]]
  <2>1. h \in [1..m -> [D -> D]]
    BY <1>2
  <2>2. \A i \in 1..m, a \in D : h[i][a] = Choice(s, n, i - 1, a)
    OBVIOUS
  <2> DEFINE first == 1
  <2> HIDE DEF h, D, m, first
  <2>6. first \in D /\ first = 1
    BY <1>1 DEF first
  <2>7. PICK f : Follows(f, m, D, first, h)
    BY <1>1, <2>1, <2>6, RecursionExists
  <2>3. f \in [0..m -> D] /\ f[0] = first /\ \A i \in 1..m : f[i] = h[i][f[i - 1]]
    BY <2>7 DEF Follows
  <2>4. ASSUME NEW i \in 0..m PROVE f[i] = IF i = 0 THEN 1 ELSE Choice(s, n, i - 1, f[i - 1])
    <3>1. CASE i = 0
      BY <2>3, <2>6, <3>1
    <3>2. CASE i # 0
      <4>1. i \in 1..m /\ i - 1 \in 0..m
        BY <1>1, <3>2
      <4>2. f[i - 1] \in D
        BY <2>3, <4>1
      <4> QED BY <2>2, <2>3, <3>2, <4>1, <4>2
    <3> QED BY <3>1, <3>2
  <2>5. f = [i \in 0..m |-> IF i = 0 THEN 1 ELSE Choice(s, n, i - 1, f[i - 1])]
    BY <2>3, <2>4
  <2> QED BY <2>5
<1>4. Is(pick)
  <2> HIDE DEF Is
  <2> QED BY <1>3
<1>5. Lttb(s, n) = [i \in 1..n |-> IF i = n THEN s[Len(s)] ELSE s[pick[i - 1]]]
  <2>1. ~(n >= Len(s) \/ n <= 2)
    OBVIOUS
  <2> QED BY <2>1 DEF Lttb, m
<1>6. pick[0] = 1 /\ \A i \in 1..m : pick[i] = Choice(s, n, i - 1, pick[i - 1])
  <2> HIDE DEF pick
  <2>1. \A i \in 0..m : pick[i] = IF i = 0 THEN 1 ELSE Choice(s, n, i - 1, pick[i - 1])
    BY <1>4
  <2> QED BY <1>1, <2>1
<1> HIDE DEF pick, Is, D
<1>7. \A i \in 0..m : pick[i] \in D
  <2> DEFINE S == {i \in 0..m : pick[i] \in D}
  <2>1. 0 \in S
    BY <1>1, <1>6
  <2>2. ASSUME NEW i \in 0..(m - 1), i \in S PROVE i + 1 \in S
    <3>1. i + 1 \in 1..m /\ i + 1 - 1 = i
      BY <1>1
    <3>2. pick[i + 1] = Choice(s, n, i, pick[i])
      BY <1>6, <3>1
    <3>3. Choice(s, n, i, pick[i]) \in D
      <4>1. pick[i] \in D
        BY <2>2
      <4> DEFINE k == i + 1
      <4>2. k \in 1..m /\ k - 1 = i
        BY <3>1
      <4> HIDE DEF k
      <4>3. Choice(s, n, k - 1, pick[i]) \in D
        BY <1>2, <4>1, <4>2
      <4> QED BY <4>2, <4>3
    <3> QED BY <3>1, <3>2, <3>3
  <2> HIDE DEF S, m
  <2>3. \A i \in 0..m : i \in S
    BY <1>1, <2>1, <2>2, InductUpTo
  <2> QED BY <2>3 DEF S
<1>8. \A i \in 1..m : pick[i] \in B(i - 1)..(B(i) - 1)
  <2> SUFFICES ASSUME NEW i \in 1..m PROVE pick[i] \in B(i - 1)..(B(i) - 1)
    OBVIOUS
  <2>1. i - 1 \in 0..m
    BY <1>1
  <2> QED BY <1>2, <1>6, <1>7, <2>1
<1>9. /\ B(0) = 2 /\ B(m) = Len(s) /\ \A k \in 0..m : B(k) \in Nat
      /\ \A k, l \in 0..m : k < l => B(k) + 1 <= B(l)
  <2>1. \A k \in 0..m : k \in 0..(n - 1)
    OBVIOUS
  <2> QED BY <2>1, BucketsAre
<1> HIDE DEF B
<1> DEFINE g == [i \in 1..n |-> IF i = n THEN Len(s) ELSE pick[i - 1]]
<1>10. \A i \in 1..n : i # n => i - 1 \in 0..m
  OBVIOUS
<1>11. g \in [1..n -> 1..Len(s)]
  BY <1>1, <1>7, <1>10 DEF D
<1>12. g[1] = 1 /\ g[n] = Len(s)
  BY <1>6
<1>13. Lttb(s, n) = [i \in 1..n |-> s[g[i]]]
  BY <1>5
<1>14. ASSUME NEW i \in 1..n, NEW k \in 1..n, i < k PROVE g[i] < g[k]
  <2>1. i # n /\ i - 1 \in 0..m /\ g[i] = pick[i - 1]
    BY <1>14
  <2>2. g[i] \in Int /\ g[i] <= B(i - 1) - 1
    <3>1. CASE i = 1
      BY <1>6, <1>9, <2>1, <3>1
    <3>2. CASE i # 1
      <4>1. i - 1 \in 1..m
        BY <2>1, <3>2
      <4> HIDE DEF g, m
      <4>2. pick[i - 1] \in B(i - 1 - 1)..(B(i - 1) - 1)
        BY <1>8, <4>1
      <4>3. i - 1 - 1 \in 0..m
        BY <1>1, <4>1
      <4> QED BY <1>9, <2>1, <4>2, <4>3
    <3> QED BY <3>1, <3>2
  <2>3. CASE k = n
    <3>1. B(i - 1) <= Len(s)
      <4>1. i - 1 = m \/ i - 1 < m
        BY <2>1
      <4>2. m \in 0..m
        BY <1>1
      <4> HIDE DEF m, g
      <4> QED BY <1>9, <2>1, <4>1, <4>2
    <3>2. g[k] = Len(s) /\ Len(s) \in Nat
      BY <1>12, <2>3
    <3> HIDE DEF g
    <3> QED BY <1>9, <2>1, <2>2, <3>1, <3>2
  <2>4. CASE k # n
    <3>1. k - 1 \in 1..m /\ g[k] = pick[k - 1] /\ k - 1 - 1 \in 0..m /\ k - 1 \in 0..m
      BY <1>14, <2>4
    <3>2. i - 1 = k - 1 - 1 \/ i - 1 < k - 1 - 1
      BY <1>14
    <3>3. B(i - 1) <= B(k - 1 - 1)
      <4> HIDE DEF g, m
      <4> QED BY <1>9, <2>1, <3>1, <3>2
    <3>4. pick[k - 1] \in B(k - 1 - 1)..(B(k - 1) - 1)
      BY <1>8, <3>1
    <3>5. B(i - 1) \in Nat /\ B(k - 1 - 1) \in Nat /\ B(k - 1) \in Nat
      BY <1>9, <2>1, <3>1
    <3> HIDE DEF g, m
    <3> QED BY <2>2, <3>1, <3>3, <3>4, <3>5
  <2> QED BY <2>3, <2>4
<1> HIDE DEF g
<1> QED BY <1>11, <1>12, <1>13, <1>14

LEMMA ReductionKeeps ==
  ASSUME NEW s \in Seq(Samples), InOrder(s) PROVE ReductionKeepsOrder(s)
<1> SUFFICES ASSUME NEW n \in 3..Len(s)
             PROVE  LET r == Lttb(s, n)
                    IN /\ Len(r) = n
                       /\ r[1] = s[1] /\ Last(r) = Last(s)
                       /\ ToSet(r) \subseteq ToSet(s)
                       /\ InOrder(r)
  BY DEF ReductionKeepsOrder
<1> DEFINE r == Lttb(s, n)
<1>1. CASE n = Len(s)
  <2>1. r = s
    BY <1>1 DEF Lttb
  <2> QED BY <1>1, <2>1
<1>2. CASE n # Len(s)
  <2>1. n < Len(s) /\ n \in Nat /\ 1 \in 1..n /\ n \in 1..n /\ Len(s) # 0
    BY <1>2
  <2>2. PICK g \in [1..n -> 1..Len(s)] :
           /\ r = [i \in 1..n |-> s[g[i]]]
           /\ g[1] = 1 /\ g[n] = Len(s)
           /\ \A i, k \in 1..n : i < k => g[i] < g[k]
    BY <2>1, LttbIs
  <2> HIDE DEF r
  <2>3. DOMAIN r = 1..n /\ \A i \in 1..n : r[i] = s[g[i]] /\ g[i] \in 1..Len(s)
    BY <2>2
  <2>4. \A i \in 1..Len(s) : s[i] \in Samples
    OBVIOUS
  <2>5. r \in [1..n -> Samples]
    BY <2>2, <2>3, <2>4
  <2>6. r \in Seq(Samples) /\ Len(r) = n
    BY <2>1, <2>3, <2>5
  <2>7. r[1] = s[1] /\ Last(r) = Last(s)
    <3>1. Last(r) = r[n] /\ Last(s) = s[Len(s)]
      BY <2>6 DEF Last
    <3> QED BY <2>1, <2>2, <2>3, <3>1
  <2>8. ToSet(r) \subseteq ToSet(s)
    BY <2>3 DEF ToSet
  <2>9. InOrder(r)
    BY <2>2, <2>3 DEF InOrder
  <2> QED BY <2>6, <2>7, <2>8, <2>9 DEF r
<1> QED BY <1>1, <1>2

-----------------------------------------------------------------------------
(* The alignment.  In a series in order, the times say which comes first.  *)
LEMMA OrderIs ==
  ASSUME NEW s \in Seq(Samples), InOrder(s)
  PROVE  \A i, k \in 1..Len(s) : /\ i < k <=> s[i].t < s[k].t
                                 /\ i <= k <=> s[i].t <= s[k].t
<1>1. DOMAIN s = 1..Len(s) /\ \A i \in 1..Len(s) : s[i].t \in Int
  BY SeriesAre
<1>2. \A i, k \in 1..Len(s) : i < k => s[i].t < s[k].t
  BY <1>1 DEF InOrder
<1>3. \A i, k \in 1..Len(s) : i < k \/ i = k \/ k < i
  OBVIOUS
<1> QED BY <1>1, <1>2, <1>3

(* One step of the pointer.                                                *)
Late(s, t, p) == {k \in (p + 1)..Len(s) : s[k].t > t}
PointerAfter(s, t, p) ==
  IF Late(s, t, p) = {} THEN Larger(p, Len(s))
  ELSE (CHOOSE k \in Late(s, t, p) : \A m \in Late(s, t, p) : k <= m) - 1

LEMMA PointerMoves ==
  ASSUME NEW s \in Seq(Samples), InOrder(s), NEW t \in Int, NEW p \in 1..Len(s)
  PROVE  LET q == PointerAfter(s, t, p)
         IN /\ q \in p..Len(s)
            /\ q = p \/ s[q].t <= t
            /\ \A k \in (q + 1)..Len(s) : s[k].t > t
<1> DEFINE q == PointerAfter(s, t, p)
           L == Late(s, t, p)
<1>1. Len(s) \in Nat /\ \A i \in 1..Len(s) : s[i].t \in Int
  BY SeriesAre
<1>2. CASE L = {}
  <2>1. q = Len(s)
    BY <1>1, <1>2 DEF PointerAfter, Larger
  <2>2. ASSUME q # p PROVE s[q].t <= t
    <3>1. q \in (p + 1)..Len(s) /\ q \in 1..Len(s)
      BY <1>1, <2>1, <2>2
    <3>2. ~(s[q].t > t)
      BY <1>2, <3>1 DEF Late
    <3> HIDE DEF q
    <3> QED BY <1>1, <3>1, <3>2
  <2> QED BY <1>1, <2>1, <2>2
<1>3. CASE L # {}
  <2> DEFINE first == CHOOSE k \in L : \A m \in L : k <= m
  <2>1. L \in SUBSET Nat
    BY <1>1 DEF Late
  <2>2. first \in L /\ \A m \in L : first <= m
    <3> HIDE DEF L
    <3> QED BY <1>3, <2>1, LeastOf
  <2>3. q = first - 1
    BY <1>3 DEF PointerAfter
  <2> HIDE DEF first, q
  <2>4. first \in (p + 1)..Len(s) /\ s[first].t > t
    BY <2>2 DEF Late
  <2>5. q \in p..Len(s)
    BY <1>1, <2>3, <2>4
  <2>6. ASSUME q # p PROVE s[q].t <= t
    <3>1. q \in (p + 1)..Len(s) /\ q \in 1..Len(s)
      BY <1>1, <2>5, <2>6
    <3>2. q \notin L
      BY <2>2, <2>3, <2>4, <3>1
    <3>3. ~(s[q].t > t)
      BY <3>1, <3>2 DEF Late
    <3> QED BY <1>1, <3>1, <3>3
  <2>7. ASSUME NEW k \in (q + 1)..Len(s) PROVE s[k].t > t
    <3>1. first \in 1..Len(s) /\ k \in 1..Len(s) /\ first <= k
      BY <1>1, <2>3, <2>4, <2>7
    <3>2. s[first].t <= s[k].t
      BY <3>1, OrderIs
    <3> QED BY <1>1, <2>4, <3>1, <3>2
  <2> QED BY <2>5, <2>6, <2>7 DEF q
<1> HIDE DEF q, L
<1> QED BY <1>2, <1>3 DEF q

(* The pointer is at the last sample not after the time, or at the first.  *)
PointsAt(s, t, p) ==
  /\ p \in 1..Len(s) /\ (p = 1 \/ s[p].t <= t)
  /\ \A k \in (p + 1)..Len(s) : s[k].t > t

LEMMA PointersAre ==
  ASSUME NEW s \in Seq(Samples), InOrder(s), Len(s) >= 1,
         NEW times \in Seq(Int), \A i, k \in 1..Len(times) : i < k => times[i] < times[k]
  PROVE  \A i \in 1..Len(times) : PointsAt(s, times[i], Pointers(s, times)[i])
<1> DEFINE n == Len(times)
           D == 1..Len(s)
           Is(f) == f = [i \in 0..n |->
                           IF i = 0 THEN 1
                           ELSE LET late == {k \in (f[i - 1] + 1)..Len(s) : s[k].t > times[i]}
                                IN IF late = {} THEN Larger(f[i - 1], Len(s))
                                   ELSE (CHOOSE k \in late : \A m \in late : k <= m) - 1]
           By(f) == f = [i \in 0..n |-> IF i = 0 THEN 1 ELSE PointerAfter(s, times[i], f[i - 1])]
           ptr == CHOOSE f : Is(f)
<1>1. n \in Nat /\ 1 \in D /\ Len(s) \in Nat /\ \A i \in 1..n : times[i] \in Int
  OBVIOUS
<1>2. \A f : Is(f) <=> By(f)
  BY DEF PointerAfter, Late
<1>3. Pointers(s, times) = ptr
  BY DEF Pointers
<1> HIDE DEF Is, n, D
<1>4. \A i \in 1..n, a \in D : PointerAfter(s, times[i], a) \in D
  <2> SUFFICES ASSUME NEW i \in 1..n, NEW a \in D PROVE PointerAfter(s, times[i], a) \in D
    OBVIOUS
  <2>1. PointerAfter(s, times[i], a) \in a..Len(s)
    BY <1>1, PointerMoves DEF D
  <2> QED BY <1>1, <2>1 DEF D
<1>5. \E f : By(f)
  <2> DEFINE h == [i \in 1..n |-> [a \in D |-> PointerAfter(s, times[i], a)]]
             first == 1
  <2>1. h \in [1..n -> [D -> D]]
    BY <1>4
  <2>2. \A i \in 1..n, a \in D : h[i][a] = PointerAfter(s, times[i], a)
    OBVIOUS
  <2>3. first \in D /\ first = 1
    BY <1>1
  <2> HIDE DEF h, first
  <2>4. PICK f : Follows(f, n, D, first, h)
    BY <1>1, <2>1, <2>3, RecursionExists
  <2>5. f \in [0..n -> D] /\ f[0] = first /\ \A i \in 1..n : f[i] = h[i][f[i - 1]]
    BY <2>4 DEF Follows
  <2>6. ASSUME NEW i \in 0..n PROVE f[i] = IF i = 0 THEN 1 ELSE PointerAfter(s, times[i], f[i - 1])
    <3>1. CASE i = 0
      BY <2>3, <2>5, <3>1
    <3>2. CASE i # 0
      <4>1. i \in 1..n /\ i - 1 \in 0..n
        BY <1>1, <3>2
      <4>2. f[i - 1] \in D
        BY <2>5, <4>1
      <4> QED BY <2>2, <2>5, <3>2, <4>1, <4>2
    <3> QED BY <3>1, <3>2
  <2>7. By(f)
    BY <2>5, <2>6
  <2> QED BY <2>7
<1>6. By(ptr)
  <2>1. \E f : Is(f)
    BY <1>2, <1>5
  <2>2. Is(ptr)
    BY <2>1
  <2> HIDE DEF By, ptr
  <2> QED BY <1>2, <2>2
<1> HIDE DEF ptr
<1>7. ptr[0] = 1 /\ \A i \in 1..n : ptr[i] = PointerAfter(s, times[i], ptr[i - 1])
  <2>1. \A i \in 0..n : ptr[i] = IF i = 0 THEN 1 ELSE PointerAfter(s, times[i], ptr[i - 1])
    BY <1>6
  <2> QED BY <1>1, <2>1
<1> HIDE DEF By
<1> DEFINE Good(i) == ptr[i] \in D /\ (i = 0 => ptr[i] = 1) /\ (i # 0 => PointsAt(s, times[i], ptr[i]))
           S == {i \in 0..n : Good(i)}
<1>8. 0 \in S
  BY <1>1, <1>7
<1>9. ASSUME NEW i \in 0..(n - 1), i \in S PROVE i + 1 \in S
  <2> DEFINE t == times[i + 1]
             p == ptr[i]
             q == ptr[i + 1]
  <2>1. i + 1 \in 1..n /\ i + 1 - 1 = i /\ i + 1 # 0 /\ p \in 1..Len(s) /\ t \in Int
    BY <1>1, <1>9 DEF D
  <2>2. q = PointerAfter(s, t, p)
    BY <1>7, <2>1
  <2>3. s[p].t \in Int
    BY <2>1, SeriesAre
  <2>4. p = 1 \/ s[p].t <= t
    <3>1. CASE i = 0
      BY <1>9, <3>1
    <3>2. CASE i # 0
      <4>1. i \in 1..n /\ PointsAt(s, times[i], p)
        BY <1>1, <1>9, <3>2
      <4>2. times[i] < t /\ times[i] \in Int
        BY <1>1, <2>1, <4>1 DEF n
      <4>3. p = 1 \/ s[p].t <= times[i]
        BY <4>1 DEF PointsAt
      <4> HIDE DEF p, t
      <4> QED BY <2>1, <2>3, <4>2, <4>3
    <3> QED BY <3>1, <3>2
  <2> HIDE DEF p, q, t
  <2>5. q \in p..Len(s) /\ (q = p \/ s[q].t <= t) /\ \A k \in (q + 1)..Len(s) : s[k].t > t
    BY <2>1, <2>2, PointerMoves
  <2>6. PointsAt(s, t, q)
    <3>1. q \in 1..Len(s)
      BY <1>1, <2>1, <2>5
    <3> QED BY <2>4, <2>5, <3>1 DEF PointsAt
  <2>7. q \in D
    BY <2>6 DEF PointsAt, D
  <2> QED BY <2>1, <2>6, <2>7 DEF q, t
<1>10. \A i \in 0..n : i \in S
  <2> HIDE DEF S
  <2> QED BY <1>1, <1>8, <1>9, InductUpTo
<1>11. ASSUME NEW i \in 1..n PROVE PointsAt(s, times[i], ptr[i])
  <2>1. i \in S /\ i # 0
    BY <1>1, <1>10
  <2> QED BY <2>1
<1> QED BY <1>3, <1>11 DEF n

LEMMA AtIs ==
  ASSUME NEW s \in Seq(Samples), InOrder(s), NEW t \in Int, NEW p, PointsAt(s, t, p)
  PROVE  At(s, t) = s[p].v
<1> DEFINE until == {i \in DOMAIN s : s[i].t <= t}
<1>1. DOMAIN s = 1..Len(s) /\ Len(s) \in Nat /\ \A i \in 1..Len(s) : s[i].t \in Int
  BY SeriesAre
<1>2. p \in 1..Len(s) /\ (p = 1 \/ s[p].t <= t) /\ \A k \in (p + 1)..Len(s) : s[k].t > t
  BY DEF PointsAt
<1>3. \A i \in until : i \in 1..Len(s) /\ i <= p
  <2> SUFFICES ASSUME NEW i \in 1..Len(s), s[i].t <= t, i > p PROVE FALSE
    BY <1>1, <1>2
  <2>1. i \in (p + 1)..Len(s)
    BY <1>1, <1>2
  <2> QED BY <1>1, <1>2, <2>1
<1>4. CASE until = {}
  <2>1. ~(s[p].t <= t)
    BY <1>1, <1>2, <1>4
  <2>2. p = 1
    BY <1>2, <2>1
  <2> QED BY <1>4, <2>2 DEF At
<1>5. CASE until # {}
  <2>1. p \in until
    <3>1. PICK i \in until : TRUE
      BY <1>5
    <3>2. i \in 1..Len(s) /\ s[i].t <= t /\ i <= p
      BY <1>1, <1>3, <3>1
    <3>3. p = 1 => i = p
      BY <1>2, <3>2
    <3> QED BY <1>1, <1>2, <3>2, <3>3
  <2> DEFINE last == CHOOSE k \in until : \A m \in until : m <= k
  <2>2. \A m \in until : m <= p
    BY <1>3
  <2>3. At(s, t) = s[last].v
    BY <1>5 DEF At
  <2> HIDE DEF until
  <2>4. last \in until /\ \A m \in until : m <= last
    BY <2>1, <2>2
  <2>5. last <= p /\ p <= last /\ last \in 1..Len(s)
    BY <1>3, <2>1, <2>4
  <2>6. last = p
    <3> HIDE DEF last
    <3> QED BY <1>1, <1>2, <2>5
  <2> QED BY <2>3, <2>6
<1> QED BY <1>4, <1>5

LEMMA AlignedIs ==
  ASSUME NEW s \in Seq(Samples), InOrder(s), NEW l \in Seq(Samples), InOrder(l)
  PROVE  /\ DOMAIN Times(l) = 1..Len(l)
         /\ Len(Aligned(s, Times(l))) = Len(l)
         /\ \A i \in 1..Len(l) :
              Aligned(s, Times(l))[i] = IF s = << >> THEN 0
                                        ELSE IF Len(s) = Len(l) THEN s[i].v ELSE At(s, Times(l)[i])
<1> DEFINE times == Times(l)
           x == Aligned(s, times)
<1>1. times \in Seq(Int) /\ DOMAIN times = 1..Len(l) /\ Len(times) = Len(l) /\ Len(l) \in Nat
      /\ \A i \in 1..Len(l) : times[i] = l[i].t /\ times[i] \in Int
  BY SeriesAre
<1>2. \A i, k \in 1..Len(l) : i < k => times[i] < times[k]
  <2> SUFFICES ASSUME NEW i \in 1..Len(l), NEW k \in 1..Len(l), i < k PROVE times[i] < times[k]
    OBVIOUS
  <2>1. l[i].t < l[k].t
    BY OrderIs
  <2> QED BY <1>1, <2>1
<1> HIDE DEF times
<1>3. CASE s = << >>
  <2>1. x = [i \in 1..Len(l) |-> 0]
    BY <1>1, <1>3 DEF Aligned
  <2>2. x \in [1..Len(l) -> Int] /\ \A i \in 1..Len(l) : x[i] = 0
    BY <2>1
  <2>3. Len(x) = Len(l)
    <3> HIDE DEF x
    <3> QED BY <1>1, <2>2
  <2> QED BY <1>1, <1>3, <2>2, <2>3 DEF times
<1>4. CASE s # << >> /\ Len(s) = Len(l)
  <2>1. x = Values(s)
    BY <1>1, <1>4 DEF Aligned
  <2>2. Len(x) = Len(l) /\ \A i \in 1..Len(l) : x[i] = s[i].v
    BY <1>4, <2>1, SeriesAre
  <2> QED BY <1>1, <1>4, <2>2 DEF times
<1>5. CASE s # << >> /\ Len(s) # Len(l)
  <2>1. x = [i \in 1..Len(l) |-> s[Pointers(s, times)[i]].v]
    BY <1>1, <1>5 DEF Aligned
  <2>2. Len(s) >= 1 /\ Len(s) \in Nat
    BY <1>5, SeriesAre, EmptySeq
  <2>3. \A i \in 1..Len(l) : PointsAt(s, times[i], Pointers(s, times)[i])
    <3>1. \A i, k \in 1..Len(times) : i < k => times[i] < times[k]
      BY <1>1, <1>2
    <3> QED BY <1>1, <2>2, <3>1, PointersAre
  <2>4. \A i \in 1..Len(l) : x[i] = At(s, times[i]) /\ x[i] \in Int
    <3> SUFFICES ASSUME NEW i \in 1..Len(l) PROVE x[i] = At(s, times[i]) /\ x[i] \in Int
      OBVIOUS
    <3> DEFINE p == Pointers(s, times)[i]
    <3>1. PointsAt(s, times[i], p) /\ times[i] \in Int
      BY <1>1, <2>3
    <3>2. x[i] = s[p].v
      BY <2>1
    <3> HIDE DEF p, x
    <3>3. At(s, times[i]) = s[p].v
      BY <3>1, AtIs
    <3>4. s[p].v \in Int
      BY <3>1, SeriesAre DEF PointsAt
    <3> QED BY <3>2, <3>3, <3>4
  <2>5. x \in [1..Len(l) -> Int]
    BY <2>1, <2>4
  <2>6. Len(x) = Len(l)
    <3> HIDE DEF x
    <3> QED BY <1>1, <2>5
  <2> HIDE DEF x
  <2> QED BY <1>1, <1>5, <2>4, <2>6 DEF times, x
<1> QED BY <1>3, <1>4, <1>5

LEMMA AtOwnTime ==
  ASSUME NEW s \in Seq(Samples), InOrder(s), NEW i \in 1..Len(s)
  PROVE  At(s, s[i].t) = s[i].v
<1>1. Len(s) \in Nat /\ \A k \in 1..Len(s) : s[k].t \in Int
  BY SeriesAre
<1>2. \A k \in (i + 1)..Len(s) : s[k].t > s[i].t
  <2> SUFFICES ASSUME NEW k \in (i + 1)..Len(s) PROVE s[k].t > s[i].t
    OBVIOUS
  <2>1. k \in 1..Len(s) /\ i < k
    BY <1>1
  <2>2. s[i].t < s[k].t
    BY <2>1, OrderIs
  <2> QED BY <1>1, <2>1, <2>2
<1>3. PointsAt(s, s[i].t, i)
  BY <1>1, <1>2 DEF PointsAt
<1> QED BY <1>1, <1>3, AtIs

LEMMA AlignmentIs ==
  ASSUME NEW a \in Seq(Samples), InOrder(a), NEW b \in Seq(Samples), InOrder(b)
  PROVE  AlignmentIsCausal(a, b)
<1> DEFINE results == <<a, b>>
           longest == Longest(results)
           l == results[longest]
           merged == MergeBuffers(results)
<1>1. Len(a) \in Nat /\ Len(b) \in Nat /\ DOMAIN results = {1, 2} /\ results[1] = a /\ results[2] = b
  OBVIOUS
<1>2. longest \in {1, 2} /\ \A k \in {1, 2} : Len(results[k]) <= Len(l)
  <2> DEFINE Best(i) == \A k \in DOMAIN results :
                Len(results[k]) < Len(results[i]) \/ (Len(results[k]) = Len(results[i]) /\ i <= k)
  <2>1. Best(1) \/ Best(2)
    BY <1>1
  <2>2. longest = CHOOSE i \in DOMAIN results : Best(i)
    BY DEF Longest
  <2> HIDE DEF Best, longest
  <2>3. longest \in {1, 2} /\ Best(longest)
    BY <1>1, <2>1, <2>2
  <2> QED BY <1>1, <2>3 DEF Best
<1>3. l \in Seq(Samples) /\ InOrder(l)
  BY <1>1, <1>2
<1>4. merged = [times |-> Times(l), values |-> [k \in DOMAIN results |-> Aligned(results[k], Times(l))]]
  BY DEF MergeBuffers
<1>5. ASSUME NEW k \in {1, 2}
      PROVE  LET s == results[k] IN
             /\ Len(merged.values[k]) = Len(merged.times)
             /\ \A i \in DOMAIN merged.times :
                  merged.values[k][i] = IF s = << >> THEN 0
                                        ELSE IF Len(a) = Len(b) THEN s[i].v ELSE At(s, merged.times[i])
  <2> DEFINE s == results[k]
  <2>1. s \in Seq(Samples) /\ InOrder(s) /\ Len(s) <= Len(l)
    BY <1>1, <1>2
  <2>2. merged.times = Times(l) /\ merged.values[k] = Aligned(s, Times(l))
    BY <1>1, <1>4
  <2>3. s = a \/ s = b
    BY <1>1
  <2>4. l = a \/ l = b
    BY <1>1, <1>2
  <2> HIDE DEF s, l, merged, results
  <2>5. /\ DOMAIN Times(l) = 1..Len(l) /\ Len(Aligned(s, Times(l))) = Len(l) /\ Len(Times(l)) = Len(l)
        /\ \A i \in 1..Len(l) :
              Aligned(s, Times(l))[i] = IF s = << >> THEN 0
                                        ELSE IF Len(s) = Len(l) THEN s[i].v ELSE At(s, Times(l)[i])
    BY <1>3, <2>1, AlignedIs, SeriesAre
  <2>6. ASSUME NEW i \in 1..Len(l)
        PROVE  Aligned(s, Times(l))[i] = IF s = << >> THEN 0
                                         ELSE IF Len(a) = Len(b) THEN s[i].v ELSE At(s, Times(l)[i])
    <3>1. CASE Len(a) = Len(b)
      <4>1. Len(s) = Len(l)
        BY <2>3, <2>4, <3>1
      <4> QED BY <2>5, <3>1, <4>1
    <3>2. CASE Len(a) # Len(b) /\ Len(s) # Len(l)
      BY <2>5, <3>2
    <3>3. CASE Len(a) # Len(b) /\ Len(s) = Len(l)
      <4>1. s = l
        BY <2>3, <2>4, <3>3
      <4>2. Times(l)[i] = s[i].t /\ i \in 1..Len(s)
        BY <2>1, <4>1, SeriesAre
      <4>3. At(s, Times(l)[i]) = s[i].v
        BY <2>1, <4>2, AtOwnTime
      <4> QED BY <2>5, <3>3, <4>3
    <3> QED BY <3>1, <3>2, <3>3
  <2> QED BY <2>2, <2>5, <2>6 DEF s
<1> HIDE DEF results, merged
<1> QED BY <1>5 DEF AlignmentIsCausal, results, merged

-----------------------------------------------------------------------------
(* The cursor.  What the search is to answer for a part of the series: the *)
(* sample at the time, or the place between those before and after it.     *)
Located(s, t, lo, hi, x) ==
  /\ x \in [found : BOOLEAN, at : Int]
  /\ lo > hi => x = [found |-> FALSE, at |-> lo]
  /\ lo <= hi =>
       /\ x.found => x.at \in lo..hi /\ s[x.at].t = t
       /\ ~x.found => /\ x.at \in lo..(hi + 1)
                      /\ \A k \in lo..(x.at - 1) : s[k].t < t
                      /\ \A k \in x.at..hi : s[k].t > t

LEMMA LocatedExists ==
  ASSUME NEW s \in Seq(Samples), InOrder(s), NEW t \in Int,
         NEW lo \in 1..(Len(s) + 1), NEW hi \in 0..Len(s)
  PROVE  \E x : Located(s, t, lo, hi, x)
<1>1. Len(s) \in Nat /\ \A k \in 1..Len(s) : s[k].t \in Int
  BY SeriesAre
<1>2. CASE lo > hi
  <2>1. Located(s, t, lo, hi, [found |-> FALSE, at |-> lo])
    BY <1>1, <1>2 DEF Located
  <2> QED BY <2>1
<1>3. CASE lo <= hi
  <2> DEFINE late == {k \in lo..hi : s[k].t >= t}
  <2>1. \A k \in lo..hi : k \in 1..Len(s) /\ k \in Nat
    BY <1>1
  <2>2. CASE late = {}
    <3>1. \A k \in lo..hi : s[k].t < t
      BY <1>1, <2>1, <2>2
    <3>2. Located(s, t, lo, hi, [found |-> FALSE, at |-> hi + 1])
      <4> DEFINE x == [found |-> FALSE, at |-> hi + 1]
      <4>1. x.found = FALSE /\ x.at = hi + 1 /\ x \in [found : BOOLEAN, at : Int]
        OBVIOUS
      <4> HIDE DEF x
      <4> QED BY <1>1, <1>3, <3>1, <4>1 DEF Located, x
    <3> QED BY <3>2
  <2>3. CASE late # {}
    <3>1. PICK k \in late : \A j \in late : k <= j
      <4>1. late \in SUBSET Nat
        BY <2>1
      <4> HIDE DEF late
      <4> QED BY <2>3, <4>1, Least
    <3>2. k \in lo..hi /\ k \in 1..Len(s) /\ s[k].t >= t /\ s[k].t \in Int
      BY <1>1, <2>1, <3>1
    <3>3. \A j \in lo..(k - 1) : s[j].t < t
      <4> SUFFICES ASSUME NEW j \in lo..(k - 1), ~(s[j].t < t) PROVE FALSE
        OBVIOUS
      <4>1. j \in lo..hi /\ j < k
        BY <3>2
      <4>2. s[j].t >= t
        BY <1>1, <2>1, <4>1
      <4>3. k <= j
        BY <3>1, <4>1, <4>2
      <4> QED BY <3>2, <4>1, <4>3
    <3>4. \A j \in (k + 1)..hi : s[j].t > t
      <4> SUFFICES ASSUME NEW j \in (k + 1)..hi PROVE s[j].t > t
        OBVIOUS
      <4>1. j \in 1..Len(s) /\ k < j
        BY <1>1, <3>2
      <4>2. s[k].t < s[j].t /\ s[j].t \in Int
        BY <1>1, <3>2, <4>1, OrderIs
      <4> QED BY <3>2, <4>2
    <3> DEFINE x == [found |-> s[k].t = t, at |-> k]
    <3>5. x.found = (s[k].t = t) /\ x.at = k /\ x \in [found : BOOLEAN, at : Int]
      BY <3>2
    <3> HIDE DEF x, late
    <3>6. CASE s[k].t = t
      <4>1. Located(s, t, lo, hi, x)
        BY <1>3, <3>2, <3>5, <3>6 DEF Located
      <4> QED BY <4>1
    <3>7. CASE s[k].t # t
      <4>1. \A j \in k..hi : s[j].t > t
        BY <3>2, <3>4, <3>7
      <4>2. k \in lo..(hi + 1)
        BY <3>2
      <4>3. Located(s, t, lo, hi, x)
        BY <1>3, <3>2, <3>3, <3>5, <3>7, <4>1, <4>2 DEF Located
      <4> QED BY <4>3
    <3> QED BY <3>6, <3>7
  <2> QED BY <2>2, <2>3
<1> QED BY <1>1, <1>2, <1>3

LEMMA LocatedAgree ==
  ASSUME NEW s \in Seq(Samples), InOrder(s), NEW t \in Int,
         NEW lo \in 1..(Len(s) + 1), NEW hi \in 0..Len(s),
         NEW x, Located(s, t, lo, hi, x), NEW y, Located(s, t, lo, hi, y)
  PROVE  x = y
<1>1. Len(s) \in Nat /\ \A k \in 1..Len(s) : s[k].t \in Int
  BY SeriesAre
<1>2. CASE lo > hi
  BY <1>2 DEF Located
<1>3. CASE lo <= hi
  <2>1. /\ x.found \in BOOLEAN /\ x.at \in Int /\ y.found \in BOOLEAN /\ y.at \in Int
        /\ x = [found |-> x.found, at |-> x.at] /\ y = [found |-> y.found, at |-> y.at]
    BY DEF Located
  <2>2. /\ x.found => x.at \in lo..hi /\ s[x.at].t = t
        /\ ~x.found => /\ x.at \in lo..(hi + 1)
                       /\ \A k \in lo..(x.at - 1) : s[k].t < t
                       /\ \A k \in x.at..hi : s[k].t > t
    BY <1>3 DEF Located
  <2>3. /\ y.found => y.at \in lo..hi /\ s[y.at].t = t
        /\ ~y.found => /\ y.at \in lo..(hi + 1)
                       /\ \A k \in lo..(y.at - 1) : s[k].t < t
                       /\ \A k \in y.at..hi : s[k].t > t
    BY <1>3 DEF Located
  <2>4. \A k \in lo..hi : k \in 1..Len(s) /\ s[k].t \in Int
    BY <1>1
  <2>5. CASE x.found /\ y.found
    <3>1. x.at \in 1..Len(s) /\ y.at \in 1..Len(s) /\ s[x.at].t = s[y.at].t
      BY <2>2, <2>3, <2>4, <2>5
    <3>2. ~(x.at < y.at) /\ ~(y.at < x.at)
      BY <1>1, <3>1, OrderIs
    <3>3. x.at = y.at
      BY <2>1, <3>2
    <3> QED BY <2>1, <2>5, <3>3
  <2>6. CASE x.found /\ ~y.found
    <3>1. x.at \in lo..(y.at - 1) \/ x.at \in y.at..hi
      BY <2>1, <2>2, <2>3, <2>6
    <3> QED BY <2>2, <2>3, <2>4, <2>6, <3>1
  <2>7. CASE ~x.found /\ y.found
    <3>1. y.at \in lo..(x.at - 1) \/ y.at \in x.at..hi
      BY <2>1, <2>2, <2>3, <2>7
    <3> QED BY <2>2, <2>3, <2>4, <2>7, <3>1
  <2>8. CASE ~x.found /\ ~y.found
    <3>1. ~(x.at < y.at)
      <4> SUFFICES ASSUME x.at < y.at PROVE FALSE
        OBVIOUS
      <4>1. x.at \in lo..(y.at - 1) /\ x.at \in x.at..hi /\ x.at \in lo..hi
        BY <2>1, <2>2, <2>3, <2>8
      <4> QED BY <2>2, <2>3, <2>4, <2>8, <4>1
    <3>2. ~(y.at < x.at)
      <4> SUFFICES ASSUME y.at < x.at PROVE FALSE
        OBVIOUS
      <4>1. y.at \in lo..(x.at - 1) /\ y.at \in y.at..hi /\ y.at \in lo..hi
        BY <2>1, <2>2, <2>3, <2>8
      <4> QED BY <2>2, <2>3, <2>4, <2>8, <4>1
    <3>3. x.at = y.at
      BY <2>1, <3>1, <3>2
    <3> QED BY <2>1, <2>8, <3>3
  <2> QED BY <2>1, <2>5, <2>6, <2>7, <2>8
<1> QED BY <1>1, <1>2, <1>3

(* One probe: the answer of the half that is left is that of the whole.    *)
Probed(s, t, lo, hi, f) ==
  LET mid == (lo + hi) \div 2
  IN IF lo > hi THEN [found |-> FALSE, at |-> lo]
     ELSE IF s[mid].t < t THEN f[<<mid + 1, hi>>]
     ELSE IF s[mid].t > t THEN f[<<lo, mid - 1>>]
     ELSE [found |-> TRUE, at |-> mid]

LEMMA ProbeAnswers ==
  ASSUME NEW s \in Seq(Samples), InOrder(s), NEW t \in Int,
         NEW lo \in 1..(Len(s) + 1), NEW hi \in 0..Len(s), NEW f,
         \A a \in 1..(Len(s) + 1), b \in 0..Len(s) : b - a < hi - lo => Located(s, t, a, b, f[<<a, b>>])
  PROVE  Located(s, t, lo, hi, Probed(s, t, lo, hi, f))
<1>1. Len(s) \in Nat /\ \A k \in 1..Len(s) : s[k].t \in Int
  BY SeriesAre
<1>2. CASE lo > hi
  <2>1. Probed(s, t, lo, hi, f) = [found |-> FALSE, at |-> lo]
    BY <1>2 DEF Probed
  <2> QED BY <1>1, <1>2, <2>1 DEF Located
<1>3. CASE lo <= hi
  <2> DEFINE mid == (lo + hi) \div 2
             x == Probed(s, t, lo, hi, f)
  <2>1. mid \in lo..hi /\ mid \in 1..Len(s)
    BY <1>1, <1>3
  <2>2. x = IF s[mid].t < t THEN f[<<mid + 1, hi>>]
            ELSE IF s[mid].t > t THEN f[<<lo, mid - 1>>]
            ELSE [found |-> TRUE, at |-> mid]
    BY <1>1, <1>3 DEF Probed
  <2>3. \A k \in lo..hi : k \in 1..Len(s)
    BY <1>1
  <2> SUFFICES Located(s, t, lo, hi, x)
    OBVIOUS
  <2> HIDE DEF mid, x
  <2>4. \A k \in lo..mid : s[k].t <= s[mid].t /\ s[k].t \in Int
    <3> SUFFICES ASSUME NEW k \in lo..mid PROVE s[k].t <= s[mid].t /\ s[k].t \in Int
      OBVIOUS
    <3>1. k \in 1..Len(s) /\ k <= mid
      BY <2>1, <2>3
    <3> QED BY <1>1, <2>1, <3>1, OrderIs
  <2>5. \A k \in mid..hi : s[mid].t <= s[k].t /\ s[k].t \in Int
    <3> SUFFICES ASSUME NEW k \in mid..hi PROVE s[mid].t <= s[k].t /\ s[k].t \in Int
      OBVIOUS
    <3>1. k \in 1..Len(s) /\ mid <= k
      BY <2>1, <2>3
    <3> QED BY <1>1, <2>1, <3>1, OrderIs
  <2>6. CASE s[mid].t < t
    <3> DEFINE a == mid + 1
    <3>1. a \in 1..(Len(s) + 1) /\ hi - a < hi - lo /\ a = mid + 1
      BY <1>1, <2>1
    <3> HIDE DEF a
    <3>2. Located(s, t, a, hi, x)
      BY <2>2, <2>6, <3>1
    <3>3. \A k \in lo..mid : s[k].t < t
      BY <1>1, <2>1, <2>4, <2>6
    <3>4. CASE a > hi
      <4>1. x = [found |-> FALSE, at |-> a] /\ a = hi + 1 /\ mid = hi
        BY <2>1, <3>1, <3>2, <3>4 DEF Located
      <4>2. x.found = FALSE /\ x.at = hi + 1 /\ x \in [found : BOOLEAN, at : Int]
        BY <3>2, <4>1 DEF Located
      <4>3. \A k \in lo..(x.at - 1) : k \in lo..mid
        BY <4>1, <4>2
      <4>4. x.at \in lo..(hi + 1) /\ \A k \in x.at..hi : FALSE
        BY <1>3, <4>2
      <4> QED BY <1>3, <3>3, <4>2, <4>3, <4>4 DEF Located
    <3>5. CASE a <= hi
      <4>1. CASE x.found
        BY <2>1, <3>1, <3>2, <3>5, <4>1 DEF Located
      <4>2. CASE ~x.found
        <5>1. /\ x.at \in a..(hi + 1) /\ x \in [found : BOOLEAN, at : Int]
              /\ \A k \in a..(x.at - 1) : s[k].t < t
              /\ \A k \in x.at..hi : s[k].t > t
          BY <3>2, <3>5, <4>2 DEF Located
        <5>2. x.at \in lo..(hi + 1) /\ \A k \in lo..(x.at - 1) : k \in lo..mid \/ k \in a..(x.at - 1)
          BY <2>1, <3>1, <5>1
        <5> QED BY <1>3, <3>3, <4>2, <5>1, <5>2 DEF Located
      <4> QED BY <4>1, <4>2
    <3> QED BY <2>1, <3>1, <3>4, <3>5
  <2>7. CASE s[mid].t > t
    <3> DEFINE b == mid - 1
    <3>1. b \in 0..Len(s) /\ b - lo < hi - lo /\ b = mid - 1
      BY <1>1, <2>1
    <3> HIDE DEF b
    <3>2. Located(s, t, lo, b, x)
      <4>1. ~(s[mid].t < t)
        BY <1>1, <2>1, <2>7
      <4> QED BY <2>2, <2>7, <3>1, <4>1
    <3>3. \A k \in mid..hi : s[k].t > t
      BY <1>1, <2>1, <2>5, <2>7
    <3>4. CASE lo > b
      <4>1. x = [found |-> FALSE, at |-> lo] /\ mid = lo
        BY <2>1, <3>1, <3>2, <3>4 DEF Located
      <4>2. x.found = FALSE /\ x.at = lo /\ x \in [found : BOOLEAN, at : Int]
        BY <3>2, <4>1 DEF Located
      <4>3. x.at \in lo..(hi + 1) /\ \A k \in lo..(x.at - 1) : FALSE
        BY <1>3, <4>2
      <4> QED BY <1>3, <3>3, <4>1, <4>2, <4>3 DEF Located
    <3>5. CASE lo <= b
      <4>1. CASE x.found
        BY <2>1, <3>1, <3>2, <3>5, <4>1 DEF Located
      <4>2. CASE ~x.found
        <5>1. /\ x.at \in lo..(b + 1) /\ x \in [found : BOOLEAN, at : Int]
              /\ \A k \in lo..(x.at - 1) : s[k].t < t
              /\ \A k \in x.at..b : s[k].t > t
          BY <3>2, <3>5, <4>2 DEF Located
        <5>2. x.at \in lo..(hi + 1) /\ \A k \in x.at..hi : k \in mid..hi \/ k \in x.at..b
          BY <2>1, <3>1, <5>1
        <5> QED BY <1>3, <3>3, <4>2, <5>1, <5>2 DEF Located
      <4> QED BY <4>1, <4>2
    <3> QED BY <2>1, <3>1, <3>4, <3>5
  <2>8. CASE s[mid].t = t
    <3>1. x = [found |-> TRUE, at |-> mid]
      BY <1>1, <2>1, <2>2, <2>8
    <3>2. x.found = TRUE /\ x.at = mid /\ x \in [found : BOOLEAN, at : Int]
      BY <2>1, <3>1
    <3> QED BY <1>3, <2>1, <2>8, <3>2 DEF Located
  <2> QED BY <1>1, <2>1, <2>6, <2>7, <2>8
<1> QED BY <1>1, <1>2, <1>3

LEMMA SearchAnswers ==
  ASSUME NEW s \in Seq(Samples), InOrder(s), NEW t \in Int
  PROVE  Located(s, t, 1, Len(s), Search(s, t))
<1> DEFINE n == Len(s)
           Parts == (1..(n + 1)) \X (0..n)
           Is(f) == f = [r \in Parts |-> Probed(s, t, r[1], r[2], f)]
           probe == CHOOSE f : Is(f)
<1>1. n \in Nat
  OBVIOUS
<1>2. Search(s, t) = probe[<<1, n>>]
  BY DEF Search, Probed
<1> HIDE DEF n
<1>3. \E f : Is(f)
  <2> DEFINE f == [r \in Parts |-> CHOOSE x : Located(s, t, r[1], r[2], x)]
  <2>1. ASSUME NEW a \in 1..(n + 1), NEW b \in 0..n PROVE Located(s, t, a, b, f[<<a, b>>])
    <3>1. \E x : Located(s, t, a, b, x)
      BY LocatedExists DEF n
    <3>2. f[<<a, b>>] = CHOOSE x : Located(s, t, a, b, x)
      OBVIOUS
    <3> HIDE DEF f
    <3> QED BY <3>1, <3>2
  <2>2. DOMAIN f = Parts /\ f = [r \in Parts |-> f[r]]
    OBVIOUS
  <2> HIDE DEF f
  <2>3. ASSUME NEW a \in 1..(n + 1), NEW b \in 0..n PROVE f[<<a, b>>] = Probed(s, t, a, b, f)
    <3>1. Located(s, t, a, b, Probed(s, t, a, b, f))
      BY <2>1, ProbeAnswers DEF n
    <3> QED BY <2>1, <3>1, LocatedAgree DEF n
  <2>4. ASSUME NEW r \in Parts PROVE f[r] = Probed(s, t, r[1], r[2], f)
    <3>1. r[1] \in 1..(n + 1) /\ r[2] \in 0..n /\ r = <<r[1], r[2]>>
      OBVIOUS
    <3> QED BY <2>3, <3>1
  <2>5. Is(f)
    BY <2>2, <2>4
  <2> QED BY <2>5
<1>4. Is(probe)
  <2> HIDE DEF Is
  <2> QED BY <1>3
<1> HIDE DEF probe
<1>5. ASSUME NEW a \in 1..(n + 1), NEW b \in 0..n PROVE probe[<<a, b>>] = Probed(s, t, a, b, probe)
  <2>1. <<a, b>> \in Parts
    OBVIOUS
  <2> QED BY <1>4, <2>1
<1> HIDE DEF Is, Parts
<1> DEFINE S == {m \in 0..(2 * n + 2) :
                   \A a \in 1..(n + 1), b \in 0..n :
                     b - a + n + 2 <= m => Located(s, t, a, b, probe[<<a, b>>])}
<1>6. 0 \in S
  BY <1>1
<1>7. ASSUME NEW m \in 0..(2 * n + 1), m \in S PROVE m + 1 \in S
  <2> SUFFICES ASSUME NEW a \in 1..(n + 1), NEW b \in 0..n, b - a + n + 2 <= m + 1
               PROVE  Located(s, t, a, b, probe[<<a, b>>])
    BY <1>1
  <2>1. \A c \in 1..(n + 1), d \in 0..n : d - c < b - a => Located(s, t, c, d, probe[<<c, d>>])
    <3> SUFFICES ASSUME NEW c \in 1..(n + 1), NEW d \in 0..n, d - c < b - a
                 PROVE  Located(s, t, c, d, probe[<<c, d>>])
      OBVIOUS
    <3>1. d - c + n + 2 <= m
      BY <1>1
    <3> QED BY <1>7, <3>1
  <2>2. Located(s, t, a, b, Probed(s, t, a, b, probe))
    BY <2>1, ProbeAnswers DEF n
  <2> QED BY <1>5, <2>2
<1>8. 2 * n + 2 \in S
  <2> DEFINE last == 2 * n + 2
  <2>1. last \in Nat /\ \A m \in 0..(last - 1) : m \in 0..(2 * n + 1)
    BY <1>1
  <2> HIDE DEF S, last
  <2>2. \A m \in 0..(last - 1) : m \in S => m + 1 \in S
    BY <1>7, <2>1
  <2> HIDE DEF last
  <2>3. \A m \in 0..last : m \in S
    BY <1>6, <2>1, <2>2, InductUpTo
  <2> QED BY <2>1, <2>3 DEF last
<1>9. 1 \in 1..(n + 1) /\ n \in 0..n /\ n - 1 + n + 2 <= 2 * n + 2
  BY <1>1
<1> QED BY <1>2, <1>8, <1>9 DEF n

(* In numbers: w is the nearer of p and q, and u is not between them.      *)
LEMMA Nearer ==
  ASSUME NEW t \in Int, NEW p \in Int, NEW q \in Int, NEW u \in Int, NEW w \in Int,
         \/ w = t
         \/ w = p /\ p > t /\ u >= p
         \/ w = p /\ p < t /\ u <= p
         \/ /\ p < t /\ t < q /\ (u <= p \/ u >= q)
            /\ w = IF Distance(p, t) <= Distance(q, t) THEN p ELSE q
  PROVE  Distance(w, t) < Distance(u, t) \/ (Distance(w, t) = Distance(u, t) /\ w <= u)
<1>1. /\ Distance(w, t) = IF w >= t THEN w - t ELSE t - w
      /\ Distance(u, t) = IF u >= t THEN u - t ELSE t - u
      /\ Distance(p, t) = IF p >= t THEN p - t ELSE t - p
      /\ Distance(q, t) = IF q >= t THEN q - t ELSE t - q
  BY DistanceIs
<1> QED BY <1>1

LEMMA CursorIs ==
  ASSUME NEW s \in Seq(Samples), InOrder(s), NEW t \in Int
  PROVE  CursorIsNearest(s, t)
<1>1. DOMAIN s = 1..Len(s) /\ Len(s) \in Nat /\ \A k \in 1..Len(s) : s[k].t \in Int
  BY SeriesAre
<1> DEFINE near == NearestSample(s, t)
           hit == Search(s, t)
           at == hit.at
           w == near.t
<1> SUFFICES ASSUME NEW i \in 1..Len(s)
             PROVE  \/ Distance(w, t) < Distance(s[i].t, t)
                    \/ Distance(w, t) = Distance(s[i].t, t) /\ w <= s[i].t
  BY <1>1 DEF CursorIsNearest
<1> DEFINE u == s[i].t
<1>2. Len(s) >= 1 /\ 1 <= Len(s) /\ 1 \in 1..Len(s) /\ Len(s) \in 1..Len(s) /\ u \in Int
  BY <1>1
<1>8. Len(s) \in Int /\ 1 <= Len(s) /\ i \in Int /\ 1 <= i /\ i <= Len(s)
  BY <1>1
<1>3. Located(s, t, 1, Len(s), hit)
  BY SearchAnswers
<1> DEFINE a == Larger(1, at - 1)
           b == Smaller(at, Len(s))
           p == s[a].t
           q == s[b].t
<1>4. near = IF hit.found THEN s[at]
             ELSE IF Distance(p, t) <= Distance(q, t) THEN s[a] ELSE s[b]
  BY DEF NearestSample
<1> HIDE DEF near, hit
<1>5. CASE hit.found
  <2>1. w = t
    BY <1>2, <1>3, <1>4, <1>5 DEF Located
  <2> HIDE DEF w, u
  <2>2. w \in Int
    BY <2>1
  <2>3. Distance(w, t) < Distance(u, t) \/ (Distance(w, t) = Distance(u, t) /\ w <= u)
    BY <1>2, <2>1, <2>2, Nearer
  <2> QED BY <2>3 DEF u
<1>6. CASE ~hit.found
  <2>1. /\ at \in 1..(Len(s) + 1)
        /\ \A k \in 1..(at - 1) : s[k].t < t
        /\ \A k \in at..Len(s) : s[k].t > t
    BY <1>2, <1>3, <1>6 DEF Located
  <2>4. w = IF Distance(p, t) <= Distance(q, t) THEN p ELSE q
    BY <1>4, <1>6
  <2>0. at \in Int /\ 1 <= at /\ at <= Len(s) + 1
    BY <1>1, <2>1
  <2> HIDE DEF at, w
  <2>2. a \in 1..Len(s) /\ (at = 1 => a = 1) /\ (at # 1 => a = at - 1)
    BY <1>8, <2>0 DEF Larger
  <2>3. b \in 1..Len(s) /\ (at = Len(s) + 1 => b = Len(s)) /\ (at # Len(s) + 1 => b = at)
    BY <1>8, <2>0 DEF Smaller
  <2> HIDE DEF a, b
  <2>6. p \in Int /\ q \in Int /\ (i < a => u < p) /\ (b < i => q < u) /\ (i = a => u = p) /\ (i = b => u = q)
    <3>1. a \in 1..Len(s) /\ b \in 1..Len(s)
      BY <2>2, <2>3
    <3> QED BY <1>1, <3>1, OrderIs
  <2>7. w = p \/ w = q
    BY <2>4
  <2>8. \/ w = p /\ p > t /\ u >= p
        \/ w = p /\ p < t /\ u <= p
        \/ p < t /\ t < q /\ (u <= p \/ u >= q)
    <3>1. CASE at = 1
      <4>0. at # Len(s) + 1
        BY <1>2, <3>1
      <4>1. a = 1 /\ b = 1 /\ 1 \in at..Len(s) /\ (i = b \/ b < i)
        BY <1>1, <1>2, <2>2, <2>3, <3>1, <4>0
      <4>2. p > t /\ p = q
        BY <2>1, <4>1
      <4> HIDE DEF p, q, u
      <4> QED BY <1>2, <2>6, <2>7, <4>1, <4>2
    <3>2. CASE at = Len(s) + 1
      <4>0. at # 1 /\ at - 1 = Len(s)
        BY <1>2, <3>2
      <4>1. a = Len(s) /\ b = Len(s)
        BY <2>2, <2>3, <3>2, <4>0
      <4>2. Len(s) \in 1..(at - 1) /\ (i = a \/ i < a)
        <5>1. Len(s) \in 1..(at - 1)
          BY <1>2, <4>0
        <5>2. i = Len(s) \/ i < Len(s)
          BY <1>8
        <5> QED BY <4>1, <5>1, <5>2
      <4>3. p < t /\ p = q
        BY <2>1, <4>1, <4>2
      <4> HIDE DEF p, q, u
      <4> QED BY <1>2, <2>6, <2>7, <4>2, <4>3
    <3>3. CASE at # 1 /\ at # Len(s) + 1
      <4>1. a = at - 1 /\ b = at /\ at \in 2..Len(s)
        BY <1>8, <2>0, <2>2, <2>3, <3>3
      <4>2. a \in 1..(at - 1) /\ b \in at..Len(s) /\ (i = a \/ i < a \/ i = b \/ b < i)
        BY <1>1, <4>1
      <4>3. p < t /\ t < q
        BY <2>1, <2>6, <4>2
      <4> HIDE DEF p, q, u
      <4> QED BY <1>2, <2>6, <4>2, <4>3
    <3> QED BY <3>1, <3>2, <3>3
  <2> HIDE DEF p, q, u
  <2>9. w \in Int
    BY <2>6, <2>7
  <2>10. Distance(w, t) < Distance(u, t) \/ (Distance(w, t) = Distance(u, t) /\ w <= u)
    BY <1>2, <2>4, <2>6, <2>8, <2>9, Nearer
  <2> QED BY <2>10 DEF u
<1>7. hit.found \in BOOLEAN
  BY <1>3 DEF Located
<1> HIDE DEF w
<1> QED BY <1>5, <1>6, <1>7

-----------------------------------------------------------------------------
(* The windows.  r is s from the a-th sample to the b-th.                  *)
PartOf(r, s, a, b) ==
  /\ a \in 1..(Len(s) + 1) /\ b \in (a - 1)..Len(s)
  /\ r \in Seq(Samples) /\ Len(r) = b - a + 1
  /\ \A i \in 1..(b - a + 1) : r[i] = s[a + i - 1]

LEMMA PartIs ==
  ASSUME NEW s \in Seq(Samples), InOrder(s), NEW r, NEW a \in Int, NEW b \in Int, PartOf(r, s, a, b)
  PROVE  /\ InOrder(r) /\ \A x : x \in ToSet(r) <=> \E i \in a..b : x = s[i]
         /\ r = SubSeq(s, a, b)
<1>1. /\ a \in 1..(Len(s) + 1) /\ b \in (a - 1)..Len(s) /\ r \in Seq(Samples) /\ Len(r) = b - a + 1
      /\ \A i \in 1..(b - a + 1) : r[i] = s[a + i - 1]
  BY DEF PartOf
<1>2. /\ SubSeq(s, a, b) \in Seq(Samples) /\ Len(SubSeq(s, a, b)) = b - a + 1
      /\ \A i \in 1..(b - a + 1) : SubSeq(s, a, b)[i] = s[a + i - 1]
      /\ InOrder(SubSeq(s, a, b))
      /\ \A x : x \in ToSet(SubSeq(s, a, b)) <=> \E i \in a..b : x = s[i]
  BY <1>1, SliceIs
<1>3. r = SubSeq(s, a, b)
  <2>1. \A i \in 1..Len(r) : r[i] = SubSeq(s, a, b)[i]
    BY <1>1, <1>2
  <2> QED BY <1>1, <1>2, <2>1, SeqEqual
<1> QED BY <1>2, <1>3

LEMMA UpToIs ==
  ASSUME NEW s \in Seq(Samples), InOrder(s), NEW end \in Int
  PROVE  \E k \in 0..Len(s) : /\ PartOf(UpTo(s, end), s, 1, k)
                              /\ \A i \in 1..Len(s) : i <= k <=> s[i].t <= end
<1> DEFINE past == {i \in DOMAIN s : s[i].t > end}
<1>1. DOMAIN s = 1..Len(s) /\ Len(s) \in Nat /\ \A i \in 1..Len(s) : s[i].t \in Int
  BY SeriesAre
<1>2. CASE past = {}
  <2>1. UpTo(s, end) = s
    BY <1>2 DEF UpTo
  <2>2. PartOf(s, s, 1, Len(s))
    BY <1>1 DEF PartOf
  <2>3. \A i \in 1..Len(s) : i <= Len(s) /\ s[i].t <= end
    BY <1>1, <1>2
  <2>4. Len(s) \in 0..Len(s)
    BY <1>1
  <2> QED BY <2>1, <2>2, <2>3, <2>4
<1>3. CASE past # {}
  <2> DEFINE first == CHOOSE i \in past : \A k \in past : i <= k
  <2>1. past \in SUBSET Nat
    BY <1>1
  <2>2. UpTo(s, end) = SubSeq(s, 1, first - 1)
    BY <1>3 DEF UpTo
  <2>3. first \in past /\ \A k \in past : first <= k
    <3> HIDE DEF past
    <3> QED BY <1>3, <2>1, LeastOf
  <2> HIDE DEF first
  <2>4. first \in 1..Len(s) /\ s[first].t > end
    BY <1>1, <2>3
  <2>5. first - 1 \in 0..Len(s)
    BY <1>1, <2>4
  <2>6. ASSUME NEW i \in 1..Len(s) PROVE i <= first - 1 <=> s[i].t <= end
    <3>1. CASE i < first
      <4>1. i \notin past
        BY <1>1, <2>3, <2>4, <3>1
      <4> QED BY <1>1, <2>4, <3>1, <4>1
    <3>2. CASE ~(i < first)
      <4>1. s[first].t <= s[i].t
        BY <1>1, <2>4, <3>2, OrderIs
      <4> QED BY <1>1, <2>4, <3>2, <4>1
    <3> QED BY <3>1, <3>2
  <2>7. PartOf(SubSeq(s, 1, first - 1), s, 1, first - 1)
    <3> DEFINE b == first - 1
    <3>1. 1 \in 1..(Len(s) + 1) /\ b \in (1 - 1)..Len(s)
      BY <1>1, <2>5
    <3> HIDE DEF b
    <3>2. /\ SubSeq(s, 1, b) \in Seq(Samples) /\ Len(SubSeq(s, 1, b)) = b - 1 + 1
          /\ \A i \in 1..(b - 1 + 1) : SubSeq(s, 1, b)[i] = s[1 + i - 1]
      BY <3>1, SliceIs
    <3>3. PartOf(SubSeq(s, 1, b), s, 1, b)
      BY <3>1, <3>2 DEF PartOf
    <3> QED BY <3>3 DEF b
  <2> QED BY <2>2, <2>5, <2>6, <2>7
<1> QED BY <1>2, <1>3

LEMMA FromIs ==
  ASSUME NEW s \in Seq(Samples), InOrder(s), NEW start \in Int
  PROVE  \E a \in 1..(Len(s) + 1) : /\ PartOf(From(s, start), s, a, Len(s))
                                    /\ \A i \in 1..Len(s) : i >= a <=> s[i].t >= start
<1> DEFINE kept == {i \in DOMAIN s : s[i].t >= start}
<1>1. DOMAIN s = 1..Len(s) /\ Len(s) \in Nat /\ \A i \in 1..Len(s) : s[i].t \in Int
  BY SeriesAre
<1>2. CASE kept = {}
  <2> DEFINE a == Len(s) + 1
  <2>1. From(s, start) = << >>
    BY <1>2 DEF From
  <2>2. /\ a \in 1..(Len(s) + 1) /\ Len(s) \in (a - 1)..Len(s)
        /\ << >> \in Seq(Samples) /\ Len(<< >>) = Len(s) - a + 1
        /\ \A i \in 1..(Len(s) - a + 1) : FALSE
    BY <1>1
  <2>3. \A i \in 1..Len(s) : ~(i >= a) /\ ~(s[i].t >= start)
    BY <1>1, <1>2
  <2> HIDE DEF a
  <2>4. PartOf(<< >>, s, a, Len(s))
    BY <2>2 DEF PartOf
  <2> QED BY <2>1, <2>2, <2>3, <2>4
<1>3. CASE kept # {}
  <2> DEFINE first == CHOOSE i \in kept : \A k \in kept : i <= k
  <2>1. kept \in SUBSET Nat
    BY <1>1
  <2>2. From(s, start) = SubSeq(s, first, Len(s))
    BY <1>3 DEF From
  <2>3. first \in kept /\ \A k \in kept : first <= k
    <3> HIDE DEF kept
    <3> QED BY <1>3, <2>1, LeastOf
  <2> HIDE DEF first
  <2>4. first \in 1..Len(s) /\ s[first].t >= start
    BY <1>1, <2>3
  <2>5. first \in 1..(Len(s) + 1) /\ Len(s) \in (first - 1)..Len(s)
    BY <1>1, <2>4
  <2>6. ASSUME NEW i \in 1..Len(s) PROVE i >= first <=> s[i].t >= start
    <3>1. CASE i < first
      <4>1. i \notin kept
        BY <1>1, <2>3, <2>4, <3>1
      <4> QED BY <1>1, <2>4, <3>1, <4>1
    <3>2. CASE ~(i < first)
      <4>1. s[first].t <= s[i].t
        BY <1>1, <2>4, <3>2, OrderIs
      <4> QED BY <1>1, <2>4, <3>2, <4>1
    <3> QED BY <3>1, <3>2
  <2>7. PartOf(SubSeq(s, first, Len(s)), s, first, Len(s))
    <3>1. /\ SubSeq(s, first, Len(s)) \in Seq(Samples)
          /\ Len(SubSeq(s, first, Len(s))) = Len(s) - first + 1
          /\ \A i \in 1..(Len(s) - first + 1) : SubSeq(s, first, Len(s))[i] = s[first + i - 1]
      BY <2>5, SliceIs
    <3> QED BY <2>5, <3>1 DEF PartOf
  <2> QED BY <2>2, <2>5, <2>6, <2>7
<1> QED BY <1>2, <1>3

(* What is read to the end of the window, and the part of it drawn.        *)
LEMMA WindowIs ==
  ASSUME NEW s \in Seq(Samples), InOrder(s), NEW lo \in Int, NEW hi \in Int, lo <= hi
  PROVE  \E a, k \in Int :
           /\ PartOf(UpTo(s, hi), s, 1, k) /\ PartOf(UpTo(From(s, lo), hi), s, a, k)
           /\ \A i \in 1..Len(s) : (i >= a <=> s[i].t >= lo) /\ (i <= k <=> s[i].t <= hi)
<1>1. Len(s) \in Nat /\ \A i \in 1..Len(s) : s[i].t \in Int
  BY SeriesAre
<1>2. PICK k \in 0..Len(s) : /\ PartOf(UpTo(s, hi), s, 1, k)
                             /\ \A i \in 1..Len(s) : i <= k <=> s[i].t <= hi
  BY UpToIs
<1>3. PICK a \in 1..(Len(s) + 1) : /\ PartOf(From(s, lo), s, a, Len(s))
                                   /\ \A i \in 1..Len(s) : i >= a <=> s[i].t >= lo
  BY FromIs
<1> DEFINE r == From(s, lo)
           u == UpTo(r, hi)
<1>4. /\ r \in Seq(Samples) /\ Len(r) = Len(s) - a + 1
      /\ \A i \in 1..(Len(s) - a + 1) : r[i] = s[a + i - 1]
  BY <1>3 DEF PartOf
<1>5. InOrder(r)
  BY <1>3, PartIs
<1>6. PICK b \in 0..Len(r) : /\ PartOf(u, r, 1, b)
                             /\ \A i \in 1..Len(r) : i <= b <=> r[i].t <= hi
  BY <1>4, <1>5, UpToIs
<1>7. /\ u \in Seq(Samples) /\ Len(u) = b /\ \A i \in 1..b : u[i] = r[i]
  <2>1. b - 1 + 1 = b /\ \A i \in 1..b : 1 + i - 1 = i
    BY <1>4
  <2> QED BY <1>6, <2>1 DEF PartOf
<1> HIDE DEF r, u
<1>8. a <= k + 1
  <2> SUFFICES ASSUME a > k + 1 PROVE FALSE
    BY <1>1
  <2>1. k + 1 \in 1..Len(s) /\ ~(k + 1 <= k) /\ ~(k + 1 >= a)
    BY <1>1
  <2>2. ~(s[k + 1].t <= hi) /\ ~(s[k + 1].t >= lo) /\ s[k + 1].t \in Int
    BY <1>1, <1>2, <1>3, <2>1
  <2> QED BY <2>2
<1>9. \A i \in 1..Len(r) : r[i].t <= hi <=> a + i - 1 <= k
  <2> SUFFICES ASSUME NEW i \in 1..Len(r) PROVE r[i].t <= hi <=> a + i - 1 <= k
    OBVIOUS
  <2>1. a + i - 1 \in 1..Len(s) /\ i \in 1..(Len(s) - a + 1)
    BY <1>1, <1>4
  <2> QED BY <1>2, <1>4, <2>1
<1>10. b = k - a + 1
  <2>1. k - a + 1 \in 0..Len(r) /\ b \in 0..Len(r) /\ Len(r) \in Nat
    BY <1>1, <1>4, <1>8
  <2>2. ASSUME b < k - a + 1 PROVE FALSE
    <3>1. b + 1 \in 1..Len(r) /\ a + (b + 1) - 1 <= k /\ ~(b + 1 <= b)
      BY <1>1, <2>1, <2>2
    <3> QED BY <1>6, <1>9, <3>1
  <2>3. ASSUME b > k - a + 1 PROVE FALSE
    <3>1. b \in 1..Len(r) /\ ~(a + b - 1 <= k) /\ b <= b
      BY <1>1, <2>1, <2>3
    <3> QED BY <1>6, <1>9, <3>1
  <2> QED BY <2>1, <2>2, <2>3
<1>11. PartOf(u, s, a, k)
  <2>1. a \in 1..(Len(s) + 1) /\ k \in (a - 1)..Len(s)
    BY <1>1, <1>8
  <2>2. \A i \in 1..(k - a + 1) : i \in 1..b /\ i \in 1..(Len(s) - a + 1)
    BY <1>1, <1>10
  <2>3. \A i \in 1..(k - a + 1) : u[i] = s[a + i - 1]
    BY <1>4, <1>7, <2>2
  <2> QED BY <1>7, <1>10, <2>1, <2>3 DEF PartOf
<1>12. a \in Int /\ k \in Int
  OBVIOUS
<1> QED BY <1>2, <1>3, <1>11, <1>12 DEF r, u

-----------------------------------------------------------------------------
(* The figures of a window, sample by sample.                              *)
Stats == [count : Nat, sum : Int, min : Int, max : Int]

AfterReading(read, lo) ==
  LET after[i \in 0..Len(read)] ==
        IF i = 0 THEN NoStats
        ELSE IF read[i].t < lo THEN after[i - 1] ELSE Counted(after[i - 1], read[i].v)
  IN after[Len(read)]

(* Those of the first j numbers of v, whose sums are those of f.           *)
FiguresOf(x, v, f, j) ==
  /\ x \in Stats /\ x.count = j /\ x.sum = f[j]
  /\ j # 0 => /\ \E i \in 1..j : x.min = v[i]
              /\ \E i \in 1..j : x.max = v[i]
              /\ \A i \in 1..j : x.min <= v[i] /\ v[i] <= x.max

LEMMA CountedIs ==
  ASSUME NEW v, NEW f, NEW n \in Nat, SumsTo(f, v, n), \A i \in 1..n : v[i] \in Int,
         NEW j \in 0..(n - 1), NEW x, FiguresOf(x, v, f, j)
  PROVE  FiguresOf(Counted(x, v[j + 1]), v, f, j + 1)
<1> DEFINE w == v[j + 1]
           y == Counted(x, w)
<1>1. /\ x.count = j /\ x.sum = f[j] /\ x.min \in Int /\ x.max \in Int /\ x.sum \in Int
  BY DEF FiguresOf, Stats
<1>2. j + 1 \in 1..n /\ w \in Int /\ f[j + 1] = f[j] + w
  <2>1. j + 1 \in 1..n /\ j + 1 - 1 = j
    OBVIOUS
  <2> QED BY <2>1 DEF SumsTo
<1>3. \A i \in 1..j : i \in 1..(j + 1) /\ v[i] \in Int
  OBVIOUS
<1>4. \A i \in 1..(j + 1) : i \in 1..j \/ i = j + 1
  OBVIOUS
<1>5. /\ y.count = j + 1 /\ y.sum = f[j + 1]
      /\ y.min = IF j = 0 THEN w ELSE Smaller(x.min, w)
      /\ y.max = IF j = 0 THEN w ELSE Larger(x.max, w)
      /\ y = [count |-> y.count, sum |-> y.sum, min |-> y.min, max |-> y.max]
  BY <1>1, <1>2 DEF Counted
<1> HIDE DEF y, w
<1>6. CASE j = 0
  <2>1. y.min = w /\ y.max = w
    BY <1>5, <1>6
  <2>2. y \in Stats
    BY <1>1, <1>2, <1>5, <2>1 DEF Stats
  <2>3. j + 1 \in 1..(j + 1) /\ \A i \in 1..(j + 1) : v[i] = w
    BY <1>6 DEF w
  <2>4. FiguresOf(y, v, f, j + 1)
    BY <1>2, <1>5, <2>1, <2>2, <2>3 DEF FiguresOf
  <2> QED BY <2>4 DEF y, w
<1>7. CASE j # 0
  <2>1. /\ \E i \in 1..j : x.min = v[i]
        /\ \E i \in 1..j : x.max = v[i]
        /\ \A i \in 1..j : x.min <= v[i] /\ v[i] <= x.max
    BY <1>7 DEF FiguresOf
  <2>2. /\ y.min \in Int /\ y.max \in Int
        /\ y.min <= w /\ y.min <= x.min /\ (y.min = w \/ y.min = x.min)
        /\ w <= y.max /\ x.max <= y.max /\ (y.max = w \/ y.max = x.max)
    BY <1>1, <1>2, <1>5, <1>7 DEF Smaller, Larger
  <2>3. y \in Stats
    <3>1. y.count \in Nat /\ y.sum \in Int
      BY <1>1, <1>2, <1>5
    <3> QED BY <1>5, <2>2, <3>1 DEF Stats
  <2>4. w = v[j + 1] /\ j + 1 \in 1..(j + 1)
    BY DEF w
  <2>5. \E i \in 1..(j + 1) : y.min = v[i]
    BY <1>3, <2>1, <2>2, <2>4
  <2>6. \E i \in 1..(j + 1) : y.max = v[i]
    BY <1>3, <2>1, <2>2, <2>4
  <2>7. \A i \in 1..(j + 1) : y.min <= v[i] /\ v[i] <= y.max
    <3> SUFFICES ASSUME NEW i \in 1..(j + 1) PROVE y.min <= v[i] /\ v[i] <= y.max
      OBVIOUS
    <3>1. CASE i = j + 1
      BY <2>2, <2>4, <3>1
    <3>2. CASE i \in 1..j
      BY <1>1, <1>3, <2>1, <2>2, <3>2
    <3> QED BY <1>4, <3>1, <3>2
  <2>8. FiguresOf(y, v, f, j + 1)
    BY <1>5, <2>3, <2>5, <2>6, <2>7 DEF FiguresOf
  <2> QED BY <2>8 DEF y, w
<1> QED BY <1>6, <1>7

LEMMA FiguresAre ==
  ASSUME NEW read \in Seq(Samples), NEW lo \in Int, NEW r \in Seq(Samples),
         NEW skip \in 0..Len(read), Len(r) = Len(read) - skip,
         \A j \in 1..Len(r) : r[j] = read[skip + j],
         \A i \in 1..Len(read) : read[i].t < lo <=> i <= skip,
         NEW f, SumsTo(f, Values(r), Len(r))
  PROVE  FiguresOf(AfterReading(read, lo), Values(r), f, Len(r))
<1> DEFINE n == Len(read)
           Is(g) == g = [i \in 0..n |->
                           IF i = 0 THEN NoStats
                           ELSE IF read[i].t < lo THEN g[i - 1] ELSE Counted(g[i - 1], read[i].v)]
           after == CHOOSE g : Is(g)
           v == Values(r)
<1>1. n \in Nat /\ \A i \in 1..n : read[i].t \in Int /\ read[i].v \in Int
  BY SeriesAre
<1>2. Len(r) \in Nat /\ \A j \in 1..Len(r) : v[j] = r[j].v /\ v[j] \in Int
  BY SeriesAre
<1>3. AfterReading(read, lo) = after[n]
  BY DEF AfterReading
<1> HIDE DEF n, v
<1>4. NoStats \in Stats
  BY DEF NoStats, Stats
<1>5. \A i \in 1..n, x \in Stats : Counted(x, read[i].v) \in Stats
  <2> SUFFICES ASSUME NEW i \in 1..n, NEW x \in Stats PROVE Counted(x, read[i].v) \in Stats
    OBVIOUS
  <2>1. x.count \in Nat /\ x.sum \in Int /\ x.min \in Int /\ x.max \in Int /\ read[i].v \in Int
    BY <1>1 DEF Stats
  <2> DEFINE low == IF x.count = 0 THEN read[i].v ELSE Smaller(x.min, read[i].v)
             high == IF x.count = 0 THEN read[i].v ELSE Larger(x.max, read[i].v)
  <2>2. low \in Int /\ high \in Int
    BY <2>1 DEF Smaller, Larger
  <2>3. Counted(x, read[i].v) = [count |-> x.count + 1, sum |-> x.sum + read[i].v, min |-> low, max |-> high]
    BY DEF Counted
  <2> HIDE DEF low, high
  <2> QED BY <2>1, <2>2, <2>3 DEF Stats
<1>6. \E g : Is(g)
  <2> DEFINE h == [i \in 1..n |-> [x \in Stats |-> IF read[i].t < lo THEN x ELSE Counted(x, read[i].v)]]
             first == NoStats
             D == Stats
  <2>1. h \in [1..n -> [D -> D]]
    BY <1>5
  <2>2. \A i \in 1..n, x \in D : h[i][x] = IF read[i].t < lo THEN x ELSE Counted(x, read[i].v)
    OBVIOUS
  <2>3. first \in D /\ first = NoStats
    BY <1>4
  <2> HIDE DEF h, first, D
  <2>4. PICK g : Follows(g, n, D, first, h)
    BY <1>1, <2>1, <2>3, RecursionExists
  <2>5. g \in [0..n -> D] /\ g[0] = first /\ \A i \in 1..n : g[i] = h[i][g[i - 1]]
    BY <2>4 DEF Follows
  <2>6. ASSUME NEW i \in 0..n
        PROVE g[i] = IF i = 0 THEN NoStats
                     ELSE IF read[i].t < lo THEN g[i - 1] ELSE Counted(g[i - 1], read[i].v)
    <3>1. CASE i = 0
      BY <2>3, <2>5, <3>1
    <3>2. CASE i # 0
      <4>1. i \in 1..n /\ i - 1 \in 0..n
        BY <1>1, <3>2
      <4>2. g[i - 1] \in D
        BY <2>5, <4>1
      <4>3. g[i] = h[i][g[i - 1]]
        BY <2>5, <4>1
      <4>4. h[i][g[i - 1]] = IF read[i].t < lo THEN g[i - 1] ELSE Counted(g[i - 1], read[i].v)
        BY <2>2, <4>1, <4>2
      <4> QED BY <3>2, <4>3, <4>4
    <3> QED BY <3>1, <3>2
  <2>7. Is(g)
    BY <2>5, <2>6
  <2> QED BY <2>7
<1>7. Is(after)
  <2> HIDE DEF Is
  <2> QED BY <1>6
<1> HIDE DEF after
<1>8. /\ after[0] = NoStats
      /\ \A i \in 1..n : after[i] = IF read[i].t < lo THEN after[i - 1] ELSE Counted(after[i - 1], read[i].v)
  <2>1. \A i \in 0..n : after[i] = IF i = 0 THEN NoStats
                                   ELSE IF read[i].t < lo THEN after[i - 1] ELSE Counted(after[i - 1], read[i].v)
    BY <1>7
  <2> QED BY <1>1, <2>1
<1> HIDE DEF Is
<1> DEFINE At0(i) == FiguresOf(after[i], v, f, IF i <= skip THEN 0 ELSE i - skip)
           S == {i \in 0..n : At0(i)}
<1>9. SumsTo(f, v, Len(r))
  BY DEF v
<1>10. 0 \in S
  <2>1. f[0] = 0
    BY <1>9 DEF SumsTo
  <2>2. FiguresOf(NoStats, v, f, 0)
    BY <1>4, <2>1 DEF FiguresOf, NoStats
  <2> QED BY <1>1, <1>8, <2>2
<1>11. ASSUME NEW i \in 0..(n - 1), i \in S PROVE i + 1 \in S
  <2>1. i + 1 \in 1..n /\ i + 1 - 1 = i /\ i + 1 \in 0..n /\ skip \in Int
    BY <1>1
  <2>2. CASE i + 1 <= skip
    <3>1. after[i + 1] = after[i] /\ i <= skip
      BY <1>8, <2>1, <2>2 DEF n
    <3>2. FiguresOf(after[i], v, f, 0)
      BY <1>11, <3>1
    <3> QED BY <2>1, <2>2, <3>1, <3>2
  <2>3. CASE i + 1 > skip
    <3> DEFINE j == i - skip
    <3>1. j \in 0..(Len(r) - 1) /\ j + 1 = i + 1 - skip /\ skip + (j + 1) = i + 1
      BY <2>1, <2>3 DEF n
    <3>2. FiguresOf(after[i], v, f, j)
      <4>1. CASE i <= skip
        <5>1. j = 0
          BY <2>1, <2>3, <4>1
        <5> QED BY <1>11, <4>1, <5>1
      <4>2. CASE ~(i <= skip)
        BY <1>11, <4>2
      <4> QED BY <4>1, <4>2
    <3> HIDE DEF j
    <3>3. j + 1 \in 1..Len(r) /\ v[j + 1] = read[i + 1].v
      <4>1. j + 1 \in 1..Len(r)
        BY <1>2, <3>1
      <4>2. r[j + 1] = read[i + 1]
        BY <3>1, <4>1
      <4> QED BY <1>2, <4>1, <4>2
    <3>4. after[i + 1] = Counted(after[i], v[j + 1])
      <4>1. ~(read[i + 1].t < lo)
        BY <2>1, <2>3 DEF n
      <4> QED BY <1>8, <2>1, <3>3, <4>1
    <3>5. FiguresOf(after[i + 1], v, f, j + 1)
      BY <1>2, <1>9, <3>1, <3>2, <3>4, CountedIs
    <3>6. ~(i + 1 <= skip)
      BY <2>1, <2>3
    <3>7. At0(i + 1)
      BY <3>1, <3>5, <3>6
    <3> QED BY <2>1, <3>7
  <2> QED BY <2>1, <2>2, <2>3
<1>12. n \in S
  <2> HIDE DEF S
  <2>1. \A i \in 0..n : i \in S
    BY <1>1, <1>10, <1>11, InductUpTo
  <2> QED BY <1>1, <2>1
<1>13. FiguresOf(after[n], v, f, Len(r))
  <2>1. CASE n <= skip
    <3>1. Len(r) = 0
      BY <1>1, <2>1 DEF n
    <3> QED BY <1>12, <2>1, <3>1
  <2>2. CASE ~(n <= skip)
    <3>1. Len(r) = n - skip
      BY DEF n
    <3> QED BY <1>12, <2>2, <3>1
  <2> QED BY <2>1, <2>2
<1> QED BY <1>3, <1>13 DEF v

LEMMA WindowOK ==
  ASSUME NEW s \in Seq(Samples), InOrder(s), NEW from \in Int, NEW to \in Int
  PROVE  WindowAgrees(s, from, to)
<1> DEFINE lo == Smaller(from, to)
           hi == Larger(from, to)
           slice == SliceByWindow(s, from, to)
           read == UpTo(s, hi)
           x == WindowStats(s, from, to)
           v == Values(slice)
<1>1. lo \in Int /\ hi \in Int /\ lo <= hi
  BY DEF Smaller, Larger
<1>2. Len(s) \in Nat /\ DOMAIN s = 1..Len(s)
  BY SeriesAre
<1>3. x = AfterReading(read, lo)
  BY DEF WindowStats, AfterReading
<1>4. slice = UpTo(From(s, lo), hi)
  BY DEF SliceByWindow
<1> HIDE DEF lo, hi, slice, x
<1>5. PICK a \in Int, k \in Int :
        /\ PartOf(read, s, 1, k) /\ PartOf(slice, s, a, k)
        /\ \A i \in 1..Len(s) : (i >= a <=> s[i].t >= lo) /\ (i <= k <=> s[i].t <= hi)
  BY <1>1, <1>4, WindowIs
<1> HIDE DEF read
<1>6. /\ a \in 1..(Len(s) + 1) /\ k \in (a - 1)..Len(s)
      /\ slice \in Seq(Samples) /\ Len(slice) = k - a + 1
      /\ \A i \in 1..(k - a + 1) : slice[i] = s[a + i - 1]
  BY <1>5 DEF PartOf
<1>7. read \in Seq(Samples) /\ Len(read) = k /\ \A i \in 1..k : read[i] = s[i]
  <2>1. k - 1 + 1 = k /\ \A i \in 1..k : 1 + i - 1 = i
    OBVIOUS
  <2> QED BY <1>5, <2>1 DEF PartOf
<1>8. InOrder(slice) /\ \A y : y \in ToSet(slice) <=> \E i \in a..k : y = s[i]
  <2>1. PartOf(slice, s, a, k)
    BY <1>5
  <2>2. InOrder(slice)
    BY <2>1, PartIs
  <2>3. ASSUME NEW y PROVE y \in ToSet(slice) <=> \E i \in a..k : y = s[i]
    <3>1. slice = SubSeq(s, a, k)
      BY <2>1, PartIs
    <3>2. \A z : z \in ToSet(SubSeq(s, a, k)) <=> \E i \in a..k : z = s[i]
      BY <1>6, SliceIs
    <3> QED BY <3>1, <3>2
  <2> QED BY <2>2, <2>3
<1>9. ToSet(slice) = {y \in ToSet(s) : y.t \in lo..hi}
  <2>1. \A i \in 1..Len(s) : s[i].t \in Int
    BY SeriesAre
  <2>2. \A i \in 1..Len(s) : i \in a..k <=> s[i].t \in lo..hi
    BY <1>1, <1>5, <1>6, <2>1
  <2>3. \A i \in a..k : i \in 1..Len(s)
    BY <1>2, <1>6
  <2>4. \A y : y \in ToSet(s) <=> \E i \in 1..Len(s) : y = s[i]
    BY <1>2 DEF ToSet
  <2>5. \A y : y \in ToSet(slice) <=> y \in ToSet(s) /\ y.t \in lo..hi
    BY <1>8, <2>2, <2>3, <2>4
  <2> QED BY <2>5
<1>10. v \in Seq(Int) /\ Len(v) = Len(slice) /\ Len(slice) \in Nat /\ DOMAIN v = 1..Len(slice)
  <2>1. v \in Seq(Int) /\ Len(v) = Len(slice)
    BY <1>6, SeriesAre
  <2> HIDE DEF v
  <2> QED BY <2>1
<1>11. PICK f : SumsTo(f, v, Len(slice)) /\ SumOf(v) = f[Len(slice)]
  BY <1>10, SumOfIs
<1>12. FiguresOf(x, v, f, Len(slice))
  <2> DEFINE skip == a - 1
  <2>1. skip \in 0..Len(read) /\ Len(slice) = Len(read) - skip /\ skip = a - 1
    BY <1>6, <1>7
  <2>2. \A j \in 1..Len(slice) : slice[j] = read[skip + j]
    <3> SUFFICES ASSUME NEW j \in 1..Len(slice) PROVE slice[j] = read[skip + j]
      OBVIOUS
    <3>1. skip + j = a + j - 1 /\ skip + j \in 1..k /\ j \in 1..(k - a + 1)
      BY <1>6
    <3> QED BY <1>6, <1>7, <3>1
  <2>3. \A i \in 1..Len(read) : read[i].t < lo <=> i <= skip
    <3> SUFFICES ASSUME NEW i \in 1..Len(read) PROVE read[i].t < lo <=> i <= skip
      OBVIOUS
    <3>3. i \in 1..k /\ i \in 1..Len(s)
      BY <1>2, <1>6, <1>7
    <3>4. read[i] = s[i]
      BY <1>7, <3>3
    <3>1. i \in 1..Len(s) /\ read[i] = s[i] /\ s[i].t \in Int
      BY <3>3, <3>4, SeriesAre
    <3>2. i >= a <=> s[i].t >= lo
      BY <1>5, <3>1
    <3> QED BY <1>1, <3>1, <3>2
  <2> HIDE DEF skip
  <2>4. FiguresOf(AfterReading(read, lo), Values(slice), f, Len(slice))
    BY <1>1, <1>6, <1>7, <1>11, <2>1, <2>2, <2>3, FiguresAre
  <2> QED BY <1>3, <2>4
<1>13. x.count = Len(slice) /\ x.sum = SumOf(v)
  BY <1>11, <1>12 DEF FiguresOf
<1>14. ASSUME slice # << >>
       PROVE  /\ {x.min, x.max} \subseteq ToSet(v)
              /\ \A w \in ToSet(v) : x.min <= w /\ w <= x.max
  <2>1. Len(slice) # 0
    BY <1>6, <1>14, EmptySeq
  <2>2. /\ \E i \in 1..Len(slice) : x.min = v[i]
        /\ \E i \in 1..Len(slice) : x.max = v[i]
        /\ \A i \in 1..Len(slice) : x.min <= v[i] /\ v[i] <= x.max
    BY <1>12, <2>1 DEF FiguresOf
  <2>3. \A w : w \in ToSet(v) <=> \E i \in 1..Len(slice) : w = v[i]
    BY <1>10 DEF ToSet
  <2> HIDE DEF v
  <2> QED BY <2>2, <2>3
<1> QED BY <1>8, <1>9, <1>13, <1>14 DEF WindowAgrees, lo, hi, slice, x

-----------------------------------------------------------------------------
(* The times relative to the first one.                                    *)
LEMMA BoundsAre ==
  ASSUME NEW a \in Seq(Samples), NEW b \in Seq(Samples), NEW j \in {1, 2}, <<a, b>>[j] # << >>
  PROVE  LET bounds == HistoryBounds(<<a, b>>)
         IN /\ bounds.start \in Int /\ bounds.end \in Int
            /\ bounds.start <= <<a, b>>[j][1].t /\ Last(<<a, b>>[j]).t <= bounds.end
<1> DEFINE results == <<a, b>>
           some == {i \in DOMAIN results : results[i] # << >>}
           B == HistoryBounds(results)
           first(i) == results[i][1].t
           last(i) == Last(results[i]).t
           Starts == {first(i) : i \in some}
           Ends == {last(i) : i \in some}
           Least0(t) == \A i \in some : t <= first(i)
           Most(t) == \A i \in some : t >= last(i)
<1>1. DOMAIN results = {1, 2} /\ j \in some /\ some \subseteq {1, 2}
  OBVIOUS
<1>2. \A i \in some : first(i) \in Int /\ last(i) \in Int
  <2> SUFFICES ASSUME NEW i \in {1, 2}, results[i] # << >> PROVE first(i) \in Int /\ last(i) \in Int
    OBVIOUS
  <2> DEFINE s == results[i]
  <2>1. s \in Seq(Samples) /\ s # << >>
    OBVIOUS
  <2> HIDE DEF s, results
  <2>2. Len(s) \in 1..Len(s) /\ 1 \in 1..Len(s)
    BY <2>1, EmptySeq
  <2>3. s[1].t \in Int /\ s[Len(s)].t \in Int
    BY <2>1, <2>2, SeriesAre
  <2>4. first(i) \in Int
    BY <2>3 DEF s
  <2>5. last(i) \in Int
    BY <2>3 DEF s, Last
  <2> QED BY <2>4, <2>5
<1>3. some # {}
  BY <1>1
<1>4. B = [start |-> CHOOSE t \in Starts : Least0(t), end |-> CHOOSE t \in Ends : Most(t)]
  BY <1>3 DEF HistoryBounds
<1> HIDE DEF results, some, first, last
<1>5. \E t \in Starts : Least0(t)
  <2>1. \E i \in some : \A k \in some : first(i) <= first(k)
    <3>1. ASSUME NEW i, some = {i} PROVE \E j0 \in some : \A k \in some : first(j0) <= first(k)
      <4>1. first(i) \in Int
        BY <1>2, <3>1
      <4>2. first(i) <= first(i)
        BY <4>1
      <4> QED BY <3>1, <4>2
    <3>2. CASE some = {1, 2}
      <4>1. first(1) \in Int /\ first(2) \in Int
        BY <1>2, <3>2
      <4>2. first(1) <= first(2) \/ first(2) <= first(1)
        BY <4>1
      <4>3. first(1) <= first(1) /\ first(2) <= first(2)
        BY <4>1
      <4> HIDE DEF first
      <4>4. CASE first(1) <= first(2)
        BY <3>2, <4>3, <4>4
      <4>5. CASE first(2) <= first(1)
        BY <3>2, <4>3, <4>5
      <4> QED BY <4>2, <4>4, <4>5
    <3>3. some = {1} \/ some = {2} \/ some = {1, 2}
      BY <1>1
    <3> QED BY <3>1, <3>2, <3>3
  <2> QED BY <2>1
<1>6. \E t \in Ends : Most(t)
  <2>1. \E i \in some : \A k \in some : last(i) >= last(k)
    <3>1. ASSUME NEW i, some = {i} PROVE \E j0 \in some : \A k \in some : last(j0) >= last(k)
      <4>1. last(i) \in Int
        BY <1>2, <3>1
      <4>2. last(i) >= last(i)
        BY <4>1
      <4> QED BY <3>1, <4>2
    <3>2. CASE some = {1, 2}
      <4>1. last(1) \in Int /\ last(2) \in Int
        BY <1>2, <3>2
      <4>2. last(1) >= last(2) \/ last(2) >= last(1)
        BY <4>1
      <4>3. last(1) >= last(1) /\ last(2) >= last(2)
        BY <4>1
      <4> HIDE DEF last
      <4>4. CASE last(1) >= last(2)
        BY <3>2, <4>3, <4>4
      <4>5. CASE last(2) >= last(1)
        BY <3>2, <4>3, <4>5
      <4> QED BY <4>2, <4>4, <4>5
    <3>3. some = {1} \/ some = {2} \/ some = {1, 2}
      BY <1>1
    <3> QED BY <3>1, <3>2, <3>3
  <2> QED BY <2>1
<1>7. B.start \in Starts /\ Least0(B.start)
  <2> HIDE DEF B, Starts, Least0
  <2> QED BY <1>4, <1>5
<1>8. B.end \in Ends /\ Most(B.end)
  <2> HIDE DEF B, Ends, Most
  <2> QED BY <1>4, <1>6
<1> HIDE DEF B
<1>9. B.start \in Int /\ B.end \in Int /\ B.start <= first(j) /\ last(j) <= B.end
  BY <1>1, <1>2, <1>7, <1>8
<1> QED BY <1>9 DEF B, first, last, results

LEMMA TimesOK ==
  ASSUME NEW a \in Seq(Samples), InOrder(a), NEW b \in Seq(Samples), InOrder(b)
  PROVE  TimesAreRelative(a, b)
<1> DEFINE bounds == HistoryBounds(<<a, b>>)
<1> SUFFICES ASSUME NEW k \in {1, 2}, <<a, b>>[k] # << >>
             PROVE  LET s == <<a, b>>[k]
                        relative == RelativeTimes(Times(s), bounds.start)
                    IN /\ relative = [i \in DOMAIN s |-> s[i].t - bounds.start]
                       /\ Last(relative) <= Duration(bounds)
  BY DEF TimesAreRelative
<1> DEFINE s == <<a, b>>[k]
           relative == RelativeTimes(Times(s), bounds.start)
<1>1. /\ bounds.start \in Int /\ bounds.end \in Int
      /\ bounds.start <= s[1].t /\ Last(s).t <= bounds.end
  BY BoundsAre
<1>2. s \in Seq(Samples) /\ InOrder(s) /\ s # << >>
  OBVIOUS
<1> HIDE DEF s, bounds
<1>3. /\ DOMAIN s = 1..Len(s) /\ DOMAIN Times(s) = 1..Len(s) /\ Len(s) \in Nat
      /\ \A i \in 1..Len(s) : s[i].t \in Int /\ Times(s)[i] = s[i].t
  <2>1. DOMAIN Times(s) = DOMAIN s
    BY DEF Times
  <2> QED BY <1>2, <2>1, SeriesAre
<1>4. Len(s) \in 1..Len(s) /\ 1 \in 1..Len(s)
  BY <1>2, EmptySeq
<1>5. \A i \in 1..Len(s) : s[i].t >= bounds.start
  <2> SUFFICES ASSUME NEW i \in 1..Len(s) PROVE s[i].t >= bounds.start
    OBVIOUS
  <2>1. s[1].t <= s[i].t
    BY <1>2, <1>4, OrderIs
  <2>2. s[1].t \in Int /\ s[i].t \in Int
    BY <1>3, <1>4
  <2> QED BY <1>1, <2>1, <2>2
<1>6. relative = [i \in DOMAIN s |-> s[i].t - bounds.start]
  <2>1. \A i \in 1..Len(s) : Larger(0, Times(s)[i] - bounds.start) = s[i].t - bounds.start
    BY <1>1, <1>3, <1>5 DEF Larger
  <2> QED BY <1>3, <2>1 DEF RelativeTimes
<1> HIDE DEF relative
<1>7. relative \in [1..Len(s) -> Int] /\ relative[Len(s)] = s[Len(s)].t - bounds.start
  BY <1>1, <1>3, <1>4, <1>6
<1>8. Last(relative) = Last(s).t - bounds.start /\ Last(s).t \in Int
  <2>1. Len(relative) = Len(s)
    BY <1>3, <1>7
  <2>2. Last(s) = s[Len(s)] /\ Last(relative) = relative[Len(s)]
    BY <2>1 DEF Last
  <2> QED BY <1>3, <1>4, <1>7, <2>2
<1>9. Last(relative) <= Duration(bounds)
  BY <1>1, <1>8 DEF Duration, Larger
<1> QED BY <1>6, <1>9 DEF relative, s

-----------------------------------------------------------------------------
(* All of it, of the buffers and of the series that the frames make.       *)
LEMMA ReferenceMatches == SeriesInv => SeriesMatchReference
<1> SUFFICES ASSUME SeriesInv PROVE SeriesMatchReference
  OBVIOUS
<1> DEFINE s == Everything
<1>1. s \in Seq(Samples) /\ InOrder(s)
  BY EverythingIs
<1>2. TimesAround \subseteq Int
  BY DEF TimesAround
<1>3. BuffersHoldTheNewest
  BY BuffersHold
<1>4. ReductionKeepsOrder(s)
  BY <1>1, ReductionKeeps
<1>5. \A t \in TimesAround : CursorIsNearest(s, t)
  BY <1>1, <1>2, CursorIs
<1>6. \A from \in TimesAround : \A to \in {from - 3, from, from + 1, from + 4} : WindowAgrees(s, from, to)
  <2> SUFFICES ASSUME NEW from \in TimesAround, NEW to \in {from - 3, from, from + 1, from + 4}
               PROVE WindowAgrees(s, from, to)
    OBVIOUS
  <2>1. from \in Int
    BY <1>2
  <2>2. to \in Int
    BY <2>1
  <2> QED BY <1>1, <2>1, <2>2, WindowOK
<1>7. ASSUME NEW p \in DOMAIN Descriptors, NEW q \in DOMAIN Descriptors
      PROVE  AlignmentIsCausal(Ordered(rings[p]), Ordered(rings[q])) /\ TimesAreRelative(Ordered(rings[p]), Ordered(rings[q]))
  <2> DEFINE a == Ordered(rings[p])
             b == Ordered(rings[q])
  <2>1. a \in Seq(Samples) /\ InOrder(a)
    <3>1. WrittenInTurn(rings[p]) /\ Newest(a, Recorded(p))
      BY DEF SeriesInv
    <3> QED BY <3>1, OrderedIs DEF WrittenInTurn, Newest
  <2>2. b \in Seq(Samples) /\ InOrder(b)
    <3>1. WrittenInTurn(rings[q]) /\ Newest(b, Recorded(q))
      BY DEF SeriesInv
    <3> QED BY <3>1, OrderedIs DEF WrittenInTurn, Newest
  <2> HIDE DEF a, b
  <2>3. AlignmentIsCausal(a, b) /\ TimesAreRelative(a, b)
    BY <2>1, <2>2, AlignmentIs, TimesOK
  <2> QED BY <2>3 DEF a, b
<1> HIDE DEF s
<1> QED BY <1>3, <1>4, <1>5, <1>6, <1>7 DEF SeriesMatchReference, s

-----------------------------------------------------------------------------
(* All of the views.                                                       *)

LEMMA AccountsInvElsewhere == AccountsInv /\ UNCHANGED accountVars => AccountsInv'
BY DEF AccountsInv, accountVars, browser

LEMMA SeriesInvElsewhere == SeriesInv /\ UNCHANGED seriesVars => SeriesInv'
<1> SUFFICES ASSUME SeriesInv, UNCHANGED seriesVars PROVE SeriesInv'
  OBVIOUS
<1>1. rings' = rings /\ received' = received
  BY DEF seriesVars
<1>2. \A id : Recorded(id)' = Recorded(id)
  BY <1>1 DEF Recorded, DecodedFrame
<1>3. SeriesTypes'
  BY <1>1 DEF SeriesInv, SeriesTypes
<1>4. \A id \in DOMAIN Descriptors : WrittenInTurn(rings'[id]) /\ Newest(Ordered(rings'[id]), Recorded(id)')
  BY <1>1, <1>2 DEF SeriesInv
<1> QED BY <1>1, <1>3, <1>4 DEF SeriesInv

LEMMA DownloadsViewKeeps ==
  ASSUME ViewTypeOK, DownloadsNext PROVE ViewTypeOK' /\ UNCHANGED view
<1>1. CASE UNCHANGED viewVars
  BY <1>1 DEF viewVars, ViewTypeOK
<1>2. CASE Unmounted
  BY <1>2 DEF Unmounted, ViewTypeOK
<1>3. ASSUME \/ LogIsGenerated \/ ServerLists \/ ServerRenames \/ RequestFails
             \/ SubmitQuery \/ ChangeQuery \/ PollLogs \/ LogsAnswered
      PROVE  UNCHANGED viewVars
  BY <1>3, Zenon
     DEF LogIsGenerated, ServerLists, ServerRenames, RequestFails, SubmitQuery, ChangeQuery, PollLogs,
         LogsAnswered, Load
<1>4. ASSUME StartDownload \/ EndDownload \/ EditName \/ SaveName \/ RenameAnswered
      PROVE  UNCHANGED viewVars
  BY <1>4, Zenon DEF StartDownload, EndDownload, EditName, SaveName, RenameAnswered
<1>5. DownloadsCleanup => Unmounted
  BY DEF DownloadsCleanup
<1> QED BY <1>1, <1>2, <1>3, <1>4, <1>5, Zenon DEF DownloadsNext

LEMMA AccountsViewKeeps == ASSUME AccountsNext PROVE UNCHANGED viewVars
BY Zenon DEF AccountsNext, LogIn, ReloadTab, SessionBegins, SessionEnds, RoleChanges, ServerStarts, HourPasses

LEMMA CardsViewKeeps == ASSUME CardsNext PROVE UNCHANGED viewVars
BY Zenon DEF CardsNext, SignalsShown, StoreCleared, SampleFaults

LEMMA LapsViewKeeps == ASSUME LapsNext PROVE UNCHANGED viewVars
BY Zenon DEF LapsNext

LEMMA ChartViewKeeps == ASSUME ChartNext PROVE UNCHANGED view
<1>1. CASE UNCHANGED viewVars
  BY <1>1 DEF viewVars
<1>2. ASSUME ~UNCHANGED viewVars
      PROVE  Record(MaxRecorded) \/ Refreshed \/ Unmounted
  BY <1>2, Zenon DEF ChartNext, ChartRefreshed, FlushChart, ChartOpens, ChartUpdates, ChartCleanup
<1> QED BY <1>1, <1>2 DEF Record, Refreshed, Unmounted

LEMMA HistoryViewKeeps == ASSUME HistoryNext PROVE UNCHANGED view
<1>1. CASE UNCHANGED viewVars
  BY <1>1 DEF viewVars
<1>2. ASSUME ~UNCHANGED viewVars
      PROVE  Record(MaxTrailing) \/ Refreshed \/ Unmounted
  BY <1>2, Zenon
     DEF HistoryNext, HistoryRefreshed, SelectSignals, HistoryTimer, HistoryLoaded, MoveCursor,
         SelectRange, HistoryCleanup
<1> QED BY <1>1, <1>2 DEF Record, Refreshed, Unmounted

LEMMA ChartInvStutters == ASSUME ChartInv, UNCHANGED <<viewVars, chartVars>> PROVE ChartInv'
BY DEF chartVars, viewVars, ChartInv, ChartTypeOK, ViewTypeOK, Chart, Coming

LEMMA HistoryInvStutters == ASSUME HistoryInv, UNCHANGED <<viewVars, historyVars>> PROVE HistoryInv'
<1>1. UNCHANGED <<view, mounted, recorded, seen>>
  BY DEF viewVars
<1>2. UNCHANGED <<selection, timer, loading, buffers, cursor, range, sampleRows, windowRows, passed,
                  toggles>>
  BY DEF historyVars
<1>3. ViewTypeOK' /\ HistoryTypeOK'
  BY <1>1, <1>2 DEF HistoryInv, ViewTypeOK, HistoryTypeOK
<1>4. Visible' = Visible
  BY <1>2 DEF Visible
<1>5. LoadedSince(seen)' = LoadedSince(seen)
  BY <1>1, <1>2, <1>4 DEF LoadedSince, SampleRows, WindowRows, Bounded, Version
<1> QED BY <1>1, <1>2, <1>3, <1>4, <1>5 DEF HistoryInv

(* The inductive invariant: that of each view, whichever is followed.      *)
AllViews ==
  /\ ViewTypeOK
  /\ AccountsInv /\ SeriesInv /\ CardsInv /\ LapsInv /\ ChartInv /\ HistoryInv /\ DownloadsInv /\ AdminInv

LEMMA AllViewsInit == Init => AllViews
<1> SUFFICES ASSUME Init PROVE AllViews
  OBVIOUS
<1>1. ViewInit
  BY DEF Init
<1>2. ViewTypeOK
  BY <1>1, ViewAssumption DEF ViewInit, ViewTypeOK, Views
<1>3. AccountsInv /\ SeriesInv /\ CardsInv /\ LapsInv
  BY AccountsInvInit, SeriesInvInit, CardsInvInit, LapsInvInit DEF Init
<1>4. ChartInv /\ HistoryInv /\ DownloadsInv /\ AdminInv
  BY <1>1, ChartInvInit, HistoryInvInit, DownloadsInit1, AdminInvInit DEF Init
<1> QED BY <1>2, <1>3, <1>4 DEF AllViews

(* A step of one view leaves the state of the others alone.                *)
LEMMA Undisturbed ==
  ASSUME AllViews, ViewTypeOK', UNCHANGED view
  PROVE  /\ UNCHANGED accountVars => AccountsInv'
         /\ UNCHANGED seriesVars => SeriesInv'
         /\ UNCHANGED cardVars => CardsInv'
         /\ UNCHANGED lapVars => LapsInv'
         /\ UNCHANGED chartVars /\ view # "chart" => ChartInv'
         /\ UNCHANGED historyVars /\ view # "history" => HistoryInv'
         /\ UNCHANGED downloadsVars => DownloadsInv'
         /\ UNCHANGED adminVars => AdminInv'
<1>1. UNCHANGED accountVars => AccountsInv'
  BY AccountsInvElsewhere DEF AllViews
<1>2. UNCHANGED seriesVars => SeriesInv'
  BY SeriesInvElsewhere DEF AllViews
<1>3. (UNCHANGED cardVars => CardsInv') /\ (UNCHANGED lapVars => LapsInv')
  BY CardsInvElsewhere, LapsInvElsewhere DEF AllViews
<1>4. UNCHANGED chartVars /\ view # "chart" => ChartInv'
  BY ChartInvElsewhere DEF AllViews
<1>5. UNCHANGED historyVars /\ view # "history" => HistoryInv'
  BY HistoryInvElsewhere DEF AllViews
<1>6. (UNCHANGED downloadsVars => DownloadsInv') /\ (UNCHANGED adminVars => AdminInv')
  BY DownloadsInvElsewhere, AdminInvElsewhere DEF AllViews
<1> QED BY <1>1, <1>2, <1>3, <1>4, <1>5, <1>6

LEMMA AllViewsNext == AllViews /\ [Next]_vars => AllViews'
<1> SUFFICES ASSUME AllViews, [Next]_vars PROVE AllViews'
  OBVIOUS
<1>1. ViewTypeOK
  BY DEF AllViews
<1>2. CASE Session
  <2>1. /\ view = "account" /\ AccountsNext
        /\ UNCHANGED <<seriesVars, cardVars, lapVars, chartVars, historyVars, downloadsVars, adminVars>>
    BY <1>2 DEF Session, signalVars
  <2>2. UNCHANGED view /\ ViewTypeOK'
    BY <1>1, <2>1, AccountsViewKeeps, ViewStays DEF viewVars
  <2>3. AccountsInv'
    BY <2>1, AccountsInvNext DEF AllViews
  <2> QED BY <2>1, <2>2, <2>3, Undisturbed DEF AllViews
<1>3. CASE Series
  <2>1. /\ view = "series" /\ SeriesNext
        /\ UNCHANGED <<accountVars, cardVars, lapVars, chartVars, historyVars, downloadsVars, adminVars>>
    BY <1>3 DEF Series, pageVars
  <2>2. UNCHANGED viewVars /\ SeriesInv'
    BY <2>1, FrameIs, SeriesInvNext DEF AllViews, SeriesInv
  <2>3. UNCHANGED view /\ ViewTypeOK'
    BY <1>1, <2>2, ViewStays DEF viewVars
  <2> QED BY <2>1, <2>2, <2>3, Undisturbed DEF AllViews
<1>4. CASE StatusBar
  <2>1. /\ view = "cards" /\ CardsNext
        /\ UNCHANGED <<accountVars, seriesVars, lapVars, chartVars, historyVars, downloadsVars, adminVars>>
    BY <1>4 DEF StatusBar, pageVars
  <2>2. UNCHANGED view /\ ViewTypeOK'
    BY <1>1, <2>1, CardsViewKeeps, ViewStays DEF viewVars
  <2>3. CardsInv'
    BY <2>1, CardsInvNext DEF AllViews
  <2> QED BY <2>1, <2>2, <2>3, Undisturbed DEF AllViews
<1>5. CASE Cockpit
  <2>1. /\ view = "laps" /\ LapsNext
        /\ UNCHANGED <<accountVars, seriesVars, cardVars, chartVars, historyVars, downloadsVars, adminVars>>
    BY <1>5 DEF Cockpit, pageVars
  <2>2. UNCHANGED view /\ ViewTypeOK'
    BY <1>1, <2>1, LapsViewKeeps, ViewStays DEF viewVars
  <2>3. LapsInv'
    BY <2>1, LapsInvNext DEF AllViews
  <2> QED BY <2>1, <2>2, <2>3, Undisturbed DEF AllViews
<1>6. CASE LiveChart
  <2>1. /\ view = "chart" /\ ChartNext
        /\ UNCHANGED <<accountVars, seriesVars, cardVars, lapVars, historyVars, downloadsVars, adminVars>>
    BY <1>6 DEF LiveChart, pageVars
  <2>2. ChartInv'
    BY <2>1, ChartInvNext DEF AllViews
  <2>3. UNCHANGED view /\ ViewTypeOK'
    BY <1>1, <2>1, <2>2, ChartViewKeeps DEF ChartInv
  <2> QED BY <2>1, <2>2, <2>3, Undisturbed DEF AllViews
<1>7. CASE History
  <2>1. /\ view = "history" /\ HistoryNext
        /\ UNCHANGED <<accountVars, seriesVars, cardVars, lapVars, chartVars, downloadsVars, adminVars>>
    BY <1>7 DEF History, pageVars
  <2>2. HistoryInv'
    BY <2>1, HistoryInvNext DEF AllViews
  <2>3. UNCHANGED view /\ ViewTypeOK'
    BY <1>1, <2>1, <2>2, HistoryViewKeeps DEF HistoryInv
  <2> QED BY <2>1, <2>2, <2>3, Undisturbed DEF AllViews
<1>8. CASE Downloads
  <2>1. /\ view = "downloads" /\ DownloadsNext
        /\ UNCHANGED <<accountVars, seriesVars, cardVars, lapVars, chartVars, historyVars, adminVars>>
    BY <1>8 DEF Downloads, signalVars
  <2>2. UNCHANGED view /\ ViewTypeOK' /\ DownloadsInv'
    BY <1>1, <2>1, DownloadsViewKeeps, DownloadsInvNext DEF AllViews
  <2> QED BY <2>1, <2>2, Undisturbed DEF AllViews
<1>9. CASE Admin
  <2>1. /\ view = "admin" /\ AdminNext
        /\ UNCHANGED <<accountVars, seriesVars, cardVars, lapVars, chartVars, historyVars, downloadsVars>>
    BY <1>9 DEF Admin, signalVars
  <2>2. UNCHANGED view /\ ViewTypeOK' /\ AdminInv'
    BY <1>1, <2>1, AdminViewKeeps, AdminInvNext DEF AllViews
  <2> QED BY <2>1, <2>2, Undisturbed DEF AllViews
<1>10. CASE UNCHANGED vars
  <2>1. /\ UNCHANGED <<accountVars, seriesVars, cardVars, lapVars, chartVars, historyVars, downloadsVars,
                       adminVars, viewVars>>
    BY <1>10 DEF vars, signalVars, pageVars
  <2>2. UNCHANGED view /\ ViewTypeOK'
    BY <1>1, <2>1, ViewStays DEF viewVars
  <2>3. ChartInv'
    BY <2>1, ChartInvStutters DEF AllViews
  <2>4. HistoryInv'
    BY <2>1, HistoryInvStutters DEF AllViews
  <2> QED BY <2>1, <2>2, <2>3, <2>4, Undisturbed DEF AllViews
<1> QED BY <1>2, <1>3, <1>4, <1>5, <1>6, <1>7, <1>8, <1>9, <1>10 DEF Next

(* The state of every view is well formed: its requests, timers and rows,  *)
(* the circular buffers' heads, the laps and the figures shown.            *)
THEOREM TypeCorrect == Spec => []TypeOK
<1>1. AllViews => TypeOK
  BY AccountsInvTypes, SeriesTypesOK, CardsInvImplies, LapsInvImplies, DownloadsInvImplies
     DEF AllViews, TypeOK, SeriesInv, ChartInv, HistoryInv, AdminInv
<1> QED BY <1>1, AllViewsInit, AllViewsNext, PTL DEF Spec

(* A uPlot lives no longer than its view, and a chart that has nothing     *)
(* under way shows the last samples (MotecChart.jsx,                       *)
(* HistoryReferenceChart.jsx), however their requests, timers and frames   *)
(* fall out.                                                               *)
THEOREM ChartsAreTrue == Spec => []ChartsTellTheTruth
<1>1. AllViews => ChartsTellTheTruth
  BY ChartInvImplies, HistoryInvImplies DEF AllViews, ChartsTellTheTruth
<1> QED BY <1>1, AllViewsInit, AllViewsNext, PTL DEF Spec

(* The pages show what the server said: permissions, logs, its own state,  *)
(* laps that add up; and the status bar figures that fit the values shown. *)
THEOREM PagesAreTrue == Spec => []PagesTellTheTruth
<1>1. AllViews => AccountsAgree
  BY AccountsShown, AccountsReload DEF AllViews, AccountsAgree
<1>2. AllViews => PagesTellTheTruth
  BY <1>1, CardsInvImplies, LapsInvImplies, DownloadsInvImplies, AdminInvImplies
     DEF AllViews, PagesTellTheTruth
<1> QED BY <1>2, AllViewsInit, AllViewsNext, PTL DEF Spec

(* Of these, the permissions: what a page shows its user is what the       *)
(* server grants the token, whatever the roles become (TopBar.jsx,         *)
(* permissions.js against auth.rs, api/http.rs and api/admin.rs).          *)
THEOREM PermissionsAgree == Spec => []AccountsAgree
<1>1. PagesTellTheTruth => AccountsAgree
  BY DEF PagesTellTheTruth
<1> QED BY <1>1, PagesAreTrue, PTL

(* A signal's circular buffer holds its newest samples, oldest first; the  *)
(* reduction of a series keeps its ends and its order; series drawn        *)
(* together have at each time the value they had; the sample at the cursor *)
(* is the nearest one; the figures of a window are those of its samples;   *)
(* and times are within the duration (circularBuffer.js, lttb.js,          *)
(* chartHelpers.js).                                                       *)
THEOREM SeriesAreTrue == Spec => []SeriesMatchReference
<1>1. AllViews => SeriesMatchReference
  BY ReferenceMatches DEF AllViews
<1> QED BY <1>1, AllViewsInit, AllViewsNext, PTL DEF Spec
===============================================================================
