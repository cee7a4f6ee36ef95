-------------------------- MODULE PureRules_proofs --------------------------
(***************************************************************************)
(* Proofs about the functions of the program, for inputs of any length and  *)
(* size: what an accepted assertion says, that the rules propose what is    *)
(* expected of them, that a scan of a domain repeats no finding, and that   *)
(* every target it names becomes one lead.                                  *)
(*                                                                         *)
(* The functions that recur over a list are reasoned about by an invariant  *)
(* of their recursion (Flattens, Keeps); that a function with such a        *)
(* recursion exists is RecursionExists.                                     *)
(***************************************************************************)
EXTENDS PureRules, Correlator_proofs, FiniteSetTheorems

-----------------------------------------------------------------------------
(* Assertions                                                              *)

\* The signed text splits in one way only into a user id and an expiry of digits:
\* the last colon is the separator, whatever the user id contains.
LEMMA MessageSplits ==
  ASSUME NEW Char, colon \in Char,
         NEW u \in Seq(Char), NEW v \in Seq(Char),
         NEW e \in Seq(Char), IsNumber(e),
         NEW f \in Seq(Char), IsNumber(f),
         Message(u, e) = Message(v, f)
  PROVE  u = v /\ e = f
<1> DEFINE M == Message(u, e)
           m == Len(u) + 1 + Len(e)
<1> <<colon>> \in Seq(Char) /\ Len(<<colon>>) = 1 /\ <<colon>>[1] = colon
  OBVIOUS
<1>1. /\ M \in Seq(Char) /\ Len(M) = m /\ M[Len(u) + 1] = colon
      /\ \A i \in 1 .. Len(u) : M[i] = u[i]
      /\ \A i \in 1 .. Len(e) : M[Len(u) + 1 + i] = e[i]
  BY DEF Message
<1>2. /\ Len(M) = Len(v) + 1 + Len(f) /\ M[Len(v) + 1] = colon
      /\ \A i \in 1 .. Len(v) : M[i] = v[i]
      /\ \A i \in 1 .. Len(f) : M[Len(v) + 1 + i] = f[i]
  <2>1. /\ Message(v, f) \in Seq(Char) /\ Len(Message(v, f)) = Len(v) + 1 + Len(f)
        /\ Message(v, f)[Len(v) + 1] = colon
        /\ \A i \in 1 .. Len(v) : Message(v, f)[i] = v[i]
        /\ \A i \in 1 .. Len(f) : Message(v, f)[Len(v) + 1 + i] = f[i]
    BY DEF Message
  <2> QED  BY <2>1
<1>3. \A i \in 1 .. Len(e) : e[i] # colon
  BY CharacterAssumption DEF Digits, IsNumber
<1>4. \A i \in 1 .. Len(f) : f[i] # colon
  BY CharacterAssumption DEF Digits, IsNumber
<1> HIDE DEF M, m
<1>5. Len(u) = Len(v)
  <2> Len(u) \in Nat /\ Len(v) \in Nat /\ Len(e) \in Nat /\ Len(f) \in Nat
    OBVIOUS
  <2>1. CASE Len(u) < Len(v)
    <3> DEFINE i == Len(v) - Len(u)
    <3>1. i \in 1 .. Len(e) /\ Len(u) + 1 + i = Len(v) + 1
      BY <1>1, <1>2, <2>1 DEF m
    <3>2. M[Len(u) + 1 + i] = e[i]
      BY <3>1, <1>1
    <3> QED  BY <3>1, <3>2, <1>2, <1>3
  <2>2. CASE Len(v) < Len(u)
    <3> DEFINE i == Len(u) - Len(v)
    <3>1. i \in 1 .. Len(f) /\ Len(v) + 1 + i = Len(u) + 1
      BY <1>1, <1>2, <2>2 DEF m
    <3>2. M[Len(v) + 1 + i] = f[i]
      BY <3>1, <1>2
    <3> QED  BY <3>1, <3>2, <1>1, <1>4
  <2> QED  BY <2>1, <2>2
<1>6. u = v
  BY <1>1, <1>2, <1>5, SeqEqual
<1>7. Len(e) = Len(f)
  BY <1>1, <1>2, <1>5 DEF m
<1>8. e = f
  BY <1>1, <1>2, <1>5, <1>7, SeqEqual
<1> QED  BY <1>6, <1>8

\* A signature is accepted for the user and the expiry it was made for, or not at
\* all: what is accepted with it is the issued assertion itself.
THEOREM AssertionBinding ==
  ASSUME NEW Char, colon \in Char, NEW secret, NEW now \in Int,
         NEW user \in Seq(Char), NEW exp \in Seq(Char), IsNumber(exp),
         NEW a \in [user : Seq(Char), exp : Seq(Char), sig : {Mac(secret, m) : m \in Seq(Char)}]
  PROVE  Binding(Issued(user, exp, secret), a, secret, now)
<1> DEFINE issued == Issued(user, exp, secret)
<1> SUFFICES ASSUME a.sig = issued.sig, Accepts(a, secret, now)
             PROVE  a = issued
  BY DEF Binding
<1>1. IsNumber(a.exp) /\ a.sig = Mac(secret, Message(a.user, a.exp))
  BY DEF Accepts, Outcome
<1>2. Message(a.user, a.exp) = Message(user, exp)
  BY <1>1 DEF Issued, Mac
<1>3. a.user = user /\ a.exp = exp
  BY <1>1, <1>2, MessageSplits
<1> QED  BY <1>3 DEF Issued

\* An assertion issued to expire TTL after some time is accepted by every clock that
\* is off by at most Skew until it expires, and never outside that window.
THEOREM AssertionLifetime ==
  ASSUME NEW secret, secret # None, NEW now \in Int, NEW at \in Int,
         NEW user, user # None, NEW exp, IsNumber(exp),
         NotAscii # Mac(secret, Message(user, exp))
  PROVE  LivesItsTime(Issued(user, exp, secret), at, secret, now)
<1> DEFINE issued == Issued(user, exp, secret)
<1> SUFFICES ASSUME NumberOf(exp) = at + TTL
             PROVE  Accepts(issued, secret, now) <=> now \in at - Skew .. at + TTL + Skew
  BY DEF LivesItsTime, Issued
<1>1. None \notin {issued.user, issued.exp, issued.sig}
  BY DEF Issued, Mac, None, IsNumber
<1>2. Accepts(issued, secret, now) <=> InWindow(NumberOf(exp), now)
  BY <1>1 DEF Accepts, Outcome, Issued
<1> QED  BY <1>2, WindowAssumption DEF InWindow

\* Nothing but the signature it was issued with makes an assertion acceptable.
LEMMA NoSignatureNoAcceptance ==
  ASSUME NEW secret, NEW now, NEW a, a.sig \in {None, NotAscii}
  PROVE  ~Accepts(a, secret, now)
BY DEF Accepts, Outcome

\* What passes both gates has the key that is configured; it passes without a user
\* only if it has none of the headers and the deployment allows that.
LEMMA GatePasses ==
  \A key, provided, a, secret, now : \A degraded \in BOOLEAN :
    LET c == Gate(key, provided, a, secret, now, degraded) IN
    c.outcome = "accepted" =>
      /\ key # None /\ provided = key
      /\ c.user = None => degraded /\ {a.user, a.exp, a.sig} = {None}
<1> TAKE key, provided, a, secret, now
<1> TAKE degraded \in BOOLEAN
<1> DEFINE c == Gate(key, provided, a, secret, now, degraded)
<1> SUFFICES ASSUME c.outcome = "accepted"
             PROVE  /\ key # None /\ provided = key
                    /\ c.user = None => degraded /\ {a.user, a.exp, a.sig} = {None}
  OBVIOUS
<1>1. ApiKeyOutcome(key, provided) = "accepted"
  BY DEF Gate
<1>2. key # None /\ provided = key
  BY <1>1 DEF ApiKeyOutcome
<1>3. c = CurrentUser(a, secret, now, degraded)
  BY <1>1 DEF Gate
<1> HIDE DEF c
<1>4. CASE a.user = None /\ a.exp = None /\ a.sig = None
  BY <1>2, <1>3, <1>4 DEF CurrentUser
<1>5. CASE ~(a.user = None /\ a.exp = None /\ a.sig = None)
  <2>1. Outcome(a, secret, now) = "accepted"
    BY <1>3, <1>5 DEF CurrentUser
  <2>2. a.user # None
    BY <2>1 DEF Outcome
  <2>3. c.user # None
    BY <1>3, <1>5, <2>1, <2>2 DEF CurrentUser
  <2> QED  BY <1>2, <2>3
<1> QED  BY <1>4, <1>5

-----------------------------------------------------------------------------
(* Recursion and induction over an interval, in terms of sets               *)

\* A set that holds 0 and with every number the next one holds the interval.
LEMMA IntervalInduction ==
  ASSUME NEW n \in Nat, NEW T, 0 \in T, \A i \in 1 .. n : i - 1 \in T => i \in T
  PROVE  \A i \in 0 .. n : i \in T
<1> DEFINE Left == {i \in 0 .. n : i \notin T}
<1> SUFFICES ASSUME Left # {}
             PROVE  FALSE
  OBVIOUS
<1>1. Left \subseteq Nat
  OBVIOUS
<1> HIDE DEF Left
<1>2. PICK i \in Left : \A j \in Left : i <= j
  BY <1>1, LeastNatural
<1>3. i \in 1 .. n /\ i - 1 \in 0 .. n /\ i \notin T
  BY <1>2 DEF Left
<1>4. i - 1 \notin Left
  BY <1>1, <1>2, <1>3
<1> QED  BY <1>3, <1>4 DEF Left

Steps(n, D) == [1 .. n -> [D -> D]]
Recursion(f, n, D, base, step) ==
  f \in [0 .. n -> D] /\ f[0] = base /\ \A i \in 1 .. n : f[i] = step[i][f[i - 1]]

\* A step and a value to begin with define a function on an interval.
LEMMA RecursionExists ==
  ASSUME NEW n \in Nat, NEW D, NEW base \in D, NEW step \in Steps(n, D)
  PROVE  \E f : Recursion(f, n, D, base, step)
<1> USE DEF Steps
<1> DEFINE Follows(f, m) == f[0] = base /\ \A i \in 1 .. m : f[i] = step[i][f[i - 1]]
           T == {m \in 0 .. n : \E f \in [0 .. m -> D] : Follows(f, m)}
<1>1. 0 \in T
  <2> DEFINE f == [i \in 0 .. 0 |-> base]
  <2>1. f \in [0 .. 0 -> D] /\ Follows(f, 0)
    OBVIOUS
  <2> HIDE DEF f
  <2>2. 0 \in 0 .. n /\ \E h \in [0 .. 0 -> D] : Follows(h, 0)
    BY <2>1
  <2> HIDE DEF Follows
  <2> QED  BY <2>2
<1>2. ASSUME NEW m \in 1 .. n, m - 1 \in T
      PROVE  m \in T
  <2>1. PICK f \in [0 .. m - 1 -> D] : Follows(f, m - 1)
    BY <1>2
  <2> DEFINE g == [i \in 0 .. m |-> IF i = m THEN step[m][f[m - 1]] ELSE f[i]]
  <2>2. /\ m - 1 \in 0 .. m - 1 /\ f[m - 1] \in D
        /\ m \in 1 .. n
    BY <2>1
  <2>3. step[m][f[m - 1]] \in D
    BY <2>2
  <2>4. g \in [0 .. m -> D]
    BY <2>3
  <2>5. \A i \in 0 .. m - 1 : g[i] = f[i]
    OBVIOUS
  <2>6. g[m] = step[m][g[m - 1]]
    BY <2>2, <2>5
  <2>7. ASSUME NEW i \in 1 .. m - 1
        PROVE  g[i] = step[i][g[i - 1]]
    <3>1. i \in 0 .. m - 1 /\ i - 1 \in 0 .. m - 1
      OBVIOUS
    <3>2. f[i] = step[i][f[i - 1]]
      BY <2>1
    <3> HIDE DEF g
    <3> QED  BY <3>1, <3>2, <2>5
  <2>8. g[0] = base
    BY <2>1
  <2> HIDE DEF g
  <2>9. \A i \in 1 .. m : g[i] = step[i][g[i - 1]]
    <3>1. \A i \in 1 .. m : i = m \/ i \in 1 .. m - 1
      OBVIOUS
    <3> QED  BY <3>1, <2>6, <2>7
  <2> QED  BY <2>4, <2>8, <2>9
<1> HIDE DEF T
<1>3. n \in T
  <2>1. \A m \in 1 .. n : m - 1 \in T => m \in T
    BY <1>2
  <2>2. \A m \in 0 .. n : m \in T
    BY <1>1, <2>1, IntervalInduction
  <2> QED  BY <2>2
<1>4. PICK f \in [0 .. n -> D] : Follows(f, n)
  BY <1>3 DEF T
<1>5. Recursion(f, n, D, base, step)
  BY <1>4 DEF Recursion
<1> QED  BY <1>5

-----------------------------------------------------------------------------
(* Flattened lists                                                         *)

\* The first n of some lists, one after the other.
Flattens(F, seqs, n) ==
  /\ \A k \in DOMAIN F : \E i \in 1 .. n : \E j \in DOMAIN seqs[i] : F[k] = seqs[i][j]
  /\ \A i \in 1 .. n : \A j \in DOMAIN seqs[i] : \E k \in DOMAIN F : F[k] = seqs[i][j]
  /\ \A k, m \in DOMAIN F : k < m =>
       \E i1, i2 \in 1 .. n : \E j1 \in DOMAIN seqs[i1], j2 \in DOMAIN seqs[i2] :
         /\ F[k] = seqs[i1][j1] /\ F[m] = seqs[i2][j2]
         /\ i1 < i2 \/ (i1 = i2 /\ j1 < j2)

LEMMA ConcatAt ==
  ASSUME NEW S, NEW s \in Seq(S), NEW t \in Seq(S)
  PROVE  /\ s \o t \in Seq(S) /\ Len(s) \in Nat /\ Len(t) \in Nat
         /\ DOMAIN s = 1 .. Len(s) /\ DOMAIN t = 1 .. Len(t)
         /\ DOMAIN (s \o t) = 1 .. Len(s) + Len(t)
         /\ \A k \in 1 .. Len(s) : (s \o t)[k] = s[k]
         /\ \A k \in 1 .. Len(t) : (s \o t)[Len(s) + k] = t[k]
         /\ \A k \in 1 .. Len(s) + Len(t) :
              k \in 1 .. Len(s) \/ (k - Len(s) \in 1 .. Len(t) /\ (s \o t)[k] = t[k - Len(s)])
OBVIOUS

LEMMA FlattenStep ==
  ASSUME NEW S, NEW seqs \in Seq(Seq(S)), NEW n \in Nat, n + 1 \in DOMAIN seqs,
         NEW F \in Seq(S), Flattens(F, seqs, n)
  PROVE  Flattens(F \o seqs[n + 1], seqs, n + 1)
<1> DEFINE t == seqs[n + 1]
           G == F \o t
<1>1. t \in Seq(S)
  OBVIOUS
<1> HIDE DEF t
<1>2. /\ Len(F) \in Nat /\ Len(t) \in Nat
      /\ DOMAIN F = 1 .. Len(F) /\ DOMAIN t = 1 .. Len(t)
      /\ DOMAIN G = 1 .. Len(F) + Len(t)
      /\ \A k \in DOMAIN F : G[k] = F[k]
      /\ \A k \in DOMAIN t : G[Len(F) + k] = t[k]
      /\ \A k \in DOMAIN G : k \in DOMAIN F \/ (k - Len(F) \in DOMAIN t /\ G[k] = t[k - Len(F)])
  BY <1>1, ConcatAt
<1> HIDE DEF G
<1>3. ASSUME NEW k \in DOMAIN G
      PROVE  \E i \in 1 .. n + 1 : \E j \in DOMAIN seqs[i] : G[k] = seqs[i][j]
  <2>1. CASE k \in DOMAIN F
    <3>1. PICK i \in 1 .. n : \E j \in DOMAIN seqs[i] : F[k] = seqs[i][j]
      BY <2>1 DEF Flattens
    <3>2. i \in 1 .. n + 1
      OBVIOUS
    <3> QED  BY <1>2, <2>1, <3>1, <3>2
  <2>2. CASE k \notin DOMAIN F
    <3>1. k - Len(F) \in DOMAIN seqs[n + 1] /\ G[k] = seqs[n + 1][k - Len(F)]
      BY <1>2, <2>2 DEF t
    <3> QED  BY <3>1
  <2> QED  BY <2>1, <2>2
<1>4. ASSUME NEW i \in 1 .. n + 1, NEW j \in DOMAIN seqs[i]
      PROVE  \E k \in DOMAIN G : G[k] = seqs[i][j]
  <2>1. CASE i = n + 1
    <3>1. j \in DOMAIN t
      BY <2>1 DEF t
    <3>2. Len(F) + j \in DOMAIN G /\ G[Len(F) + j] = t[j]
      BY <1>2, <3>1
    <3> QED  BY <2>1, <3>2 DEF t
  <2>2. CASE i \in 1 .. n
    <3>1. PICK k \in DOMAIN F : F[k] = seqs[i][j]
      BY <2>2 DEF Flattens
    <3> QED  BY <1>2, <3>1
  <2> QED  BY <2>1, <2>2
<1>5. ASSUME NEW k \in DOMAIN G, NEW m \in DOMAIN G, k < m
      PROVE  \E i1, i2 \in 1 .. n + 1 : \E j1 \in DOMAIN seqs[i1], j2 \in DOMAIN seqs[i2] :
               /\ G[k] = seqs[i1][j1] /\ G[m] = seqs[i2][j2]
               /\ i1 < i2 \/ (i1 = i2 /\ j1 < j2)
  <2>1. CASE m \in DOMAIN F
    <3>1. k \in DOMAIN F
      BY <1>2, <1>5, <2>1
    <3>2. \E i1, i2 \in 1 .. n : \E j1 \in DOMAIN seqs[i1], j2 \in DOMAIN seqs[i2] :
               /\ F[k] = seqs[i1][j1] /\ F[m] = seqs[i2][j2]
               /\ i1 < i2 \/ (i1 = i2 /\ j1 < j2)
      <4>1. \A a, b \in DOMAIN F : a < b =>
              \E i1, i2 \in 1 .. n : \E j1 \in DOMAIN seqs[i1], j2 \in DOMAIN seqs[i2] :
                /\ F[a] = seqs[i1][j1] /\ F[b] = seqs[i2][j2]
                /\ i1 < i2 \/ (i1 = i2 /\ j1 < j2)
        BY Zenon DEF Flattens
      <4> QED  BY <1>5, <2>1, <3>1, <4>1, Zenon
    <3>3. \A i \in 1 .. n : i \in 1 .. n + 1
      OBVIOUS
    <3>4. G[k] = F[k] /\ G[m] = F[m]
      BY <1>2, <2>1, <3>1
    <3> QED  BY <3>2, <3>3, <3>4, Zenon
  <2>2. CASE m \notin DOMAIN F /\ k \in DOMAIN F
    <3>1. PICK i1 \in 1 .. n : \E j1 \in DOMAIN seqs[i1] : F[k] = seqs[i1][j1]
      BY <2>2 DEF Flattens
    <3>2. m - Len(F) \in DOMAIN seqs[n + 1] /\ G[m] = seqs[n + 1][m - Len(F)]
      BY <1>2, <2>2 DEF t
    <3>3. n + 1 \in 1 .. n + 1 /\ i1 < n + 1 /\ i1 \in 1 .. n + 1
      OBVIOUS
    <3> QED  BY <1>2, <2>2, <3>1, <3>2, <3>3
  <2>3. CASE m \notin DOMAIN F /\ k \notin DOMAIN F
    <3>1. /\ k - Len(F) \in DOMAIN seqs[n + 1] /\ G[k] = seqs[n + 1][k - Len(F)]
          /\ m - Len(F) \in DOMAIN seqs[n + 1] /\ G[m] = seqs[n + 1][m - Len(F)]
      BY <1>2, <2>3 DEF t
    <3>2. n + 1 \in 1 .. n + 1 /\ k - Len(F) < m - Len(F)
      BY <1>2, <1>5
    <3> QED  BY <3>1, <3>2
  <2> QED  BY <1>2, <1>5, <2>1, <2>2, <2>3
<1> QED  BY <1>3, <1>4, <1>5 DEF Flattens, G, t

\* FlattenSeq puts lists one after the other.
LEMMA Flattened ==
  ASSUME NEW S, NEW seqs \in Seq(Seq(S))
  PROVE  FlattenSeq(seqs) \in Seq(S) /\ Flattens(FlattenSeq(seqs), seqs, Len(seqs))
<1> DEFINE n == Len(seqs)
<1>1. n \in Nat /\ DOMAIN seqs = 1 .. n /\ \A i \in 1 .. n : seqs[i] \in Seq(S)
  OBVIOUS
<1> HIDE DEF n
<1>2. CASE n = 0
  <2>1. FlattenSeq(seqs) = seqs
    BY <1>2 DEF FlattenSeq, n
  <2>2. seqs = <<>> /\ seqs \in Seq(S)
    BY <1>1, <1>2 DEF n
  <2> QED  BY <1>1, <1>2, <2>1, <2>2 DEF Flattens, n
<1>3. CASE n # 0
  <2> DEFINE D == Seq(S)
             step == [i \in 1 .. n |-> [x \in D |-> x \o seqs[i]]]
  <2>1. <<>> \in D /\ step \in Steps(n, D)
    <3>1. \A i \in 1 .. n : \A x \in D : x \o seqs[i] \in D
      BY <1>1
    <3> QED  BY <3>1 DEF Steps
  <2>2. \A i \in 1 .. n : \A x \in D : step[i][x] = x \o seqs[i]
    OBVIOUS
  <2> HIDE DEF D, step
  <2>3. PICK f : f \in [0 .. n -> D] /\ f[0] = <<>> /\ \A i \in 1 .. n : f[i] = step[i][f[i - 1]]
    <3>1. \E f : Recursion(f, n, D, <<>>, step)
      BY <1>1, <2>1, RecursionExists
    <3> QED  BY <3>1 DEF Recursion
  <2>4. \A i \in 1 .. n : f[i] = f[i - 1] \o seqs[i]
    <3> TAKE i \in 1 .. n
    <3>1. i - 1 \in 0 .. n
      BY <1>1
    <3>2. f[i - 1] \in D /\ f[i] = step[i][f[i - 1]]
      BY <2>3, <3>1
    <3> QED  BY <2>2, <3>2
  <2>5. f[1] = seqs[1]
    <3>1. f[1] = <<>> \o seqs[1] /\ seqs[1] \in Seq(S)
      <4>1. 1 \in 1 .. n /\ 1 - 1 = 0
        BY <1>1, <1>3
      <4>2. f[1] = f[1 - 1] \o seqs[1]
        BY <2>4, <4>1
      <4> QED  BY <1>1, <2>3, <4>1, <4>2
    <3> QED  BY <3>1, ConcatEmptySeq
  <2> DEFINE P(g) == g = [i \in 1 .. Len(seqs) |->
                            IF i = 1 THEN seqs[i] ELSE g[i - 1] \o seqs[i]]
             flatten == CHOOSE g : P(g)
  <2>6. P([i \in 1 .. n |-> f[i]])
    <3> DEFINE h == [i \in 1 .. n |-> f[i]]
    <3>1. \A i \in 1 .. n : h[i] = IF i = 1 THEN seqs[i] ELSE h[i - 1] \o seqs[i]
      <4> TAKE i \in 1 .. n
      <4>1. CASE i = 1
        BY <2>5, <4>1
      <4>2. CASE i # 1
        <5>1. i - 1 \in 1 .. n
          BY <1>1, <4>2
        <5> QED  BY <2>4, <4>2, <5>1
      <4> QED  BY <4>1, <4>2
    <3>2. h = [i \in 1 .. n |-> h[i]]
      OBVIOUS
    <3> HIDE DEF h
    <3>3. h = [i \in 1 .. n |-> IF i = 1 THEN seqs[i] ELSE h[i - 1] \o seqs[i]]
      BY <3>1, <3>2
    <3> QED  BY <3>3 DEF n, h
  <2>7. P(flatten)
    <3> HIDE DEF P
    <3>1. \E g : P(g)
      BY <2>6
    <3> QED  BY <3>1
  <2>8. FlattenSeq(seqs) = flatten[n]
    BY <1>3 DEF FlattenSeq, n
  <2> HIDE DEF flatten
  <2>9. \A i \in 1 .. n : flatten[i] = IF i = 1 THEN seqs[i] ELSE flatten[i - 1] \o seqs[i]
    BY <2>7 DEF n
  <2> HIDE DEF P
  <2> DEFINE T == {m \in 0 .. n : m = 0 \/ (flatten[m] \in Seq(S) /\ Flattens(flatten[m], seqs, m))}
  <2>10. 0 \in T
    BY <1>1
  <2>11. ASSUME NEW m \in 1 .. n, m - 1 \in T
         PROVE  m \in T
    <3>1. CASE m = 1
      <4>1. Flattens(<<>>, seqs, 0) /\ <<>> \in Seq(S)
        BY DEF Flattens
      <4>2. Flattens(<<>> \o seqs[1], seqs, 0 + 1)
        <5>1. 0 \in Nat /\ 0 + 1 \in DOMAIN seqs /\ 0 + 1 = 1
          BY <1>1, <3>1
        <5>2. Flattens(<<>> \o seqs[0 + 1], seqs, 0 + 1)
          BY <4>1, <5>1, FlattenStep
        <5> QED  BY <5>1, <5>2
      <4>3. <<>> \o seqs[1] = seqs[1] /\ seqs[1] \in Seq(S) /\ flatten[1] = seqs[1]
        BY <1>1, <2>9, <3>1, ConcatEmptySeq
      <4> QED  BY <3>1, <4>2, <4>3
    <3>2. CASE m # 1
      <4>1. m - 1 # 0 /\ m - 1 \in Nat /\ (m - 1) + 1 = m
        BY <1>1, <3>2
      <4>2. flatten[m - 1] \in Seq(S) /\ Flattens(flatten[m - 1], seqs, m - 1)
        BY <2>11, <4>1
      <4>3. flatten[m] = flatten[m - 1] \o seqs[m] /\ seqs[m] \in Seq(S)
        BY <1>1, <2>9, <3>2
      <4>4. flatten[m] \in Seq(S)
        BY <4>2, <4>3
      <4>5. Flattens(flatten[m - 1] \o seqs[(m - 1) + 1], seqs, (m - 1) + 1)
        BY <1>1, <4>1, <4>2, FlattenStep
      <4>6. Flattens(flatten[m], seqs, m)
        BY <4>1, <4>3, <4>5
      <4> QED  BY <4>4, <4>6
    <3> QED  BY <3>1, <3>2
  <2> HIDE DEF T
  <2>12. \A m \in 0 .. n : m \in T
    <3>1. \A m \in 1 .. n : m - 1 \in T => m \in T
      BY <2>11
    <3> QED  BY <1>1, <2>10, <3>1, IntervalInduction
  <2>13. n \in T
    BY <1>1, <2>12
  <2> QED  BY <1>3, <2>8, <2>13 DEF T, n
<1> QED  BY <1>2, <1>3 DEF n

-----------------------------------------------------------------------------
(* Leads                                                                   *)

\* Of the first n leads those that are the first to their target, in their order.
Keeps(kept, leads, n) ==
  /\ \A k \in DOMAIN kept : \E a \in 1 .. n :
       kept[k] = leads[a] /\ \A b \in 1 .. a - 1 : leads[b].target # leads[a].target
  /\ \A a \in 1 .. n : Known(kept, leads[a])
  /\ \A k, m \in DOMAIN kept : k < m =>
       \E a, b \in 1 .. n : a < b /\ kept[k] = leads[a] /\ kept[m] = leads[b]

LEMMA KeepStep ==
  ASSUME NEW L, NEW leads \in Seq(L), NEW n \in Nat, n + 1 \in DOMAIN leads,
         NEW kept \in Seq(L), Keeps(kept, leads, n)
  PROVE  Keeps(IF Known(kept, leads[n + 1]) THEN kept ELSE Append(kept, leads[n + 1]), leads, n + 1)
<1>1. \A a \in 1 .. n + 1 : a = n + 1 \/ a \in 1 .. n
  OBVIOUS
<1>2. \A a \in 1 .. n : a \in 1 .. n + 1
  OBVIOUS
<1>3. CASE Known(kept, leads[n + 1])
  <2>1. \A k \in DOMAIN kept : \E a \in 1 .. n + 1 :
          kept[k] = leads[a] /\ \A b \in 1 .. a - 1 : leads[b].target # leads[a].target
    BY <1>2, Zenon DEF Keeps
  <2>2. \A a \in 1 .. n + 1 : Known(kept, leads[a])
    BY <1>1, <1>3, Zenon DEF Keeps
  <2>3. \A k, m \in DOMAIN kept : k < m =>
          \E a, b \in 1 .. n + 1 : a < b /\ kept[k] = leads[a] /\ kept[m] = leads[b]
    <3>1. \A k, m \in DOMAIN kept : k < m =>
            \E a, b \in 1 .. n : a < b /\ kept[k] = leads[a] /\ kept[m] = leads[b]
      BY Zenon DEF Keeps
    <3> QED  BY <1>2, <3>1
  <2>4. Keeps(kept, leads, n + 1)
    BY <2>1, <2>2, <2>3, Zenon DEF Keeps
  <2> QED  BY <1>3, <2>4
<1>4. CASE ~Known(kept, leads[n + 1])
  <2> DEFINE x == leads[n + 1]
             more == Append(kept, x)
             l == Len(kept)
  <2>1. /\ l \in Nat /\ DOMAIN kept = 1 .. l /\ DOMAIN more = 1 .. l + 1
        /\ \A k \in DOMAIN kept : more[k] = kept[k]
        /\ more[l + 1] = x
        /\ \A k \in DOMAIN more : k \in DOMAIN kept \/ k = l + 1
    OBVIOUS
  <2> HIDE DEF x, more, l
  <2>2. \A b \in 1 .. n : leads[b].target # x.target
    <3> SUFFICES ASSUME NEW b \in 1 .. n, leads[b].target = x.target
                 PROVE  FALSE
      OBVIOUS
    <3>1. Known(kept, leads[b])
      BY DEF Keeps
    <3> QED  BY <1>4, <3>1 DEF Known, x
  <2>3. \A k \in DOMAIN more : \E a \in 1 .. n + 1 :
          more[k] = leads[a] /\ \A b \in 1 .. a - 1 : leads[b].target # leads[a].target
    <3> TAKE k \in DOMAIN more
    <3>1. CASE k \in DOMAIN kept
      <4>1. \E a \in 1 .. n :
              kept[k] = leads[a] /\ \A b \in 1 .. a - 1 : leads[b].target # leads[a].target
        BY <3>1, Zenon DEF Keeps
      <4>2. more[k] = kept[k]
        BY <2>1, <3>1
      <4> QED  BY <1>2, <4>1, <4>2, Zenon
    <3>2. CASE k = l + 1
      <4>1. n + 1 \in 1 .. n + 1 /\ (n + 1) - 1 = n /\ more[k] = leads[n + 1]
        BY <2>1, <3>2 DEF x
      <4>2. \A b \in 1 .. (n + 1) - 1 : leads[b].target # leads[n + 1].target
        BY <2>2, <4>1 DEF x
      <4> QED  BY <4>1, <4>2
    <3> QED  BY <2>1, <3>1, <3>2
  <2>4. \A a \in 1 .. n + 1 : Known(more, leads[a])
    <3> TAKE a \in 1 .. n + 1
    <3>1. CASE a = n + 1
      BY <2>1, <3>1 DEF Known, x
    <3>2. CASE a \in 1 .. n
      <4>1. PICK k \in DOMAIN kept : kept[k].target = leads[a].target
        BY <3>2 DEF Keeps, Known
      <4> QED  BY <2>1, <4>1 DEF Known
    <3> QED  BY <1>1, <3>1, <3>2
  <2>5. \A k, m \in DOMAIN more : k < m =>
          \E a, b \in 1 .. n + 1 : a < b /\ more[k] = leads[a] /\ more[m] = leads[b]
    <3> SUFFICES ASSUME NEW k \in DOMAIN more, NEW m \in DOMAIN more, k < m
                 PROVE  \E a, b \in 1 .. n + 1 : a < b /\ more[k] = leads[a] /\ more[m] = leads[b]
      OBVIOUS
    <3>1. k \in DOMAIN kept /\ more[k] = kept[k]
      BY <2>1
    <3>2. CASE m \in DOMAIN kept
      <4>1. \A c, d \in DOMAIN kept : c < d =>
              \E a, b \in 1 .. n : a < b /\ kept[c] = leads[a] /\ kept[d] = leads[b]
        BY Zenon DEF Keeps
      <4>2. \E a, b \in 1 .. n : a < b /\ kept[k] = leads[a] /\ kept[m] = leads[b]
        BY <3>1, <3>2, <4>1, Zenon
      <4>3. more[m] = kept[m]
        BY <2>1, <3>2
      <4> QED  BY <1>2, <3>1, <4>2, <4>3, Zenon
    <3>3. CASE m = l + 1
      <4>1. PICK a \in 1 .. n : kept[k] = leads[a]
        BY <3>1 DEF Keeps
      <4>2. a < n + 1 /\ n + 1 \in 1 .. n + 1 /\ a \in 1 .. n + 1 /\ more[m] = leads[n + 1]
        BY <2>1, <3>3 DEF x
      <4> QED  BY <3>1, <4>1, <4>2
    <3> QED  BY <2>1, <3>2, <3>3
  <2>6. Keeps(more, leads, n + 1)
    BY <2>3, <2>4, <2>5, Zenon DEF Keeps
  <2> QED  BY <1>4, <2>6 DEF more, x
<1> QED  BY <1>3, <1>4

\* _deduplicate_leads keeps the first lead to each target, in their order.
LEMMA FirstLeadsKept ==
  ASSUME NEW L, NEW leads \in Seq(L)
  PROVE  Deduplicated(leads) \in Seq(L) /\ Keeps(Deduplicated(leads), leads, Len(leads))
<1> DEFINE n == Len(leads)
           D == Seq(L)
           Next1(x, i) == IF Known(x, leads[i]) THEN x ELSE Append(x, leads[i])
           step == [i \in 1 .. n |-> [x \in D |-> Next1(x, i)]]
           P(g) == g = [i \in 0 .. Len(leads) |-> IF i = 0 THEN <<>> ELSE Next1(g[i - 1], i)]
           kept == CHOOSE g : P(g)
<1>1. n \in Nat /\ DOMAIN leads = 1 .. n /\ \A i \in 1 .. n : leads[i] \in L
  OBVIOUS
<1>2. <<>> \in D /\ step \in Steps(n, D) /\ \A i \in 1 .. n : \A x \in D : step[i][x] = Next1(x, i)
  <2>1. \A i \in 1 .. n : \A x \in D : Next1(x, i) \in D
    BY <1>1
  <2> HIDE DEF Next1
  <2> QED  BY <2>1 DEF Steps
<1>3. Deduplicated(leads) = kept[n]
  BY DEF Deduplicated
<1> HIDE DEF n, D, Next1, step
<1>4. PICK f : f \in [0 .. n -> D] /\ f[0] = <<>> /\ \A i \in 1 .. n : f[i] = step[i][f[i - 1]]
  <2>1. \E f : Recursion(f, n, D, <<>>, step)
    BY <1>1, <1>2, RecursionExists
  <2> QED  BY <2>1 DEF Recursion
<1>5. \A i \in 1 .. n : f[i] = Next1(f[i - 1], i)
  <2> TAKE i \in 1 .. n
  <2>1. i - 1 \in 0 .. n
    BY <1>1
  <2> QED  BY <1>2, <1>4, <2>1
<1>6. P(f)
  <2>1. f = [i \in 0 .. n |-> f[i]]
    BY <1>4
  <2>2. \A i \in 0 .. n : f[i] = IF i = 0 THEN <<>> ELSE Next1(f[i - 1], i)
    <3>1. \A i \in 0 .. n : i # 0 => i \in 1 .. n
      BY <1>1
    <3> QED  BY <1>4, <1>5, <3>1, Zenon
  <2>3. f = [i \in 0 .. n |-> IF i = 0 THEN <<>> ELSE Next1(f[i - 1], i)]
    BY <2>1, <2>2, Zenon
  <2> QED  BY <2>3 DEF n
<1>7. P(kept)
  <2> HIDE DEF P
  <2>1. \E g : P(g)
    BY <1>6
  <2> QED  BY <2>1
<1> HIDE DEF kept
<1>8. kept[0] = <<>> /\ \A i \in 1 .. n : kept[i] = Next1(kept[i - 1], i)
  <2>1. kept = [i \in 0 .. n |-> IF i = 0 THEN <<>> ELSE Next1(kept[i - 1], i)]
    BY <1>7 DEF n
  <2>2. \A i \in 0 .. n : kept[i] = IF i = 0 THEN <<>> ELSE Next1(kept[i - 1], i)
    BY <2>1, Zenon
  <2>3. 0 \in 0 .. n /\ \A i \in 1 .. n : i \in 0 .. n /\ i # 0
    BY <1>1
  <2> QED  BY <2>2, <2>3, Zenon
<1> HIDE DEF P
<1> DEFINE T == {m \in 0 .. n : kept[m] \in Seq(L) /\ Keeps(kept[m], leads, m)}
<1>9. 0 \in T
  <2>1. <<>> \in Seq(L) /\ Keeps(<<>>, leads, 0)
    BY DEF Keeps
  <2>2. kept[0] \in Seq(L) /\ Keeps(kept[0], leads, 0)
    BY <1>8, <2>1, Zenon
  <2>3. 0 \in 0 .. n
    BY <1>1
  <2> QED  BY <2>2, <2>3, Zenon
<1>10. ASSUME NEW m \in 1 .. n, m - 1 \in T
       PROVE  m \in T
  <2>1. m - 1 \in Nat /\ (m - 1) + 1 = m /\ m \in 0 .. n /\ leads[m] \in L
    BY <1>1
  <2>2. kept[m - 1] \in Seq(L) /\ Keeps(kept[m - 1], leads, m - 1)
    BY <1>10
  <2>3. Keeps(IF Known(kept[m - 1], leads[(m - 1) + 1]) THEN kept[m - 1]
              ELSE Append(kept[m - 1], leads[(m - 1) + 1]), leads, (m - 1) + 1)
    BY <1>1, <2>1, <2>2, KeepStep
  <2>4. kept[m] = Next1(kept[m - 1], m)
    BY <1>8
  <2>5. Keeps(kept[m], leads, m)
    BY <2>1, <2>3, <2>4 DEF Next1
  <2>6. kept[m] \in Seq(L)
    BY <2>1, <2>2, <2>4 DEF Next1
  <2> QED  BY <2>1, <2>5, <2>6
<1> HIDE DEF T
<1>11. n \in T
  <2>1. \A m \in 1 .. n : m - 1 \in T => m \in T
    BY <1>10
  <2>2. \A m \in 0 .. n : m \in T
    BY <1>1, <1>9, <2>1, IntervalInduction
  <2> QED  BY <1>1, <2>2
<1> QED  BY <1>3, <1>11 DEF T, n

\* A finding names at most one target.
LEMMA OneTarget ==
  ASSUME NEW f
  PROVE  /\ TargetOf(f) \in Seq(Listed(TargetOf(f)))
         /\ DOMAIN TargetOf(f) \subseteq {1}
<1>1. TargetOf(f) = <<>> \/ \E t : TargetOf(f) = <<t>>
  <2>1. \A type, value : Target(type, value) = <<[type |-> type, value |-> value]>>
    BY DEF Target
  <2>2. NoTarget = <<>>
    BY DEF NoTarget
  <2>3. \A name : HostTarget(name) = NoTarget \/ \E type, value : HostTarget(name) = Target(type, value)
    BY Zenon DEF HostTarget
  <2>4. \A path : UsernameTarget(path) = NoTarget \/ \E type, value : UsernameTarget(path) = Target(type, value)
    BY Zenon DEF UsernameTarget
  <2>5. \A record, data : \/ AddressTarget(record, data) = NoTarget
                          \/ \E type, value : AddressTarget(record, data) = Target(type, value)
    BY Zenon DEF AddressTarget
  <2>6. TargetOf(f) = NoTarget \/ \E type, value : TargetOf(f) = Target(type, value)
    <3>1. CASE f.type = "social_account"
      <4>1. TargetOf(f) = UsernameTarget(f.value.path)
        BY <3>1 DEF TargetOf
      <4> QED  BY <2>4, <4>1, Zenon
    <3>2. CASE f.type = "subdomain"
      <4>1. TargetOf(f) = HostTarget(StripWildcards(f.value))
        BY <3>2 DEF TargetOf
      <4> QED  BY <2>3, <4>1, Zenon
    <3>3. CASE f.type = "dns_record"
      <4>1. TargetOf(f) = AddressTarget(f.value.record, f.value.data)
        BY <3>3 DEF TargetOf
      <4> QED  BY <2>5, <4>1, Zenon
    <3>4. CASE f.type = "nameserver"
      <4>1. TargetOf(f) = HostTarget(f.value)
        BY <3>4 DEF TargetOf
      <4> QED  BY <2>3, <4>1, Zenon
    <3>5. CASE f.type \notin {"social_account", "subdomain", "dns_record", "nameserver"}
      BY <3>5 DEF TargetOf
    <3> QED  BY <3>1, <3>2, <3>3, <3>4, <3>5
  <2> QED  BY <2>1, <2>2, <2>6, Zenon
<1>2. CASE TargetOf(f) = <<>>
  BY <1>2
<1>3. CASE \E t : TargetOf(f) = <<t>>
  <2>1. PICK t : TargetOf(f) = <<t>>
    BY <1>3
  <2>2. Listed(<<t>>) = {t} /\ <<t>> \in Seq({t}) /\ DOMAIN <<t>> = {1}
    BY DEF Listed
  <2> QED  BY <2>1, <2>2, Zenon
<1> QED  BY <1>1, <1>2, <1>3

LEMMA LeadsOfList ==
  ASSUME NEW F, NEW fs \in Seq(F)
  PROVE  LET leads == extract_leads(fs) IN
         /\ \A k \in DOMAIN leads :
              /\ leads[k].source \in Naming(fs, leads[k].target)
              /\ \A i \in Naming(fs, leads[k].target) : leads[k].source <= i
              /\ \A m \in 1 .. k - 1 : leads[m].source < leads[k].source
         /\ \A i \in DOMAIN fs : \A t \in Listed(TargetOf(fs[i])) :
              \E m \in DOMAIN leads : leads[m].target = t
<1> DEFINE n == Len(fs)
           L == [target : UNION {Listed(TargetOf(fs[i])) : i \in 1 .. n}, source : 1 .. n]
           seqs == [i \in DOMAIN fs |->
                     [k \in DOMAIN TargetOf(fs[i]) |-> [target |-> TargetOf(fs[i])[k], source |-> i]]]
           all == LeadsOf(fs)
           leads == extract_leads(fs)
<1>1. n \in Nat /\ DOMAIN fs = 1 .. n
  OBVIOUS
<1> HIDE DEF n
<1>2. /\ seqs \in Seq(Seq(L)) /\ Len(seqs) = n
      /\ \A i \in 1 .. n : /\ DOMAIN seqs[i] = DOMAIN TargetOf(fs[i])
                           /\ \A k \in DOMAIN TargetOf(fs[i]) :
                                seqs[i][k] = [target |-> TargetOf(fs[i])[k], source |-> i]
  <2>1. ASSUME NEW i \in 1 .. n
        PROVE  [k \in DOMAIN TargetOf(fs[i]) |-> [target |-> TargetOf(fs[i])[k], source |-> i]] \in Seq(L)
    <3> DEFINE t == TargetOf(fs[i])
    <3>1. t \in Seq(Listed(t)) /\ \A k \in DOMAIN t : t[k] \in Listed(t)
      BY OneTarget, Zenon DEF Listed
    <3>2. \A k \in DOMAIN t : [target |-> t[k], source |-> i] \in L
      BY <3>1
    <3> HIDE DEF L, t
    <3>3. DOMAIN t = 1 .. Len(t) /\ Len(t) \in Nat
      BY <3>1
    <3>4. [k \in 1 .. Len(t) |-> [target |-> t[k], source |-> i]] \in Seq(L)
      BY <3>2, <3>3
    <3> QED  BY <3>3, <3>4 DEF t
  <2> HIDE DEF L
  <2>2. seqs = [i \in 1 .. n |->
                 [k \in DOMAIN TargetOf(fs[i]) |-> [target |-> TargetOf(fs[i])[k], source |-> i]]]
    BY <1>1
  <2>3. seqs \in Seq(Seq(L)) /\ Len(seqs) = n
    BY <1>1, <2>1, <2>2
  <2> QED  BY <2>2, <2>3
<1>3. all \in Seq(L) /\ Flattens(all, seqs, n)
  <2>1. all = FlattenSeq(seqs)
    BY DEF LeadsOf
  <2> HIDE DEF all, seqs, L
  <2> QED  BY <1>2, <2>1, Flattened
<1>4. leads \in Seq(L) /\ Keeps(leads, all, Len(all))
  <2>1. leads = Deduplicated(all)
    BY DEF extract_leads
  <2> HIDE DEF all, leads, L
  <2> QED  BY <1>3, <2>1, FirstLeadsKept
<1> HIDE DEF all, leads, seqs
<1>5. Len(all) \in Nat /\ DOMAIN all = 1 .. Len(all) /\ DOMAIN leads = 1 .. Len(leads) /\ Len(leads) \in Nat
  BY <1>3, <1>4
<1> HIDE DEF L
\* Where a lead comes from.
<1>6. ASSUME NEW a \in DOMAIN all
      PROVE  \E i \in 1 .. n : \E j \in DOMAIN TargetOf(fs[i]) :
               all[a] = [target |-> TargetOf(fs[i])[j], source |-> i]
  <2>1. \E i \in 1 .. n : \E j \in DOMAIN seqs[i] : all[a] = seqs[i][j]
    BY <1>3, Zenon DEF Flattens
  <2>2. PICK i \in 1 .. n : \E j \in DOMAIN seqs[i] : all[a] = seqs[i][j]
    BY <2>1
  <2>3. PICK j \in DOMAIN seqs[i] : all[a] = seqs[i][j]
    BY <2>2
  <2>4. j \in DOMAIN TargetOf(fs[i]) /\ all[a] = [target |-> TargetOf(fs[i])[j], source |-> i]
    BY <1>2, <2>3
  <2> QED  BY <2>4
<1>7. ASSUME NEW i \in 1 .. n, NEW t \in Listed(TargetOf(fs[i]))
      PROVE  \E a \in DOMAIN all : all[a] = [target |-> t, source |-> i]
  <2>1. PICK j \in DOMAIN TargetOf(fs[i]) : t = TargetOf(fs[i])[j]
    BY DEF Listed
  <2>2. j \in DOMAIN seqs[i] /\ seqs[i][j] = [target |-> t, source |-> i]
    BY <1>2, <2>1
  <2>3. \E a \in DOMAIN all : all[a] = seqs[i][j]
    BY <1>3, <2>2, Zenon DEF Flattens
  <2> QED  BY <2>2, <2>3
<1>8. ASSUME NEW a \in DOMAIN all, NEW b \in DOMAIN all, a < b
      PROVE  all[a].source < all[b].source
  <2>1. \A k, m \in DOMAIN all : k < m =>
          \E i1, i2 \in 1 .. n : \E j1 \in DOMAIN seqs[i1], j2 \in DOMAIN seqs[i2] :
            /\ all[k] = seqs[i1][j1] /\ all[m] = seqs[i2][j2]
            /\ i1 < i2 \/ (i1 = i2 /\ j1 < j2)
    BY <1>3, Zenon DEF Flattens
  <2>2. \E i1, i2 \in 1 .. n : \E j1 \in DOMAIN seqs[i1], j2 \in DOMAIN seqs[i2] :
          /\ all[a] = seqs[i1][j1] /\ all[b] = seqs[i2][j2]
          /\ i1 < i2 \/ (i1 = i2 /\ j1 < j2)
    BY <1>8, <2>1, Zenon
  <2>3. PICK i1 \in 1 .. n, i2 \in 1 .. n : \E j1 \in DOMAIN seqs[i1], j2 \in DOMAIN seqs[i2] :
          /\ all[a] = seqs[i1][j1] /\ all[b] = seqs[i2][j2]
          /\ i1 < i2 \/ (i1 = i2 /\ j1 < j2)
    BY <2>2
  <2>4. PICK j1 \in DOMAIN seqs[i1], j2 \in DOMAIN seqs[i2] :
          /\ all[a] = seqs[i1][j1] /\ all[b] = seqs[i2][j2]
          /\ i1 < i2 \/ (i1 = i2 /\ j1 < j2)
    BY <2>3
  <2>5. j1 = 1 /\ j2 = 1 /\ all[a].source = i1 /\ all[b].source = i2
    <3>1. DOMAIN seqs[i1] \subseteq {1} /\ DOMAIN seqs[i2] \subseteq {1}
      BY <1>2, OneTarget
    <3>2. seqs[i1][j1].source = i1 /\ seqs[i2][j2].source = i2
      <4>1. j1 \in DOMAIN TargetOf(fs[i1]) /\ j2 \in DOMAIN TargetOf(fs[i2])
        BY <1>2
      <4>2. /\ seqs[i1][j1] = [target |-> TargetOf(fs[i1])[j1], source |-> i1]
            /\ seqs[i2][j2] = [target |-> TargetOf(fs[i2])[j2], source |-> i2]
        BY <1>2, <4>1
      <4> QED  BY <4>2
    <3> QED  BY <2>4, <3>1, <3>2
  <2> QED  BY <2>4, <2>5
<1>9. ASSUME NEW k \in DOMAIN leads
      PROVE  /\ leads[k].source \in Naming(fs, leads[k].target)
             /\ \A i \in Naming(fs, leads[k].target) : leads[k].source <= i
  <2>1. PICK a \in DOMAIN all : leads[k] = all[a] /\ \A b \in 1 .. a - 1 : all[b].target # all[a].target
    BY <1>4, <1>5 DEF Keeps
  <2>2. PICK i \in 1 .. n : \E j \in DOMAIN TargetOf(fs[i]) :
               all[a] = [target |-> TargetOf(fs[i])[j], source |-> i]
    BY <1>6
  <2>3. leads[k].source = i /\ leads[k].target \in Listed(TargetOf(fs[i]))
    BY <2>1, <2>2 DEF Listed
  <2>4. leads[k].source \in Naming(fs, leads[k].target)
    BY <1>1, <2>3 DEF Naming
  <2>5. ASSUME NEW h \in Naming(fs, leads[k].target)
        PROVE  leads[k].source <= h
    <3>1. h \in 1 .. n /\ leads[k].target \in Listed(TargetOf(fs[h]))
      BY <1>1 DEF Naming
    <3>2. PICK b \in DOMAIN all : all[b] = [target |-> leads[k].target, source |-> h]
      BY <1>7, <3>1
    <3>3. all[b].target = all[a].target /\ all[b].source = h /\ all[a].source = i
      BY <2>1, <2>2, <3>2
    <3>4. ~(b < a)
      BY <1>5, <2>1, <3>3
    <3>5. a = b \/ a < b
      BY <1>5, <3>4
    <3>6. i <= h
      BY <1>1, <1>8, <3>1, <3>3, <3>5
    <3> QED  BY <2>3, <3>6
  <2> QED  BY <2>4, <2>5
<1>10. ASSUME NEW k \in DOMAIN leads, NEW m \in 1 .. k - 1
       PROVE  leads[m].source < leads[k].source
  <2>1. m \in DOMAIN leads /\ m < k
    BY <1>5
  <2>2. \A c, d \in DOMAIN leads : c < d =>
          \E a, b \in 1 .. Len(all) : a < b /\ leads[c] = all[a] /\ leads[d] = all[b]
    BY <1>4, Zenon DEF Keeps
  <2>3. PICK a \in DOMAIN all, b \in DOMAIN all : a < b /\ leads[m] = all[a] /\ leads[k] = all[b]
    BY <1>5, <2>1, <2>2
  <2> QED  BY <1>8, <2>3
<1>11. ASSUME NEW i \in DOMAIN fs, NEW t \in Listed(TargetOf(fs[i]))
       PROVE  \E m \in DOMAIN leads : leads[m].target = t
  <2>1. PICK a \in DOMAIN all : all[a] = [target |-> t, source |-> i]
    BY <1>1, <1>7
  <2>2. Known(leads, all[a]) /\ all[a].target = t
    BY <1>4, <1>5, <2>1 DEF Keeps
  <2> QED  BY <2>2 DEF Known
<1>12. \A k \in DOMAIN leads :
         /\ leads[k].source \in Naming(fs, leads[k].target)
         /\ \A i \in Naming(fs, leads[k].target) : leads[k].source <= i
         /\ \A m \in 1 .. k - 1 : leads[m].source < leads[k].source
  BY <1>9, <1>10
<1> QED  BY <1>11, <1>12 DEF leads

-----------------------------------------------------------------------------
(* What a scan finds                                                       *)

IsList(s) == s \in Seq(Listed(s))

LEMMA ListsAreLists ==
  ASSUME NEW S, NEW s \in Seq(S)
  PROVE  IsList(s)
<1>1. DOMAIN s = 1 .. Len(s) /\ Len(s) \in Nat /\ \A i \in 1 .. Len(s) : s[i] \in Listed(s)
  BY DEF Listed
<1>2. s = [i \in 1 .. Len(s) |-> s[i]]
  OBVIOUS
<1>3. [i \in 1 .. Len(s) |-> s[i]] \in Seq(Listed(s))
  BY <1>1
<1> QED  BY <1>2, <1>3 DEF IsList

\* No two findings have one key, but records and statuses spelled differently.
NoRepeat(s) ==
  \A i, j \in DOMAIN s : (i # j /\ DedupKey(s[i]) = DedupKey(s[j])) =>
    Respelled(s[i], s[j])

LEMMA KeyHasType == \A f, g : DedupKey(f) = DedupKey(g) => f.type = g.type
<1>1. \A f : DedupKey(f).type = f.type
  BY DEF DedupKey
<1> QED  BY <1>1, Zenon

\* The key of a record tells its type and text, the key of a status its text.
LEMMA KeyTells ==
  ASSUME NEW f, NEW g, DedupKey(f) = DedupKey(g), f # g,
         f.type \in {"dns_record", "domain_status"}
  PROVE  Respelled(f, g)
<1>1. f.type = g.type /\ DedupKey(f).value = DedupKey(g).value
  BY KeyHasType, Zenon
<1>2. CASE f.type = "dns_record"
  <2>1. \A h : h.type = "dns_record" =>
          /\ DedupKey(h).value.record = h.value.record
          /\ DedupKey(h).value.data.text = h.value.data.text
    BY DEF DedupKey, Collapse, Lower, Word
  <2> QED  BY <1>1, <1>2, <2>1 DEF Respelled
<1>3. CASE f.type = "domain_status"
  <2>1. \A h : h.type = "domain_status" => DedupKey(h).value.text = h.value.text
    BY DEF DedupKey, Strip, Lower, Word
  <2> QED  BY <1>1, <1>3, <2>1 DEF Respelled
<1> QED  BY <1>2, <1>3

\* Findings of different types never repeat each other.
LEMMA ListsJoin ==
  ASSUME NEW s, IsList(s), NoRepeat(s), NEW t, IsList(t), NoRepeat(t),
         \A f \in Listed(s), g \in Listed(t) : f.type # g.type
  PROVE  /\ IsList(s \o t) /\ NoRepeat(s \o t)
         /\ Listed(s \o t) = Listed(s) \cup Listed(t)
<1>1. PICK S : S = Listed(s) \cup Listed(t)
  OBVIOUS
<1>2. s \in Seq(S) /\ t \in Seq(S)
  <2>1. Seq(Listed(s)) \subseteq Seq(S) /\ Seq(Listed(t)) \subseteq Seq(S)
    BY <1>1
  <2> QED  BY <2>1 DEF IsList
<1>3. s \o t \in Seq(S) /\ Listed(s \o t) = Listed(s) \cup Listed(t)
  BY <1>2, ListedConcat
<1>4. IsList(s \o t)
  BY <1>3, ListsAreLists
<1> DEFINE u == s \o t
           n == Len(s)
<1>5. /\ n \in Nat /\ DOMAIN s = 1 .. n /\ DOMAIN t = 1 .. Len(t) /\ Len(t) \in Nat
      /\ DOMAIN u = 1 .. n + Len(t)
      /\ \A k \in DOMAIN u : \/ k \in DOMAIN s /\ u[k] = s[k]
                             \/ k - n \in DOMAIN t /\ u[k] = t[k - n]
  BY <1>2, ConcatAt
<1> HIDE DEF u, n
<1>6. ASSUME NEW i \in DOMAIN u, NEW j \in DOMAIN u, i # j, DedupKey(u[i]) = DedupKey(u[j])
      PROVE  Respelled(u[i], u[j])
  <2>1. u[i].type = u[j].type
    BY <1>6, KeyHasType, Zenon
  <2>2. CASE i \in DOMAIN s /\ u[i] = s[i] /\ j \in DOMAIN s /\ u[j] = s[j]
    BY <1>6, <2>2, Zenon DEF NoRepeat
  <2>3. CASE i - n \in DOMAIN t /\ u[i] = t[i - n] /\ j - n \in DOMAIN t /\ u[j] = t[j - n]
    <3>1. i - n # j - n
      BY <1>5, <1>6
    <3> QED  BY <1>6, <2>3, <3>1, Zenon DEF NoRepeat
  <2>4. CASE i \in DOMAIN s /\ u[i] = s[i] /\ j - n \in DOMAIN t /\ u[j] = t[j - n]
    <3>1. u[i] \in Listed(s) /\ u[j] \in Listed(t)
      BY <2>4 DEF Listed
    <3> QED  BY <2>1, <3>1
  <2>5. CASE i - n \in DOMAIN t /\ u[i] = t[i - n] /\ j \in DOMAIN s /\ u[j] = s[j]
    <3>1. u[j] \in Listed(s) /\ u[i] \in Listed(t)
      BY <2>5 DEF Listed
    <3> QED  BY <2>1, <3>1
  <2> QED  BY <1>5, <2>2, <2>3, <2>4, <2>5
<1>7. NoRepeat(u)
  BY <1>6, Zenon DEF NoRepeat
<1> QED  BY <1>3, <1>4, <1>7 DEF u

\* A finite set is sorted to a list of its elements, each once.
LEMMA SortedLists ==
  ASSUME NEW S, IsFiniteSet(S)
  PROVE  Sorted(S) \in Seq(S) /\ IsInjective(Sorted(S))
<1> DEFINE n == Cardinality(S)
<1>1. n \in Nat /\ ExistsBijection(1 .. n, S)
  BY FS_CardinalityType
<1>2. \E f \in [1 .. n -> S] : IsInjective(f)
  BY <1>1 DEF ExistsBijection, Bijection, Injection, IsInjective
<1>3. Sorted(S) \in [1 .. n -> S] /\ IsInjective(Sorted(S))
  BY <1>2 DEF Sorted, SetToSeq
<1> HIDE DEF n
<1> QED  BY <1>1, <1>3

\* The findings of one type that a list of values gives.
LEMMA FindingsTyped ==
  ASSUME NEW V, NEW values \in Seq(V), NEW type
  PROVE  /\ IsList(Findings(type, values))
         /\ \A f \in Listed(Findings(type, values)) : f.type = type /\ f.value \in V
         /\ DOMAIN Findings(type, values) = DOMAIN values
         /\ \A i \in DOMAIN values :
              Findings(type, values)[i].type = type /\ Findings(type, values)[i].value = values[i]
<1> DEFINE s == Findings(type, values)
           n == Len(values)
<1>1. n \in Nat /\ DOMAIN values = 1 .. n /\ \A i \in 1 .. n : values[i] \in V
  OBVIOUS
<1>2. s = [i \in 1 .. n |-> [type |-> type, value |-> values[i]]]
  BY <1>1 DEF Findings, Finding
<1>3. DOMAIN s = 1 .. n /\ \A i \in 1 .. n : s[i] = [type |-> type, value |-> values[i]]
  BY <1>2
<1> HIDE DEF s, n
<1>4. \A f \in Listed(s) : f.type = type /\ f.value \in V
  BY <1>1, <1>3 DEF Listed
<1>5. IsList(s)
  <2>1. s \in Seq([type : {type}, value : V])
    BY <1>1, <1>2
  <2> QED  BY <2>1, ListsAreLists
<1> QED  BY <1>1, <1>3, <1>4, <1>5 DEF s

LEMMA FindingsNoRepeat ==
  ASSUME NEW V, NEW values \in Seq(V), IsInjective(values),
         NEW type \in {"subdomain", "nameserver", "domain_status"}
  PROVE  /\ IsList(Findings(type, values)) /\ NoRepeat(Findings(type, values))
         /\ \A f \in Listed(Findings(type, values)) : f.type = type /\ f.value \in V
<1> DEFINE s == Findings(type, values)
<1>1. /\ IsList(s) /\ \A f \in Listed(s) : f.type = type /\ f.value \in V
      /\ DOMAIN s = DOMAIN values
      /\ \A i \in DOMAIN values : s[i].type = type /\ s[i].value = values[i]
  BY FindingsTyped
<1> HIDE DEF s
<1>2. ASSUME NEW i \in DOMAIN s, NEW j \in DOMAIN s, i # j, DedupKey(s[i]) = DedupKey(s[j])
      PROVE  Respelled(s[i], s[j])
  <2>1. values[i] # values[j]
    BY <1>1, <1>2 DEF IsInjective
  <2>2. /\ s[i].type = type /\ s[j].type = type
        /\ s[i].value = values[i] /\ s[j].value = values[j]
    BY <1>1
  <2>3. CASE type = "domain_status"
    <3>1. s[i] # s[j] /\ s[i].type = "domain_status"
      BY <2>1, <2>2, <2>3
    <3> QED  BY <1>2, <3>1, KeyTells
  <2>4. CASE type \in {"subdomain", "nameserver"}
    <3>1. DedupKey(s[i]).value = s[i].value /\ DedupKey(s[j]).value = s[j].value
      BY <2>2, <2>4 DEF DedupKey
    <3> QED  BY <1>2, <2>1, <2>2, <3>1
  <2> QED  BY <2>3, <2>4
<1>3. NoRepeat(s)
  BY <1>2, Zenon DEF NoRepeat
<1> QED  BY <1>1, <1>3 DEF s

LEMMA EmptyNoRepeat == IsList(<<>>) /\ NoRepeat(<<>>) /\ Listed(<<>>) = {}
BY DEF IsList, NoRepeat, Listed

LEMMA SingleNoRepeat ==
  ASSUME NEW type, NEW words
  PROVE  /\ IsList(AtMostOne(type, words)) /\ NoRepeat(AtMostOne(type, words))
         /\ \A f \in Listed(AtMostOne(type, words)) : f.type = type
<1>1. CASE words = <<>>
  BY <1>1, EmptyNoRepeat DEF AtMostOne
<1>2. CASE words # <<>>
  <2>1. PICK f : f = Finding(type, words[1])
    OBVIOUS
  <2>2. AtMostOne(type, words) = <<f>> /\ f.type = type
    BY <1>2, <2>1 DEF AtMostOne, Finding
  <2>3. <<f>> \in Seq({f}) /\ DOMAIN <<f>> = {1} /\ Listed(<<f>>) = {f}
    BY DEF Listed
  <2>4. NoRepeat(<<f>>)
    BY <2>3 DEF NoRepeat
  <2>5. IsList(<<f>>)
    BY <2>3, ListsAreLists
  <2> QED  BY <2>2, <2>3, <2>4, <2>5
<1> QED  BY <1>1, <1>2

LEMMA RecordsNoRepeat ==
  ASSUME NEW o \in RecordOutcomes
  PROVE  /\ IsList(RecordFindings(Domain, o)) /\ NoRepeat(RecordFindings(Domain, o))
         /\ \A f \in Listed(RecordFindings(Domain, o)) : f.type = "dns_record"
<1> DEFINE n == Len(RecordTypes)
           A(i) == Answers(o[RecordTypes[i]])
           F(i, d) == [type |-> "dns_record",
                       value |-> [name |-> Domain, record |-> RecordTypes[i], data |-> d]]
           V == {F(i, d) : i \in 1 .. n, d \in UNION {Listed(A(i)) : i \in 1 .. n}}
           seqs == [i \in DOMAIN RecordTypes |-> [j \in DOMAIN A(i) |-> F(i, A(i)[j])]]
           s == RecordFindings(Domain, o)
<1>1. /\ n \in Nat /\ DOMAIN RecordTypes = 1 .. n
      /\ \A i, j \in 1 .. n : RecordTypes[i] = RecordTypes[j] => i = j
  BY AnswersAssumption DEF IsInjective
<1>2. ASSUME NEW i \in 1 .. n
      PROVE  /\ A(i) \in Seq(Listed(A(i))) /\ IsInjective(A(i))
             /\ \A j \in DOMAIN A(i) : A(i)[j] \in Listed(A(i))
  <2>1. RecordTypes[i] \in Listed(RecordTypes)
    BY <1>1 DEF Listed
  <2>2. A(i) \in Seq(Listed(A(i))) /\ IsInjective(A(i))
    BY <2>1, AnswersAssumption
  <2>3. \A j \in DOMAIN A(i) : A(i)[j] \in Listed(A(i))
    BY Zenon DEF Listed
  <2> QED  BY <2>2, <2>3
<1>3. s = FlattenSeq(seqs)
  BY DEF RecordFindings, Finding
<1>4. \A i, d : F(i, d).type = "dns_record"
  OBVIOUS
<1>5. ASSUME NEW i, NEW j, NEW d, NEW e, F(i, d) = F(j, e)
      PROVE  RecordTypes[i] = RecordTypes[j] /\ d = e
  <2>1. F(i, d).value = F(j, e).value
    BY <1>5, Zenon
  <2>2. F(i, d).value.record = F(j, e).value.record /\ F(i, d).value.data = F(j, e).value.data
    BY <2>1, Zenon
  <2> QED  BY <2>2
<1>6. ASSUME NEW i \in 1 .. n, NEW j \in DOMAIN A(i)
      PROVE  F(i, A(i)[j]) \in V
  <2>1. A(i)[j] \in UNION {Listed(A(h)) : h \in 1 .. n}
    BY <1>2
  <2> HIDE DEF F, A
  <2> QED  BY <2>1
<1> HIDE DEF n, A, F, V
<1>7. /\ seqs \in Seq(Seq(V)) /\ Len(seqs) = n
      /\ \A i \in 1 .. n : DOMAIN seqs[i] = DOMAIN A(i) /\ \A j \in DOMAIN A(i) : seqs[i][j] = F(i, A(i)[j])
  <2>1. ASSUME NEW i \in 1 .. n
        PROVE  [j \in DOMAIN A(i) |-> F(i, A(i)[j])] \in Seq(V)
    <3>1. DOMAIN A(i) = 1 .. Len(A(i)) /\ Len(A(i)) \in Nat
      BY <1>2
    <3>2. \A j \in 1 .. Len(A(i)) : F(i, A(i)[j]) \in V
      BY <1>6, <3>1
    <3>3. [j \in 1 .. Len(A(i)) |-> F(i, A(i)[j])] \in Seq(V)
      BY <3>1, <3>2
    <3> QED  BY <3>1, <3>3
  <2>2. seqs = [i \in 1 .. n |-> [j \in DOMAIN A(i) |-> F(i, A(i)[j])]]
    BY <1>1
  <2>3. seqs \in Seq(Seq(V)) /\ Len(seqs) = n
    BY <1>1, <2>1, <2>2
  <2> QED  BY <2>2, <2>3
<1> HIDE DEF seqs, s
<1>8. s \in Seq(V) /\ Flattens(s, seqs, n)
  BY <1>3, <1>7, Flattened
<1>9. \A f \in Listed(s) : f.type = "dns_record"
  <2>1. ASSUME NEW k \in DOMAIN s
        PROVE  s[k].type = "dns_record"
    <3>1. PICK i \in 1 .. n : \E j \in DOMAIN seqs[i] : s[k] = seqs[i][j]
      BY <1>8 DEF Flattens
    <3>2. PICK j \in DOMAIN A(i) : s[k] = F(i, A(i)[j])
      BY <1>7, <3>1
    <3> QED  BY <1>4, <3>2, Zenon
  <2> QED  BY <2>1 DEF Listed
<1>10. ASSUME NEW k \in DOMAIN s, NEW m \in DOMAIN s, k < m
       PROVE  s[k] # s[m]
  <2>1. \A a, b \in DOMAIN s : a < b =>
          \E i1, i2 \in 1 .. n : \E j1 \in DOMAIN seqs[i1], j2 \in DOMAIN seqs[i2] :
            /\ s[a] = seqs[i1][j1] /\ s[b] = seqs[i2][j2]
            /\ i1 < i2 \/ (i1 = i2 /\ j1 < j2)
    BY <1>8, Zenon DEF Flattens
  <2>2. \E i1, i2 \in 1 .. n : \E j1 \in DOMAIN seqs[i1], j2 \in DOMAIN seqs[i2] :
          /\ s[k] = seqs[i1][j1] /\ s[m] = seqs[i2][j2]
          /\ i1 < i2 \/ (i1 = i2 /\ j1 < j2)
    BY <1>10, <2>1, Zenon
  <2>3. PICK i1 \in 1 .. n, i2 \in 1 .. n : \E j1 \in DOMAIN seqs[i1], j2 \in DOMAIN seqs[i2] :
          /\ s[k] = seqs[i1][j1] /\ s[m] = seqs[i2][j2]
          /\ i1 < i2 \/ (i1 = i2 /\ j1 < j2)
    BY <2>2
  <2>4. PICK j1 \in DOMAIN seqs[i1], j2 \in DOMAIN seqs[i2] :
          /\ s[k] = seqs[i1][j1] /\ s[m] = seqs[i2][j2]
          /\ i1 < i2 \/ (i1 = i2 /\ j1 < j2)
    BY <2>3
  <2>5. /\ j1 \in DOMAIN A(i1) /\ j2 \in DOMAIN A(i2)
        /\ s[k] = F(i1, A(i1)[j1]) /\ s[m] = F(i2, A(i2)[j2])
    BY <1>7, <2>4
  <2> SUFFICES ASSUME s[k] = s[m]
               PROVE  FALSE
    OBVIOUS
  <2>6. RecordTypes[i1] = RecordTypes[i2] /\ A(i1)[j1] = A(i2)[j2]
    <3>1. F(i1, A(i1)[j1]) = F(i2, A(i2)[j2])
      BY <2>5, Zenon
    <3> QED  BY <1>5, <3>1
  <2>7. i1 = i2 /\ j1 < j2
    BY <1>1, <2>4, <2>6
  <2>8. j1 = j2
    BY <1>2, <2>5, <2>6, <2>7, Zenon DEF IsInjective
  <2>9. j1 \in Nat
    BY <1>2, <2>5
  <2> QED  BY <2>7, <2>8, <2>9
<1>11. NoRepeat(s)
  <2>1. DOMAIN s \subseteq Nat
    BY <1>8
  <2>2. ASSUME NEW i \in DOMAIN s, NEW j \in DOMAIN s, i # j
        PROVE  s[i].type = "dns_record" /\ s[i] # s[j]
    <3>1. i < j \/ j < i
      BY <2>1, <2>2
    <3>2. s[i] \in Listed(s)
      BY DEF Listed
    <3> QED  BY <1>9, <1>10, <3>1, <3>2
  <2>3. ASSUME NEW i \in DOMAIN s, NEW j \in DOMAIN s, i # j, DedupKey(s[i]) = DedupKey(s[j])
        PROVE  Respelled(s[i], s[j])
    BY <2>2, <2>3, KeyTells
  <2> QED  BY <2>3, Zenon DEF NoRepeat
<1>12. IsList(s)
  BY <1>8, ListsAreLists
<1> QED  BY <1>9, <1>11, <1>12 DEF s

\* The names certificates hold, at most so many, each once.
LEMMA SubdomainsNoRepeat ==
  ASSUME NEW l \in Logs
  PROVE  /\ IsList(SubdomainFindings(Domain, l)) /\ NoRepeat(SubdomainFindings(Domain, l))
         /\ \A f \in Listed(SubdomainFindings(Domain, l)) :
              /\ f.type = "subdomain"
              /\ l \notin {Failed, Malformed} /\ f.value \in CertifiedNames(Domain, l)
<1>1. CASE l \in {Failed, Malformed}
  BY <1>1, EmptyNoRepeat DEF SubdomainFindings
<1>2. CASE l \notin {Failed, Malformed}
  <2> DEFINE C == CertifiedNames(Domain, l)
             q == Sorted(C)
             t == Take(q, MaxSubdomains)
  <2>1. IsFiniteSet(C)
    <3>1. IsFiniteSet(l)
      BY <1>2, AnswersAssumption
    <3>2. IsFiniteSet({StripWildcards(m) : m \in l})
      <4> DEFINE strip == [m \in l |-> StripWildcards(m)]
                 image == {StripWildcards(m) : m \in l}
      <4>1. strip \in Surjection(l, image)
        BY DEF Surjection
      <4> HIDE DEF strip, image
      <4>2. IsFiniteSet(image)
        BY <3>1, <4>1, FS_Surjection
      <4> QED  BY <4>2 DEF image
    <3>3. C \subseteq {StripWildcards(m) : m \in l}
      BY DEF CertifiedNames
    <3> QED  BY <3>2, <3>3, FS_Subset
  <2> HIDE DEF C
  <2>2. q \in Seq(C) /\ IsInjective(q)
    BY <2>1, SortedLists
  <2> HIDE DEF q
  <2>3. t \in Seq(C) /\ IsInjective(t)
    <3> DEFINE n == IF Len(q) < MaxSubdomains THEN Len(q) ELSE MaxSubdomains
    <3>1. Len(q) \in Nat /\ DOMAIN q = 1 .. Len(q) /\ n \in 0 .. Len(q)
      BY <2>2, SourcesAssumption
    <3>2. t = SubSeq(q, 1, n)
      BY DEF Take
    <3> HIDE DEF n, t
    <3>3. /\ t \in Seq(C) /\ DOMAIN t = 1 .. n
          /\ \A i \in 1 .. n : t[i] = q[i] /\ i \in DOMAIN q
      BY <2>2, <3>1, <3>2
    <3> QED  BY <2>2, <3>3, Zenon DEF IsInjective
  <2>4. SubdomainFindings(Domain, l) = Findings("subdomain", t)
    BY <1>2 DEF SubdomainFindings, C, q
  <2> HIDE DEF t
  <2> QED  BY <1>2, <2>3, <2>4, FindingsNoRepeat DEF C
<1> QED  BY <1>1, <1>2

RdapTypes == {"registrar", "nameserver", "domain_status", "expiry_date"}

LEMMA RdapNoRepeat ==
  ASSUME NEW r \in RdapAnswers
  PROVE  /\ IsList(RdapExecute(r).findings) /\ NoRepeat(RdapExecute(r).findings)
         /\ \A f \in Listed(RdapExecute(r).findings) : f.type \in RdapTypes
<1>1. CASE r \in {Failed, Malformed}
  <2>1. RdapExecute(r).findings = <<>>
    BY <1>1 DEF RdapExecute, Result, Raises
  <2> QED  BY <2>1, EmptyNoRepeat
<1>2. CASE r \notin {Failed, Malformed}
  <2> DEFINE a == AtMostOne("registrar", Stripped(r.registrars))
             b == Findings("nameserver", Nameservers(r.nameservers))
             c == Findings("domain_status", Sorted(r.statuses))
             d == AtMostOne("expiry_date", r.expiries)
  <2>1. RdapExecute(r).findings = a \o b \o c \o d
    BY <1>2 DEF RdapExecute, Result
  <2>2. IsList(a) /\ NoRepeat(a) /\ \A f \in Listed(a) : f.type = "registrar"
    BY SingleNoRepeat, Zenon
  <2>3. IsList(d) /\ NoRepeat(d) /\ \A f \in Listed(d) : f.type = "expiry_date"
    BY SingleNoRepeat, Zenon
  <2>4. IsList(b) /\ NoRepeat(b) /\ \A f \in Listed(b) : f.type = "nameserver"
    <3> DEFINE N == {r.nameservers[i] : i \in DOMAIN r.nameservers}
    <3>1. IsFiniteSet(N)
      <4>1. r.nameservers \in Seq(Listed(r.nameservers))
        BY <1>2, AnswersAssumption
      <4>2. DOMAIN r.nameservers = 1 .. Len(r.nameservers) /\ Len(r.nameservers) \in Nat
        BY <4>1
      <4>3. IsFiniteSet(DOMAIN r.nameservers)
        BY <4>2, FS_Interval
      <4>4. [i \in DOMAIN r.nameservers |-> r.nameservers[i]] \in Surjection(DOMAIN r.nameservers, N)
        BY DEF Surjection
      <4> HIDE DEF N
      <4> QED  BY <4>3, <4>4, FS_Surjection
    <3>2. Nameservers(r.nameservers) = Sorted(N)
      BY DEF Nameservers
    <3> HIDE DEF N
    <3>3. Sorted(N) \in Seq(N) /\ IsInjective(Sorted(N))
      BY <3>1, SortedLists
    <3> QED  BY <3>2, <3>3, FindingsNoRepeat
  <2>5. IsList(c) /\ NoRepeat(c) /\ \A f \in Listed(c) : f.type = "domain_status"
    <3>1. IsFiniteSet(r.statuses)
      BY <1>2, AnswersAssumption
    <3>2. Sorted(r.statuses) \in Seq(r.statuses) /\ IsInjective(Sorted(r.statuses))
      BY <3>1, SortedLists
    <3> QED  BY <3>2, FindingsNoRepeat
  <2> HIDE DEF a, b, c, d
  <2>6. /\ IsList(a \o b) /\ NoRepeat(a \o b)
        /\ \A f \in Listed(a \o b) : f.type \in {"registrar", "nameserver"}
    <3>1. \A f \in Listed(a), g \in Listed(b) : f.type # g.type
      BY <2>2, <2>4
    <3>2. IsList(a \o b) /\ NoRepeat(a \o b) /\ Listed(a \o b) = Listed(a) \cup Listed(b)
      BY <2>2, <2>4, <3>1, ListsJoin
    <3> QED  BY <2>2, <2>4, <3>2
  <2>7. /\ IsList(a \o b \o c) /\ NoRepeat(a \o b \o c)
        /\ \A f \in Listed(a \o b \o c) : f.type \in {"registrar", "nameserver", "domain_status"}
    <3> DEFINE s == a \o b
    <3>1. IsList(s) /\ NoRepeat(s) /\ \A f \in Listed(s) : f.type \in {"registrar", "nameserver"}
      BY <2>6
    <3> HIDE DEF s
    <3>2. \A f \in Listed(s), g \in Listed(c) : f.type # g.type
      BY <2>5, <3>1
    <3>3. IsList(s \o c) /\ NoRepeat(s \o c) /\ Listed(s \o c) = Listed(s) \cup Listed(c)
      BY <2>5, <3>1, <3>2, ListsJoin
    <3>4. \A f \in Listed(s \o c) : f.type \in {"registrar", "nameserver", "domain_status"}
      BY <2>5, <3>1, <3>3
    <3> QED  BY <3>3, <3>4 DEF s
  <2> DEFINE s == a \o b \o c
  <2>8. IsList(s) /\ NoRepeat(s) /\ \A f \in Listed(s) : f.type \in {"registrar", "nameserver", "domain_status"}
    BY <2>7
  <2> HIDE DEF s
  <2>9. \A f \in Listed(s), g \in Listed(d) : f.type # g.type
    BY <2>3, <2>8
  <2>10. IsList(s \o d) /\ NoRepeat(s \o d) /\ Listed(s \o d) = Listed(s) \cup Listed(d)
    BY <2>3, <2>8, <2>9, ListsJoin
  <2>11. \A f \in Listed(s \o d) : f.type \in RdapTypes
    BY <2>3, <2>8, <2>10 DEF RdapTypes
  <2> QED  BY <2>1, <2>10, <2>11 DEF s
<1> QED  BY <1>1, <1>2

\* All findings of a domain scan.
LEMMA DomainScan ==
  ASSUME NEW o \in RecordOutcomes, NEW l \in Logs, NEW r \in RdapAnswers
  PROVE  LET s == DnsExecute(Domain, o, l).findings \o RdapExecute(r).findings IN
         /\ IsList(s) /\ NoRepeat(s)
         /\ \A f \in Listed(s) : f.type = "subdomain" =>
              l \notin {Failed, Malformed} /\ f.value \in CertifiedNames(Domain, l)
<1> DEFINE a == RecordFindings(Domain, o)
           b == SubdomainFindings(Domain, l)
           c == RdapExecute(r).findings
<1>1. DnsExecute(Domain, o, l).findings = a \o b
  BY DEF DnsExecute, Result
<1>2. IsList(a) /\ NoRepeat(a) /\ \A f \in Listed(a) : f.type = "dns_record"
  BY RecordsNoRepeat
<1>3. /\ IsList(b) /\ NoRepeat(b)
      /\ \A f \in Listed(b) : /\ f.type = "subdomain"
                              /\ l \notin {Failed, Malformed} /\ f.value \in CertifiedNames(Domain, l)
  BY SubdomainsNoRepeat
<1>4. IsList(c) /\ NoRepeat(c) /\ \A f \in Listed(c) : f.type \in RdapTypes
  BY RdapNoRepeat
<1> HIDE DEF a, b, c
<1> DEFINE s == a \o b
<1>5. \A f \in Listed(a), g \in Listed(b) : f.type # g.type
  BY <1>2, <1>3
<1>6. IsList(s) /\ NoRepeat(s) /\ Listed(s) = Listed(a) \cup Listed(b)
  BY <1>2, <1>3, <1>5, ListsJoin
<1> HIDE DEF s
<1>7. \A f \in Listed(s), g \in Listed(c) : f.type # g.type
  BY <1>2, <1>3, <1>4, <1>6 DEF RdapTypes
<1>8. IsList(s \o c) /\ NoRepeat(s \o c) /\ Listed(s \o c) = Listed(s) \cup Listed(c)
  BY <1>4, <1>6, <1>7, ListsJoin
<1>9. \A f \in Listed(s \o c) : f.type = "subdomain" =>
        l \notin {Failed, Malformed} /\ f.value \in CertifiedNames(Domain, l)
  BY <1>2, <1>3, <1>4, <1>6, <1>8 DEF RdapTypes
<1> QED  BY <1>1, <1>8, <1>9 DEF s, c

\* All findings of a username scan.
LEMMA UsernameScan ==
  ASSUME NEW o \in Outputs
  PROVE  /\ IsList(SherlockExecute(o).findings)
         /\ \A f \in Listed(SherlockExecute(o).findings) : f.type = "social_account"
<1> DEFINE hits == parse_sherlock_file(o)
           s == Findings("social_account", hits)
<1>1. \/ SherlockExecute(o).findings = <<>>
      \/ o # Failed /\ SherlockExecute(o).findings = s
  BY DEF SherlockExecute, Result, Raises
<1>2. CASE o # Failed
  <2>1. o \in Seq(Listed(o))
    BY <1>2, AnswersAssumption
  <2> DEFINE seqs == [i \in DOMAIN o |-> IF o[i] = Noise THEN <<>> ELSE <<o[i]>>]
  <2>2. Len(o) \in Nat /\ DOMAIN o = 1 .. Len(o) /\ \A i \in 1 .. Len(o) : o[i] \in Listed(o)
    BY <2>1
  <2>3. seqs \in Seq(Seq(Listed(o)))
    <3>1. \A i \in 1 .. Len(o) : (IF o[i] = Noise THEN <<>> ELSE <<o[i]>>) \in Seq(Listed(o))
      BY <2>2
    <3>2. [i \in 1 .. Len(o) |-> IF o[i] = Noise THEN <<>> ELSE <<o[i]>>] \in Seq(Seq(Listed(o)))
      BY <2>2, <3>1
    <3> QED  BY <2>2, <3>2
  <2>4. hits = FlattenSeq(seqs)
    BY DEF parse_sherlock_file
  <2> HIDE DEF seqs, hits
  <2>5. hits \in Seq(Listed(o))
    BY <2>3, <2>4, Flattened
  <2>6. IsList(s) /\ \A f \in Listed(s) : f.type = "social_account"
    BY <2>5, FindingsTyped
  <2> HIDE DEF s
  <2> QED  BY <1>1, <2>6, EmptyNoRepeat
<1> HIDE DEF s
<1> QED  BY <1>1, <1>2, EmptyNoRepeat

\* Wildcard labels are stripped once and for all.
LEMMA StripTwice ==
  ASSUME NEW S, NEW name \in Seq(S)
  PROVE  StripWildcards(StripWildcards(name)) = StripWildcards(name)
<1> DEFINE Kept(x) == {i \in DOMAIN x : x[i] # star}
           r == StripWildcards(name)
<1>1. CASE Kept(name) = {}
  <2>1. r = <<>>
    BY <1>1 DEF StripWildcards
  <2>2. StripWildcards(<<>>) = <<>>
    BY DEF StripWildcards
  <2> QED  BY <2>1, <2>2, Zenon
<1>2. CASE Kept(name) # {}
  <2> DEFINE c == CHOOSE i \in Kept(name) : \A j \in Kept(name) : i <= j
  <2>1. Len(name) \in Nat /\ DOMAIN name = 1 .. Len(name) /\ Kept(name) \subseteq 1 .. Len(name)
    OBVIOUS
  <2>2. \E i \in Kept(name) : \A j \in Kept(name) : i <= j
    <3>1. Kept(name) \subseteq Nat
      BY <2>1
    <3> HIDE DEF Kept
    <3> QED  BY <1>2, <3>1, LeastNatural
  <2>3. c \in Kept(name)
    BY <2>2, Zenon
  <2>4. r = SubSeq(name, c, Len(name))
    BY <1>2 DEF StripWildcards
  <2>5. c \in 1 .. Len(name) /\ name[c] # star
    BY <2>1, <2>3
  <2> HIDE DEF c, r
  <2>6. r \in Seq(S) /\ Len(r) \in Nat /\ DOMAIN r = 1 .. Len(r) /\ 1 \in DOMAIN r /\ r[1] = name[c]
    BY <2>4, <2>5
  <2>7. 1 \in Kept(r) /\ Kept(r) \subseteq 1 .. Len(r)
    BY <2>5, <2>6
  <2>8. \A i \in Kept(r) : (\A j \in Kept(r) : i <= j) => i = 1
    BY <2>6, <2>7
  <2>9. \A j \in Kept(r) : 1 <= j
    BY <2>6, <2>7
  <2>10. (CHOOSE i \in Kept(r) : \A j \in Kept(r) : i <= j) = 1
    <3> HIDE DEF Kept
    <3> QED  BY <2>7, <2>8, <2>9
  <2>11. StripWildcards(r) = SubSeq(r, 1, Len(r))
    BY <2>7, <2>10 DEF StripWildcards
  <2>12. SubSeq(r, 1, Len(r)) = r
    BY <2>6
  <2> QED  BY <2>11, <2>12 DEF r
<1> QED  BY <1>1, <1>2

-----------------------------------------------------------------------------
(* The inputs of PureRules                                                 *)

\* An identity input is an assertion the proxy may issue, and a clock.
IdentityInput ==
  input.about = "identity" =>
    /\ input.at \in Times /\ input.user \in Users
    /\ input.exp \in Expiries(input.at) /\ input.now \in Clock

ScanInput ==
  /\ input.about = "domain" =>
       input.records \in RecordOutcomes /\ input.log \in Logs /\ input.rdap \in RdapAnswers
  /\ input.about = "username" => input.output \in Outputs

InputsInv == list \in Seq(FindingIds) /\ IdentityInput /\ ScanInput

\* The list is one of findings, and the input stays what it was.
LEMMA InputsAlways == Spec => []InputsInv
<1>1. Init => InputsInv
  BY DEF Init, InputsInv, IdentityInput, ScanInput
<1>2. InputsInv /\ [Next]_vars => InputsInv'
  BY DEF InputsInv, IdentityInput, ScanInput, Next, ListAnother, vars
<1> QED  BY <1>1, <1>2, PTL DEF Spec

\* Every list of findings is correlated as the definition without indexes expects
\* (core/correlator.py:48-341).
THEOREM ListsAsExpected == Spec => []RulesMatchReference
<1>1. InputsInv => RulesMatchReference
  BY RulesAsExpected DEF InputsInv, RulesMatchReference
<1> QED  BY <1>1, InputsAlways, PTL

\* A list that names its findings twice leads to no other relation (core/correlator.py:48-341).
THEOREM ListsMayRepeat == Spec => []RepetitionHarmless
<1>1. InputsInv => RepetitionHarmless
  BY RepetitionChangesNothing DEF InputsInv, RepetitionHarmless
<1> QED  BY <1>1, InputsAlways, PTL

\* An assertion, whatever is put beside its signature and whichever key comes with
\* it, is accepted for what it was issued for, as long as it lives (core/auth.py:48-122).
THEOREM AssertionsAlwaysHonoured == Spec => []AssertionsHonoured
<1>1. ASSUME InputsInv, input.about = "identity"
      PROVE  LET issued == Issued(input.user, input.exp, Secret) IN
             /\ LivesItsTime(issued, input.at, Secret, input.now)
             /\ \A user \in Users \cup {None}, exp \in Texts, sig \in {issued.sig, None, NotAscii} :
                  LET a == [user |-> user, exp |-> exp, sig |-> sig] IN
                  /\ Binding(issued, a, Secret, input.now)
                  /\ sig # issued.sig => ~Accepts(a, Secret, input.now)
                  /\ \A degraded \in BOOLEAN, key \in ApiKeys \cup {None},
                        provided \in ApiKeys \cup {None, NotAscii} :
                       LET c == Gate(key, provided, a, Secret, input.now, degraded) IN
                       /\ c.outcome = "accepted" => key # None /\ provided = key
                       /\ (c.outcome = "accepted" /\ c.user = None) =>
                            (degraded /\ {user, exp, sig} = {None})
  <2> DEFINE issued == Issued(input.user, input.exp, Secret)
  <2>1. /\ input.at \in Int /\ input.now \in Int
        /\ input.user \in Seq(Characters) /\ input.user # None
        /\ input.exp \in Seq(Characters) /\ IsNumber(input.exp)
        /\ NotAscii # Mac(Secret, Message(input.user, input.exp))
    BY <1>1, PureAssumption DEF InputsInv, IdentityInput, Expiries
  <2>2. LivesItsTime(issued, input.at, Secret, input.now)
    BY <2>1, PureAssumption, AssertionLifetime
  <2>3. ASSUME NEW user \in Users \cup {None}, NEW exp \in Texts,
               NEW sig \in {issued.sig, None, NotAscii}
        PROVE  LET a == [user |-> user, exp |-> exp, sig |-> sig] IN
               /\ Binding(issued, a, Secret, input.now)
               /\ sig # issued.sig => ~Accepts(a, Secret, input.now)
               /\ \A degraded \in BOOLEAN, key \in ApiKeys \cup {None},
                     provided \in ApiKeys \cup {None, NotAscii} :
                    LET c == Gate(key, provided, a, Secret, input.now, degraded) IN
                    /\ c.outcome = "accepted" => key # None /\ provided = key
                    /\ (c.outcome = "accepted" /\ c.user = None) =>
                         (degraded /\ {user, exp, sig} = {None})
    <3> DEFINE a == [user |-> user, exp |-> exp, sig |-> sig]
    <3>1. user \in Seq(Characters) /\ exp \in Seq(Characters)
      <4>1. None \in Seq(Characters)
        BY DEF None
      <4>2. \A t : t \in Users \cup {None} => t \in Seq(Characters)
        BY <4>1, PureAssumption
      <4> QED  BY <4>2, PureAssumption
    <3>2. Binding(issued, a, Secret, input.now)
      <4>1. CASE sig = issued.sig
        <5>1. Message(input.user, input.exp) \in Seq(Characters)
          BY <2>1, PureAssumption DEF Message
        <5>2. sig \in {Mac(Secret, m) : m \in Seq(Characters)}
          BY <4>1, <5>1 DEF Issued
        <5>3. a \in [user : Seq(Characters), exp : Seq(Characters),
                     sig : {Mac(Secret, m) : m \in Seq(Characters)}]
          BY <3>1, <5>2
        <5> HIDE DEF a
        <5> QED  BY <2>1, <5>3, PureAssumption, AssertionBinding
      <4>2. CASE sig # issued.sig
        BY <4>2 DEF Binding
      <4> QED  BY <4>1, <4>2
    <3>3. sig # issued.sig => ~Accepts(a, Secret, input.now)
      BY NoSignatureNoAcceptance
    <3>4. ASSUME NEW degraded \in BOOLEAN, NEW key, NEW provided,
                 Gate(key, provided, a, Secret, input.now, degraded).outcome = "accepted"
          PROVE  /\ key # None /\ provided = key
                 /\ Gate(key, provided, a, Secret, input.now, degraded).user = None =>
                      degraded /\ {user, exp, sig} = {None}
      <4>1. /\ key # None /\ provided = key
            /\ Gate(key, provided, a, Secret, input.now, degraded).user = None =>
                 degraded /\ {a.user, a.exp, a.sig} = {None}
        <5> HIDE DEF a
        <5> DEFINE d == Gate(key, provided, a, Secret, input.now, degraded)
        <5>1. d.outcome = "accepted"
          BY <3>4
        <5>2. key # None /\ provided = key
          BY <5>1, GatePasses
        <5>3. d.user = None => degraded /\ {a.user, a.exp, a.sig} = {None}
          BY <5>1, GatePasses
        <5> QED  BY <5>2, <5>3
      <4> QED  BY <4>1
    <3> HIDE DEF a
    <3> QED  BY <3>2, <3>3, <3>4 DEF a
  <2> HIDE DEF issued
  <2> QED  BY <2>2, <2>3 DEF issued
<1>2. InputsInv => AssertionsHonoured
  BY <1>1 DEF AssertionsHonoured
<1> QED  BY <1>2, InputsAlways, PTL

\* What a scan finds is a list; of a domain scan it repeats nothing, and its
\* subdomains are names on certificates.
LEMMA ScannedTyped ==
  ASSUME InputsInv
  PROVE  /\ IsList(Scanned)
         /\ input.about = "domain" => NoRepeat(Scanned)
         /\ \A f \in Listed(Scanned) : f.type = "subdomain" =>
              \E l \in Logs \ {Failed, Malformed} : f.value \in CertifiedNames(Domain, l)
<1>1. CASE input.about = "domain"
  <2>1. input.records \in RecordOutcomes /\ input.log \in Logs /\ input.rdap \in RdapAnswers
    BY <1>1 DEF InputsInv, ScanInput
  <2>2. PICK o \in RecordOutcomes, l \in Logs, r \in RdapAnswers :
          o = input.records /\ l = input.log /\ r = input.rdap
    BY <2>1
  <2>3. Scanned = DnsExecute(Domain, o, l).findings \o RdapExecute(r).findings
    BY <1>1, <2>2 DEF Scanned
  <2>4. /\ IsList(Scanned) /\ NoRepeat(Scanned)
        /\ \A f \in Listed(Scanned) : f.type = "subdomain" =>
             l \notin {Failed, Malformed} /\ f.value \in CertifiedNames(Domain, l)
    BY <2>3, DomainScan
  <2> QED  BY <2>4
<1>2. CASE input.about = "username"
  <2>1. PICK o \in Outputs : o = input.output
    BY <1>2 DEF InputsInv, ScanInput
  <2>2. Scanned = SherlockExecute(o).findings
    BY <1>2, <2>1 DEF Scanned
  <2>3. IsList(Scanned) /\ \A f \in Listed(Scanned) : f.type = "social_account"
    BY <2>2, UsernameScan
  <2> QED  BY <1>2, <2>3
<1>3. CASE input.about \notin {"domain", "username"}
  <2>1. Scanned = <<>>
    BY <1>3 DEF Scanned
  <2> QED  BY <1>3, <2>1, EmptyNoRepeat
<1> QED  BY <1>1, <1>2, <1>3

\* Two findings of a domain scan, be they of one module or of two, share the key of the
\* deduplication only as records of one type, or as statuses, whose texts differ in
\* nothing but case and white space (core/normalizer.py:20-99, core/deduplicator.py:146).
THEOREM RepetitionsDifferInSpelling == Spec => []RepeatsOnlyBySpelling
<1>1. InputsInv => RepeatsOnlyBySpelling
  BY ScannedTyped, Zenon DEF RepeatsOnlyBySpelling, NoRepeat
<1> QED  BY <1>1, InputsAlways, PTL

\* A subdomain a scan found leads to a target within the scope of the scanned domain.
LEMMA SubdomainInScope ==
  ASSUME NEW l \in Logs \ {Failed, Malformed}, NEW f, f.type = "subdomain",
         f.value \in CertifiedNames(Domain, l), NEW t \in Listed(TargetOf(f))
  PROVE  Allowed(Scope, t)
<1>1. PICK m \in l : f.value = StripWildcards(m) /\ Under(f.value, Domain)
  BY DEF CertifiedNames
<1>2. StripWildcards(f.value) = f.value
  <2>1. m \in Seq(Listed(m))
    BY AnswersAssumption
  <2> QED  BY <1>1, <2>1, StripTwice
<1>3. TargetOf(f) = HostTarget(f.value)
  BY <1>2 DEF TargetOf
<1>4. t = [type |-> "domain", value |-> f.value]
  <2>1. HostTarget(f.value) = <<>> \/ HostTarget(f.value) = <<[type |-> "domain", value |-> f.value]>>
    BY DEF HostTarget, Target, NoTarget
  <2> QED  BY <1>3, <2>1 DEF Listed
<1>5. DomainAllowed(Scope, f.value)
  BY <1>1, ScopeAssumption DEF DomainAllowed
<1> QED  BY <1>4, <1>5, ScopeAssumption DEF Allowed

\* Every target named by the findings of a scan becomes one lead, credited to the first
\* finding that names it and in their order; the scope admits every subdomain found and
\* no ip target but an address (core/adaptive.py:65-206, core/scope.py:86-169).
THEOREM LeadsAreComplete == Spec => []LeadsComplete
<1>1. ASSUME InputsInv
      PROVE  LeadsComplete
  <2> DEFINE s == Scanned
             leads == extract_leads(s)
  <2>1. /\ IsList(s)
        /\ \A f \in Listed(s) : f.type = "subdomain" =>
             \E l \in Logs \ {Failed, Malformed} : f.value \in CertifiedNames(Domain, l)
    BY <1>1, ScannedTyped
  <2> HIDE DEF s
  <2>2. /\ \A k \in DOMAIN leads :
             /\ leads[k].source \in Naming(s, leads[k].target)
             /\ \A i \in Naming(s, leads[k].target) : leads[k].source <= i
             /\ \A m \in 1 .. k - 1 : leads[m].source < leads[k].source
        /\ \A i \in DOMAIN s : \A t \in Listed(TargetOf(s[i])) :
             \E m \in DOMAIN leads : leads[m].target = t
    BY <2>1, LeadsOfList DEF IsList
  <2> HIDE DEF leads
  <2>3. ASSUME NEW k \in DOMAIN leads, s[leads[k].source].type = "subdomain"
        PROVE  Allowed(Scope, leads[k].target)
    <3> DEFINE i == leads[k].source
    <3>1. i \in DOMAIN s /\ leads[k].target \in Listed(TargetOf(s[i]))
      BY <2>2 DEF Naming
    <3>2. s[i] \in Listed(s) /\ s[i].type = "subdomain"
      BY <2>3, <3>1 DEF Listed
    <3>3. PICK l \in Logs \ {Failed, Malformed} : s[i].value \in CertifiedNames(Domain, l)
      BY <2>1, <3>2
    <3> HIDE DEF i
    <3> QED  BY <3>1, <3>2, <3>3, SubdomainInScope
  <2>4. ASSUME NEW k \in DOMAIN leads, leads[k].target.type = "ip", Allowed(Scope, leads[k].target)
        PROVE  leads[k].target.value \in Addresses
    BY <2>4, ScopeAssumption DEF Allowed, IpAllowed
  <2> QED  BY <2>2, <2>3, <2>4 DEF LeadsComplete, leads, s
<1> QED  BY <1>1, InputsAlways, PTL
=============================================================================
