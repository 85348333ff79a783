----------------------- MODULE StatusReportStoreProofs -----------------------
(* What the operations of the status report store do to every queue.        *)
(*                                                                          *)
(* Without is a recursive function, and what it computes is shown by        *)
(* induction on the length of the queue.  The induction is the least number *)
(* principle: the least position at which a claim fails is neither the      *)
(* first nor the successor of one at which it holds.                        *)
EXTENDS StatusReportStore, SequenceTheorems, WellFoundedInduction, TLAPS

Below == {p \in Nat \X Nat : p[1] < p[2]}

LEMMA LeastNumber ==
    ASSUME NEW T, T \subseteq Nat, T # {}
    PROVE  \E m \in T : \A k \in T : m =< k
<1>1. IsWellFoundedOn(Below, Nat)
  BY NatLessThanWellFounded DEF Below, OpToRel
<1>2. PICK m \in T : \A k \in T : <<k, m>> \notin Below
  BY <1>1, WFMin
<1>3. \A k \in T : m =< k
  <2> TAKE k \in T
  <2>1. k \in Nat /\ m \in Nat
    OBVIOUS
  <2>2. ~(k < m)
    BY <1>2, <2>1 DEF Below
  <2> QED
    BY <2>1, <2>2
<1> QED
  BY <1>3

-----------------------------------------------------------------------------
(* Sequences made of others, position by position.                          *)

\* h is g with e behind it.
Extends(h, g, e) ==
    /\ \A i \in DOMAIN g : i \in DOMAIN h /\ h[i] = g[i]
    /\ \E last \in DOMAIN h :
            /\ h[last] = e
            /\ \A i \in DOMAIN h : i = last \/ i \in DOMAIN g
            /\ \A i, j \in DOMAIN h : i < j => i \in DOMAIN g

LEMMA AppendParts ==
    ASSUME NEW S, NEW g \in Seq(S), NEW e \in S, NEW h, h = Append(g, e)
    PROVE  h \in Seq(S) /\ Extends(h, g, e)
<1>1. /\ h \in Seq(S) /\ DOMAIN h = 1..(Len(g) + 1)
      /\ DOMAIN g = 1..Len(g) /\ Len(g) \in Nat
      /\ \A i \in 1..Len(g) : h[i] = g[i]
      /\ h[Len(g) + 1] = e
  OBVIOUS
<1> DEFINE last == Len(g) + 1
<1>2. /\ last \in DOMAIN h
      /\ \A i \in DOMAIN g : i \in DOMAIN h
      /\ \A i \in DOMAIN h : i = last \/ i \in DOMAIN g
      /\ \A i, j \in DOMAIN h : i < j => i \in DOMAIN g
  BY <1>1
<1> QED
  BY <1>1, <1>2 DEF Extends

LEMMA SubSeqParts ==
    ASSUME NEW S, NEW s \in Seq(S), NEW at \in DOMAIN s
    PROVE  /\ DOMAIN s = 1..Len(s) /\ Len(s) \in Nat /\ at \in 1..Len(s)
           /\ SubSeq(s, 1, at - 1) \in Seq(S) /\ DOMAIN SubSeq(s, 1, at - 1) = 1..(at - 1)
           /\ \A i \in DOMAIN SubSeq(s, 1, at - 1) : SubSeq(s, 1, at - 1)[i] = s[i]
           /\ SubSeq(s, at + 1, Len(s)) \in Seq(S)
           /\ Len(SubSeq(s, at + 1, Len(s))) = Len(s) - at
           /\ \A i \in 1..(Len(s) - at) : SubSeq(s, at + 1, Len(s))[i] = s[at + i]
<1>1. DOMAIN s = 1..Len(s) /\ Len(s) \in Nat /\ at \in 1..Len(s)
  OBVIOUS
<1>2. /\ \A i \in 1..(at - 1) : s[i] \in S
      /\ \A i \in (at + 1)..Len(s) : s[i] \in S
      /\ 1 \in Int /\ at - 1 \in Int /\ at + 1 \in Int /\ Len(s) \in Int
  BY <1>1
<1> DEFINE before == SubSeq(s, 1, at - 1)
           behind == SubSeq(s, at + 1, Len(s))
<1>3. /\ before \in Seq(S) /\ Len(before) = IF 1 <= at - 1 THEN (at - 1) - 1 + 1 ELSE 0
      /\ \A i \in 1..((at - 1) - 1 + 1) : before[i] = s[1 + i - 1]
  BY <1>2, SubSeqProperties
<1>4. /\ behind \in Seq(S)
      /\ Len(behind) = IF at + 1 <= Len(s) THEN Len(s) - (at + 1) + 1 ELSE 0
      /\ \A i \in 1..(Len(s) - (at + 1) + 1) : behind[i] = s[(at + 1) + i - 1]
  BY <1>2, SubSeqProperties
<1> HIDE DEF before, behind
<1>5. DOMAIN before = 1..Len(before)
  BY <1>3
<1>6. DOMAIN before = 1..(at - 1) /\ \A i \in DOMAIN before : before[i] = s[i]
  <2>1. Len(before) = at - 1
    BY <1>1, <1>3
  <2>2. \A i \in 1..(at - 1) : i \in 1..((at - 1) - 1 + 1) /\ 1 + i - 1 = i
    BY <1>1
  <2> QED
    BY <1>3, <1>5, <2>1, <2>2
<1>7. /\ Len(behind) = Len(s) - at
      /\ \A i \in 1..(Len(s) - at) : behind[i] = s[at + i]
  <2>1. \A i \in 1..(Len(s) - at) :
            i \in 1..(Len(s) - (at + 1) + 1) /\ (at + 1) + i - 1 = at + i
    BY <1>1
  <2>2. Len(behind) = Len(s) - at
    BY <1>1, <1>4
  <2> QED
    BY <1>4, <2>1, <2>2
<1> QED
  BY <1>1, <1>3, <1>4, <1>6, <1>7 DEF before, behind

-----------------------------------------------------------------------------
(* Leaving out entries of a queue.                                          *)

\* One pass of the loop of Without.
Pass(f, queue, dropped, n) ==
    IF n = 0 THEN <<>>
    ELSE IF queue[n] \in dropped THEN f[n - 1]
    ELSE Append(f[n - 1], queue[n])

LEMMA PassesExist ==
    ASSUME NEW S, NEW queue \in Seq(S), NEW dropped
    PROVE  \E f : f = [n \in 0..Len(queue) |-> Pass(f, queue, dropped, n)]
<1> DEFINE Exist(k) == \E f : f = [n \in 0..k |-> Pass(f, queue, dropped, n)]
           Missing == {k \in 0..Len(queue) : ~Exist(k)}
<1> SUFFICES ASSUME Missing # {} PROVE FALSE
  OBVIOUS
<1>1. PICK m \in Missing : \A k \in Missing : m =< k
  <2>1. Missing \subseteq Nat
    OBVIOUS
  <2> HIDE DEF Missing
  <2> QED
    BY <2>1, LeastNumber
<1>2. m # 0
  <2>1. [n \in 0..0 |-> <<>>] = [n \in 0..0 |-> Pass([i \in 0..0 |-> <<>>], queue, dropped, n)]
    BY DEF Pass
  <2>2. Exist(0)
    BY <2>1
  <2> QED
    BY <2>2
<1>3. PICK f : f = [n \in 0..(m - 1) |-> Pass(f, queue, dropped, n)]
  BY <1>1, <1>2
<1> DEFINE g == [n \in 0..m |-> IF n = m THEN Pass(f, queue, dropped, m) ELSE f[n]]
<1>4. ASSUME NEW n \in 0..m
      PROVE  g[n] = Pass(g, queue, dropped, n)
  <2>1. n # 0 => g[n - 1] = f[n - 1]
    OBVIOUS
  <2>2. Pass(g, queue, dropped, n) = Pass(f, queue, dropped, n)
    BY <2>1 DEF Pass
  <2>3. CASE n = m
    BY <2>2, <2>3
  <2>4. CASE n # m
    <3>1. n \in 0..(m - 1)
      BY <2>4
    <3>2. f[n] = Pass(f, queue, dropped, n)
      BY <1>3, <3>1
    <3> QED
      BY <2>2, <2>4, <3>2
  <2> QED
    BY <2>3, <2>4
<1>5. g = [n \in 0..m |-> Pass(g, queue, dropped, n)]
  BY <1>4
<1> QED
  BY <1>5

LEMMA WithoutPasses ==
    ASSUME NEW S, NEW queue \in Seq(S), NEW dropped
    PROVE  \E f : /\ Without(queue, dropped) = f[Len(queue)]
                  /\ \A n \in 0..Len(queue) : f[n] = Pass(f, queue, dropped, n)
<1> DEFINE F == CHOOSE f : f = [n \in 0..Len(queue) |->
                    IF n = 0 THEN <<>>
                    ELSE IF queue[n] \in dropped THEN f[n - 1]
                    ELSE Append(f[n - 1], queue[n])]
<1>1. F = [n \in 0..Len(queue) |-> Pass(F, queue, dropped, n)]
  <2>1. \E f : f = [n \in 0..Len(queue) |->
                    IF n = 0 THEN <<>>
                    ELSE IF queue[n] \in dropped THEN f[n - 1]
                    ELSE Append(f[n - 1], queue[n])]
    <3>1. PICK f : f = [n \in 0..Len(queue) |-> Pass(f, queue, dropped, n)]
      BY PassesExist
    <3> QED
      BY <3>1 DEF Pass
  <2>2. F = [n \in 0..Len(queue) |->
                    IF n = 0 THEN <<>>
                    ELSE IF queue[n] \in dropped THEN F[n - 1]
                    ELSE Append(F[n - 1], queue[n])]
    BY <2>1
  <2> HIDE DEF F
  <2> QED
    BY <2>2 DEF Pass
<1>2. Without(queue, dropped) = F[Len(queue)]
  BY DEF Without
<1> QED
  BY <1>1, <1>2

\* The order of `part` is that of `whole`: two of its entries, the one behind
\* the other, are such in `whole`.
InOrderOf(part, whole) ==
    \A i, j \in DOMAIN part : i < j =>
        \E a, b \in DOMAIN whole : a < b /\ whole[a] = part[i] /\ whole[b] = part[j]

\* Without leaves a queue of exactly the entries that are not dropped, in their
\* order.
LEMMA WithoutProperties ==
    ASSUME NEW S, NEW queue \in Seq(S), NEW dropped
    PROVE  /\ Without(queue, dropped) \in Seq(S)
           /\ \A r : Queued(Without(queue, dropped), r) <=> Queued(queue, r) /\ r \notin dropped
           /\ InOrderOf(Without(queue, dropped), queue)
<1>1. PICK f : /\ Without(queue, dropped) = f[Len(queue)]
               /\ \A n \in 0..Len(queue) : f[n] = Pass(f, queue, dropped, n)
  BY WithoutPasses
<1> DEFINE Right(n) ==
        /\ f[n] \in Seq(S)
        /\ \A i \in DOMAIN f[n] : \E a \in 1..n : queue[a] = f[n][i] /\ f[n][i] \notin dropped
        /\ \A a \in 1..n : queue[a] \notin dropped => \E i \in DOMAIN f[n] : f[n][i] = queue[a]
        /\ \A i, j \in DOMAIN f[n] : i < j =>
              \E a, b \in 1..n : a < b /\ queue[a] = f[n][i] /\ queue[b] = f[n][j]
<1>2. Len(queue) \in Nat /\ \A n \in 1..Len(queue) : queue[n] \in S
  OBVIOUS
<1>3. Right(0)
  <2>1. f[0] = <<>>
    BY <1>1, <1>2 DEF Pass
  <2>2. f[0] \in Seq(S) /\ DOMAIN f[0] = {}
    BY <2>1
  <2> QED
    BY <2>2
<1>4. ASSUME NEW n \in 1..Len(queue), Right(n - 1)
      PROVE  Right(n)
  <2>1. f[n] = IF queue[n] \in dropped THEN f[n - 1] ELSE Append(f[n - 1], queue[n])
    BY <1>1, <1>2 DEF Pass
  <2>2. CASE queue[n] \in dropped
    BY <1>2, <1>4, <2>1, <2>2
  <2>3. CASE queue[n] \notin dropped
    <3> DEFINE g == f[n - 1]
    <3>1. g \in Seq(S) /\ f[n] = Append(g, queue[n]) /\ queue[n] \in S
      BY <1>2, <1>4, <2>1, <2>3
    <3> HIDE DEF g
    <3>2. f[n] \in Seq(S) /\ Extends(f[n], g, queue[n])
      BY <3>1, AppendParts
    <3>3. PICK last \in DOMAIN f[n] :
                /\ f[n][last] = queue[n]
                /\ \A i \in DOMAIN f[n] : i = last \/ i \in DOMAIN g
                /\ \A i, j \in DOMAIN f[n] : i < j => i \in DOMAIN g
      BY <3>2, Zenon DEF Extends
    <3>4. n \in 1..n /\ \A a \in 1..(n - 1) : a \in 1..n /\ a < n
      BY <1>2
    <3>5. \A a \in 1..n : a = n \/ a \in 1..(n - 1)
      BY <1>2
    <3>6. /\ \A i \in DOMAIN g : \E a \in 1..(n - 1) : queue[a] = g[i] /\ g[i] \notin dropped
          /\ \A a \in 1..(n - 1) :
                queue[a] \notin dropped => \E i \in DOMAIN g : g[i] = queue[a]
          /\ \A i, j \in DOMAIN g : i < j =>
                \E a, b \in 1..(n - 1) : a < b /\ queue[a] = g[i] /\ queue[b] = g[j]
      BY <1>4 DEF g
    <3>7. ASSUME NEW i \in DOMAIN f[n]
          PROVE  \E a \in 1..n : queue[a] = f[n][i] /\ f[n][i] \notin dropped
      <4>1. CASE i = last
        BY <2>3, <3>3, <3>4, <4>1
      <4>2. CASE i # last
        <5>1. i \in DOMAIN g /\ f[n][i] = g[i]
          BY <3>2, <3>3, <4>2 DEF Extends
        <5>2. PICK a \in 1..(n - 1) : queue[a] = g[i] /\ g[i] \notin dropped
          BY <3>6, <5>1
        <5> QED
          BY <3>4, <5>1, <5>2
      <4> QED
        BY <4>1, <4>2
    <3>8. ASSUME NEW a \in 1..n, queue[a] \notin dropped
          PROVE  \E i \in DOMAIN f[n] : f[n][i] = queue[a]
      <4>1. CASE a = n
        BY <3>3, <4>1
      <4>2. CASE a # n
        <5>1. PICK i \in DOMAIN g : g[i] = queue[a]
          BY <3>5, <3>6, <3>8, <4>2
        <5> QED
          BY <3>2, <5>1 DEF Extends
      <4> QED
        BY <4>1, <4>2
    <3>9. ASSUME NEW i \in DOMAIN f[n], NEW j \in DOMAIN f[n], i < j
          PROVE  \E a, b \in 1..n : a < b /\ queue[a] = f[n][i] /\ queue[b] = f[n][j]
      <4>1. i \in DOMAIN g /\ f[n][i] = g[i]
        BY <3>2, <3>3, <3>9 DEF Extends
      <4>2. CASE j = last
        <5>1. PICK a \in 1..(n - 1) : queue[a] = g[i]
          BY <3>6, <4>1
        <5> QED
          BY <3>3, <3>4, <4>1, <4>2, <5>1
      <4>3. CASE j # last
        <5>1. j \in DOMAIN g /\ f[n][j] = g[j]
          BY <3>2, <3>3, <4>3 DEF Extends
        <5>2. PICK a \in 1..(n - 1), b \in 1..(n - 1) : a < b /\ queue[a] = g[i] /\ queue[b] = g[j]
          BY <3>6, <3>9, <4>1, <5>1
        <5> QED
          BY <3>4, <4>1, <5>1, <5>2
      <4> QED
        BY <4>2, <4>3
    <3> QED
      BY <3>2, <3>7, <3>8, <3>9
  <2> QED
    BY <2>2, <2>3
<1>5. Right(Len(queue))
  <2> DEFINE Wrong == {n \in 0..Len(queue) : ~Right(n)}
  <2> SUFFICES ASSUME Wrong # {} PROVE FALSE
    BY <1>2
  <2> HIDE DEF Right
  <2>1. PICK m \in Wrong : \A k \in Wrong : m =< k
    <3>1. Wrong \subseteq Nat
      OBVIOUS
    <3> HIDE DEF Wrong
    <3> QED
      BY <3>1, LeastNumber
  <2>2. m # 0
    BY <1>3
  <2>3. m \in 1..Len(queue) /\ m - 1 \in 0..Len(queue) /\ m - 1 \notin Wrong
    BY <1>2, <2>1, <2>2
  <2>4. Right(m - 1)
    BY <2>3
  <2> QED
    BY <1>4, <2>3, <2>4
<1> DEFINE rest == Without(queue, dropped)
<1>6. DOMAIN queue = 1..Len(queue)
  BY <1>2
<1>7. /\ rest \in Seq(S)
      /\ \A i \in DOMAIN rest : \E a \in DOMAIN queue : queue[a] = rest[i] /\ rest[i] \notin dropped
      /\ \A a \in DOMAIN queue : queue[a] \notin dropped => \E i \in DOMAIN rest : rest[i] = queue[a]
      /\ \A i, j \in DOMAIN rest : i < j =>
            \E a, b \in DOMAIN queue : a < b /\ queue[a] = rest[i] /\ queue[b] = rest[j]
  <2>1. Right(Len(queue)) /\ f[Len(queue)] = rest
    BY <1>1, <1>5
  <2> HIDE DEF rest
  <2>2. rest \in Seq(S)
    BY <2>1
  <2>3. ASSUME NEW i \in DOMAIN rest
        PROVE  \E a \in DOMAIN queue : queue[a] = rest[i] /\ rest[i] \notin dropped
    <3>1. PICK a \in 1..Len(queue) : queue[a] = rest[i] /\ rest[i] \notin dropped
      BY <2>1
    <3> QED
      BY <1>6, <3>1
  <2>4. ASSUME NEW a \in DOMAIN queue, queue[a] \notin dropped
        PROVE  \E i \in DOMAIN rest : rest[i] = queue[a]
    BY <1>6, <2>1, <2>4
  <2>5. ASSUME NEW i \in DOMAIN rest, NEW j \in DOMAIN rest, i < j
        PROVE  \E a, b \in DOMAIN queue : a < b /\ queue[a] = rest[i] /\ queue[b] = rest[j]
    <3>1. PICK a \in 1..Len(queue), b \in 1..Len(queue) :
                a < b /\ queue[a] = rest[i] /\ queue[b] = rest[j]
      BY <2>1, <2>5
    <3> QED
      BY <1>6, <3>1
  <2> QED
    BY <2>2, <2>3, <2>4, <2>5
<1> HIDE DEF rest
<1>8. InOrderOf(rest, queue)
  BY <1>7 DEF InOrderOf
<1>9. ASSUME NEW r
      PROVE  Queued(rest, r) <=> Queued(queue, r) /\ r \notin dropped
  BY <1>7 DEF Queued
<1> QED
  BY <1>7, <1>8, <1>9 DEF rest

-----------------------------------------------------------------------------
(* The operations of the store.                                             *)

\* No entry twice.
Distinct(queue) == \A i, j \in DOMAIN queue : queue[i] = queue[j] => i = j

LEMMA EnqueueProperties ==
    ASSUME NEW S, NEW queue \in Seq(S), NEW r \in S
    PROVE  /\ Enqueue(queue, r) \in Seq(S)
           /\ \A x : Queued(Enqueue(queue, r), x) <=> Queued(queue, x) \/ x = r
           /\ Distinct(queue) => Distinct(Enqueue(queue, r))
<1>1. CASE Queued(queue, r)
  BY <1>1 DEF Enqueue
<1>2. CASE ~Queued(queue, r)
  <2> DEFINE longer == Append(queue, r)
  <2>1. /\ longer \in Seq(S)
        /\ DOMAIN queue = 1..Len(queue) /\ DOMAIN longer = 1..(Len(queue) + 1)
        /\ Len(queue) \in Nat
        /\ \A i \in 1..Len(queue) : longer[i] = queue[i]
        /\ longer[Len(queue) + 1] = r
    OBVIOUS
  <2> HIDE DEF longer
  <2>2. \A x : Queued(longer, x) <=> Queued(queue, x) \/ x = r
    BY <2>1 DEF Queued
  <2>3. Distinct(queue) => Distinct(longer)
    BY <1>2, <2>1 DEF Distinct, Queued
  <2> QED
    BY <1>2, <2>1, <2>2, <2>3 DEF Enqueue, longer
<1> QED
  BY <1>1, <1>2

\* Acknowledging the report at position `at` leaves the entries behind it, and
\* those before it that are of other targets.
LEMMA AcknowledgeProperties ==
    ASSUME NEW S, NEW queue \in Seq(S), NEW r
    PROVE  /\ Acknowledge(queue, r) \in Seq(S)
           /\ InOrderOf(Acknowledge(queue, r), queue)
           /\ \A x : Queued(Acknowledge(queue, r), x) => Queued(queue, x)
           /\ \A x : Queued(queue, x) /\ x.target # r.target => Queued(Acknowledge(queue, r), x)
           /\ Distinct(queue) =>
                \A at, i \in DOMAIN queue :
                    queue[at] = r =>
                        /\ ~Queued(Acknowledge(queue, r), r)
                        /\ at < i => Queued(Acknowledge(queue, r), queue[i])
<1>1. CASE ~Queued(queue, r)
  BY <1>1 DEF Acknowledge, InOrderOf, Queued
<1>2. CASE Queued(queue, r)
  <2> DEFINE at == CHOOSE i \in DOMAIN queue : queue[i] = r
             before == SubSeq(queue, 1, at - 1)
             behind == SubSeq(queue, at + 1, Len(queue))
             kept == Without(before, OfTarget(queue, r.target))
             left == kept \o behind
  <2>1. at \in DOMAIN queue /\ queue[at] = r
    BY <1>2 DEF Queued
  <2>2. Acknowledge(queue, r) = left
    BY <1>2 DEF Acknowledge
  <2> HIDE DEF at
  <2>3. /\ DOMAIN queue = 1..Len(queue) /\ Len(queue) \in Nat /\ at \in 1..Len(queue)
        /\ before \in Seq(S) /\ DOMAIN before = 1..(at - 1)
        /\ \A i \in DOMAIN before : before[i] = queue[i]
        /\ behind \in Seq(S) /\ Len(behind) = Len(queue) - at
        /\ \A i \in 1..(Len(queue) - at) : behind[i] = queue[at + i]
    BY <2>1, SubSeqParts
  <2> HIDE DEF before, behind
  <2>4. /\ kept \in Seq(S)
        /\ \A x : Queued(kept, x) <=> Queued(before, x) /\ x \notin OfTarget(queue, r.target)
        /\ InOrderOf(kept, before)
    BY <2>3, WithoutProperties
  <2> HIDE DEF kept
  <2>5. /\ left \in Seq(S)
        /\ DOMAIN kept = 1..Len(kept) /\ DOMAIN left = 1..(Len(kept) + Len(behind))
        /\ Len(kept) \in Nat /\ Len(behind) \in Nat
        /\ \A i \in 1..Len(kept) : left[i] = kept[i]
        /\ \A i \in 1..Len(behind) : left[Len(kept) + i] = behind[i]
    <3>1. kept \in Seq(S) /\ behind \in Seq(S)
      BY <2>3, <2>4
    <3> HIDE DEF left
    <3>2. /\ left \in Seq(S)
          /\ Len(left) = Len(kept) + Len(behind)
          /\ \A i \in 1..(Len(kept) + Len(behind)) :
                left[i] = IF i =< Len(kept) THEN kept[i] ELSE behind[i - Len(kept)]
      BY <3>1, ConcatProperties DEF left
    <3>3. Len(kept) \in Nat /\ Len(behind) \in Nat
          /\ DOMAIN kept = 1..Len(kept) /\ DOMAIN left = 1..Len(left)
      BY <3>1, <3>2
    <3>4. \A i \in 1..Len(kept) : left[i] = kept[i]
      BY <3>2, <3>3
    <3>5. \A i \in 1..Len(behind) : left[Len(kept) + i] = behind[i]
      <4> TAKE i \in 1..Len(behind)
      <4>1. Len(kept) + i \in 1..(Len(kept) + Len(behind)) /\ ~(Len(kept) + i =< Len(kept))
            /\ (Len(kept) + i) - Len(kept) = i
        BY <3>3
      <4> QED
        BY <3>2, <4>1
    <3> QED
      BY <3>2, <3>3, <3>4, <3>5
  <2> HIDE DEF left
  <2>6. \A i \in DOMAIN kept : \E a \in DOMAIN before : before[a] = kept[i]
    BY <2>4 DEF Queued
  <2>7. \A i \in DOMAIN left :
            \/ i \in DOMAIN kept /\ left[i] = kept[i]
            \/ /\ i > Len(kept) /\ at + (i - Len(kept)) \in DOMAIN queue
               /\ left[i] = queue[at + (i - Len(kept))]
    <3> TAKE i \in DOMAIN left
    <3>1. CASE i =< Len(kept)
      BY <2>5, <3>1
    <3>2. CASE i > Len(kept)
      <4>1. i - Len(kept) \in 1..Len(behind) /\ i = Len(kept) + (i - Len(kept))
        BY <2>5, <3>2
      <4>2. left[i] = behind[i - Len(kept)]
        BY <2>5, <4>1
      <4>3. i - Len(kept) \in 1..(Len(queue) - at)
        BY <2>3, <4>1
      <4>4. at + (i - Len(kept)) \in DOMAIN queue
        BY <2>3, <4>3
      <4> QED
        BY <2>3, <3>2, <4>2, <4>3, <4>4
    <3> QED
      BY <2>5, <3>1, <3>2
  <2>8. InOrderOf(left, queue)
    <3> SUFFICES ASSUME NEW i \in DOMAIN left, NEW j \in DOMAIN left, i < j
                 PROVE  \E a, b \in DOMAIN queue :
                            a < b /\ queue[a] = left[i] /\ queue[b] = left[j]
      BY DEF InOrderOf
    <3>1. CASE j \in DOMAIN kept
      <4>1. i \in DOMAIN kept /\ left[i] = kept[i] /\ left[j] = kept[j]
        BY <2>5, <3>1
      <4>2. PICK a \in DOMAIN before, b \in DOMAIN before :
                    a < b /\ before[a] = kept[i] /\ before[b] = kept[j]
        BY <2>4, <3>1, <4>1 DEF InOrderOf
      <4>3. a \in DOMAIN queue /\ b \in DOMAIN queue
        BY <2>1, <2>3
      <4> QED
        BY <2>3, <4>1, <4>2, <4>3
    <3>2. CASE j \notin DOMAIN kept
      <4> DEFINE b == at + (j - Len(kept))
      <4>1. j > Len(kept) /\ b \in DOMAIN queue /\ queue[b] = left[j]
        BY <2>7, <3>2
      <4>2. CASE i \in DOMAIN kept
        <5>1. PICK a \in DOMAIN before : before[a] = kept[i]
          BY <2>6, <4>2
        <5>2. a < b /\ a \in DOMAIN queue /\ queue[a] = left[i]
          <6>1. a \in 1..(at - 1) /\ at \in 1..Len(queue) /\ queue[a] = before[a]
            BY <2>3
          <6>2. left[i] = kept[i]
            BY <2>5, <4>2
          <6>3. j \in Nat /\ Len(kept) \in Nat /\ j > Len(kept)
            BY <2>5, <4>1
          <6>4. a < b /\ a \in 1..Len(queue)
            BY <2>3, <6>1, <6>3
          <6> QED
            BY <2>3, <5>1, <6>1, <6>2, <6>4
        <5> QED
          BY <4>1, <5>2
      <4>3. CASE i \notin DOMAIN kept
        <5> DEFINE a == at + (i - Len(kept))
        <5>1. a \in DOMAIN queue /\ queue[a] = left[i]
          BY <2>7, <4>3
        <5>2. a < b
          BY <2>3, <2>5
        <5> HIDE DEF a, b
        <5> QED
          BY <4>1, <5>1, <5>2
      <4> QED
        BY <4>2, <4>3
    <3> QED
      BY <3>1, <3>2
  <2>9. ASSUME NEW x, Queued(left, x)
        PROVE  Queued(queue, x)
    <3>1. PICK i \in DOMAIN left : left[i] = x
      BY <2>9 DEF Queued
    <3>2. CASE i \in DOMAIN kept /\ left[i] = kept[i]
      <4>1. PICK a \in DOMAIN before : before[a] = kept[i]
        BY <2>6, <3>2
      <4>2. a \in DOMAIN queue /\ queue[a] = x
        BY <2>1, <2>3, <3>1, <3>2, <4>1
      <4> QED
        BY <4>2 DEF Queued
    <3>3. CASE at + (i - Len(kept)) \in DOMAIN queue /\ left[i] = queue[at + (i - Len(kept))]
      BY <3>1, <3>3 DEF Queued
    <3> QED
      BY <2>7, <3>2, <3>3
  <2>10. ASSUME NEW i \in DOMAIN queue, at < i
         PROVE  Queued(left, queue[i])
    <3>1. i - at \in 1..Len(behind) /\ i = at + (i - at)
      BY <2>3, <2>10
    <3>2. behind[i - at] = queue[i]
      BY <2>3, <3>1
    <3>3. left[Len(kept) + (i - at)] = queue[i] /\ Len(kept) + (i - at) \in DOMAIN left
      BY <2>5, <3>1, <3>2
    <3> QED
      BY <3>3 DEF Queued
  <2>11. ASSUME NEW x, Queued(queue, x), x.target # r.target
         PROVE  Queued(left, x)
    <3>1. PICK i \in DOMAIN queue : queue[i] = x
      BY <2>11 DEF Queued
    <3>2. CASE at < i
      BY <2>10, <3>1, <3>2
    <3>3. CASE i < at
      <4>1. i \in DOMAIN before /\ before[i] = x
        BY <2>3, <3>1, <3>3
      <4>2. x \notin OfTarget(queue, r.target)
        BY <2>11 DEF OfTarget
      <4>3. Queued(kept, x)
        BY <2>4, <4>1, <4>2 DEF Queued
      <4> QED
        BY <2>5, <4>3 DEF Queued
    <3>4. i # at
      BY <2>1, <2>11, <3>1
    <3> QED
      BY <2>3, <3>2, <3>3, <3>4
  <2>12. ASSUME Distinct(queue)
         PROVE  ~Queued(left, r)
    <3> SUFFICES ASSUME NEW i \in DOMAIN left, left[i] = r PROVE FALSE
      BY DEF Queued
    <3>1. CASE i \in DOMAIN kept /\ left[i] = kept[i]
      <4>1. PICK a \in DOMAIN before : before[a] = kept[i]
        BY <2>6, <3>1
      <4>2. a \in DOMAIN queue /\ queue[a] = r /\ a < at
        BY <2>1, <2>3, <3>1, <4>1
      <4> QED
        BY <2>1, <2>12, <4>2 DEF Distinct
    <3>2. CASE i > Len(kept) /\ at + (i - Len(kept)) \in DOMAIN queue
                /\ left[i] = queue[at + (i - Len(kept))]
      <4>1. at + (i - Len(kept)) = at
        BY <2>1, <2>12, <3>2 DEF Distinct
      <4> QED
        BY <2>3, <2>5, <3>2, <4>1
    <3> QED
      BY <2>7, <3>1, <3>2
  <2>13. Distinct(queue) => \A i \in DOMAIN queue : queue[i] = r => i = at
    BY <2>1 DEF Distinct
  <2> QED
    BY <2>2, <2>5, <2>8, <2>9, <2>10, <2>11, <2>12, <2>13
<1> QED
  BY <1>1, <1>2

LEMMA RemoveProperties ==
    ASSUME NEW S, NEW queue \in Seq(S), NEW r
    PROVE  Remove(queue, r) \in Seq(S)
BY WithoutProperties DEF Remove

LEMMA DistinctInOrder ==
    ASSUME NEW S, NEW part \in Seq(S), NEW whole \in Seq(S),
           InOrderOf(part, whole), Distinct(whole)
    PROVE  Distinct(part)
<1> SUFFICES ASSUME NEW i \in DOMAIN part, NEW j \in DOMAIN part, part[i] = part[j], i < j
             PROVE  FALSE
  <2>1. \A i, j \in DOMAIN part : i \in Nat /\ j \in Nat
    OBVIOUS
  <2> QED
    BY <2>1 DEF Distinct
<1> QED
  BY DEF InOrderOf, Distinct

=============================================================================
