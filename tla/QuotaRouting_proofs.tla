-------------------------- MODULE QuotaRouting_proofs --------------------------
(***************************************************************************)
(* Proofs about the choice of a subscription, for any pool that is sorted  *)
(* by insertion (at most SortBlock), whatever the quotas and however the   *)
(* answers come.                                                           *)
(*                                                                         *)
(* The argument.  A subscription answers once (AnswersOnce), so that       *)
(* nobody is a candidate twice; the candidates are the usable              *)
(* subscriptions that are not depleted, and keep the order of age if all   *)
(* had answered (CandidatesMay); the choice is the head of the sorted      *)
(* candidates (Decided).  What that head is worth follows from the stable  *)
(* sort alone: no element goes before its predecessor (Linked), even when  *)
(* the comparison is no order.  So urgencies fall by at most one tolerance *)
(* from place to place (Chain), and where one whose allowance is known     *)
(* follows, one that is known goes before (KnownFirst): a known urgency is *)
(* not negative, and an unknown one is below it by more than the           *)
(* tolerance.  And in order of age the candidates have one arrangement     *)
(* only (OneOrderByAge), whoever answered first.                           *)
(***************************************************************************)
EXTENDS QuotaRouting, SequenceTheorems, FiniteSetTheorems, WellFoundedInduction, TLAPS

\* Whose status has arrived.
Answered == {x.account : x \in Range(snapshots)}

\* In the order of accountSnapshots, the controller is the oldest.
Age(a) == IF a = Primary THEN -1 ELSE CreatedAt[a]
InOrder(s) == \A j, k \in 1..Len(s) : j < k => Age(s[j]) <= Age(s[k])

\* Every variable has its type.
Typed ==
  /\ TypeOK
  /\ alert \in [answered : SUBSET Accounts, reset : Int \union {NoTime}, preview : BOOLEAN]

\* A subscription answers once, and until the choice goes on it is waited for until
\* then.
AnswersOnce ==
  /\ \A i, j \in DOMAIN snapshots : snapshots[i].account = snapshots[j].account => i = j
  /\ phase = "asking" => waiting = Accounts \ Answered
  /\ phase = "asking again" => waiting \intersect Answered = {}

\* The candidates are those that may take the chat; there is one as long as one is
\* looked for, and they are in order of age if all subscriptions have answered.
CandidatesMay ==
  /\ phase \in {"crediting", "chosen"} =>
       /\ candidates # <<>> /\ Range(candidates) = {a \in Usable : ~Depleted(a)}
       /\ Answered = Accounts => InOrder(candidates)
  /\ phase = "depleted" => \A a \in Usable : Depleted(a)

\* The one chosen is the first of them by the counts that had arrived, and the alert
\* is that of a preview or of the subscriptions that had answered.
Decided ==
  /\ phase = "chosen" => choice = Head(Sorted(candidates, PreferenceOrder))
  /\ phase = "reported" /\ ~alert.preview => alert.reset = PooledReset(alert.answered)

IInv == Typed /\ AnswersOnce /\ CandidatesMay /\ Decided

--------------------------------------------------------------------------------
(* Induction, over sets of numbers. *)

LEMMA LeastNumber ==
  ASSUME NEW T \in SUBSET Nat, T # {} PROVE \E m \in T : \A x \in T : m <= x
<1>1. PICK m \in T : \A x \in T : ~ (<<x, m>> \in OpToRel(<, Nat))
  BY NatLessThanWellFounded, WFMin
<1>2. \A x \in T : <<x, m>> \in OpToRel(<, Nat) <=> x < m
  BY DEF OpToRel
<1>3. ASSUME NEW x \in T PROVE m <= x
  <2>. m \in Nat /\ x \in Nat
    OBVIOUS
  <2>. ~(x < m)
    BY <1>1, <1>2
  <2>. QED
    OBVIOUS
<1>. QED
  BY <1>3

LEMMA Induction ==
  ASSUME NEW T \in SUBSET Nat, 0 \in T, \A n \in T : n + 1 \in T PROVE T = Nat
<1>. SUFFICES ASSUME Nat \ T # {} PROVE FALSE
  OBVIOUS
<1>1. PICK m \in Nat \ T : \A x \in Nat \ T : m <= x
  BY LeastNumber
<1>2. m - 1 \in Nat /\ m - 1 \in T
  BY <1>1
<1>. QED
  BY <1>2

\* A recursion from one number to the next has a result.
Follows(f, m, base, G) == f[0] = base /\ \A n \in 1..m : f[n] = G[n][f[n - 1]]

LEMMA Recursion ==
  ASSUME NEW S, NEW G \in [Nat -> [S -> S]], NEW base \in S
  PROVE  \A m \in Nat : \E f \in [0..m -> S] : Follows(f, m, base, G)
<1>. USE DEF Follows
<1>. DEFINE Runs(f, m) == Follows(f, m, base, G)
            T == {m \in Nat : \E f \in [0..m -> S] : Runs(f, m)}
<1>1. 0 \in T
  <2>. DEFINE f == [n \in 0..0 |-> base]
  <2>. f \in [0..0 -> S] /\ Runs(f, 0)
    OBVIOUS
  <2>. QED
    OBVIOUS
<1>2. ASSUME NEW m \in T PROVE m + 1 \in T
  <2>1. PICK f \in [0..m -> S] : Runs(f, m)
    OBVIOUS
  <2>. DEFINE g == [n \in 0..(m + 1) |-> IF n = m + 1 THEN G[n][f[m]] ELSE f[n]]
  <2>2. G[m + 1][f[m]] \in S
    OBVIOUS
  <2>3. g \in [0..(m + 1) -> S]
    BY <2>2
  <2>4. (\A n \in 0..m : g[n] = f[n]) /\ g[m + 1] = G[m + 1][f[m]]
    OBVIOUS
  <2>. HIDE DEF g
  <2>5. \A n \in 1..(m + 1) : g[n] = G[n][g[n - 1]]
    <3>. SUFFICES ASSUME NEW n \in 1..(m + 1) PROVE g[n] = G[n][g[n - 1]]
      OBVIOUS
    <3>1. CASE n = m + 1
      BY <2>4, <3>1
    <3>2. CASE n # m + 1
      <4>. n \in 1..m /\ n - 1 \in 0..m
        BY <3>2
      <4>. QED
        BY <2>1, <2>4
    <3>. QED
      BY <3>1, <3>2
  <2>. QED
    BY <2>1, <2>3, <2>4, <2>5
<1>3. T \in SUBSET Nat
  OBVIOUS
<1>. HIDE DEF T
<1>4. T = Nat
  BY <1>1, <1>2, <1>3, Induction
<1>. QED
  BY <1>4 DEF T

--------------------------------------------------------------------------------
(* The sort. *)

\* Where an element is inserted: what it passes it goes before, and it does not go
\* before what it stops at.
InsertedAt(p, t, s, x, before) ==
  /\ t \in Seq(Accounts) /\ Len(t) = Len(s) + 1
  /\ \A k \in 1..(p - 1) : t[k] = s[k]
  /\ t[p] = x
  /\ \A k \in p..Len(s) : t[k + 1] = s[k] /\ <<x, s[k]>> \in before
  /\ p > 1 => <<x, s[p - 1]>> \notin before

LEMMA InsertAtIs ==
  ASSUME NEW s \in Seq(Accounts), NEW x \in Accounts, NEW p \in 1..(Len(s) + 1)
  PROVE  /\ InsertAt(s, p, x) \in Seq(Accounts) /\ Len(InsertAt(s, p, x)) = Len(s) + 1
         /\ \A k \in 1..(p - 1) : InsertAt(s, p, x)[k] = s[k]
         /\ InsertAt(s, p, x)[p] = x
         /\ \A k \in p..Len(s) : InsertAt(s, p, x)[k + 1] = s[k]
<1>. DEFINE n == Len(s)
            left == SubSeq(s, 1, p - 1)
            right == SubSeq(s, p, n)
            t == (left \o <<x>>) \o right
<1>0. n \in Nat
  OBVIOUS
<1>1. /\ left \in Seq(Accounts) /\ Len(left) = p - 1
      /\ \A k \in 1..(p - 1) : left[k] = s[k]
  <2>1. \A k \in 1..(p - 1) : s[k] \in Accounts
    OBVIOUS
  <2>2. left \in Seq(Accounts)
    BY <2>1, SubSeqProperties
  <2>3. Len(left) = IF 1 <= p - 1 THEN (p - 1) - 1 + 1 ELSE 0
    BY SubSeqProperties
  <2>4. Len(left) = p - 1
    BY <1>0, <2>3
  <2>5. \A k \in 1..(p - 1) : left[k] = s[k]
    OBVIOUS
  <2>. QED
    BY <2>2, <2>4, <2>5
<1>2. /\ right \in Seq(Accounts) /\ Len(right) = (n - p) + 1
      /\ \A k \in 1..((n - p) + 1) : right[k] = s[(p + k) - 1]
  <2>1. \A k \in p..n : s[k] \in Accounts
    OBVIOUS
  <2>2. right \in Seq(Accounts)
    BY <1>0, <2>1, SubSeqProperties
  <2>3. Len(right) = IF p <= n THEN n - p + 1 ELSE 0
    BY <1>0, SubSeqProperties
  <2>4. Len(right) = (n - p) + 1
    BY <1>0, <2>3
  <2>5. \A k \in 1..((n - p) + 1) : right[k] = s[(p + k) - 1]
    BY <1>0, <2>1, SubSeqProperties
  <2>. QED
    BY <2>2, <2>4, <2>5
<1>. HIDE DEF n, left, right
<1>3. InsertAt(s, p, x) = t
  BY DEF InsertAt, left, right, n
<1>4. /\ left \o <<x>> \in Seq(Accounts) /\ Len(left \o <<x>>) = p
      /\ \A k \in 1..(p - 1) : (left \o <<x>>)[k] = s[k]
      /\ (left \o <<x>>)[p] = x
  <2>1. left \o <<x>> = Append(left, x)
    BY <1>1
  <2>. QED
    BY <1>1, <2>1
<1>. DEFINE front == left \o <<x>>
<1>5. /\ t \in Seq(Accounts) /\ Len(t) = p + ((n - p) + 1)
      /\ \A k \in 1..(p + ((n - p) + 1)) : t[k] = IF k <= p THEN front[k] ELSE right[k - p]
  <2>1. t = front \o right
    OBVIOUS
  <2>. HIDE DEF front, t
  <2>2. front \in Seq(Accounts) /\ Len(front) = p
    BY <1>4 DEF front
  <2>3. /\ t \in Seq(Accounts) /\ Len(t) = Len(front) + Len(right)
        /\ \A k \in 1..(Len(front) + Len(right)) :
             t[k] = IF k <= Len(front) THEN front[k] ELSE right[k - Len(front)]
    BY <1>2, <2>1, <2>2, ConcatProperties
  <2>. QED
    BY <1>2, <2>2, <2>3
<1>. HIDE DEF front
<1>6. n \in Nat /\ p \in 1..(n + 1) /\ n = Len(s)
  BY <1>0 DEF n
<1>7. /\ \A k \in 1..(p - 1) : t[k] = s[k]
      /\ t[p] = x
  BY <1>4, <1>5, <1>6 DEF front
<1>8. ASSUME NEW k \in p..n PROVE t[k + 1] = s[k]
  <2>1. k + 1 \in 1..(p + ((n - p) + 1)) /\ ~(k + 1 <= p)
    BY <1>6
  <2>2. t[k + 1] = right[(k + 1) - p]
    BY <1>5, <2>1
  <2>3. (k + 1) - p \in 1..((n - p) + 1) /\ (p + ((k + 1) - p)) - 1 = k
    BY <1>6
  <2>. QED
    BY <1>2, <2>2, <2>3
<1>. QED
  BY <1>3, <1>5, <1>6, <1>7, <1>8

LEMMA InsertedIs ==
  ASSUME NEW s \in Seq(Accounts), NEW x \in Accounts, NEW before
  PROVE  \E p \in 1..(Len(s) + 1) : InsertedAt(p, Inserted(s, x, before), s, x, before)
<1>. DEFINE n == Len(s)
            places == {k \in 1..(n + 1) : \A j \in k..n : <<x, s[j]>> \in before}
            p == Min(places)
<1>0. n \in Nat
  OBVIOUS
<1>1. n + 1 \in places
  BY <1>0
<1>2. p \in places /\ \A k \in places : p <= k
  <2>1. places \in SUBSET Nat
    OBVIOUS
  <2>. HIDE DEF places
  <2>. QED
    BY <1>1, <2>1, LeastNumber DEF Min
<1>3. p \in 1..(n + 1) /\ \A j \in p..n : <<x, s[j]>> \in before
  BY <1>2
<1>4. ASSUME p > 1 PROVE <<x, s[p - 1]>> \notin before
  <2>. SUFFICES ASSUME <<x, s[p - 1]>> \in before PROVE FALSE
    OBVIOUS
  <2>1. p - 1 \in places
    <3>. HIDE DEF p
    <3>1. p - 1 \in 1..(n + 1) /\ (p - 1)..n \subseteq {p - 1} \union (p..n)
      BY <1>0, <1>3, <1>4
    <3>. QED
      BY <1>3, <3>1
  <2>. HIDE DEF p, places
  <2>. QED
    BY <1>0, <1>2, <1>3, <2>1
<1>5. Inserted(s, x, before) = InsertAt(s, p, x)
  BY DEF Inserted
<1>. HIDE DEF p, places
<1>6. /\ InsertAt(s, p, x) \in Seq(Accounts) /\ Len(InsertAt(s, p, x)) = n + 1
      /\ \A k \in 1..(p - 1) : InsertAt(s, p, x)[k] = s[k]
      /\ InsertAt(s, p, x)[p] = x
      /\ \A k \in p..n : InsertAt(s, p, x)[k + 1] = s[k]
  BY <1>3, InsertAtIs
<1>. QED
  BY <1>3, <1>4, <1>5, <1>6 DEF InsertedAt

\* No element of the result goes before its predecessor, unless that one goes before
\* it as well.
Linked(t, before) ==
  \A k \in 1..(Len(t) - 1) : <<t[k], t[k + 1]>> \in before \/ <<t[k + 1], t[k]>> \notin before

LEMMA InsertedKeeps ==
  ASSUME NEW s \in Seq(Accounts), NEW x \in Accounts, NEW before
  PROVE  /\ Inserted(s, x, before) \in Seq(Accounts)
         /\ Len(Inserted(s, x, before)) = Len(s) + 1
         /\ Range(Inserted(s, x, before)) = Range(s) \union {x}
         /\ Linked(s, before) => Linked(Inserted(s, x, before), before)
         /\ IsInjective(s) /\ x \notin Range(s) => IsInjective(Inserted(s, x, before))
<1>. DEFINE n == Len(s)
            t == Inserted(s, x, before)
<1>1. PICK p \in 1..(n + 1) : InsertedAt(p, t, s, x, before)
  BY InsertedIs
<1>2. n \in Nat /\ DOMAIN s = 1..n
  OBVIOUS
<1>. HIDE DEF t, n
<1>3. /\ t \in Seq(Accounts) /\ Len(t) = n + 1 /\ DOMAIN t = 1..(n + 1)
      /\ \A k \in 1..(p - 1) : t[k] = s[k]
      /\ t[p] = x
      /\ \A k \in p..n : t[k + 1] = s[k] /\ <<x, s[k]>> \in before
      /\ p > 1 => <<x, s[p - 1]>> \notin before
  BY <1>1, <1>2 DEF InsertedAt, n
\* Where each element comes from.
<1>4. \A k \in (p + 1)..(n + 1) : k - 1 \in p..n /\ t[k] = s[k - 1]
  <2>. SUFFICES ASSUME NEW k \in (p + 1)..(n + 1) PROVE k - 1 \in p..n /\ t[k] = s[k - 1]
    OBVIOUS
  <2>1. k - 1 \in p..n /\ (k - 1) + 1 = k
    BY <1>2
  <2>2. t[(k - 1) + 1] = s[k - 1]
    BY <1>3, <2>1
  <2>. QED
    BY <2>1, <2>2
<1>5. 1..(n + 1) = (1..(p - 1)) \union {p} \union ((p + 1)..(n + 1))
  BY <1>2
<1>6. 1..n = (1..(p - 1)) \union (p..n)
  BY <1>2
<1>7. Range(t) = Range(s) \union {x}
  <2>1. \A k \in 1..(n + 1) : t[k] \in Range(s) \union {x}
    BY <1>2, <1>3, <1>4, <1>5, <1>6 DEF Range
  <2>2. \A k \in 1..n : s[k] \in Range(t)
    <3>. SUFFICES ASSUME NEW k \in 1..n PROVE \E l \in 1..(n + 1) : t[l] = s[k]
      BY <1>3 DEF Range
    <3>1. CASE k \in 1..(p - 1)
      BY <1>2, <1>3, <3>1
    <3>2. CASE k \in p..n
      <4>. k + 1 \in 1..(n + 1)
        BY <1>2
      <4>. QED
        BY <1>3, <3>2
    <3>. QED
      BY <1>6, <3>1, <3>2
  <2>3. x \in Range(t)
    BY <1>3 DEF Range
  <2>4. Range(t) \subseteq Range(s) \union {x}
    BY <1>3, <2>1 DEF Range
  <2>5. Range(s) \subseteq Range(t)
    BY <1>2, <2>2 DEF Range
  <2>. QED
    BY <2>3, <2>4, <2>5
<1>8. ASSUME Linked(s, before) PROVE Linked(t, before)
  <2>. DEFINE Right(k) == <<t[k], t[k + 1]>> \in before \/ <<t[k + 1], t[k]>> \notin before
  <2>1. ASSUME NEW k \in 1..n PROVE Right(k)
    <3>1. CASE k + 1 < p
      <4>1. t[k] = s[k] /\ t[k + 1] = s[k + 1] /\ k \in 1..(n - 1)
        <5>. k \in 1..(p - 1) /\ k + 1 \in 1..(p - 1)
          BY <1>2, <3>1
        <5>. QED
          BY <1>2, <1>3
      <4>. QED
        BY <1>8, <4>1 DEF Linked, n
    <3>2. CASE k + 1 = p
      <4>1. t[k] = s[k] /\ p > 1 /\ k = p - 1
        <5>. k \in 1..(p - 1)
          BY <1>2, <3>2
        <5>. QED
          BY <1>2, <1>3, <3>2
      <4>. QED
        BY <1>3, <3>2, <4>1
    <3>3. CASE k = p
      <4>. k \in p..n
        BY <1>2, <3>3
      <4>. QED
        BY <1>3, <3>3
    <3>4. CASE k > p
      <4>1. t[k] = s[k - 1] /\ t[k + 1] = s[k] /\ k - 1 \in 1..(n - 1) /\ (k - 1) + 1 = k
        <5>. k \in (p + 1)..(n + 1) /\ k \in p..n
          BY <1>2, <3>4
        <5>. QED
          BY <1>2, <1>3, <1>4, <3>4
      <4>2. <<s[k - 1], s[(k - 1) + 1]>> \in before \/ <<s[(k - 1) + 1], s[k - 1]>> \notin before
        BY <1>8, <4>1 DEF Linked, n
      <4>. QED
        BY <4>1, <4>2
    <3>. QED
      BY <1>2, <3>1, <3>2, <3>3, <3>4
  <2>2. Len(t) - 1 = n
    BY <1>2, <1>3
  <2>. QED
    BY <2>1, <2>2 DEF Linked
<1>9. ASSUME IsInjective(s), x \notin Range(s) PROVE IsInjective(t)
  <2>1. \A k \in 1..n : s[k] # x
    BY <1>2, <1>9 DEF Range
  <2>2. \A j, k \in 1..n : s[j] = s[k] => j = k
    BY <1>2, <1>9 DEF IsInjective
  <2>3. ASSUME NEW j \in 1..(n + 1), NEW k \in 1..(n + 1), t[j] = t[k], j < k PROVE FALSE
    <3>1. CASE k <= p
      <4>1. j \in 1..(p - 1) /\ j \in 1..n /\ t[j] = s[j]
        BY <1>2, <1>3, <2>3, <3>1
      <4>2. CASE k = p
        BY <1>3, <2>1, <2>3, <4>1, <4>2
      <4>3. CASE k < p
        <5>1. k \in 1..(p - 1) /\ k \in 1..n
          BY <1>2, <4>3
        <5>2. t[k] = s[k]
          BY <1>3, <5>1
        <5>3. j = k
          BY <2>2, <2>3, <4>1, <5>1, <5>2
        <5>. QED
          BY <2>3, <5>3
      <4>. QED
        BY <1>2, <3>1, <4>2, <4>3
    <3>2. CASE k > p
      <4>1. k - 1 \in 1..n /\ t[k] = s[k - 1]
        <5>. k \in (p + 1)..(n + 1)
          BY <1>2, <3>2
        <5>. QED
          BY <1>2, <1>4
      <4>2. CASE j < p
        <5>. j \in 1..(p - 1) /\ j \in 1..n /\ j # k - 1
          BY <1>2, <3>2, <4>2
        <5>. QED
          BY <1>3, <2>2, <2>3, <4>1
      <4>3. CASE j = p
        BY <1>3, <2>1, <2>3, <4>1, <4>3
      <4>4. CASE j > p
        <5>. j \in (p + 1)..(n + 1) /\ j - 1 \in 1..n /\ j - 1 # k - 1
          BY <1>2, <2>3, <4>4
        <5>. QED
          BY <1>4, <2>2, <2>3, <4>1
      <4>. QED
        BY <1>2, <4>2, <4>3, <4>4
    <3>. QED
      BY <1>2, <3>1, <3>2
  <2>4. ASSUME NEW j \in 1..(n + 1), NEW k \in 1..(n + 1), t[j] = t[k] PROVE j = k
    <3>. j < k \/ k < j \/ j = k
      BY <1>2
    <3>. QED
      BY <2>3, <2>4
  <2>. QED
    BY <1>3, <2>4 DEF IsInjective
<1>. QED
  BY <1>3, <1>7, <1>8, <1>9 DEF t, n

\* Sorted goes from one number of elements to the next.
LEMMA SortedRuns ==
  ASSUME NEW s \in Seq(Accounts), NEW before
  PROVE  \E f : /\ f[0] = <<>>
                /\ \A n \in 1..Len(s) : f[n] = Inserted(f[n - 1], s[n], before)
                /\ Sorted(s, before) = f[Len(s)]
<1>. DEFINE S == Seq(Accounts)
            m == Len(s)
            Step(n, t) == IF n \in 1..m THEN Inserted(t, s[n], before) ELSE t
            G == [n \in Nat |-> [t \in S |-> Step(n, t)]]
            Runs(f) == f = [n \in 0..m |-> IF n = 0 THEN <<>> ELSE Inserted(f[n - 1], s[n], before)]
<1>1. m \in Nat /\ <<>> \in S /\ \A n \in 1..m : s[n] \in Accounts
  OBVIOUS
<1>2. G \in [Nat -> [S -> S]]
  <2>. SUFFICES ASSUME NEW n \in Nat, NEW t \in S PROVE Step(n, t) \in S
    OBVIOUS
  <2>1. CASE n \in 1..m
    BY <1>1, <2>1, InsertedKeeps
  <2>2. CASE n \notin 1..m
    BY <2>2
  <2>. QED
    BY <2>1, <2>2
<1>3. \A n \in 1..m : \A t \in S : G[n][t] = Inserted(t, s[n], before)
  BY <1>1
<1>. HIDE DEF S, m, G
<1>4. PICK f \in [0..m -> S] : f[0] = <<>> /\ \A n \in 1..m : f[n] = G[n][f[n - 1]]
  <2>. \A base \in S : \A k \in Nat : \E f \in [0..k -> S] : Follows(f, k, base, G)
    BY <1>2, Recursion
  <2>. QED
    BY <1>1 DEF Follows
<1>5. \A n \in 1..m : f[n] = Inserted(f[n - 1], s[n], before)
  <2>. SUFFICES ASSUME NEW n \in 1..m PROVE f[n] = Inserted(f[n - 1], s[n], before)
    OBVIOUS
  <2>. n - 1 \in 0..m
    BY <1>1
  <2>. QED
    BY <1>3, <1>4
<1>6. Runs(f)
  <2>. \A n \in 0..m : f[n] = IF n = 0 THEN <<>> ELSE Inserted(f[n - 1], s[n], before)
    BY <1>4, <1>5
  <2>. QED
    OBVIOUS
<1>. DEFINE g == CHOOSE g : Runs(g)
<1>7. Runs(g)
  BY <1>6
<1>8. Sorted(s, before) = g[m]
  BY DEF Sorted, m
<1>. HIDE DEF g
<1>9. g[0] = <<>> /\ \A n \in 1..m : g[n] = Inserted(g[n - 1], s[n], before)
  BY <1>1, <1>7
<1>. QED
  BY <1>8, <1>9 DEF m

LEMMA SortedKeeps ==
  ASSUME NEW s \in Seq(Accounts), NEW before
  PROVE  /\ Sorted(s, before) \in Seq(Accounts)
         /\ Len(Sorted(s, before)) = Len(s)
         /\ Range(Sorted(s, before)) = Range(s)
         /\ Linked(Sorted(s, before), before)
         /\ IsInjective(s) => IsInjective(Sorted(s, before))
<1>. DEFINE m == Len(s)
            First(n) == {s[i] : i \in 1..n}
            Right(n, t) ==
              /\ t \in Seq(Accounts) /\ Len(t) = n /\ Range(t) = First(n)
              /\ Linked(t, before)
              /\ IsInjective(s) => IsInjective(t)
<1>1. m \in Nat /\ DOMAIN s = 1..m /\ \A n \in 1..m : s[n] \in Accounts
  OBVIOUS
<1>2. PICK f : /\ f[0] = <<>>
               /\ \A n \in 1..m : f[n] = Inserted(f[n - 1], s[n], before)
               /\ Sorted(s, before) = f[m]
  BY SortedRuns
<1>3. Right(0, <<>>)
  <2>. <<>> \in Seq(Accounts) /\ Len(<<>>) = 0 /\ DOMAIN <<>> = {}
    OBVIOUS
  <2>. QED
    BY DEF Range, Linked, IsInjective
<1>4. ASSUME NEW n \in 0..(m - 1), NEW t, Right(n, t)
      PROVE  Right(n + 1, Inserted(t, s[n + 1], before))
  <2>1. n + 1 \in 1..m /\ 1..(n + 1) = 1..n \union {n + 1} /\ s[n + 1] \in Accounts
    BY <1>1
  <2>2. First(n + 1) = First(n) \union {s[n + 1]}
    BY <2>1
  <2>3. IsInjective(s) => s[n + 1] \notin First(n)
    BY <1>1, <2>1 DEF IsInjective
  <2>. HIDE DEF First
  <2>. QED
    BY <1>4, <2>1, <2>2, <2>3, InsertedKeeps
<1>. DEFINE T == {n \in Nat : n <= m => Right(n, f[n])}
<1>5. T \in SUBSET Nat /\ 0 \in T
  BY <1>2, <1>3
<1>6. ASSUME NEW n \in T PROVE n + 1 \in T
  <2>. SUFFICES ASSUME n + 1 <= m PROVE Right(n + 1, f[n + 1])
    OBVIOUS
  <2>1. n \in 0..(m - 1) /\ n + 1 \in 1..m /\ (n + 1) - 1 = n
    BY <1>1
  <2>2. Right(n, f[n])
    BY <1>1, <2>1
  <2>3. f[n + 1] = Inserted(f[n], s[n + 1], before)
    BY <1>2, <2>1
  <2>. HIDE DEF Right
  <2>. QED
    BY <1>4, <2>1, <2>2, <2>3
<1>. HIDE DEF T, Right
<1>7. T = Nat
  BY <1>5, <1>6, Induction
<1>8. Right(m, f[m])
  <2>. m \in T /\ m <= m
    BY <1>1, <1>7
  <2>. QED
    BY DEF T
<1>9. First(m) = Range(s)
  BY <1>1 DEF Range
<1>. QED
  BY <1>2, <1>8, <1>9 DEF Right

--------------------------------------------------------------------------------
(* The loop over the snapshots. *)

LEMMA AppendKeeps ==
  ASSUME NEW t \in Seq(Accounts), NEW x \in Accounts
  PROVE  /\ Append(t, x) \in Seq(Accounts) /\ Range(Append(t, x)) = Range(t) \union {x}
         /\ IsInjective(t) /\ x \notin Range(t) => IsInjective(Append(t, x))
         /\ InOrder(t) /\ (\A a \in Range(t) : Age(a) <= Age(x)) => InOrder(Append(t, x))
<1>. DEFINE u == Append(t, x)
            n == Len(t)
<1>1. n \in Nat /\ DOMAIN t = 1..n /\ u \in Seq(Accounts) /\ DOMAIN u = 1..(n + 1) /\ Len(u) = n + 1
  OBVIOUS
<1>2. u[n + 1] = x /\ \A k \in 1..n : u[k] = t[k]
  OBVIOUS
<1>3. 1..(n + 1) = 1..n \union {n + 1}
  BY <1>1
<1>. HIDE DEF u, n
<1>4. Range(u) = Range(t) \union {x}
  BY <1>1, <1>2, <1>3 DEF Range
<1>5. IsInjective(t) /\ x \notin Range(t) => IsInjective(u)
  BY <1>1, <1>2, <1>3 DEF Range, IsInjective
<1>6. ASSUME InOrder(t), \A a \in Range(t) : Age(a) <= Age(x) PROVE InOrder(u)
  <2>. SUFFICES ASSUME NEW j \in 1..(n + 1), NEW k \in 1..(n + 1), j < k
       PROVE  Age(u[j]) <= Age(u[k])
    BY <1>1 DEF InOrder
  <2>1. j \in 1..n
    BY <1>1
  <2>2. CASE k = n + 1
    BY <1>1, <1>2, <1>6, <2>1, <2>2 DEF Range
  <2>3. CASE k \in 1..n
    <3>. Len(t) = n
      BY DEF n
    <3>. QED
      BY <1>2, <1>6, <2>1, <2>3 DEF InOrder
  <2>. QED
    BY <1>3, <2>2, <2>3
<1>. QED
  BY <1>1, <1>4, <1>5, <1>6 DEF u

LEMMA TakenRuns ==
  ASSUME NEW s \in Seq(Accounts), NEW eligible
  PROVE  \E f : /\ f[0] = <<>>
                /\ \A n \in 1..Len(s) :
                     f[n] = IF s[n] \in eligible THEN Append(f[n - 1], s[n]) ELSE f[n - 1]
                /\ Taken(s, eligible) = f[Len(s)]
<1>. DEFINE S == Seq(Accounts)
            m == Len(s)
            Step(n, t) == IF n \in 1..m /\ s[n] \in eligible THEN Append(t, s[n]) ELSE t
            G == [n \in Nat |-> [t \in S |-> Step(n, t)]]
            Runs(f) == f = [n \in 0..m |->
                              IF n = 0 THEN <<>>
                              ELSE IF s[n] \in eligible THEN Append(f[n - 1], s[n]) ELSE f[n - 1]]
<1>1. m \in Nat /\ <<>> \in S /\ \A n \in 1..m : s[n] \in Accounts
  OBVIOUS
<1>2. G \in [Nat -> [S -> S]]
  <2>. SUFFICES ASSUME NEW n \in Nat, NEW t \in S PROVE Step(n, t) \in S
    OBVIOUS
  <2>. QED
    BY <1>1
<1>3. \A n \in 1..m : \A t \in S :
        G[n][t] = IF s[n] \in eligible THEN Append(t, s[n]) ELSE t
  BY <1>1
<1>. HIDE DEF S, m, G
<1>4. PICK f \in [0..m -> S] : f[0] = <<>> /\ \A n \in 1..m : f[n] = G[n][f[n - 1]]
  <2>. \A base \in S : \A k \in Nat : \E f \in [0..k -> S] : Follows(f, k, base, G)
    BY <1>2, Recursion
  <2>. QED
    BY <1>1 DEF Follows
<1>5. \A n \in 1..m : f[n] = IF s[n] \in eligible THEN Append(f[n - 1], s[n]) ELSE f[n - 1]
  <2>. SUFFICES ASSUME NEW n \in 1..m
       PROVE  f[n] = IF s[n] \in eligible THEN Append(f[n - 1], s[n]) ELSE f[n - 1]
    OBVIOUS
  <2>. n - 1 \in 0..m
    BY <1>1
  <2>. f[n] = G[n][f[n - 1]] /\ f[n - 1] \in S
    BY <1>4
  <2>. QED
    BY <1>3
<1>6. Runs(f)
  <2>1. ASSUME NEW n \in 0..m
        PROVE  f[n] = IF n = 0 THEN <<>>
                      ELSE IF s[n] \in eligible THEN Append(f[n - 1], s[n]) ELSE f[n - 1]
    <3>1. CASE n = 0
      BY <1>4, <3>1
    <3>2. CASE n # 0
      <4>. n \in 1..m
        BY <1>1, <3>2
      <4>. QED
        BY <1>5, <3>2
    <3>. QED
      BY <3>1, <3>2
  <2>2. f = [n \in 0..m |-> f[n]]
    OBVIOUS
  <2>. QED
    BY <2>1, <2>2
<1>. DEFINE g == CHOOSE g : Runs(g)
<1>7. Runs(g)
  BY <1>6
<1>8. Taken(s, eligible) = g[m]
  BY DEF Taken, m
<1>. HIDE DEF g
<1>9. /\ g[0] = <<>>
      /\ \A n \in 1..m : g[n] = IF s[n] \in eligible THEN Append(g[n - 1], s[n]) ELSE g[n - 1]
  <2>1. 0 \in 0..m /\ \A n \in 1..m : n \in 0..m /\ n # 0
    BY <1>1
  <2>2. \A n \in 0..m : g[n] = IF n = 0 THEN <<>>
                               ELSE IF s[n] \in eligible THEN Append(g[n - 1], s[n]) ELSE g[n - 1]
    BY <1>7
  <2>. HIDE DEF Runs
  <2>. QED
    BY <2>1, <2>2
<1>. QED
  BY <1>8, <1>9 DEF m

LEMMA TakenKeeps ==
  ASSUME NEW s \in Seq(Accounts), NEW eligible
  PROVE  /\ Taken(s, eligible) \in Seq(Accounts)
         /\ Range(Taken(s, eligible)) = Range(s) \intersect eligible
         /\ IsInjective(s) => IsInjective(Taken(s, eligible))
         /\ InOrder(s) => InOrder(Taken(s, eligible))
<1>. DEFINE m == Len(s)
            First(n) == {s[i] : i \in 1..n}
            Right(n, t) ==
              /\ t \in Seq(Accounts) /\ Range(t) = First(n) \intersect eligible
              /\ IsInjective(s) => IsInjective(t)
              /\ InOrder(s) => InOrder(t)
<1>1. m \in Nat /\ DOMAIN s = 1..m /\ \A n \in 1..m : s[n] \in Accounts
  OBVIOUS
<1>2. PICK f : /\ f[0] = <<>>
               /\ \A n \in 1..m :
                    f[n] = IF s[n] \in eligible THEN Append(f[n - 1], s[n]) ELSE f[n - 1]
               /\ Taken(s, eligible) = f[m]
  BY TakenRuns
<1>3. Right(0, <<>>)
  <2>. <<>> \in Seq(Accounts) /\ Len(<<>>) = 0 /\ DOMAIN <<>> = {}
    OBVIOUS
  <2>. QED
    BY DEF Range, InOrder, IsInjective
<1>4. ASSUME NEW n \in 0..(m - 1), NEW t, Right(n, t)
      PROVE  Right(n + 1, IF s[n + 1] \in eligible THEN Append(t, s[n + 1]) ELSE t)
  <2>1. n + 1 \in 1..m /\ 1..(n + 1) = 1..n \union {n + 1} /\ s[n + 1] \in Accounts
    BY <1>1
  <2>2. First(n + 1) = First(n) \union {s[n + 1]}
    BY <2>1
  <2>3. IsInjective(s) => s[n + 1] \notin First(n)
    BY <1>1, <2>1 DEF IsInjective
  <2>4. InOrder(s) => \A a \in First(n) : Age(a) <= Age(s[n + 1])
    <3>. SUFFICES ASSUME InOrder(s), NEW i \in 1..n PROVE Age(s[i]) <= Age(s[n + 1])
      OBVIOUS
    <3>. i \in 1..m /\ i < n + 1
      BY <1>1
    <3>. QED
      BY <2>1 DEF InOrder
  <2>. HIDE DEF First
  <2>5. CASE s[n + 1] \in eligible
    BY <1>4, <2>1, <2>2, <2>3, <2>4, <2>5, AppendKeeps
  <2>6. CASE s[n + 1] \notin eligible
    BY <1>4, <2>2, <2>6
  <2>. QED
    BY <2>5, <2>6
<1>. DEFINE T == {n \in Nat : n <= m => Right(n, f[n])}
<1>5. T \in SUBSET Nat /\ 0 \in T
  BY <1>2, <1>3
<1>6. ASSUME NEW n \in T PROVE n + 1 \in T
  <2>. SUFFICES ASSUME n + 1 <= m PROVE Right(n + 1, f[n + 1])
    OBVIOUS
  <2>1. n \in 0..(m - 1) /\ n + 1 \in 1..m /\ (n + 1) - 1 = n
    BY <1>1
  <2>2. Right(n, f[n])
    BY <1>1, <2>1
  <2>3. f[n + 1] = IF s[n + 1] \in eligible THEN Append(f[n], s[n + 1]) ELSE f[n]
    BY <1>2, <2>1
  <2>. HIDE DEF Right
  <2>. QED
    BY <1>4, <2>1, <2>2, <2>3
<1>. HIDE DEF T, Right
<1>7. T = Nat
  BY <1>5, <1>6, Induction
<1>8. Right(m, f[m])
  <2>. m \in T /\ m <= m
    BY <1>1, <1>7
  <2>. QED
    BY DEF T
<1>9. First(m) = Range(s)
  BY <1>1 DEF Range
<1>. QED
  BY <1>2, <1>8, <1>9 DEF Right

--------------------------------------------------------------------------------
(* Chains: what neighbours differ by adds up. *)

LEMMA Chain ==
  ASSUME NEW n \in Nat, NEW f \in [1..n -> Int], NEW d \in Int,
         \A k \in 1..(n - 1) : f[k + 1] <= f[k] + d
  PROVE  \A j \in 1..n : \A i \in Nat : j + i <= n => f[j + i] <= f[j] + i * d
<1>1. ASSUME NEW j \in 1..n PROVE \A i \in Nat : j + i <= n => f[j + i] <= f[j] + i * d
  <2>. DEFINE T == {i \in Nat : j + i <= n => f[j + i] <= f[j] + i * d}
  <2>1. T \in SUBSET Nat /\ 0 \in T
    <3>. f[j] \in Int /\ 0 * d = 0
      OBVIOUS
    <3>. QED
      OBVIOUS
  <2>2. ASSUME NEW i \in T PROVE i + 1 \in T
    <3>. SUFFICES ASSUME j + (i + 1) <= n PROVE f[j + (i + 1)] <= f[j] + (i + 1) * d
      OBVIOUS
    <3>1. j + i \in 1..(n - 1) /\ (j + i) + 1 = j + (i + 1) /\ i \in Nat
      OBVIOUS
    <3>2. f[j + i] \in Int /\ f[j] \in Int /\ f[j + (i + 1)] \in Int
      BY <3>1
    <3>3. f[j + i] <= f[j] + i * d
      BY <3>1
    <3>4. f[j + (i + 1)] <= f[j + i] + d
      BY <3>1
    <3>5. (i + 1) * d = i * d + d /\ i * d \in Int
      BY <3>1
    <3>. DEFINE x == i * d
                y == (i + 1) * d
    <3>6. y = x + d /\ x \in Int /\ f[j + i] <= f[j] + x
      BY <3>3, <3>5
    <3>. HIDE DEF x, y
    <3>7. f[j + (i + 1)] <= f[j] + y
      BY <3>2, <3>4, <3>6
    <3>. QED
      BY <3>7 DEF y
  <2>. HIDE DEF T
  <2>3. T = Nat
    BY <2>1, <2>2, Induction
  <2>. QED
    BY <2>3 DEF T
<1>. QED
  BY <1>1

\* A function that grows and stays within its arguments is the identity.
LEMMA GrowingIsIdentity ==
  ASSUME NEW n \in Nat, NEW f \in [1..n -> 1..n], \A i, j \in 1..n : i < j => f[i] < f[j]
  PROVE  \A i \in 1..n : f[i] = i
<1>. DEFINE g == [i \in 1..n |-> 0 - f[i]]
<1>1. g \in [1..n -> Int]
  OBVIOUS
<1>2. \A k \in 1..(n - 1) : g[k + 1] <= g[k] + (0 - 1)
  <2>. SUFFICES ASSUME NEW k \in 1..(n - 1) PROVE g[k + 1] <= g[k] + (0 - 1)
    OBVIOUS
  <2>. k \in 1..n /\ k + 1 \in 1..n /\ k < k + 1
    OBVIOUS
  <2>. f[k] < f[k + 1] /\ f[k] \in Int /\ f[k + 1] \in Int
    OBVIOUS
  <2>. g[k] = 0 - f[k] /\ g[k + 1] = 0 - f[k + 1]
    OBVIOUS
  <2>. HIDE DEF g
  <2>. QED
    OBVIOUS
<1>. HIDE DEF g
<1>3. \A j \in 1..n : \A i \in Nat : j + i <= n => g[j + i] <= g[j] + i * (0 - 1)
  <2>. PICK d \in Int : d = 0 - 1
    OBVIOUS
  <2>1. \A k \in 1..(n - 1) : g[k + 1] <= g[k] + d
    BY <1>2
  <2>2. \A j \in 1..n : \A i \in Nat : j + i <= n => g[j + i] <= g[j] + i * d
    BY <1>1, <2>1, Chain
  <2>. QED
    BY <2>2
<1>4. ASSUME NEW j \in 1..n, NEW i \in Nat, j + i <= n PROVE f[j + i] >= f[j] + i
  <2>1. j + i \in 1..n /\ f[j + i] \in Int /\ f[j] \in Int
    BY <1>4
  <2>2. g[j + i] = 0 - f[j + i] /\ g[j] = 0 - f[j]
    BY <2>1 DEF g
  <2>3. g[j + i] <= g[j] + i * (0 - 1)
    BY <1>3, <1>4
  <2>. QED
    BY <2>1, <2>2, <2>3
<1>5. ASSUME NEW i \in 1..n PROVE f[i] = i
  <2>1. 1 \in 1..n /\ n \in 1..n /\ f[1] \in 1..n /\ f[n] \in 1..n /\ f[i] \in 1..n
    OBVIOUS
  <2>2. i - 1 \in Nat /\ 1 + (i - 1) = i /\ n - i \in Nat /\ i + (n - i) = n
    OBVIOUS
  <2>3. f[1 + (i - 1)] >= f[1] + (i - 1)
    BY <1>4, <2>1, <2>2
  <2>4. f[i + (n - i)] >= f[i] + (n - i)
    BY <1>4, <2>2
  <2>5. f[i] >= f[1] + (i - 1) /\ f[n] >= f[i] + (n - i)
    BY <2>2, <2>3, <2>4
  <2>6. \A a, b, c \in 1..n : b >= a + (i - 1) /\ c >= b + (n - i) => b = i
    OBVIOUS
  <2>. QED
    BY <2>1, <2>5, <2>6
<1>. QED
  BY <1>5

--------------------------------------------------------------------------------
(* The order by age. *)

LEMMA AgeDecides ==
  /\ \A a \in Accounts : Age(a) \in Int
  /\ \A a, b \in Accounts : ListedBefore(a, b) <=> Age(a) < Age(b)
  /\ \A a, b \in Accounts : OlderFirst(a, b) => Age(a) < Age(b)
<1>1. \A a \in Accounts : CreatedAt[a] \in Nat
  BY RoutingAssumption
<1>. QED
  BY <1>1 DEF Age, ListedBefore, OlderFirst

LEMMA SortedByAge ==
  ASSUME NEW t \in Seq(Accounts), Linked(t, ListingOrder) PROVE InOrder(t)
<1>. DEFINE n == Len(t)
            f == [k \in 1..n |-> 0 - Age(t[k])]
<1>1. n \in Nat /\ \A k \in 1..n : t[k] \in Accounts /\ Age(t[k]) \in Int
  BY AgeDecides
<1>2. ASSUME NEW k \in 1..(n - 1) PROVE Age(t[k]) <= Age(t[k + 1])
  <2>1. k \in 1..n /\ k + 1 \in 1..n
    BY <1>1
  <2>2. ListedBefore(t[k], t[k + 1]) \/ ~ListedBefore(t[k + 1], t[k])
    BY <1>1, <2>1 DEF Linked, ListingOrder
  <2>. QED
    BY <1>1, <2>1, <2>2, AgeDecides
<1>3. f \in [1..n -> Int] /\ \A k \in 1..(n - 1) : f[k + 1] <= f[k] + 0
  <2>1. f \in [1..n -> Int]
    BY <1>1
  <2>2. ASSUME NEW k \in 1..(n - 1) PROVE f[k + 1] <= f[k] + 0
    <3>. k \in 1..n /\ k + 1 \in 1..n
      BY <1>1
    <3>. QED
      BY <1>1, <1>2
  <2>. QED
    BY <2>1, <2>2
<1>. HIDE DEF f
<1>4. \A j \in 1..n : \A i \in Nat : j + i <= n => f[j + i] <= f[j] + i * 0
  <2>. PICK d \in Int : d = 0
    OBVIOUS
  <2>1. \A k \in 1..(n - 1) : f[k + 1] <= f[k] + d
    BY <1>3
  <2>2. \A j \in 1..n : \A i \in Nat : j + i <= n => f[j + i] <= f[j] + i * d
    BY <1>1, <1>3, <2>1, Chain
  <2>. QED
    BY <2>2
<1>5. ASSUME NEW j \in 1..n, NEW k \in 1..n, j < k PROVE Age(t[j]) <= Age(t[k])
  <2>1. k - j \in Nat /\ j + (k - j) = k
    BY <1>5
  <2>2. f[j + (k - j)] <= f[j] + (k - j) * 0
    BY <1>1, <1>4, <2>1
  <2>3. f[k] <= f[j]
    BY <1>3, <2>1, <2>2
  <2>4. f[k] = 0 - Age(t[k]) /\ f[j] = 0 - Age(t[j])
    BY DEF f
  <2>. QED
    BY <1>1, <2>3, <2>4
<1>. QED
  BY <1>5 DEF InOrder

\* There is one sequence of the same subscriptions in which each is older than the
\* next.
LEMMA OneOrderByAge ==
  ASSUME NEW c \in Seq(Accounts), InOrder(c), NEW s \in [DOMAIN c -> Range(c)],
         \A i, j \in DOMAIN s : i < j => Age(s[i]) < Age(s[j])
  PROVE  s = c
<1>. DEFINE n == Len(c)
            f == [i \in 1..n |-> CHOOSE k \in 1..n : c[k] = s[i]]
<1>1. /\ n \in Nat /\ DOMAIN c = 1..n /\ DOMAIN s = 1..n
      /\ \A k \in 1..n : c[k] \in Accounts /\ Age(c[k]) \in Int
  BY AgeDecides
<1>2. \A i \in 1..n : f[i] \in 1..n /\ c[f[i]] = s[i]
  <2>. SUFFICES ASSUME NEW i \in 1..n PROVE f[i] \in 1..n /\ c[f[i]] = s[i]
    OBVIOUS
  <2>. \E k \in 1..n : c[k] = s[i]
    BY <1>1 DEF Range
  <2>. QED
    OBVIOUS
<1>3. f \in [1..n -> 1..n]
  BY <1>2
<1>. HIDE DEF f
<1>4. ASSUME NEW i \in 1..n, NEW j \in 1..n, i < j PROVE f[i] < f[j]
  <2>1. Age(c[f[i]]) < Age(c[f[j]])
    BY <1>1, <1>2, <1>4
  <2>2. f[i] \in 1..n /\ f[j] \in 1..n
    BY <1>2
  <2>3. CASE f[i] = f[j]
    BY <1>1, <2>1, <2>2, <2>3
  <2>4. CASE f[j] < f[i]
    <3>. Age(c[f[j]]) <= Age(c[f[i]])
      BY <2>2, <2>4 DEF InOrder
    <3>. QED
      BY <1>1, <2>1, <2>2
  <2>. QED
    BY <2>2, <2>3, <2>4
<1>5. \A i \in 1..n : f[i] = i
  BY <1>1, <1>3, <1>4, GrowingIsIdentity
<1>6. \A i \in 1..n : s[i] = c[i]
  BY <1>2, <1>5
<1>7. c = [i \in 1..n |-> c[i]] /\ s = [i \in 1..n |-> s[i]]
  BY <1>1
<1>. QED
  BY <1>6, <1>7

--------------------------------------------------------------------------------
(* Scores. *)

LEMMA MaxOfTwo ==
  ASSUME NEW a \in Int, NEW b \in Int
  PROVE  Max({a, b}) \in {a, b} /\ Max({a, b}) >= a /\ Max({a, b}) >= b
<1>. \E x \in {a, b} : \A y \in {a, b} : x >= y
  <2>1. CASE a >= b
    BY <2>1
  <2>2. CASE b >= a
    BY <2>2
  <2>. QED
    BY <2>1, <2>2
<1>. QED
  BY DEF Max

LEMMA MinOfTwo ==
  ASSUME NEW a \in Int, NEW b \in Int
  PROVE  Min({a, b}) \in {a, b} /\ Min({a, b}) <= a /\ Min({a, b}) <= b
<1>. \E x \in {a, b} : \A y \in {a, b} : x <= y
  <2>1. CASE a <= b
    BY <2>1
  <2>2. CASE b <= a
    BY <2>2
  <2>. QED
    BY <2>1, <2>2
<1>. QED
  BY DEF Min

LEMMA RemainingIs ==
  ASSUME NEW w \in Window
  PROVE  Remaining(w) \in 0..100 /\ (w.used < 100 <=> Remaining(w) > 0)
<1>. DEFINE left == Min({100, 100 - w.used})
<1>1. w.used \in Int /\ 100 - w.used \in Int
  BY DEF Window
<1>2. left \in Int /\ left <= 100 /\ (w.used < 100 <=> left > 0)
  <2>1. ASSUME NEW b \in Int
        PROVE  Min({100, b}) \in Int /\ Min({100, b}) <= 100 /\ (b > 0 <=> Min({100, b}) > 0)
    <3>. \A c \in Int : Min({c, b}) \in {c, b} /\ Min({c, b}) <= c /\ Min({c, b}) <= b
      BY MinOfTwo
    <3>. Min({100, b}) \in {100, b} /\ Min({100, b}) <= 100 /\ Min({100, b}) <= b
      OBVIOUS
    <3>. QED
      OBVIOUS
  <2>. HIDE DEF left
  <2>2. left \in Int /\ left <= 100 /\ (100 - w.used > 0 <=> left > 0)
    BY <1>1, <2>1 DEF left
  <2>. QED
    BY <1>1, <2>2
<1>. HIDE DEF left
<1>3. Max({0, left}) \in {0, left} /\ Max({0, left}) >= 0 /\ Max({0, left}) >= left
  <2>. \A b \in Int : Max({0, b}) \in {0, b} /\ Max({0, b}) >= 0 /\ Max({0, b}) >= b
    BY MaxOfTwo
  <2>. QED
    BY <1>2
<1>4. Remaining(w) = Max({0, left})
  BY DEF Remaining, left
<1>. QED
  BY <1>2, <1>3, <1>4

LEMMA HorizonIs ==
  ASSUME NEW w \in Window PROVE Horizon(w) \in Nat \ {0}
<1>1. \A x \in Int : Max({1, x}) \in Nat \ {0}
  BY MaxOfTwo
<1>2. /\ w.reset \in Int \union {NoTime} /\ w.mins \in Nat \union {NoTime}
      /\ 7 * 24 * 60 \in Nat \ {0}
  BY DEF Window
<1>3. CASE w.reset # NoTime /\ w.reset > 0
  BY <1>1, <1>2, <1>3 DEF Horizon, MinimumWindow
<1>4. CASE ~(w.reset # NoTime /\ w.reset > 0) /\ w.mins # NoTime /\ w.mins > 0
  BY <1>1, <1>2, <1>4 DEF Horizon, MinimumWindow
<1>5. CASE ~(w.reset # NoTime /\ w.reset > 0) /\ ~(w.mins # NoTime /\ w.mins > 0)
  BY <1>2, <1>5 DEF Horizon, FallbackWindow
<1>. QED
  BY <1>3, <1>4, <1>5

LEMMA UrgencyIs ==
  ASSUME NEW w \in Window \union {NoWindow}, NEW credits \in Nat \union {NoCount}
  PROVE  /\ Urgency(w, credits) \in Int
         /\ IF w = NoWindow THEN Urgency(w, credits) = UnknownUrgency ELSE Urgency(w, credits) >= 0
<1>1. CASE w = NoWindow
  BY <1>1 DEF Urgency, UnknownUrgency
<1>2. CASE w # NoWindow
  <2>. DEFINE score == (Remaining(w) * 60000) \div Horizon(w)
              counted == IF credits = NoCount THEN 0 ELSE Min({credits, BonusCreditCap})
  <2>0. \A x \in Nat : \A y \in Nat \ {0} : x \div y \in Nat
    OBVIOUS
  <2>1. score \in Nat
    <3>. Remaining(w) \in Nat /\ Horizon(w) \in Nat \ {0}
      BY <1>2, RemainingIs, HorizonIs
    <3>. Remaining(w) * 60000 \in Nat
      OBVIOUS
    <3>. QED
      BY <2>0
  <2>2. counted \in Nat
    <3>1. CASE credits = NoCount
      BY <3>1
    <3>2. CASE credits # NoCount
      <4>. credits \in Nat /\ BonusCreditCap \in Nat
        BY <3>2 DEF BonusCreditCap
      <4>. credits \in Int /\ BonusCreditCap \in Int
        OBVIOUS
      <4>. Min({credits, BonusCreditCap}) \in {credits, BonusCreditCap}
        BY MinOfTwo
      <4>. QED
        BY <3>2
    <3>. QED
      BY <3>1, <3>2
  <2>3. Urgency(w, credits) = (score * (100 + counted * 15)) \div 100
    BY <1>2 DEF Urgency, BonusPerCredit
  <2>. HIDE DEF score, counted
  <2>4. score * (100 + counted * 15) \in Nat
    <3>. 100 + counted * 15 \in Nat
      BY <2>2
    <3>. QED
      BY <2>1
  <2>5. Urgency(w, credits) \in Nat
    <3>. 100 \in Nat \ {0}
      OBVIOUS
    <3>. QED
      BY <2>0, <2>3, <2>4
  <2>. QED
    BY <1>2, <2>5
<1>. QED
  BY <1>1, <1>2

\* What the windows of a subscription are.
LEMMA WindowsAre ==
  Typed => \A a \in Accounts :
    /\ status[a] \in Profile
    /\ Weekly(a) \in Window \union {NoWindow} /\ Short(a) \in Window \union {NoWindow}
<1>. SUFFICES ASSUME Typed, NEW a \in Accounts
     PROVE  /\ status[a] \in Profile
            /\ Weekly(a) \in Window \union {NoWindow} /\ Short(a) \in Window \union {NoWindow}
  OBVIOUS
<1>1. status[a] \in Profile
  BY RoutingAssumption DEF Typed, TypeOK
<1>2. status[a].primary \in Window \union {NoWindow} /\ status[a].secondary \in Window \union {NoWindow}
  BY <1>1 DEF Profile
<1>. QED
  BY <1>1, <1>2 DEF Weekly, Short, Longest, Shortest

LEMMA ScoreIs ==
  Typed => \A a \in Accounts :
    /\ Score(a) \in Int
    /\ IF Weekly(a) = NoWindow THEN Score(a) = UnknownUrgency ELSE Score(a) >= 0
<1>. SUFFICES ASSUME Typed, NEW a \in Accounts
     PROVE  /\ Score(a) \in Int
            /\ IF Weekly(a) = NoWindow THEN Score(a) = UnknownUrgency ELSE Score(a) >= 0
  OBVIOUS
<1>1. banked[a] \in Nat \union {NoCount}
  BY RoutingAssumption DEF Typed, TypeOK
<1>. QED
  BY <1>1, WindowsAre, UrgencyIs DEF Score

\* A subscription whose week is known has allowance left or is depleted.
LEMMA AllowanceIs ==
  Typed => \A a \in Accounts : HasAllowance(a) <=> Weekly(a) # NoWindow /\ ~Depleted(a)
<1>. SUFFICES ASSUME Typed, NEW a \in Accounts, Weekly(a) # NoWindow
     PROVE  HasAllowance(a) <=> ~Depleted(a)
  BY DEF HasAllowance
<1>1. Weekly(a) \in Window
  BY WindowsAre
<1>2. Depleted(a) <=> ~(Weekly(a).used < 100)
  BY <1>1 DEF Depleted, Used, Window
<1>. QED
  BY <1>1, <1>2, RemainingIs DEF HasAllowance

\* The first of the sorted candidates is beaten by the k-th by no more than one
\* tolerance for each place between them.
LEMMA SortedByUrgency ==
  Typed => \A s \in Seq(Accounts) :
    s # <<>> => LET t == Sorted(s, PreferenceOrder) IN
      \A a \in Range(s) : Score(a) <= Score(Head(t)) + (Len(s) - 1) * Tolerance
<1>. SUFFICES ASSUME Typed, NEW s \in Seq(Accounts), s # <<>>,
                     NEW a \in Range(s)
     PROVE  Score(a) <= Score(Head(Sorted(s, PreferenceOrder))) + (Len(s) - 1) * Tolerance
  OBVIOUS
<1>. DEFINE t == Sorted(s, PreferenceOrder)
            n == Len(s)
            f == [k \in 1..n |-> Score(t[k])]
<1>1. t \in Seq(Accounts) /\ Len(t) = n /\ Range(t) = Range(s) /\ Linked(t, PreferenceOrder)
  BY SortedKeeps
<1>. HIDE DEF t
<1>2. n \in Nat /\ 1 \in 1..n /\ Head(t) = t[1] /\ DOMAIN t = 1..n
  BY <1>1
<1>3. \A k \in 1..n : t[k] \in Accounts /\ Score(t[k]) \in Int
  BY <1>1, ScoreIs
<1>4. Tolerance \in Nat
  BY RoutingAssumption
<1>5. ASSUME NEW k \in 1..(n - 1) PROVE Score(t[k + 1]) <= Score(t[k]) + Tolerance
  <2>1. k \in 1..n /\ k + 1 \in 1..n
    BY <1>2
  <2>2. Preferred(t[k], t[k + 1]) \/ ~Preferred(t[k + 1], t[k])
    BY <1>1, <1>3, <2>1 DEF Linked, PreferenceOrder
  <2>3. \A x, y \in Int : x > y + Tolerance => y <= x + Tolerance
    BY <1>4
  <2>. QED
    BY <1>3, <1>4, <2>1, <2>2, <2>3 DEF Preferred
<1>6. f \in [1..n -> Int]
  BY <1>3
<1>7. ASSUME NEW k \in 1..(n - 1) PROVE f[k + 1] <= f[k] + Tolerance
  <2>. k \in 1..n /\ k + 1 \in 1..n
    BY <1>2
  <2>. QED
    BY <1>5
<1>. HIDE DEF f
<1>8. \A j \in 1..n : \A i \in Nat : j + i <= n => f[j + i] <= f[j] + i * Tolerance
  <2>. Tolerance \in Int
    BY <1>4
  <2>. QED
    BY <1>2, <1>6, <1>7, Chain
<1>9. PICK k \in 1..n : a = t[k]
  BY <1>1, <1>2 DEF Range
<1>10. f[k] <= f[1] + (k - 1) * Tolerance
  <2>. k - 1 \in Nat /\ 1 + (k - 1) = k /\ 1 + (k - 1) <= n
    BY <1>2
  <2>. QED
    BY <1>2, <1>8
<1>11. (k - 1) * Tolerance <= (n - 1) * Tolerance
  <2>1. n - k \in Nat /\ (n - k) * Tolerance \in Nat
    BY <1>2, <1>4
  <2>2. (n - 1) * Tolerance = (k - 1) * Tolerance + (n - k) * Tolerance
    BY <1>2, <1>4
  <2>. QED
    BY <1>2, <1>4, <2>1, <2>2
<1>12. f[k] = Score(a) /\ f[1] = Score(t[1])
  BY <1>2, <1>9 DEF f
<1>. DEFINE x == (k - 1) * Tolerance
            y == (n - 1) * Tolerance
<1>13. x \in Int /\ y \in Int /\ x <= y /\ f[k] <= f[1] + x
  BY <1>2, <1>4, <1>10, <1>11
<1>. HIDE DEF x, y
<1>14. Score(a) <= Score(t[1]) + y
  BY <1>2, <1>3, <1>9, <1>12, <1>13
<1>. QED
  BY <1>2, <1>14 DEF t, y

\* A subscription whose limits are not known is first only if those of no other are.
LEMMA KnownFirst ==
  Typed => \A s \in Seq(Accounts) :
    s # <<>> /\ Weekly(Head(Sorted(s, PreferenceOrder))) = NoWindow =>
      \A a \in Range(s) : Weekly(a) = NoWindow
<1>. SUFFICES ASSUME Typed, NEW s \in Seq(Accounts), s # <<>>,
                     Weekly(Head(Sorted(s, PreferenceOrder))) = NoWindow, NEW a \in Range(s)
     PROVE  Weekly(a) = NoWindow
  OBVIOUS
<1>. DEFINE t == Sorted(s, PreferenceOrder)
            n == Len(s)
<1>1. t \in Seq(Accounts) /\ Len(t) = n /\ Range(t) = Range(s) /\ Linked(t, PreferenceOrder)
  BY SortedKeeps
<1>2. Weekly(Head(t)) = NoWindow
  OBVIOUS
<1>. HIDE DEF t
<1>3. n \in Nat /\ 1 \in 1..n /\ Head(t) = t[1] /\ DOMAIN t = 1..n
  BY <1>1
<1>4. \A k \in 1..n : /\ t[k] \in Accounts /\ Score(t[k]) \in Int
                      /\ IF Weekly(t[k]) = NoWindow THEN Score(t[k]) = UnknownUrgency
                         ELSE Score(t[k]) >= 0
  BY <1>1, ScoreIs
<1>5. ASSUME NEW k \in 1..(n - 1), Weekly(t[k]) = NoWindow PROVE Weekly(t[k + 1]) = NoWindow
  <2>. SUFFICES ASSUME Weekly(t[k + 1]) # NoWindow PROVE FALSE
    OBVIOUS
  <2>1. k \in 1..n /\ k + 1 \in 1..n
    BY <1>3
  <2>2. Preferred(t[k], t[k + 1]) \/ ~Preferred(t[k + 1], t[k])
    BY <1>1, <1>4, <2>1 DEF Linked, PreferenceOrder
  <2>3. Score(t[k]) = -1000 /\ Score(t[k + 1]) \in Int /\ Score(t[k + 1]) >= 0
    BY <1>4, <1>5, <2>1 DEF UnknownUrgency
  <2>4. Tolerance \in Int /\ Tolerance >= 0 /\ Tolerance < 1000
    BY RoutingAssumption DEF UnknownUrgency
  <2>5. /\ ~(Score(t[k]) > Score(t[k + 1]) + Tolerance)
        /\ ~(Score(t[k + 1]) <= Score(t[k]) + Tolerance)
        /\ Score(t[k + 1]) > Score(t[k]) + Tolerance
    BY <2>3, <2>4
  <2>. QED
    BY <2>2, <2>5 DEF Preferred
<1>. DEFINE T == {i \in Nat : i + 1 <= n => Weekly(t[i + 1]) = NoWindow}
<1>6. T \in SUBSET Nat /\ 0 \in T
  BY <1>2, <1>3
<1>7. ASSUME NEW i \in T PROVE i + 1 \in T
  <2>. SUFFICES ASSUME (i + 1) + 1 <= n PROVE Weekly(t[(i + 1) + 1]) = NoWindow
    OBVIOUS
  <2>. i \in Nat /\ i + 1 \in 1..(n - 1) /\ i + 1 <= n
    BY <1>3
  <2>. QED
    BY <1>5
<1>. HIDE DEF T
<1>8. T = Nat
  BY <1>6, <1>7, Induction
<1>9. PICK k \in 1..n : a = t[k]
  BY <1>1, <1>3 DEF Range
<1>10. k - 1 \in T /\ (k - 1) + 1 = k /\ k <= n
  BY <1>3, <1>8
<1>. QED
  BY <1>9, <1>10 DEF T

--------------------------------------------------------------------------------
(* Finite sets of numbers. *)

LEMMA ImageIsFinite ==
  ASSUME NEW S, IsFiniteSet(S), NEW f PROVE IsFiniteSet({f[x] : x \in S})
<1>. DEFINE T == {f[x] : x \in S}
            g == [x \in S |-> f[x]]
<1>1. g \in Surjection(S, T)
  BY DEF Surjection
<1>. HIDE DEF g, T
<1>2. IsFiniteSet(T)
  BY <1>1, FS_Surjection
<1>. QED
  BY <1>2 DEF T

LEMMA LeastOf ==
  ASSUME NEW S \in SUBSET Int, S # {}, IsFiniteSet(S)
  PROVE  \E x \in S : \A y \in S : x <= y
<1>1. PICK n \in Nat : ExistsSurjection(1..n, S)
  BY FS_NatSurjection
<1>2. PICK f : f \in [1..n -> S] /\ \A y \in S : \E i \in 1..n : f[i] = y
  BY <1>1 DEF ExistsSurjection, Surjection
<1>. DEFINE Least(k) == \E j \in 1..n : \A i \in 1..k : f[j] <= f[i]
            T == {k \in Nat : k <= n => Least(k)}
<1>3. 1 \in 1..n
  <2>1. PICK y \in S : TRUE
    OBVIOUS
  <2>2. PICK i \in 1..n : f[i] = y
    BY <1>2
  <2>. QED
    OBVIOUS
<1>4. \A i \in 1..n : f[i] \in Int
  BY <1>2
<1>5. T \in SUBSET Nat /\ 0 \in T
  <2>. Least(0)
    BY <1>3
  <2>. QED
    OBVIOUS
<1>6. ASSUME NEW k \in T PROVE k + 1 \in T
  <2>. SUFFICES ASSUME k + 1 <= n PROVE Least(k + 1)
    OBVIOUS
  <2>1. k \in Nat /\ k + 1 \in 1..n /\ 1..(k + 1) = 1..k \union {k + 1} /\ 1..k \subseteq 1..n
    OBVIOUS
  <2>2. PICK j \in 1..n : \A i \in 1..k : f[j] <= f[i]
    BY <2>1
  <2>. HIDE DEF T
  <2>3. CASE f[j] <= f[k + 1]
    BY <2>1, <2>2, <2>3
  <2>4. CASE ~(f[j] <= f[k + 1])
    <3>1. \A i \in 1..k : f[k + 1] <= f[i]
      BY <1>4, <2>1, <2>2, <2>4
    <3>2. f[k + 1] <= f[k + 1]
      BY <1>4, <2>1
    <3>. QED
      BY <2>1, <3>1, <3>2
  <2>. QED
    BY <2>3, <2>4
<1>. HIDE DEF T
<1>7. T = Nat
  BY <1>5, <1>6, Induction
<1>8. Least(n)
  <2>. n \in T /\ n <= n
    BY <1>7
  <2>. QED
    BY DEF T
<1>9. PICK j \in 1..n : \A i \in 1..n : f[j] <= f[i]
  BY <1>8
<1>10. \A y \in S : f[j] <= y
  <2>. HIDE DEF Least
  <2>. QED
    BY <1>2, <1>9
<1>. QED
  BY <1>2, <1>10

LEMMA MinIs ==
  ASSUME NEW S \in SUBSET Int, S # {}, IsFiniteSet(S)
  PROVE  Min(S) \in S /\ \A y \in S : Min(S) <= y
BY LeastOf DEF Min

LEMMA MaxIs ==
  ASSUME NEW S \in SUBSET Int, S # {}, IsFiniteSet(S)
  PROVE  Max(S) \in S /\ \A y \in S : Max(S) >= y
<1>. DEFINE f == [x \in S |-> 0 - x]
            T == {f[x] : x \in S}
<1>1. T \in SUBSET Int /\ T # {}
  <2>. \A x \in S : f[x] \in Int
    OBVIOUS
  <2>. HIDE DEF f
  <2>. QED
    OBVIOUS
<1>2. IsFiniteSet(T)
  <2>. HIDE DEF f
  <2>. QED
    BY ImageIsFinite
<1>. HIDE DEF T
<1>3. PICK x \in T : \A y \in T : x <= y
  BY <1>1, <1>2, LeastOf
<1>4. PICK m \in S : x = 0 - m
  BY DEF T
<1>5. ASSUME NEW y \in S PROVE m >= y
  <2>. 0 - y \in T
    BY DEF T
  <2>. x <= 0 - y
    BY <1>3
  <2>. QED
    BY <1>4
<1>6. \E z \in S : \A y \in S : z >= y
  BY <1>5
<1>. QED
  BY <1>6 DEF Max

--------------------------------------------------------------------------------
(* The combined alert. *)

LEMMA DurationIs == \A w \in Window : Duration(w) \in Nat
BY DEF Window, Duration

\* The average of the windows of one slot resets with one of them, and is as long as
\* the longest.
Averages(av, W) ==
  /\ av \in Window \union {NoWindow}
  /\ av.reset # NoTime => \E w \in W : w.reset = av.reset
  /\ \A w \in W : av # NoWindow /\ Duration(w) <= Duration(av)
  /\ av # NoWindow => W # {} /\ (Duration(av) = 0 \/ \E w \in W : Duration(w) = Duration(av))

LEMMA AverageIs ==
  ASSUME NEW W \in SUBSET (Window \union {NoWindow}), IsFiniteSet(W)
  PROVE  /\ Average(W) \in Window \union {NoWindow}
         /\ Average(W) # NoWindow => Averages(Average(W), W \ {NoWindow})
         /\ Average(W) = NoWindow => W \ {NoWindow} = {}
<1>. DEFINE given == W \ {NoWindow}
            mins == {w.mins : w \in given} \ {NoTime}
            resets == {w.reset : w \in given} \ {NoTime}
            av == [used |-> 0,
                   mins |-> IF mins = {} THEN NoTime ELSE Max(mins),
                   reset |-> IF resets = {} THEN NoTime ELSE Min(resets)]
<1>1. Average(W) = IF given = {} THEN NoWindow ELSE av
  BY DEF Average
<1>2. given \in SUBSET Window /\ IsFiniteSet(given)
  BY FS_Subset
<1>3. /\ mins \in SUBSET Nat /\ IsFiniteSet(mins)
      /\ resets \in SUBSET Int /\ IsFiniteSet(resets)
  <2>1. \A w \in given : w.mins \in Nat \union {NoTime} /\ w.reset \in Int \union {NoTime}
    BY <1>2 DEF Window
  <2>. DEFINE m == [w \in given |-> w.mins]
              r == [w \in given |-> w.reset]
  <2>2. {w.mins : w \in given} = {m[w] : w \in given}
    OBVIOUS
  <2>3. {w.reset : w \in given} = {r[w] : w \in given}
    OBVIOUS
  <2>. HIDE DEF m, r, given
  <2>4. IsFiniteSet({m[w] : w \in given}) /\ IsFiniteSet({r[w] : w \in given})
    BY <1>2, ImageIsFinite
  <2>5. IsFiniteSet(mins) /\ IsFiniteSet(resets)
    BY <2>2, <2>3, <2>4, FS_Subset
  <2>. QED
    BY <2>1, <2>5
<1>4. mins # {} => Max(mins) \in mins /\ \A y \in mins : Max(mins) >= y
  <2>. HIDE DEF mins
  <2>. mins \in SUBSET Int
    BY <1>3
  <2>. QED
    BY <1>3, MaxIs
<1>5. resets # {} => Min(resets) \in resets
  <2>. HIDE DEF resets
  <2>. QED
    BY <1>3, MinIs
<1>6. av \in Window
  BY <1>3, <1>4, <1>5 DEF Window
<1>7. NoWindow \notin Window
  BY RoutingAssumption
<1>8. av.reset # NoTime => \E w \in given : w.reset = av.reset
  <2>. av.reset = IF resets = {} THEN NoTime ELSE Min(resets)
    OBVIOUS
  <2>. HIDE DEF av
  <2>. QED
    BY <1>5
<1>9. /\ mins = {} => Duration(av) = 0
      /\ mins # {} => Duration(av) = Max(mins)
  <2>. av.mins = IF mins = {} THEN NoTime ELSE Max(mins)
    OBVIOUS
  <2>. HIDE DEF av
  <2>1. mins # {} => Max(mins) # NoTime
    BY <1>4
  <2>. QED
    BY <2>1 DEF Duration
<1>. HIDE DEF av
<1>10. ASSUME NEW w \in given PROVE Duration(w) <= Duration(av)
  <2>1. CASE w.mins = NoTime
    <3>. Duration(w) = 0 /\ Duration(av) \in Nat
      BY <1>6, <2>1, DurationIs DEF Duration
    <3>. QED
      OBVIOUS
  <2>2. CASE w.mins # NoTime
    <3>. w.mins \in mins /\ Duration(w) = w.mins
      BY <2>2 DEF Duration
    <3>. w.mins \in Nat /\ mins # {} /\ Max(mins) \in Nat
      BY <1>3, <1>4
    <3>. QED
      BY <1>4, <1>9
  <2>. QED
    BY <2>1, <2>2
<1>11. Duration(av) = 0 \/ \E w \in given : Duration(w) = Duration(av)
  <2>1. CASE mins = {}
    BY <1>9, <2>1
  <2>2. CASE mins # {}
    <3>. PICK w \in given : w.mins = Max(mins) /\ w.mins # NoTime
      BY <1>4, <2>2
    <3>. QED
      BY <1>9, <2>2 DEF Duration
  <2>. QED
    BY <2>1, <2>2
<1>. HIDE DEF given
<1>12. given # {} => Average(W) = av /\ Averages(av, given)
  BY <1>1, <1>6, <1>7, <1>8, <1>10, <1>11 DEF Averages
<1>. QED
  BY <1>1, <1>6, <1>7, <1>12 DEF given

\* The windows of either slot.
LEMMA SlotsAre ==
  Typed => \A asked \in SUBSET Accounts :
    /\ {status[a].primary : a \in asked} \in SUBSET (Window \union {NoWindow})
    /\ {status[a].secondary : a \in asked} \in SUBSET (Window \union {NoWindow})
    /\ IsFiniteSet({status[a].primary : a \in asked})
    /\ IsFiniteSet({status[a].secondary : a \in asked})
<1>. SUFFICES ASSUME Typed, NEW asked \in SUBSET Accounts
     PROVE  /\ {status[a].primary : a \in asked} \in SUBSET (Window \union {NoWindow})
            /\ {status[a].secondary : a \in asked} \in SUBSET (Window \union {NoWindow})
            /\ IsFiniteSet({status[a].primary : a \in asked})
            /\ IsFiniteSet({status[a].secondary : a \in asked})
  OBVIOUS
<1>1. IsFiniteSet(asked)
  BY RoutingAssumption, FS_Subset
<1>2. \A a \in asked : /\ status[a].primary \in Window \union {NoWindow}
                       /\ status[a].secondary \in Window \union {NoWindow}
  BY WindowsAre DEF Profile
<1>. DEFINE f == [a \in asked |-> status[a].primary]
            g == [a \in asked |-> status[a].secondary]
<1>3. /\ {status[a].primary : a \in asked} = {f[a] : a \in asked}
      /\ {status[a].secondary : a \in asked} = {g[a] : a \in asked}
  OBVIOUS
<1>. HIDE DEF f, g
<1>4. IsFiniteSet({f[a] : a \in asked}) /\ IsFiniteSet({g[a] : a \in asked})
  BY <1>1, ImageIsFinite
<1>. QED
  BY <1>2, <1>3, <1>4

\* The alert is for when the week of one of the subscriptions begins, if no first
\* window is longer than a second one.
LEMMA AlertFollowsAWindow ==
  Typed => \A answered \in SUBSET Accounts :
    LET asked == {a \in answered : Subscribed(a)}
        Two(a) == status[a].primary # NoWindow /\ status[a].secondary # NoWindow
        secondIsLonger == \A a, b \in asked : Two(a) /\ status[b].primary # NoWindow
                            => Duration(status[b].primary) <= Duration(status[a].secondary)
    IN PooledReset(answered) # NoTime /\ secondIsLonger =>
         \E w \in {Weekly(a) : a \in asked} \ {NoWindow} : w.reset = PooledReset(answered)
<1>. SUFFICES ASSUME Typed, NEW answered \in SUBSET Accounts PROVE
    LET asked == {a \in answered : Subscribed(a)}
        Two(a) == status[a].primary # NoWindow /\ status[a].secondary # NoWindow
        secondIsLonger == \A a, b \in asked : Two(a) /\ status[b].primary # NoWindow
                            => Duration(status[b].primary) <= Duration(status[a].secondary)
    IN PooledReset(answered) # NoTime /\ secondIsLonger =>
         \E w \in {Weekly(a) : a \in asked} \ {NoWindow} : w.reset = PooledReset(answered)
  OBVIOUS
<1>. DEFINE asked == {a \in answered : Subscribed(a)}
            Two(a) == status[a].primary # NoWindow /\ status[a].secondary # NoWindow
            secondIsLonger == \A a, b \in asked : Two(a) /\ status[b].primary # NoWindow
                                => Duration(status[b].primary) <= Duration(status[a].secondary)
            P == {status[a].primary : a \in asked}
            Q == {status[a].secondary : a \in asked}
            first == Average(P)
            second == Average(Q)
            longest == Longest(first, second)
<1>. SUFFICES ASSUME PooledReset(answered) # NoTime, secondIsLonger
     PROVE  \E a \in asked : Weekly(a) # NoWindow /\ Weekly(a).reset = PooledReset(answered)
  OBVIOUS
<1>1. asked \in SUBSET Accounts /\ IsFiniteSet(asked)
  BY RoutingAssumption, FS_Subset
<1>2. PooledReset(answered) = IF longest = NoWindow THEN NoTime ELSE longest.reset
  BY DEF PooledReset
<1>. HIDE DEF asked
<1>3. \A a \in asked : /\ status[a].primary \in Window \union {NoWindow}
                       /\ status[a].secondary \in Window \union {NoWindow}
  BY <1>1, WindowsAre DEF Profile
<1>4. P \in SUBSET (Window \union {NoWindow}) /\ IsFiniteSet(P)
  BY <1>1, SlotsAre
<1>5. Q \in SUBSET (Window \union {NoWindow}) /\ IsFiniteSet(Q)
  BY <1>1, SlotsAre
<1>. DEFINE Ps == P \ {NoWindow}
            Qs == Q \ {NoWindow}
<1>6. /\ first \in Window \union {NoWindow} /\ second \in Window \union {NoWindow}
      /\ first # NoWindow => Averages(first, Ps)
      /\ second # NoWindow => Averages(second, Qs)
      /\ second = NoWindow => Qs = {}
  <2>. HIDE DEF P, Q
  <2>. QED
    BY <1>4, <1>5, AverageIs
<1>. HIDE DEF first, second
<1>7. \A a \in asked : Weekly(a) = Longest(status[a].primary, status[a].secondary)
  BY DEF Weekly
<1>8. longest # NoWindow /\ longest.reset # NoTime /\ PooledReset(answered) = longest.reset
  BY <1>2
\* It is the second: the subscription it comes from has no longer first window.
<1>9. CASE longest = second
  <2>1. PICK w \in Qs : w.reset = second.reset
    <3>. HIDE DEF Qs
    <3>. QED
      BY <1>6, <1>8, <1>9 DEF Averages
  <2>2. PICK a \in asked : w = status[a].secondary /\ status[a].secondary # NoWindow
    OBVIOUS
  <2>3. Weekly(a) = status[a].secondary
    BY <1>3, <1>7, <2>2, DurationIs DEF Longest
  <2>. QED
    BY <1>8, <1>9, <2>1, <2>2, <2>3
\* It is the first: a second one of the subscription it comes from would make the
\* average of the second ones as long.
<1>10. CASE longest # second
  <2>1. longest = first /\ first # NoWindow
    BY <1>8, <1>10 DEF Longest
  <2>2. second # NoWindow => ~(Duration(second) >= Duration(first))
    BY <1>10 DEF Longest
  <2>3. PICK w \in Ps : w.reset = first.reset
    <3>. HIDE DEF Ps
    <3>. QED
      BY <1>6, <1>8, <2>1 DEF Averages
  <2>4. PICK a \in asked : w = status[a].primary /\ status[a].primary # NoWindow
    OBVIOUS
  <2>5. status[a].secondary = NoWindow
    <3>. SUFFICES ASSUME status[a].secondary # NoWindow PROVE FALSE
      OBVIOUS
    <3>1. status[a].secondary \in Qs
      OBVIOUS
    <3>2. second # NoWindow /\ Duration(status[a].secondary) <= Duration(second)
      <4>. HIDE DEF Qs
      <4>. QED
        BY <1>6, <3>1 DEF Averages
    <3>3. Duration(second) \in Nat /\ Duration(first) \in Nat
      BY <1>6, <2>1, <3>2, DurationIs
    <3>4. CASE Duration(first) = 0
      BY <2>2, <3>2, <3>3, <3>4
    <3>5. CASE Duration(first) # 0
      <4>1. PICK v \in Ps : Duration(v) = Duration(first)
        <5>. HIDE DEF Ps
        <5>. QED
          BY <1>6, <2>1, <3>5 DEF Averages
      <4>2. PICK b \in asked : v = status[b].primary /\ status[b].primary # NoWindow
        OBVIOUS
      <4>3. Duration(v) <= Duration(status[a].secondary)
        BY <2>4, <4>2
      <4>4. Duration(v) \in Nat /\ Duration(status[a].secondary) \in Nat
        BY <1>3, <4>2, DurationIs
      <4>. QED
        BY <2>2, <3>2, <3>3, <4>1, <4>3, <4>4
    <3>. QED
      BY <3>4, <3>5
  <2>6. Weekly(a) = status[a].primary
    BY <1>7, <2>5 DEF Longest
  <2>. QED
    BY <1>8, <2>1, <2>3, <2>4, <2>6
<1>. QED
  BY <1>9, <1>10

LEMMA ResetIs ==
  Typed => \A answered \in SUBSET Accounts : PooledReset(answered) \in Int \union {NoTime}
<1>. SUFFICES ASSUME Typed, NEW answered \in SUBSET Accounts
     PROVE  PooledReset(answered) \in Int \union {NoTime}
  OBVIOUS
<1>. DEFINE asked == {a \in answered : Subscribed(a)}
            first == Average({status[a].primary : a \in asked})
            second == Average({status[a].secondary : a \in asked})
            longest == Longest(first, second)
<1>1. first \in Window \union {NoWindow} /\ second \in Window \union {NoWindow}
  <2>. asked \in SUBSET Accounts
    OBVIOUS
  <2>. HIDE DEF asked
  <2>. QED
    BY SlotsAre, AverageIs
<1>. HIDE DEF first, second
<1>2. longest \in Window \union {NoWindow}
  BY <1>1 DEF Longest
<1>3. PooledReset(answered) = IF longest = NoWindow THEN NoTime ELSE longest.reset
  BY DEF PooledReset, first, second
<1>. QED
  BY <1>2, <1>3 DEF Window

--------------------------------------------------------------------------------
(* The inductive invariant. *)

LEMMA FirstIsCandidate ==
  ASSUME NEW s \in Seq(Accounts), s # <<>>, NEW before
  PROVE  Head(Sorted(s, before)) \in Range(s) /\ Head(Sorted(s, before)) \in Accounts
<1>. DEFINE t == Sorted(s, before)
<1>1. t \in Seq(Accounts) /\ Len(t) = Len(s) /\ Range(t) = Range(s)
  BY SortedKeeps
<1>. HIDE DEF t
<1>2. Head(t) = t[1] /\ 1 \in DOMAIN t /\ t[1] \in Accounts
  BY <1>1
<1>. QED
  BY <1>1, <1>2 DEF t, Range

LEMMA InitIInv == Init => IInv
<1>. SUFFICES ASSUME Init PROVE IInv
  OBVIOUS
<1>. USE RoutingAssumption DEF Init
<1>1. snapshots = <<>> /\ candidates = <<>> /\ DOMAIN <<>> = {}
  OBVIOUS
<1>2. Typed
  <2>1. candidates \in Seq(Accounts) /\ IsInjective(candidates)
    BY <1>1 DEF IsInjective
  <2>2. snapshots \in Seq([account : Accounts, ok : BOOLEAN])
    OBVIOUS
  <2>3. status \in [Accounts -> Profile]
    BY DEF NoStatus, Profile
  <2>. QED
    BY <2>1, <2>2, <2>3 DEF Typed, TypeOK, NoAlert
<1>3. AnswersOnce
  BY <1>1 DEF AnswersOnce, Answered, Range
<1>4. CandidatesMay
  BY DEF CandidatesMay
<1>5. Decided
  BY DEF Decided
<1>. QED
  BY <1>2, <1>3, <1>4, <1>5 DEF IInv

\* What the scores and the alert depend on.
LEMMA OrdersStay ==
  status' = status =>
    /\ banked' = banked => PreferenceOrder' = PreferenceOrder
    /\ \A S : PooledReset(S)' = PooledReset(S)
    /\ \A a : Subscribed(a)' = Subscribed(a) /\ Depleted(a)' = Depleted(a)
    /\ snapshots' = snapshots /\ departed' = departed => Usable' = Usable
BY DEF PreferenceOrder, Preferred, TieBreak, Score, Weekly, Short, PooledReset, Subscribed, Depleted,
       Usable, Readable

\* What is said of the candidates stays as long as they and their statuses do.
LEMMA CandidatesStay ==
  /\ CandidatesMay
  /\ UNCHANGED <<status, snapshots, candidates, departed>>
  /\ phase' \in {"crediting", "chosen"} => phase \in {"crediting", "chosen"}
  /\ phase' = "depleted" => phase = "depleted"
  => CandidatesMay'
<1>. SUFFICES ASSUME CandidatesMay, UNCHANGED <<status, snapshots, candidates, departed>>,
                     phase' \in {"crediting", "chosen"} => phase \in {"crediting", "chosen"},
                     phase' = "depleted" => phase = "depleted"
     PROVE  CandidatesMay'
  OBVIOUS
<1>1. Usable' = Usable /\ \A a : Depleted(a)' = Depleted(a)
  BY OrdersStay
<1>2. InOrder(candidates)' = InOrder(candidates) /\ Answered' = Answered
  BY DEF InOrder, Age, Answered
<1>3. Range(candidates)' = Range(candidates)
  BY DEF Range
<1>. QED
  BY <1>1, <1>2, <1>3 DEF CandidatesMay

LEMMA SnapshotsAre ==
  Typed => /\ \A i \in DOMAIN snapshots : snapshots[i].account \in Accounts
           /\ \A x \in Range(snapshots) :
                x.account \in Accounts /\ x.ok \in BOOLEAN /\ x = [account |-> x.account, ok |-> x.ok]
<1>. SUFFICES ASSUME Typed
     PROVE  /\ \A i \in DOMAIN snapshots : snapshots[i].account \in Accounts
            /\ \A x \in Range(snapshots) :
                 x.account \in Accounts /\ x.ok \in BOOLEAN /\ x = [account |-> x.account, ok |-> x.ok]
  OBVIOUS
<1>. DEFINE R == [account : Accounts, ok : BOOLEAN]
<1>1. snapshots \in Seq(R)
  BY DEF Typed, TypeOK
<1>2. \A x \in R : x.account \in Accounts /\ x.ok \in BOOLEAN /\ x = [account |-> x.account, ok |-> x.ok]
  OBVIOUS
<1>. HIDE DEF R
<1>3. \A i \in DOMAIN snapshots : snapshots[i] \in R
  BY <1>1
<1>. QED
  BY <1>2, <1>3 DEF Range

\* The status of one more subscription.
LEMMA ArrivalKeeps ==
  ASSUME NEW s \in Seq([account : Accounts, ok : BOOLEAN]),
         NEW a \in Accounts, NEW ok \in BOOLEAN,
         \A i, j \in DOMAIN s : s[i].account = s[j].account => i = j,
         a \notin {x.account : x \in Range(s)}
  PROVE  LET t == Append(s, [account |-> a, ok |-> ok]) IN
         /\ t \in Seq([account : Accounts, ok : BOOLEAN])
         /\ Range(t) = Range(s) \union {[account |-> a, ok |-> ok]}
         /\ \A i, j \in DOMAIN t : t[i].account = t[j].account => i = j
<1>. DEFINE x == [account |-> a, ok |-> ok]
            t == Append(s, x)
            n == Len(s)
<1>1. n \in Nat /\ DOMAIN s = 1..n /\ x \in [account : Accounts, ok : BOOLEAN] /\ x.account = a
  OBVIOUS
<1>. HIDE DEF x
<1>2. /\ t \in Seq([account : Accounts, ok : BOOLEAN]) /\ DOMAIN t = 1..(n + 1)
      /\ t[n + 1] = x /\ \A k \in 1..n : t[k] = s[k]
  BY <1>1
<1>3. 1..(n + 1) = 1..n \union {n + 1}
  BY <1>1
<1>. HIDE DEF t, n
<1>4. Range(t) = Range(s) \union {x}
  BY <1>1, <1>2, <1>3 DEF Range
<1>5. \A i \in 1..n : s[i].account # a
  BY <1>1 DEF Range
<1>6. \A i, j \in 1..(n + 1) : t[i].account = t[j].account => i = j
  BY <1>1, <1>2, <1>3, <1>5
<1>. QED
  BY <1>2, <1>4, <1>6 DEF t, x

LEMMA AnswersAre == Answers \subseteq Profile
<1>1. \A s \in Profile : Unread(s) \in Profile
  BY DEF Unread, Profile
<1>2. ASSUME NEW s \in Profile, NEW reset \in PreviewResets PROVE Previewed(s, reset) \in Profile
  <2>. DEFINE short == [used |-> 100, mins |-> 300, reset |-> reset]
              weekly == [used |-> 100, mins |-> 10080, reset |-> reset]
  <2>1. short \in Window /\ weekly \in Window
    BY RoutingAssumption DEF Window
  <2>2. Previewed(s, reset) = [s EXCEPT !.primary = short, !.secondary = weekly]
    BY DEF Previewed, PreviewShort, PreviewWeekly
  <2>. HIDE DEF short, weekly
  <2>. QED
    BY <2>1, <2>2 DEF Profile
<1>. QED
  BY <1>1, <1>2, RoutingAssumption DEF Answers

LEMMA StatusArrivesKeeps == IInv /\ (\E a \in Accounts : StatusArrives(a)) => IInv'
<1>. SUFFICES ASSUME IInv, NEW a \in Accounts, StatusArrives(a) PROVE IInv'
  OBVIOUS
<1>1. PICK ok \in BOOLEAN :
        /\ snapshots' = Append(snapshots, [account |-> a, ok |-> ok])
        /\ IF ok THEN \E s \in Answers : status' = [status EXCEPT ![a] = s]
           ELSE status' = status
  BY DEF StatusArrives
<1>2. /\ phase \in {"asking", "asking again"} /\ a \in waiting /\ waiting' = waiting \ {a}
      /\ pool' = pool /\ phase' = phase /\ candidates' = candidates
      /\ banked' = banked /\ choice' = choice /\ alert' = alert /\ departed' = departed
  BY DEF StatusArrives, Without
<1>3. Typed /\ AnswersOnce
  BY DEF IInv
<1>4. /\ snapshots' \in Seq([account : Accounts, ok : BOOLEAN])
      /\ Range(snapshots') = Range(snapshots) \union {[account |-> a, ok |-> ok]}
      /\ \A i, j \in DOMAIN snapshots' : snapshots'[i].account = snapshots'[j].account => i = j
  <2>1. snapshots \in Seq([account : Accounts, ok : BOOLEAN])
    BY <1>3 DEF Typed, TypeOK
  <2>2. \A i, j \in DOMAIN snapshots : snapshots[i].account = snapshots[j].account => i = j
    BY <1>3 DEF AnswersOnce
  <2>3. a \notin {x.account : x \in Range(snapshots)}
    BY <1>2, <1>3 DEF AnswersOnce, Answered
  <2>. DEFINE t == Append(snapshots, [account |-> a, ok |-> ok])
  <2>4. /\ t \in Seq([account : Accounts, ok : BOOLEAN])
        /\ Range(t) = Range(snapshots) \union {[account |-> a, ok |-> ok]}
        /\ \A i, j \in DOMAIN t : t[i].account = t[j].account => i = j
    BY <2>1, <2>2, <2>3, ArrivalKeeps
  <2>5. snapshots' = t
    BY <1>1
  <2>. HIDE DEF t
  <2>. QED
    BY <2>4, <2>5
<1>5. Answered' = Answered \union {a}
  <2>1. [account |-> a, ok |-> ok].account = a
    OBVIOUS
  <2>. DEFINE x == [account |-> a, ok |-> ok]
  <2>2. x.account = a /\ Range(snapshots') = Range(snapshots) \union {x}
    BY <1>4, <2>1
  <2>. HIDE DEF x
  <2>. QED
    BY <2>2 DEF Answered
<1>6. Typed'
  <2>1. status' \in [Accounts -> Profile]
    BY <1>1, <1>3, AnswersAre DEF Typed, TypeOK
  <2>. QED
    BY <1>2, <1>3, <1>4, <2>1 DEF Typed, TypeOK
<1>7. AnswersOnce'
  <2>1. phase = "asking" => waiting' = Accounts \ Answered'
    BY <1>2, <1>3, <1>5 DEF AnswersOnce
  <2>2. phase = "asking again" => waiting' \intersect Answered' = {}
    BY <1>2, <1>3, <1>5 DEF AnswersOnce
  <2>. QED
    BY <1>2, <1>4, <2>1, <2>2 DEF AnswersOnce
<1>8. CandidatesMay'
  BY <1>2 DEF CandidatesMay
<1>9. Decided'
  BY <1>2 DEF Decided
<1>. QED
  BY <1>6, <1>7, <1>8, <1>9 DEF IInv

\* The snapshots as the loop sees them.
LEMMA ListedIs ==
  Typed /\ AnswersOnce /\ phase = "asking" =>
    /\ Listed(snapshots) \in Seq(Accounts) /\ Range(Listed(snapshots)) = Answered
    /\ IsInjective(Listed(snapshots))
    /\ Answered = Accounts => InOrder(Listed(snapshots))
<1>. SUFFICES ASSUME Typed, AnswersOnce, phase = "asking"
     PROVE  /\ Listed(snapshots) \in Seq(Accounts) /\ Range(Listed(snapshots)) = Answered
            /\ IsInjective(Listed(snapshots))
            /\ Answered = Accounts => InOrder(Listed(snapshots))
  OBVIOUS
<1>. DEFINE s == [i \in DOMAIN snapshots |-> snapshots[i].account]
<1>1. snapshots \in Seq([account : Accounts, ok : BOOLEAN])
  BY DEF Typed, TypeOK
<1>2. s \in Seq(Accounts)
  <2>. DOMAIN snapshots = 1..Len(snapshots) /\ Len(snapshots) \in Nat
    BY <1>1
  <2>. \A i \in DOMAIN snapshots : snapshots[i].account \in Accounts
    BY SnapshotsAre
  <2>. QED
    OBVIOUS
<1>3. Range(s) = Answered
  BY DEF Range, Answered
<1>4. IsInjective(s)
  BY DEF IsInjective, AnswersOnce
<1>5. Listed(snapshots) = IF waiting = {} THEN Sorted(s, ListingOrder) ELSE s
  BY DEF Listed
<1>6. Answered = Accounts => waiting = {}
  BY DEF AnswersOnce
<1>. HIDE DEF s
<1>7. CASE waiting = {}
  <2>. /\ Sorted(s, ListingOrder) \in Seq(Accounts)
       /\ Range(Sorted(s, ListingOrder)) = Range(s)
       /\ Linked(Sorted(s, ListingOrder), ListingOrder)
       /\ IsInjective(Sorted(s, ListingOrder))
    BY <1>2, <1>4, SortedKeeps
  <2>. QED
    BY <1>3, <1>5, <1>7, SortedByAge
<1>8. CASE waiting # {}
  BY <1>2, <1>3, <1>4, <1>5, <1>6, <1>8
<1>. QED
  BY <1>7, <1>8

LEMMA SelectCandidatesKeeps == IInv /\ SelectCandidates => IInv'
<1>. SUFFICES ASSUME IInv, SelectCandidates PROVE IInv'
  OBVIOUS
<1>. DEFINE eligible == {x.account : x \in {y \in Range(snapshots) : Eligible(y)}}
<1>1. /\ phase = "asking" /\ candidates' = Taken(Listed(snapshots), eligible)
      /\ waiting' = eligible
      /\ phase' = IF eligible = {} THEN "depleted" ELSE "crediting"
      /\ departed' = Accounts \ pool
      /\ status' = status /\ pool' = pool /\ snapshots' = snapshots
      /\ banked' = banked /\ choice' = choice /\ alert' = alert
  BY DEF SelectCandidates
<1>2. Typed /\ AnswersOnce
  BY DEF IInv
<1>3. \A x \in Range(snapshots) : x.account \in Accounts /\ x.ok \in BOOLEAN
  BY <1>2, SnapshotsAre
<1>4. eligible \subseteq Answered /\ Answered \subseteq Accounts
  BY <1>3 DEF Answered
<1>5. eligible = {a \in Usable' : ~Depleted(a)}
  <2>1. \A x \in Range(snapshots) :
          Eligible(x) <=> x.ok /\ x.account \notin departed' /\ Subscribed(x.account) /\ ~Depleted(x.account)
    BY <1>1, <1>3 DEF Eligible
  <2>2. Usable' = {a \in Readable \ departed' : Subscribed(a)}
    BY <1>1 DEF Usable, Readable, Subscribed
  <2>. QED
    BY <2>1, <2>2 DEF Readable
<1>. HIDE DEF eligible
<1>6. /\ candidates' \in Seq(Accounts) /\ IsInjective(candidates')
      /\ Range(candidates') = Answered \intersect eligible
      /\ Answered = Accounts => InOrder(candidates')
  <2>1. /\ Listed(snapshots) \in Seq(Accounts) /\ Range(Listed(snapshots)) = Answered
        /\ IsInjective(Listed(snapshots))
        /\ Answered = Accounts => InOrder(Listed(snapshots))
    BY <1>1, <1>2, ListedIs
  <2>. QED
    BY <1>1, <2>1, TakenKeeps
<1>7. Range(candidates') = eligible
  BY <1>4, <1>6
<1>8. Typed'
  BY <1>1, <1>2, <1>4, <1>6 DEF Typed, TypeOK
<1>9. AnswersOnce'
  BY <1>1, <1>2 DEF AnswersOnce
<1>10. CandidatesMay'
  <2>1. \A a : Depleted(a)' = Depleted(a)
    BY <1>1, OrdersStay
  <2>2. eligible = {a \in Usable' : ~Depleted(a)'}
    BY <1>5, <2>1
  <2>3. eligible # {} => candidates' # <<>>
    <3>. Range(<<>>) = {}
      BY DEF Range
    <3>. QED
      BY <1>7
  <2>4. Answered' = Accounts => InOrder(candidates')
    BY <1>1, <1>6 DEF Answered
  <2>5. InOrder(candidates') = InOrder(candidates)' /\ Range(candidates)' = Range(candidates')
    BY DEF InOrder, Age, Range
  <2>6. phase' = "depleted" => \A a \in Usable' : Depleted(a)'
    BY <1>1, <2>2
  <2>7. phase' \in {"crediting", "chosen"} => eligible # {}
    BY <1>1
  <2>. QED
    BY <1>7, <2>2, <2>3, <2>4, <2>5, <2>6, <2>7 DEF CandidatesMay
<1>11. Decided'
  BY <1>1 DEF Decided
<1>. QED
  BY <1>8, <1>9, <1>10, <1>11 DEF IInv

LEMMA CreditsArriveKeeps == IInv /\ (\E a \in Accounts : CreditsArrive(a)) => IInv'
<1>. SUFFICES ASSUME IInv, NEW a \in Accounts, CreditsArrive(a) PROVE IInv'
  OBVIOUS
<1>1. PICK count \in Counts \union {NoCount} : banked' = [banked EXCEPT ![a] = count]
  BY DEF CreditsArrive
<1>2. /\ phase = "crediting" /\ waiting' = waiting \ {a}
      /\ status' = status /\ pool' = pool /\ phase' = phase /\ snapshots' = snapshots
      /\ candidates' = candidates /\ choice' = choice /\ alert' = alert /\ departed' = departed
  BY DEF CreditsArrive, Without
<1>3. Typed /\ AnswersOnce /\ CandidatesMay
  BY DEF IInv
<1>4. Typed'
  <2>1. banked' \in [Accounts -> Counts \union {NoCount}]
    BY <1>1, <1>3 DEF Typed, TypeOK
  <2>. QED
    BY <1>2, <1>3, <2>1 DEF Typed, TypeOK
<1>5. AnswersOnce'
  BY <1>2, <1>3 DEF AnswersOnce
<1>6. CandidatesMay'
  BY <1>2, <1>3, CandidatesStay
<1>7. Decided'
  BY <1>2 DEF Decided
<1>. QED
  BY <1>4, <1>5, <1>6, <1>7 DEF IInv

LEMMA ChooseKeeps == IInv /\ Choose => IInv'
<1>. SUFFICES ASSUME IInv, Choose PROVE IInv'
  OBVIOUS
<1>1. /\ phase = "crediting" /\ choice' = Head(Sorted(candidates, PreferenceOrder))
      /\ phase' = "chosen"
      /\ status' = status /\ pool' = pool /\ waiting' = waiting /\ snapshots' = snapshots
      /\ candidates' = candidates /\ banked' = banked /\ alert' = alert /\ departed' = departed
  BY DEF Choose
<1>2. Typed /\ AnswersOnce /\ CandidatesMay
  BY DEF IInv
<1>3. choice' \in Range(candidates) /\ choice' \in Accounts
  BY <1>1, <1>2, FirstIsCandidate DEF CandidatesMay, Typed, TypeOK
<1>4. Typed'
  BY <1>1, <1>2, <1>3 DEF Typed, TypeOK
<1>5. AnswersOnce'
  BY <1>1, <1>2 DEF AnswersOnce
<1>6. CandidatesMay'
  BY <1>1, <1>2, CandidatesStay
<1>7. Decided'
  <2>. PreferenceOrder' = PreferenceOrder
    BY <1>1, OrdersStay
  <2>. QED
    BY <1>1 DEF Decided
<1>. QED
  BY <1>4, <1>5, <1>6, <1>7 DEF IInv

LEMMA AskAgainKeeps == IInv /\ AskAgain => IInv'
<1>. SUFFICES ASSUME IInv, AskAgain PROVE IInv'
  OBVIOUS
<1>1. /\ phase' = "asking again" /\ waiting' = pool /\ snapshots' = <<>>
      /\ status' = [a \in Accounts |-> NoStatus]
      /\ pool' = pool /\ candidates' = candidates /\ banked' = banked /\ choice' = choice
      /\ alert' = alert /\ departed' = departed
  BY DEF AskAgain
<1>2. /\ snapshots' \in Seq([account : Accounts, ok : BOOLEAN])
      /\ DOMAIN snapshots' = {} /\ Range(snapshots') = {}
  <2>. <<>> \in Seq([account : Accounts, ok : BOOLEAN]) /\ DOMAIN <<>> = {}
    OBVIOUS
  <2>. QED
    BY <1>1 DEF Range
<1>3. Typed'
  <2>1. status' \in [Accounts -> Profile]
    BY <1>1 DEF NoStatus, Profile
  <2>. QED
    BY <1>1, <1>2, <2>1 DEF IInv, Typed, TypeOK
<1>4. AnswersOnce'
  BY <1>1, <1>2 DEF AnswersOnce, Answered, Range
<1>5. CandidatesMay'
  BY <1>1 DEF CandidatesMay
<1>6. Decided'
  BY <1>1 DEF Decided
<1>. QED
  BY <1>3, <1>4, <1>5, <1>6 DEF IInv

LEMMA ReportPreviewKeeps == IInv /\ ReportPreview => IInv'
<1>. SUFFICES ASSUME IInv, ReportPreview PROVE IInv'
  OBVIOUS
<1>1. PICK reset \in PreviewResets :
        alert' = [answered |-> {}, reset |-> reset, preview |-> TRUE]
  BY DEF ReportPreview
<1>2. /\ phase' = "reported"
      /\ status' = status /\ pool' = pool /\ waiting' = waiting /\ snapshots' = snapshots
      /\ candidates' = candidates /\ banked' = banked /\ choice' = choice /\ departed' = departed
  BY DEF ReportPreview
<1>3. Typed'
  BY <1>1, <1>2, RoutingAssumption DEF IInv, Typed, TypeOK
<1>4. AnswersOnce'
  BY <1>2 DEF IInv, AnswersOnce
<1>5. CandidatesMay'
  BY <1>2 DEF CandidatesMay
<1>6. Decided'
  BY <1>1, <1>2 DEF Decided
<1>. QED
  BY <1>3, <1>4, <1>5, <1>6 DEF IInv

LEMMA ReportDepletedKeeps == IInv /\ ReportDepleted => IInv'
<1>. SUFFICES ASSUME IInv, ReportDepleted PROVE IInv'
  OBVIOUS
<1>1. /\ phase' = "reported"
      /\ alert' = [answered |-> Readable, reset |-> PooledReset(Readable), preview |-> FALSE]
      /\ status' = status /\ pool' = pool /\ waiting' = waiting /\ snapshots' = snapshots
      /\ candidates' = candidates /\ banked' = banked /\ choice' = choice /\ departed' = departed
  BY DEF ReportDepleted
<1>2. Typed /\ AnswersOnce
  BY DEF IInv
<1>3. Readable \in SUBSET Accounts /\ PooledReset(Readable) \in Int \union {NoTime}
  <2>. Readable \in SUBSET Accounts
    BY <1>2, SnapshotsAre DEF Readable
  <2>. QED
    BY <1>2, ResetIs
<1>4. Typed'
  BY <1>1, <1>2, <1>3 DEF Typed, TypeOK
<1>5. AnswersOnce'
  BY <1>1, <1>2 DEF AnswersOnce
<1>6. CandidatesMay'
  BY <1>1 DEF CandidatesMay
<1>7. Decided'
  <2>1. alert'.answered = Readable /\ alert'.reset = PooledReset(Readable)
    BY <1>1
  <2>2. (alert.reset = PooledReset(alert.answered))'
    BY <1>1, <2>1 DEF PooledReset, Subscribed
  <2>. QED
    BY <1>1, <2>2 DEF Decided
<1>. QED
  BY <1>4, <1>5, <1>6, <1>7 DEF IInv

\* A removal, and a step of something else, leave everything but the pool.
LEMMA PoolOnlyKeeps ==
  /\ IInv
  /\ pool' \subseteq pool
  /\ UNCHANGED <<status, phase, waiting, snapshots, candidates, banked, choice, alert, departed>>
  => IInv'
<1>. SUFFICES ASSUME IInv, pool' \subseteq pool,
                     UNCHANGED <<status, phase, waiting, snapshots, candidates, banked, choice, alert, departed>>
     PROVE  IInv'
  OBVIOUS
<1>1. Typed'
  BY DEF IInv, Typed, TypeOK
<1>2. AnswersOnce'
  BY DEF IInv, AnswersOnce, Answered
<1>3. CandidatesMay'
  BY CandidatesStay DEF IInv
<1>4. Decided'
  <2>1. PreferenceOrder' = PreferenceOrder
    BY OrdersStay
  <2>2. PooledReset(alert.answered)' = PooledReset(alert.answered)
    BY DEF PooledReset, Subscribed
  <2>. QED
    BY <2>1, <2>2 DEF IInv, Decided
<1>. QED
  BY <1>1, <1>2, <1>3, <1>4 DEF IInv

THEOREM IInvHolds == Spec => []IInv
<1>1. IInv /\ [Next]_vars => IInv'
  <2>. SUFFICES ASSUME IInv, [Next]_vars PROVE IInv'
    OBVIOUS
  <2>1. CASE \E a \in Accounts : StatusArrives(a)
    BY <2>1, StatusArrivesKeeps
  <2>2. CASE \E a \in Accounts : CreditsArrive(a)
    BY <2>2, CreditsArriveKeeps
  <2>3. CASE \E a \in Accounts : Leave(a)
    BY <2>3, PoolOnlyKeeps DEF Leave
  <2>4. CASE SelectCandidates
    BY <2>4, SelectCandidatesKeeps
  <2>5. CASE Choose
    BY <2>5, ChooseKeeps
  <2>6. CASE AskAgain
    BY <2>6, AskAgainKeeps
  <2>7. CASE ReportPreview
    BY <2>7, ReportPreviewKeeps
  <2>8. CASE ReportDepleted
    BY <2>8, ReportDepletedKeeps
  <2>9. CASE UNCHANGED vars
    BY <2>9, PoolOnlyKeeps DEF vars
  <2>. QED
    BY <2>1, <2>2, <2>3, <2>4, <2>5, <2>6, <2>7, <2>8, <2>9 DEF Next
<1>. QED
  BY <1>1, InitIInv, PTL DEF Spec

--------------------------------------------------------------------------------
(* The theorems. *)

\* Every variable keeps its shape, no subscription is a candidate twice, and the
\* alert for a user without allowance is not before the first week that begins anew:
\* in any pool, whatever the windows and whoever answers.
THEOREM AlertsAreNotEarly == Spec => []Inv
<1>1. IInv => Inv
  <2>. SUFFICES ASSUME IInv PROVE AlertIsNeverEarly
    BY DEF IInv, Typed, Inv
  <2>. SUFFICES ASSUME phase = "reported", ~alert.preview, alert.reset # NoTime
       PROVE  AlertIsNeverEarly
    BY DEF AlertIsNeverEarly
  <2>1. Typed /\ alert.answered \in SUBSET Accounts /\ alert.reset = PooledReset(alert.answered)
    BY DEF IInv, Decided, Typed, TypeOK
  <2>2. alert.reset \in Int
    BY <2>1 DEF Typed
  <2>3. alert.reset <= alert.reset
    BY <2>2
  <2>. QED
    BY <2>1, <2>2, <2>3, AlertFollowsAWindow DEF AlertIsNeverEarly
<1>. QED
  BY <1>1, IInvHolds, PTL

\* A new chat goes to a subscription that answered, was in the pool when the
\* candidates were taken up, and has weekly allowance left if any such subscription is
\* known to have some (chooseAccountExcluding), whatever the tolerances make of the
\* order; and nobody is told that all are depleted while one is not known to be.
THEOREM ChoiceHasCapacity == Spec => []KnownCapacityFirst
<1>1. IInv => KnownCapacityFirst
  <2>. SUFFICES ASSUME IInv PROVE KnownCapacityFirst
    OBVIOUS
  <2>1. Typed /\ CandidatesMay
    BY DEF IInv
  <2>2. Usable \subseteq Accounts
    BY <2>1, SnapshotsAre DEF Usable, Readable
  <2>3. \A a \in Usable : HasAllowance(a) <=> Weekly(a) # NoWindow /\ ~Depleted(a)
    BY <2>1, <2>2, AllowanceIs
  <2>4. ASSUME phase = "chosen"
        PROVE  /\ choice \in Usable
               /\ \/ HasAllowance(choice)
                  \/ Weekly(choice) = NoWindow /\ \A a \in Usable : ~HasAllowance(a)
    <3>1. /\ candidates \in Seq(Accounts) /\ candidates # <<>>
          /\ choice = Head(Sorted(candidates, PreferenceOrder))
          /\ Range(candidates) = {a \in Usable : ~Depleted(a)}
      BY <2>4 DEF IInv, Typed, TypeOK, CandidatesMay, Decided
    <3>2. choice \in Range(candidates)
      BY <3>1, FirstIsCandidate
    <3>3. choice \in Usable /\ ~Depleted(choice)
      BY <3>1, <3>2
    <3>4. ASSUME Weekly(choice) = NoWindow, NEW a \in Usable PROVE ~HasAllowance(a)
      <4>1. \A b \in Range(candidates) : Weekly(b) = NoWindow
        BY <2>1, <3>1, <3>4, KnownFirst
      <4>. QED
        BY <2>3, <3>1, <4>1
    <3>. QED
      BY <2>3, <3>3, <3>4
  <2>5. ASSUME phase = "depleted"
        PROVE  \A a \in Usable : Weekly(a) # NoWindow /\ ~HasAllowance(a)
    <3>. \A a \in Usable : Depleted(a)
      BY <2>1, <2>5 DEF CandidatesMay
    <3>. QED
      BY <2>3 DEF Depleted
  <2>. QED
    BY <2>4, <2>5 DEF KnownCapacityFirst
<1>. QED
  BY <1>1, IInvHolds, PTL

\* The comparison of chooseAccountExcluding is no order, as closeness is not
\* transitive; still the stable sort puts first a candidate that is beaten by no more
\* than one tolerance for each other candidate.
THEOREM CloseTiesStayClose == Spec => []CloseTiesCostLittle
<1>1. IInv => CloseTiesCostLittle
  <2>. SUFFICES ASSUME IInv, phase = "chosen", NEW a \in Range(candidates)
       PROVE  Score(a) <= Score(choice) + (Len(candidates) - 1) * Tolerance
    BY DEF CloseTiesCostLittle
  <2>1. /\ candidates \in Seq(Accounts) /\ candidates # <<>>
        /\ choice = Head(Sorted(candidates, PreferenceOrder)) /\ Typed
    BY DEF IInv, Typed, TypeOK, CandidatesMay, Decided
  <2>. QED
    BY <2>1, SortedByUrgency
<1>. QED
  BY <1>1, IInvHolds, PTL

\* Once all subscriptions have answered, the choice does not depend on the order in
\* which they did.
THEOREM ChoiceIgnoresArrival == Spec => []ArrivalOrderIsIrrelevant
<1>1. IInv => ArrivalOrderIsIrrelevant
  <2>. SUFFICES ASSUME IInv, phase = "chosen", Answered = Accounts,
                       NEW byAge \in [DOMAIN candidates -> Range(candidates)],
                       \A i, j \in DOMAIN byAge : i < j => OlderFirst(byAge[i], byAge[j])
       PROVE  choice = Head(Sorted(byAge, PreferenceOrder))
    BY DEF ArrivalOrderIsIrrelevant, Answered
  <2>1. /\ candidates \in Seq(Accounts) /\ InOrder(candidates)
        /\ choice = Head(Sorted(candidates, PreferenceOrder))
    BY DEF IInv, Typed, TypeOK, CandidatesMay, Decided
  <2>2. \A i \in DOMAIN byAge : byAge[i] \in Accounts
    BY <2>1 DEF Range
  <2>3. \A i, j \in DOMAIN byAge : i < j => Age(byAge[i]) < Age(byAge[j])
    BY <2>2, AgeDecides
  <2>4. byAge = candidates
    BY <2>1, <2>3, OneOrderByAge
  <2>. QED
    BY <2>1, <2>4
<1>. QED
  BY <1>1, IInvHolds, PTL

================================================================================
