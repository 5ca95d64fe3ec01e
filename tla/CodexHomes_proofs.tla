--------------------------- MODULE CodexHomes_proofs ---------------------------
(***************************************************************************)
(* Proofs about the Codex homes, for every number of homes and whatever    *)
(* the desktop writes to the Primary's config.toml.                        *)
(*                                                                         *)
(* The argument.  That a file has no more trust than its app-server gave   *)
(* and no other credentials (FilesAreIsolated), and no less trust than     *)
(* that (TrustIsThere), is kept only if it holds of the merged lines too   *)
(* that the loop has in its hands: the loop writes them over a file that   *)
(* may have changed.  Both rest on what a merged file is made of: Lines    *)
(* keeps the chosen lines, each once and in their order (LinesSelect), by  *)
(* induction on how many lines were looked at.  The library's induction    *)
(* theorems take an operator; here it is the set of the numbers for which  *)
(* the claim holds that is shown to be Nat (Induction).                    *)
(***************************************************************************)
EXTENDS CodexHomes, SequenceTheorems, FiniteSetTheorems, WellFoundedInduction, TLAPS

\* The lines that any config.toml can come to have.
FileLines ==
  (UNION {Range(c) : c \in Configs}) \union Range(IsolatedCredentials)
    \union {Header(p) : p \in Projects} \union {Setting("trust_level", "trusted")}

\* Every variable has its type, and a home that was not made has nothing yet.
Typed ==
  /\ TypeOK
  /\ configs \in [Homes -> Seq(FileLines)]
  /\ auth \in [Homes \union {Primary} -> Credentials]
  /\ listed \in Seq(Homes)
  /\ sync \in [queue : Seq(Homes), merged : Seq(FileLines) \union {NoValue}]
  /\ trusted \in [Homes -> SUBSET Projects] /\ overtaken \in [Homes -> SUBSET Projects]
  /\ \A h \in Homes : h > made => trusted[h] = {}

\* What is in the file of a home, whose app-server has trusted some projects: the
\* isolated credentials, no section of a project but of those, and no other
\* credentials at the top level, except for what the filters do not know.
Isolated(file, projects) ==
  /\ Len(file) >= 2 /\ \A i \in 1..2 : file[i] = IsolatedCredentials[i]
  /\ \A i \in 1..Len(file) :
       /\ ~file[i].plain => file[i].name \in Unfiltered
       /\ file[i].header /\ file[i].plain /\ file[i].name \in Projects => file[i].name \in projects
       /\ i > 2 /\ ~file[i].header /\ file[i].plain /\ file[i].name \in CredentialKeys
            => \E j \in 1..i : file[j].header

\* The section that TrustProject adds.
Trusts(file, p) ==
  \E i \in 1..(Len(file) - 1) :
    file[i] = Header(p) /\ file[i + 1] = Setting("trust_level", "trusted")

\* So are the files of the homes, and the one that is about to replace one.
FilesAreIsolated ==
  /\ \A h \in 1..made : Isolated(configs[h], trusted[h])
  /\ sync.merged # NoValue => Isolated(sync.merged, trusted[Head(sync.queue)])

\* The trust is in the file, and in the one that is about to replace it.
TrustIsThere ==
  \A h \in 1..made : \A p \in trusted[h] \ overtaken[h] :
    /\ Trusts(configs[h], p)
    /\ sync.merged # NoValue /\ Head(sync.queue) = h => Trusts(sync.merged, p)

\* What is in a file that an import does not look into is known to have escaped it.
LargeFilesEscape ==
  \A h \in Accounts : auth[h] # NoLogin /\ auth[h].big => auth[h].login \in escaped

IInv == Typed /\ ImportsAreDistinct /\ LargeFilesEscape /\ FilesAreIsolated /\ TrustIsThere

--------------------------------------------------------------------------------
(* Induction, over sets of numbers. *)

LEMMA LeastNumber ==
  ASSUME NEW T \in SUBSET Nat, T # {} PROVE \E m \in T : \A x \in T : m <= x
<1>1. PICK m \in T : \A x \in T : ~ (<<x, m>> \in OpToRel(<, Nat))
  BY NatLessThanWellFounded, WFMin
<1>2. \A x \in T : <<x, m>> \in OpToRel(<, Nat) <=> x < m
  BY DEF OpToRel
<1>3. ASSUME NEW x \in T PROVE m <= x
  <2>. m \in Nat /\ x \in Nat
    OBVIOUS
  <2>. ~(x < m)
    BY <1>1, <1>2
  <2>. QED
    OBVIOUS
<1>. QED
  BY <1>3

LEMMA Induction ==
  ASSUME NEW T \in SUBSET Nat, 0 \in T, \A n \in T : n + 1 \in T PROVE T = Nat
<1>. SUFFICES ASSUME Nat \ T # {} PROVE FALSE
  OBVIOUS
<1>1. PICK m \in Nat \ T : \A x \in Nat \ T : m <= x
  BY LeastNumber
<1>2. m - 1 \in Nat /\ m - 1 \in T
  BY <1>1
<1>. QED
  BY <1>2

LEMMA GreatestNumber ==
  ASSUME NEW n \in Nat, NEW T \in SUBSET (1..n), T # {}
  PROVE  Max(T) \in T /\ \A x \in T : x <= Max(T)
<1>. DEFINE Bounds == {b \in Nat : \A x \in T : x <= b}
<1>1. PICK b \in Bounds : \A c \in Bounds : b <= c
  <2>. n \in Bounds /\ Bounds \in SUBSET Nat
    OBVIOUS
  <2>. QED
    BY LeastNumber
<1>2. b \in T
  <2>1. b > 0
    <3>. PICK x \in T : TRUE
      OBVIOUS
    <3>. x \in 1..n /\ x <= b
      BY <1>1
    <3>. QED
      BY <1>1
  <2>. SUFFICES ASSUME b \notin T PROVE FALSE
    OBVIOUS
  <2>2. b - 1 \in Bounds
    BY <2>1
  <2>. QED
    BY <1>1, <2>2
<1>. QED
  BY <1>2 DEF Max

LEMMA SmallestNumber ==
  ASSUME NEW T \in SUBSET Nat, T # {}
  PROVE  Min(T) \in T /\ \A x \in T : Min(T) <= x
BY LeastNumber DEF Min

--------------------------------------------------------------------------------
(* The lines of a file that are kept. *)

\* What Lines counts up.
Counts(upTo, lines, kept, m) ==
  upTo = [n \in 0..m |->
           IF n = 0 THEN <<>>
           ELSE IF n \in kept THEN Append(upTo[n - 1], lines[n]) ELSE upTo[n - 1]]

LEMMA CountsExists ==
  ASSUME NEW lines, NEW kept PROVE \A m \in Nat : \E upTo : Counts(upTo, lines, kept, m)
<1>. DEFINE T == {m \in Nat : \E upTo : Counts(upTo, lines, kept, m)}
<1>1. 0 \in T
  <2>. DEFINE f == [n \in 0..0 |-> <<>>]
  <2>1. f = [n \in 0..0 |-> IF n = 0 THEN <<>> ELSE IF n \in kept
                THEN Append(f[n - 1], lines[n]) ELSE f[n - 1]]
    OBVIOUS
  <2>. QED
    BY <2>1 DEF Counts
<1>2. ASSUME NEW m \in T PROVE m + 1 \in T
  <2>1. PICK f : Counts(f, lines, kept, m)
    OBVIOUS
  <2>. DEFINE last == IF m + 1 \in kept THEN Append(f[m], lines[m + 1]) ELSE f[m]
              g == [n \in 0..(m + 1) |-> IF n = m + 1 THEN last ELSE f[n]]
  <2>2. \A n \in 0..m : g[n] = f[n]
    OBVIOUS
  <2>3. ASSUME NEW n \in 0..(m + 1)
        PROVE  g[n] = IF n = 0 THEN <<>>
                      ELSE IF n \in kept THEN Append(g[n - 1], lines[n]) ELSE g[n - 1]
    <3>1. CASE n = m + 1
      BY <2>2, <3>1
    <3>2. CASE n = 0
      BY <2>1, <2>2, <3>2 DEF Counts
    <3>3. CASE n \in 1..m
      <4>1. n - 1 \in 0..m /\ n \in 0..m /\ n # 0
        BY <3>3
      <4>2. f[n] = IF n \in kept THEN Append(f[n - 1], lines[n]) ELSE f[n - 1]
        BY <2>1, <4>1 DEF Counts
      <4>. QED
        BY <2>2, <3>3, <4>1, <4>2
    <3>. QED
      BY <3>1, <3>2, <3>3
  <2>. HIDE DEF g
  <2>4. g = [n \in 0..(m + 1) |->
              IF n = 0 THEN <<>>
              ELSE IF n \in kept THEN Append(g[n - 1], lines[n]) ELSE g[n - 1]]
    BY <2>3 DEF g
  <2>5. Counts(g, lines, kept, m + 1)
    BY <2>4 DEF Counts
  <2>. QED
    BY <2>5
<1>. HIDE DEF T
<1>3. T = Nat
  <2>. T \in SUBSET Nat
    BY DEF T
  <2>. QED
    BY <1>1, <1>2, Induction
<1>. QED
  BY <1>3 DEF T

\* "out" has the kept lines, each once and in their order: the k-th of them is
\* line at[k].
Selects(at, out, lines, kept) ==
  /\ at \in [1..Len(out) -> kept]
  /\ \A k \in 1..Len(out) : out[k] = lines[at[k]]
  /\ \A j, k \in 1..Len(out) : j < k => at[j] < at[k]
  /\ \A i \in kept : \E k \in 1..Len(out) : at[k] = i

LEMMA LinesSelect ==
  ASSUME NEW S, NEW lines \in Seq(S), NEW kept \in SUBSET (1..Len(lines))
  PROVE  /\ Lines(lines, kept) \in Seq(S)
         /\ \E at : Selects(at, Lines(lines, kept), lines, kept)
<1>1. PICK f : Counts(f, lines, kept, Len(lines)) /\ Lines(lines, kept) = f[Len(lines)]
  <2>. DEFINE f == CHOOSE f : Counts(f, lines, kept, Len(lines))
  <2>1. Counts(f, lines, kept, Len(lines))
    <3>. Len(lines) \in Nat
      OBVIOUS
    <3>. \E g : Counts(g, lines, kept, Len(lines))
      BY CountsExists
    <3>. QED
      OBVIOUS
  <2>2. Lines(lines, kept) = f[Len(lines)]
    BY DEF Lines, Counts
  <2>. QED
    BY <2>1, <2>2
<1>. DEFINE Below(m) == kept \cap (1..m)
            Good(m) == f[m] \in Seq(S) /\ \E at : Selects(at, f[m], lines, Below(m))
            T == {m \in Nat : m <= Len(lines) => Good(m)}
<1>2. Good(0)
  <2>1. f[0] = <<>>
    BY <1>1 DEF Counts
  <2>2. Below(0) = {}
    OBVIOUS
  <2>3. Selects(<<>>, <<>>, lines, {})
    BY DEF Selects
  <2>. QED
    BY <2>1, <2>2, <2>3, EmptySeq
<1>3. ASSUME NEW m \in Nat, m + 1 <= Len(lines), Good(m) PROVE Good(m + 1)
  <2>1. PICK at : Selects(at, f[m], lines, Below(m))
    BY <1>3
  <2>2. f[m] \in Seq(S) /\ Len(f[m]) \in Nat
    BY <1>3
  <2>3. f[m + 1] = IF m + 1 \in kept THEN Append(f[m], lines[m + 1]) ELSE f[m]
    <3>. m + 1 \in 0..Len(lines) /\ m + 1 # 0 /\ (m + 1) - 1 = m
      BY <1>3
    <3>. QED
      BY <1>1 DEF Counts
  <2>4. CASE m + 1 \notin kept
    <3>1. Below(m + 1) = Below(m)
      BY <2>4
    <3>. QED
      BY <2>1, <2>2, <2>3, <2>4, <3>1
  <2>5. CASE m + 1 \in kept
    <3>. DEFINE n == Len(f[m]) + 1
                new == [k \in 1..n |-> IF k = n THEN m + 1 ELSE at[k]]
    <3>1. lines[m + 1] \in S /\ f[m + 1] = Append(f[m], lines[m + 1])
      BY <2>3, <2>5
    <3>2. /\ f[m + 1] \in Seq(S) /\ Len(f[m + 1]) = n
          /\ f[m + 1][n] = lines[m + 1]
          /\ \A k \in 1..(n - 1) : f[m + 1][k] = f[m][k]
      BY <2>2, <3>1
    <3>3. Below(m + 1) = Below(m) \union {m + 1}
      BY <2>5
    <3>4. /\ n \in Nat /\ n - 1 = Len(f[m]) /\ 1..n = 1..(n - 1) \union {n}
          /\ n \in 1..n /\ \A k \in 1..(n - 1) : k \in 1..n /\ k # n
      BY <2>2
    <3>5. \A k \in 1..(n - 1) : at[k] \in Below(m)
      BY <2>1, <3>4 DEF Selects
    <3>6. /\ n \in Nat /\ n - 1 = Len(f[m]) /\ 1..n = 1..(n - 1) \union {n}
          /\ new[n] = m + 1 /\ \A k \in 1..(n - 1) : new[k] = at[k] /\ at[k] \in Below(m)
      BY <3>4, <3>5
    <3>. HIDE DEF n
    <3>7. new \in [1..n -> Below(m + 1)]
      BY <3>3, <3>6
    <3>8. \A k \in 1..n : f[m + 1][k] = lines[new[k]]
      BY <2>1, <3>2, <3>6 DEF Selects
    <3>. HIDE DEF new
    <3>9. ASSUME NEW j \in 1..n, NEW k \in 1..n, j < k PROVE new[j] < new[k]
      <4>1. j \in 1..(n - 1)
        BY <3>6, <3>9
      <4>2. CASE k = n
        BY <3>6, <4>1, <4>2
      <4>3. CASE k \in 1..(n - 1)
        BY <2>1, <3>6, <3>9, <4>1, <4>3 DEF Selects
      <4>. QED
        BY <3>6, <4>2, <4>3
    <3>10. ASSUME NEW i \in Below(m + 1) PROVE \E k \in 1..n : new[k] = i
      <4>1. CASE i = m + 1
        BY <3>6, <4>1
      <4>2. CASE i \in Below(m)
        BY <2>1, <3>6, <4>2 DEF Selects
      <4>. QED
        BY <3>3, <4>1, <4>2
    <3>11. Selects(new, f[m + 1], lines, Below(m + 1))
      BY <3>2, <3>7, <3>8, <3>9, <3>10 DEF Selects
    <3>. QED
      BY <3>2, <3>11
  <2>. QED
    BY <2>4, <2>5
<1>. HIDE DEF Good
<1>4. T = Nat
  <2>1. 0 \in T
    BY <1>2
  <2>2. ASSUME NEW m \in T PROVE m + 1 \in T
    <3>. m \in Nat /\ Len(lines) \in Nat /\ (m + 1 <= Len(lines) => m <= Len(lines))
      OBVIOUS
    <3>. QED
      BY <1>3, <2>2
  <2>3. T \in SUBSET Nat
    OBVIOUS
  <2>. HIDE DEF T
  <2>. QED
    BY <2>1, <2>2, <2>3, Induction
<1>. HIDE DEF T
<1>5. Good(Len(lines))
  <2>. Len(lines) \in T
    BY <1>4
  <2>. QED
    BY DEF T
<1>6. Below(Len(lines)) = kept
  OBVIOUS
<1>. QED
  BY <1>1, <1>5, <1>6 DEF Good

--------------------------------------------------------------------------------
(* Typing. *)

LEMMA LinesOfFiles ==
  /\ \A c \in Configs : c \in Seq(FileLines)
  /\ IsolatedCredentials \in Seq(FileLines) /\ Len(IsolatedCredentials) = 2
  /\ \A p \in Projects : <<Header(p), Setting("trust_level", "trusted")>> \in Seq(FileLines)
  /\ \A line \in FileLines : line.header => line.name # NoValue
<1>1. ASSUME NEW c \in Configs PROVE c \in Seq(FileLines)
  <2>. Range(c) \subseteq FileLines /\ c \in Seq(Range(c))
    BY HomesAssumption DEF FileLines
  <2>. QED
    BY SeqMonotonic
<1>2. IsolatedCredentials \in Seq(FileLines) /\ Len(IsolatedCredentials) = 2
  <2>1. /\ IsolatedCredentials \in Seq({IsolatedCredentials[1], IsolatedCredentials[2]})
        /\ Len(IsolatedCredentials) = 2
    BY DEF IsolatedCredentials
  <2>2. {IsolatedCredentials[1], IsolatedCredentials[2]} \subseteq Range(IsolatedCredentials)
    <3>. DOMAIN IsolatedCredentials = 1..2
      BY <2>1
    <3>. QED
      BY DEF Range
  <2>3. Range(IsolatedCredentials) \subseteq FileLines
    BY DEF FileLines
  <2>4. {IsolatedCredentials[1], IsolatedCredentials[2]} \subseteq FileLines
    BY <2>2, <2>3
  <2>. QED
    BY <2>1, <2>4, SeqMonotonic
<1>3. ASSUME NEW p \in Projects
      PROVE  <<Header(p), Setting("trust_level", "trusted")>> \in Seq(FileLines)
  <2>. Header(p) \in FileLines /\ Setting("trust_level", "trusted") \in FileLines
    BY DEF FileLines
  <2>. QED
    OBVIOUS
<1>4. ASSUME NEW line \in FileLines, line.header PROVE line.name # NoValue
  <2>1. CASE line \in UNION {Range(c) : c \in Configs}
    BY <1>4, <2>1, HomesAssumption DEF Range
  <2>2. CASE line \in {Header(p) : p \in Projects}
    BY <2>2, HomesAssumption DEF Header
  <2>3. CASE line = Setting("trust_level", "trusted")
    BY <1>4, <2>3 DEF Setting
  <2>4. CASE line \in Range(IsolatedCredentials)
    <3>. line = IsolatedCredentials[1] \/ line = IsolatedCredentials[2]
      BY <2>4, <1>2 DEF Range
    <3>. QED
      BY <1>4 DEF IsolatedCredentials, Setting
  <2>. QED
    BY <2>1, <2>2, <2>3, <2>4 DEF FileLines
<1>. QED
  BY <1>1, <1>2, <1>3, <1>4

LEMMA MergeTyped ==
  ASSUME NEW main \in Configs, NEW file \in Seq(FileLines)
  PROVE  Merge(main, file) \in Seq(FileLines)
<1>1. Lines(main, ManagedPart(main) \ TopLevelCredentials(main)) \in Seq(FileLines)
  BY LinesOfFiles, LinesSelect DEF ManagedPart
<1>2. Lines(file, ProjectPart(file)) \in Seq(FileLines)
  BY LinesSelect DEF ProjectPart
<1>. QED
  BY <1>1, <1>2, LinesOfFiles DEF Merge

LEMMA InitTyped == Init => Typed
BY HomesAssumption DEF Init, Typed, TypeOK, Idle, Listed, Homes, Credentials, Range, IsInjective

\* Both the list and the copy of it that the loop works on lose and gain homes at
\* their ends.
LEMMA AppendListed ==
  ASSUME NEW s \in Seq(Homes), NEW h \in Homes
  PROVE  /\ Append(s, h) \in Seq(Homes)
         /\ Range(Append(s, h)) = Range(s) \union {h}
         /\ IsInjective(s) /\ h \notin Range(s) => IsInjective(Append(s, h))
<1>. DEFINE t == Append(s, h)
            n == Len(s)
<1>1. n \in Nat /\ DOMAIN s = 1..n /\ t \in Seq(Homes) /\ DOMAIN t = 1..(n + 1)
  OBVIOUS
<1>2. t[n + 1] = h /\ \A k \in 1..n : t[k] = s[k]
  OBVIOUS
<1>. HIDE DEF t, n
<1>3. 1..(n + 1) = 1..n \union {n + 1}
  BY <1>1
<1>4. Range(t) = Range(s) \union {h}
  BY <1>1, <1>2, <1>3 DEF Range
<1>5. IsInjective(s) /\ h \notin Range(s) => IsInjective(t)
  BY <1>1, <1>2, <1>3 DEF Range, IsInjective
<1>. QED
  BY <1>1, <1>4, <1>5 DEF t

LEMMA TailQueued ==
  ASSUME NEW s \in Seq(Homes), s # <<>>
  PROVE  /\ Tail(s) \in Seq(Homes) /\ Head(s) \in Range(s) /\ Head(s) \in Homes
         /\ Range(Tail(s)) \subseteq Range(s)
         /\ IsInjective(s) => IsInjective(Tail(s))
BY DEF Range, IsInjective

LEMMA StoreTyped ==
  ASSUME NEW h \in Homes \union {Primary}, NEW credentials \in Credentials, NEW imported
  PROVE  Typed /\ StoreAuth(h, credentials, imported)
           => auth' \in [Homes \union {Primary} -> Credentials] /\ escaped' \subseteq Logins
BY DEF Typed, TypeOK, StoreAuth, Escaping

LEMMA StepTyped == Typed /\ [Next]_vars => Typed'
<1>. SUFFICES ASSUME Typed, [Next]_vars PROVE Typed'
  OBVIOUS
<1>. USE HomesAssumption DEF Typed, TypeOK
<1>1. CASE BeginSync
  BY <1>1 DEF BeginSync, Idle, Listed
<1>2. CASE ReadConfigs
  <2>. DEFINE h == Head(sync.queue)
  <2>1. h \in Homes
    BY <1>2, TailQueued DEF ReadConfigs
  <2>2. Merge(primary, configs[h]) \in Seq(FileLines)
    BY <2>1, MergeTyped
  <2>. QED
    BY <1>2, <2>2 DEF ReadConfigs, Listed
<1>3. CASE CommitConfig
  <2>. DEFINE h == Head(sync.queue)
  <2>1. sync.merged \in Seq(FileLines) /\ sync.queue # <<>>
    BY <1>3 DEF CommitConfig
  <2>2. h \in Listed /\ h \in Homes /\ h <= made
    <3>1. h \in Range(sync.queue) /\ h \in Homes
      BY <2>1, TailQueued
    <3>. QED
      BY <3>1 DEF Homes
  <2>3. /\ sync' \in [queue : Seq(Homes), merged : Seq(FileLines) \union {NoValue}]
        /\ Range(sync'.queue) \subseteq Listed /\ IsInjective(sync'.queue) /\ sync'.merged = NoValue
    BY <1>3, <2>1, TailQueued DEF CommitConfig
  <2>4. configs' \in [Homes -> Seq(FileLines)] /\ \A g \in Homes \ {h} : configs'[g] = configs[g]
    BY <1>3, <2>1, <2>2 DEF CommitConfig
  <2>. QED
    BY <1>3, <2>2, <2>3, <2>4 DEF CommitConfig, Listed
<1>4. CASE SyncFails
  BY <1>4 DEF SyncFails, Fault, Idle, Listed, Range, IsInjective
<1>5. ASSUME NEW credentials \in Credentials, Create(credentials) PROVE Typed'
  <2>. DEFINE h == made + 1
  <2>1. /\ h \in Homes /\ made' = h /\ h \notin Listed
        /\ configs' = [configs EXCEPT ![h] = Merge(primary, <<>>)]
        /\ UNCHANGED <<primary, sync, trusted, overtaken, edits>>
    BY <1>5 DEF Create, Homes
  <2>2. auth' \in [Homes \union {Primary} -> Credentials] /\ escaped' \subseteq Logins
    <3>1. CASE StoreAuth(h, credentials, TRUE)
      BY <2>1, <3>1, StoreTyped
    <3>2. CASE UNCHANGED <<auth, escaped>>
      BY <3>2
    <3>. QED
      BY <1>5, <3>1, <3>2 DEF Create
  <2>3. faults' \in 0..MaxFaults
    <3>1. UNCHANGED faults \/ Fault
      BY <1>5 DEF Create
    <3>2. faults \in 0..MaxFaults /\ MaxFaults \in Nat
      OBVIOUS
    <3>. QED
      BY ONLY <3>1, <3>2 DEF Fault
  <2>4. /\ configs' \in [Homes -> Seq(FileLines)]
        /\ \A g \in Homes \ {h} : configs'[g] = configs[g]
    BY <2>1, MergeTyped, EmptySeq
  <2>5. \A g \in Homes : configs'[g] # <<>> => g <= made'
    BY <2>1, <2>4 DEF Homes
  <2>6. /\ listed' \in Seq(Homes) /\ Listed \subseteq Listed'
        /\ Listed' \subseteq Listed \union {h} /\ IsInjective(listed')
    <3>1. CASE listed' = Append(listed, h)
      BY <2>1, <3>1, AppendListed DEF Listed
    <3>2. CASE UNCHANGED listed
      BY <3>2 DEF Listed
    <3>. QED
      BY <1>5, <3>1, <3>2 DEF Create
  <2>7. made' \in 0..MaxHomes /\ Listed' \subseteq 1..made'
    <3>1. made \in 0..MaxHomes /\ Listed \subseteq 1..made /\ MaxHomes \in Nat
      BY HomesAssumption DEF Typed, TypeOK
    <3>2. made' = made + 1 /\ made + 1 \in 1..MaxHomes /\ Listed' \subseteq Listed \union {made + 1}
      BY <2>1, <2>6 DEF Homes
    <3>. QED
      BY ONLY <3>1, <3>2
  <2>8. \A g \in Homes : g > made' => trusted'[g] = {}
    BY <2>1 DEF Homes
  <2>. QED
    BY <2>1, <2>2, <2>3, <2>4, <2>5, <2>6, <2>7, <2>8
<1>6. CASE EditPrimary
  BY <1>6 DEF EditPrimary, Listed
<1>7. ASSUME NEW h \in Homes, NEW p \in Projects, TrustProject(h, p) PROVE Typed'
  <2>. DEFINE section == <<Header(p), Setting("trust_level", "trusted")>>
  <2>1. h \in Listed /\ h <= made
    <3>1. h \in Listed
      BY <1>7 DEF TrustProject, Listed, Range
    <3>2. made \in Nat /\ Listed \subseteq 1..made
      OBVIOUS
    <3>. QED
      BY ONLY <3>1, <3>2
  <2>2. configs' = [configs EXCEPT ![h] = configs[h] \o section]
    BY <1>7 DEF TrustProject
  <2>3. configs' \in [Homes -> Seq(FileLines)] /\ \A g \in Homes \ {h} : configs'[g] = configs[g]
    BY <2>2, LinesOfFiles
  <2>4. /\ trusted' = [trusted EXCEPT ![h] = trusted[h] \union {p}]
        /\ trusted' \in [Homes -> SUBSET Projects]
    BY <1>7 DEF TrustProject
  <2>5. /\ overtaken' \in [Homes -> SUBSET Projects]
        /\ \A g \in Homes : overtaken'[g] \subseteq trusted'[g]
    <3>1. CASE overtaken' = [overtaken EXCEPT ![h] = overtaken[h] \union {p}]
      BY <2>4, <3>1
    <3>2. CASE UNCHANGED overtaken
      BY <2>4, <3>2
    <3>. QED
      BY <1>7, <3>1, <3>2 DEF TrustProject
  <2>6. \A g \in Homes : (configs'[g] # <<>> => g <= made) /\ (g > made => trusted'[g] = {})
    BY <2>1, <2>3, <2>4 DEF Homes
  <2>7. UNCHANGED <<primary, auth, made, listed, sync, escaped, edits, faults>>
    BY <1>7 DEF TrustProject
  <2>. QED
    BY <2>3, <2>4, <2>5, <2>6, <2>7 DEF Listed
<1>8. ASSUME NEW h \in Homes \union {Primary}, NEW credentials \in Written, WriteAuth(h, credentials)
      PROVE  Typed'
  <2>1. auth' \in [Homes \union {Primary} -> Credentials] /\ escaped' \subseteq Logins
    BY <1>8, StoreTyped DEF WriteAuth, Written, Credentials
  <2>. QED
    BY <1>8, <2>1 DEF WriteAuth, Listed
<1>9. CASE UNCHANGED vars
  BY <1>9 DEF vars, Listed
<1>10. \A login \in Logins, big \in BOOLEAN :
         AddAccountWithAuth(login, big) => \E credentials \in Credentials : Create(credentials)
  BY DEF AddAccountWithAuth, Credentials
<1>11. AddAccount => \E credentials \in Credentials : Create(credentials)
  BY DEF AddAccount, Credentials
<1>. HIDE HomesAssumption DEF Typed, TypeOK
<1>. QED
  BY <1>1, <1>2, <1>3, <1>4, <1>5, <1>6, <1>7, <1>8, <1>9, <1>10, <1>11 DEF Next

\* The variables of both the loop and the accounts keep their shape.
THEOREM HomesKeepTheirShape == Spec => []TypeOK
<1>1. Typed => TypeOK
  BY DEF Typed
<1>. QED
  BY <1>1, InitTyped, StepTyped, PTL DEF Spec

--------------------------------------------------------------------------------
(* Imports. *)

\* What is stored is in another home already only if it escapes, or if the import
\* could not find it there, which escaped before.
LEMMA StoreDistinct ==
  ASSUME NEW h \in Homes \union {Primary}, NEW credentials \in Credentials,
         NEW imported \in BOOLEAN
  PROVE  /\ Typed /\ ImportsAreDistinct /\ LargeFilesEscape
         /\ StoreAuth(h, credentials, imported) /\ Accounts' \subseteq Accounts \union {h}
         /\ imported /\ credentials # NoLogin =>
              \A g \in Accounts : AuthAccountID(g) # credentials.login
         => ImportsAreDistinct' /\ LargeFilesEscape'
<1>. SUFFICES ASSUME Typed, ImportsAreDistinct, LargeFilesEscape,
                     StoreAuth(h, credentials, imported), Accounts' \subseteq Accounts \union {h},
                     imported /\ credentials # NoLogin =>
                       \A g \in Accounts : AuthAccountID(g) # credentials.login
     PROVE  ImportsAreDistinct' /\ LargeFilesEscape'
  OBVIOUS
<1>1. Accounts \subseteq Homes \union {Primary}
  BY DEF Accounts, Listed, Typed, Range
<1>2. /\ auth'[h] = credentials /\ escaped \subseteq escaped'
      /\ \A g \in (Homes \union {Primary}) \ {h} : auth'[g] = auth[g]
  BY DEF StoreAuth, Typed
<1>3. credentials # NoLogin => credentials.login \in Logins
  BY DEF Credentials
<1>4. credentials # NoLogin /\ credentials.big => credentials.login \in escaped'
  BY <1>3 DEF StoreAuth, Escaping
<1>5. ASSUME NEW g \in Accounts \ {h}, credentials # NoLogin, auth[g] # NoLogin,
             auth[g].login = credentials.login
      PROVE  credentials.login \in escaped'
  <2>1. CASE imported
    <3>1. AuthAccountID(g) # credentials.login
      BY <1>5, <2>1
    <3>2. auth[g].big
      BY <1>5, <3>1 DEF AuthAccountID
    <3>. QED
      BY <1>1, <1>2, <1>5, <3>2 DEF LargeFilesEscape
  <2>2. CASE ~imported
    BY <1>3, <1>5, <2>2 DEF StoreAuth, Escaping
  <2>. QED
    BY <2>1, <2>2
<1>6. ImportsAreDistinct'
  <2>. SUFFICES ASSUME NEW f \in Accounts', NEW g \in Accounts', f # g, auth'[f] # NoLogin,
                       auth'[g] # NoLogin, auth'[f].login = auth'[g].login
       PROVE  auth'[f].login \in escaped'
    BY DEF ImportsAreDistinct
  <2>1. CASE f # h /\ g # h
    BY <1>1, <1>2, <2>1 DEF ImportsAreDistinct
  <2>2. CASE f = h \/ g = h
    BY <1>1, <1>2, <1>5, <2>2
  <2>. QED
    BY <2>1, <2>2
<1>7. LargeFilesEscape'
  BY <1>1, <1>2, <1>4 DEF LargeFilesEscape
<1>. QED
  BY <1>6, <1>7

LEMMA StepDistinct ==
  Typed /\ ImportsAreDistinct /\ LargeFilesEscape /\ [Next]_vars
    => ImportsAreDistinct' /\ LargeFilesEscape'
<1>. SUFFICES ASSUME Typed, ImportsAreDistinct, LargeFilesEscape, [Next]_vars
     PROVE  ImportsAreDistinct' /\ LargeFilesEscape'
  OBVIOUS
<1>. DEFINE Goal == ImportsAreDistinct' /\ LargeFilesEscape'
<1>1. ASSUME UNCHANGED <<auth, listed, escaped>> PROVE Goal
  BY <1>1 DEF ImportsAreDistinct, LargeFilesEscape, Accounts, Listed
<1>2. CASE BeginSync \/ ReadConfigs \/ CommitConfig \/ SyncFails \/ EditPrimary
  BY <1>1, <1>2 DEF BeginSync, ReadConfigs, CommitConfig, SyncFails, EditPrimary
<1>3. ASSUME NEW credentials \in Credentials, Create(credentials),
             credentials # NoLogin =>
               \A g \in Accounts : AuthAccountID(g) # credentials.login
      PROVE  Goal
  <2>. DEFINE h == made + 1
  <2>1. h \in Homes /\ h \notin Listed
    BY <1>3, HomesAssumption DEF Create, Typed, TypeOK, Homes
  <2>2. CASE StoreAuth(h, credentials, TRUE) /\ listed' = Append(listed, h)
    <3>1. Listed' = Listed \union {h}
      BY <2>1, <2>2, AppendListed DEF Typed, Listed
    <3>2. Accounts' \subseteq Accounts \union {h} /\ h \in Homes \union {Primary}
      BY <2>1, <3>1 DEF Accounts
    <3>. HIDE DEF h
    <3>. QED
      BY <1>3, <2>2, <3>2, StoreDistinct
  <2>3. CASE UNCHANGED <<auth, listed, escaped>>
    BY <1>1, <2>3
  <2>. QED
    BY <1>3, <2>2, <2>3 DEF Create
<1>4. CASE AddAccount
  BY <1>3, <1>4 DEF AddAccount, Credentials
<1>5. ASSUME NEW login \in Logins, NEW big \in BOOLEAN, AddAccountWithAuth(login, big)
      PROVE  Goal
  <2>. DEFINE credentials == [login |-> login, big |-> big]
  <2>1. credentials \in Credentials /\ credentials.login = login
    BY DEF Credentials
  <2>2. Create(credentials) /\ \A g \in Accounts : AuthAccountID(g) # login
    BY <1>5 DEF AddAccountWithAuth
  <2>. HIDE DEF credentials
  <2>. QED
    BY <1>3, <2>1, <2>2
<1>6. ASSUME NEW h \in Homes \union {Primary}, NEW credentials \in Written, WriteAuth(h, credentials)
      PROVE  Goal
  <2>1. credentials \in Credentials /\ Accounts' = Accounts /\ StoreAuth(h, credentials, FALSE)
    BY <1>6 DEF WriteAuth, Written, Credentials, Accounts, Listed
  <2>. QED
    BY <2>1, StoreDistinct
<1>7. ASSUME NEW h \in Homes, NEW p \in Projects, TrustProject(h, p) PROVE Goal
  BY <1>1, <1>7 DEF TrustProject
<1>8. CASE UNCHANGED vars
  BY <1>1, <1>8 DEF vars
<1>. QED
  BY <1>2, <1>4, <1>5, <1>6, <1>7, <1>8 DEF Next

\* An import never brings a ChatGPT account that the Primary or another subscription
\* is logged in to, but past a file that is too large to be compared; what is twice
\* besides, an app-server logged in to again.
THEOREM ImportsStayDistinct == Spec => []ImportsAreDistinct
<1>1. Init => ImportsAreDistinct /\ LargeFilesEscape
  <2>. SUFFICES ASSUME Init PROVE ImportsAreDistinct /\ LargeFilesEscape
    OBVIOUS
  <2>. \A h \in Accounts : auth[h] = NoLogin
    BY DEF Init, Accounts, Listed, Range
  <2>. QED
    BY DEF ImportsAreDistinct, LargeFilesEscape
<1>. QED
  BY <1>1, InitTyped, StepTyped, StepDistinct, PTL DEF Spec

--------------------------------------------------------------------------------
(* What a merged file is made of. *)

Managed(main) == Lines(main, ManagedPart(main) \ TopLevelCredentials(main))
Own(file) == Lines(file, ProjectPart(file))

LEMMA Joined ==
  ASSUME NEW S, NEW s \in Seq(S), NEW t \in Seq(S)
  PROVE  /\ s \o t \in Seq(S) /\ Len(s \o t) = Len(s) + Len(t)
         /\ \A k \in 1..Len(s) : (s \o t)[k] = s[k]
         /\ \A k \in 1..Len(t) : (s \o t)[Len(s) + k] = t[k]
<1>1. /\ s \o t \in Seq(S) /\ Len(s \o t) = Len(s) + Len(t)
      /\ \A k \in 1..Len(s) : (s \o t)[k] = s[k]
  OBVIOUS
<1>2. ASSUME NEW k \in 1..Len(t) PROVE (s \o t)[Len(s) + k] = t[k]
  <2>. Len(s) \in Nat /\ Len(t) \in Nat
    OBVIOUS
  <2>. /\ Len(s) + k \in 1..(Len(s) + Len(t)) /\ ~(Len(s) + k <= Len(s))
       /\ (Len(s) + k) - Len(s) = k
    OBVIOUS
  <2>. QED
    BY ConcatProperties
<1>. QED
  BY <1>1, <1>2

LEMMA MergeParts ==
  ASSUME NEW main \in Configs, NEW file \in Seq(FileLines)
  PROVE  /\ Managed(main) \in Seq(FileLines) /\ Own(file) \in Seq(FileLines)
         /\ Merge(main, file) \in Seq(FileLines)
         /\ Len(Merge(main, file)) = 2 + Len(Managed(main)) + Len(Own(file))
         /\ \A k \in 1..2 : Merge(main, file)[k] = IsolatedCredentials[k]
         /\ \A k \in 1..Len(Managed(main)) : Merge(main, file)[2 + k] = Managed(main)[k]
         /\ \A k \in 1..Len(Own(file)) :
              Merge(main, file)[2 + Len(Managed(main)) + k] = Own(file)[k]
<1>. DEFINE c == IsolatedCredentials
            m == Managed(main)
            own == Own(file)
<1>1. m \in Seq(FileLines)
  BY LinesOfFiles, LinesSelect DEF ManagedPart, Managed
<1>2. own \in Seq(FileLines)
  BY LinesSelect DEF ProjectPart, Own
<1>3. c \in Seq(FileLines) /\ Len(c) = 2
  BY LinesOfFiles
<1>4. Merge(main, file) = (c \o m) \o own
  BY DEF Merge, Managed, Own
<1>. HIDE DEF c, m, own
<1>5. /\ c \o m \in Seq(FileLines) /\ Len(c \o m) = 2 + Len(m)
      /\ \A k \in 1..2 : (c \o m)[k] = c[k]
      /\ \A k \in 1..Len(m) : (c \o m)[2 + k] = m[k]
  BY <1>1, <1>3, Joined
<1>6. ASSUME NEW s \in Seq(FileLines), Len(s) = 2 + Len(m)
      PROVE  /\ s \o own \in Seq(FileLines) /\ Len(s \o own) = 2 + Len(m) + Len(own)
             /\ \A k \in 1..(2 + Len(m)) : (s \o own)[k] = s[k]
             /\ \A k \in 1..Len(own) : (s \o own)[2 + Len(m) + k] = own[k]
  <2>1. s \o own \in Seq(FileLines)
    BY <1>2
  <2>2. Len(s \o own) = Len(s) + Len(own)
    BY <1>2
  <2>3. \A k \in 1..Len(s) : (s \o own)[k] = s[k]
    BY <1>2
  <2>4. \A k \in 1..Len(own) : (s \o own)[Len(s) + k] = own[k]
    BY <1>2, Joined
  <2>. QED
    BY <1>1, <1>2, <1>6, <2>1, <2>2, <2>3, <2>4
<1>7. Len(m) \in Nat
  BY <1>1
<1>8. /\ Merge(main, file) \in Seq(FileLines)
      /\ Len(Merge(main, file)) = 2 + Len(m) + Len(own)
      /\ \A k \in 1..(2 + Len(m)) : Merge(main, file)[k] = (c \o m)[k]
      /\ \A k \in 1..Len(own) : Merge(main, file)[2 + Len(m) + k] = own[k]
  <2>. DEFINE s == c \o m
  <2>1. s \in Seq(FileLines) /\ Len(s) = 2 + Len(m) /\ Merge(main, file) = s \o own
    BY <1>4, <1>5
  <2>. HIDE DEF s
  <2>2. /\ s \o own \in Seq(FileLines) /\ Len(s \o own) = 2 + Len(m) + Len(own)
        /\ \A k \in 1..(2 + Len(m)) : (s \o own)[k] = s[k]
        /\ \A k \in 1..Len(own) : (s \o own)[2 + Len(m) + k] = own[k]
    BY <1>6, <2>1
  <2>. QED
    BY <2>1, <2>2 DEF s
<1>9. /\ \A k \in 1..2 : k \in 1..(2 + Len(m))
      /\ \A k \in 1..Len(m) : 2 + k \in 1..(2 + Len(m))
  BY <1>7
<1>. QED
  BY <1>1, <1>2, <1>5, <1>8, <1>9 DEF c, m, own

\* A header that is nothing but a header begins a section.
Begins(line) == line.header /\ line.plain

LEMMA SectionBegins ==
  ASSUME NEW S, NEW lines \in Seq(S), NEW i \in 1..Len(lines)
  PROVE  \/ SectionAt(lines, i) = NoValue /\ \A j \in 1..i : ~Begins(lines[j])
         \/ \E g \in 1..i : /\ Begins(lines[g]) /\ SectionAt(lines, i) = lines[g].name
                            /\ \A j \in 1..i : Begins(lines[j]) => j <= g
<1>. DEFINE headers == {j \in 1..i : lines[j].header /\ lines[j].plain}
<1>1. CASE headers = {}
  BY <1>1 DEF SectionAt, Begins
<1>2. CASE headers # {}
  <2>1. Max(headers) \in headers /\ \A j \in headers : j <= Max(headers)
    <3>. i \in Nat /\ headers \in SUBSET (1..i)
      OBVIOUS
    <3>. QED
      BY <1>2, GreatestNumber
  <2>2. SectionAt(lines, i) = lines[Max(headers)].name
    BY <1>2 DEF SectionAt
  <2>. QED
    BY <2>1, <2>2 DEF Begins
<1>. QED
  BY <1>1, <1>2

\* It reaches up to the next.
LEMMA SectionReaches ==
  ASSUME NEW S, NEW lines \in Seq(S), NEW i \in 1..Len(lines), NEW g \in 1..i,
         Begins(lines[g]), \A j \in 1..i : Begins(lines[j]) => j <= g
  PROVE  SectionAt(lines, i) = lines[g].name
<1>1. PICK f \in 1..i : /\ Begins(lines[f]) /\ SectionAt(lines, i) = lines[f].name
                        /\ \A j \in 1..i : Begins(lines[j]) => j <= f
  BY SectionBegins
<1>2. f <= g /\ g <= f
  BY <1>1
<1>. QED
  BY <1>1, <1>2

\* The first line of what an isolated home keeps is a header, so that every line has
\* one above it.
LEMMA OwnHasSections ==
  ASSUME NEW file \in Seq(FileLines), NEW k \in 1..Len(Own(file))
  PROVE  /\ \E i \in 1..Len(file) : Own(file)[k] = file[i]
         /\ \E j \in 1..k : Own(file)[j].header
<1>1. PICK at : Selects(at, Own(file), file, ProjectPart(file))
  <2>. ProjectPart(file) \in SUBSET (1..Len(file))
    BY DEF ProjectPart
  <2>. QED
    BY LinesSelect DEF Own
<1>2. /\ at[k] \in ProjectPart(file) /\ at[k] \in 1..Len(file)
      /\ Own(file)[k] = file[at[k]]
  BY <1>1 DEF Selects, ProjectPart
<1>3. PICK g \in 1..at[k] : /\ Begins(file[g]) /\ SectionAt(file, at[k]) = file[g].name
                            /\ \A j \in 1..at[k] : Begins(file[j]) => j <= g
  <2>. SectionAt(file, at[k]) # NoValue
    BY <1>2, HomesAssumption DEF ProjectPart
  <2>. QED
    BY <1>2, SectionBegins
<1>4. g \in 1..Len(file) /\ \A j \in 1..g : Begins(file[j]) => j <= g
  BY <1>2
<1>5. SectionAt(file, g) = file[g].name
  BY <1>3, <1>4, SectionReaches
<1>6. g \in ProjectPart(file)
  BY <1>2, <1>3, <1>4, <1>5 DEF ProjectPart
<1>7. PICK j \in 1..Len(Own(file)) : at[j] = g
  BY <1>1, <1>6 DEF Selects
<1>8. j <= k
  <2>. SUFFICES ASSUME k < j PROVE FALSE
    BY <1>7
  <2>. at[k] < at[j]
    BY <1>1, <1>7 DEF Selects
  <2>. QED
    BY <1>2, <1>4, <1>7
<1>9. Own(file)[j] = file[g]
  BY <1>1, <1>7 DEF Selects
<1>. QED
  BY <1>2, <1>3, <1>7, <1>8, <1>9 DEF Begins

\* What is managed has no section of a project; its lines are the Primary's, and
\* where they are at the top level, that is where they were.
ManagedFrom(at, m, main) ==
  /\ Selects(at, m, main, ManagedPart(main) \ TopLevelCredentials(main))
  /\ \A k \in 1..Len(m) :
       /\ at[k] \in 1..Len(main) /\ m[k] = main[at[k]]
       /\ Begins(main[at[k]]) => main[at[k]].name \notin Projects
       /\ \/ \E j \in 1..k : m[j].header
          \/ /\ \A i \in 1..at[k] : ~main[i].header
             /\ ~(main[at[k]].name \in CredentialKeys /\ main[at[k]].plain)

LEMMA ManagedSelects ==
  ASSUME NEW main \in Configs PROVE \E at : ManagedFrom(at, Managed(main), main)
<1>. DEFINE kept == ManagedPart(main) \ TopLevelCredentials(main)
<1>0. main \in Seq(FileLines) /\ kept \in SUBSET (1..Len(main))
  BY LinesOfFiles DEF ManagedPart
<1>1. PICK at : Selects(at, Managed(main), main, kept)
  BY <1>0, LinesSelect DEF Managed
<1>. SUFFICES ASSUME NEW k \in 1..Len(Managed(main))
     PROVE  /\ at[k] \in 1..Len(main) /\ Managed(main)[k] = main[at[k]]
            /\ Begins(main[at[k]]) => main[at[k]].name \notin Projects
            /\ \/ \E j \in 1..k : Managed(main)[j].header
               \/ /\ \A i \in 1..at[k] : ~main[i].header
                  /\ ~(main[at[k]].name \in CredentialKeys /\ main[at[k]].plain)
  BY <1>1 DEF ManagedFrom
<1>2. /\ at[k] \in kept /\ at[k] \in 1..Len(main) /\ Managed(main)[k] = main[at[k]]
      /\ SectionAt(main, at[k]) \notin Projects
  BY <1>0, <1>1 DEF Selects, ManagedPart
<1>3. ASSUME NEW g \in kept, g <= at[k], main[g].header
      PROVE  \E j \in 1..k : Managed(main)[j].header
  <2>1. PICK j \in 1..Len(Managed(main)) : at[j] = g
    BY <1>1 DEF Selects
  <2>2. j <= k
    <3>. SUFFICES ASSUME k < j PROVE FALSE
      BY <2>1
    <3>. at[k] < at[j]
      BY <1>1, <2>1 DEF Selects
    <3>. QED
      BY <1>0, <1>2, <1>3, <2>1
  <2>3. Managed(main)[j] = main[g]
    BY <1>1, <2>1 DEF Selects
  <2>. QED
    BY <1>3, <2>1, <2>2, <2>3
<1>4. CASE SectionAt(main, at[k]) = NoValue /\ \A j \in 1..at[k] : ~Begins(main[j])
  <2>1. ~(main[at[k]].name \in CredentialKeys /\ main[at[k]].plain)
    BY <1>2, <1>4 DEF TopLevelCredentials
  <2>2. ASSUME NEW i \in 1..at[k], main[i].header PROVE \E j \in 1..k : Managed(main)[j].header
    <3>1. i \in 1..Len(main) /\ ~main[i].plain /\ \A j \in 1..i : ~Begins(main[j])
      BY <1>2, <1>4, <2>2 DEF Begins
    <3>2. SectionAt(main, i) = NoValue
      BY <1>0, <3>1, SectionBegins
    <3>3. i \in kept
      BY <1>0, <3>1, <3>2, HomesAssumption DEF ManagedPart, TopLevelCredentials
    <3>. QED
      BY <1>2, <1>3, <2>2, <3>3
  <2>3. at[k] \in 1..at[k]
    BY <1>2
  <2>. QED
    BY <1>2, <1>4, <2>1, <2>2, <2>3
<1>5. CASE \E g \in 1..at[k] : /\ Begins(main[g]) /\ SectionAt(main, at[k]) = main[g].name
                             /\ \A j \in 1..at[k] : Begins(main[j]) => j <= g
  <2>1. PICK g \in 1..at[k] : /\ Begins(main[g]) /\ SectionAt(main, at[k]) = main[g].name
                              /\ \A j \in 1..at[k] : Begins(main[j]) => j <= g
    BY <1>5
  <2>2. g \in 1..Len(main) /\ \A j \in 1..g : Begins(main[j]) => j <= g
    BY <1>2
  <2>3. SectionAt(main, g) = main[g].name
    BY <1>0, <2>1, <2>2, SectionReaches
  <2>4. main[g] \in FileLines /\ main[g].name # NoValue
    BY <1>0, <2>1, <2>2, LinesOfFiles DEF Begins
  <2>5. g \in kept
    BY <1>0, <1>2, <2>1, <2>2, <2>3, <2>4 DEF ManagedPart, TopLevelCredentials
  <2>6. \E j \in 1..k : Managed(main)[j].header
    BY <1>2, <1>3, <2>1, <2>5 DEF Begins
  <2>7. ASSUME Begins(main[at[k]]) PROVE main[at[k]].name \notin Projects
    <3>. at[k] \in 1..at[k] /\ \A j \in 1..at[k] : Begins(main[j]) => j <= at[k]
      BY <1>2
    <3>. SectionAt(main, at[k]) = main[at[k]].name
      BY <1>0, <1>2, <2>7, SectionReaches
    <3>. QED
      BY <1>2
  <2>. QED
    BY <1>2, <2>6, <2>7
<1>. QED
  BY <1>0, <1>2, <1>4, <1>5, SectionBegins

--------------------------------------------------------------------------------
(* Isolation. *)

\* A merged file is isolated if what there was has no section of other projects.
LEMMA MergeIsIsolated ==
  ASSUME NEW main \in Configs, NEW file \in Seq(FileLines), NEW projects,
         \A i \in 1..Len(file) :
           /\ ~file[i].plain => file[i].name \in Unfiltered
           /\ Begins(file[i]) /\ file[i].name \in Projects => file[i].name \in projects
  PROVE  Isolated(Merge(main, file), projects)
<1>. DEFINE merged == Merge(main, file)
            m == Managed(main)
            own == Own(file)
            Right(i) ==
              /\ ~merged[i].plain => merged[i].name \in Unfiltered
              /\ merged[i].header /\ merged[i].plain /\ merged[i].name \in Projects
                   => merged[i].name \in projects
              /\ i > 2 /\ ~merged[i].header /\ merged[i].plain /\ merged[i].name \in CredentialKeys
                   => \E j \in 1..i : merged[j].header
<1>1. /\ m \in Seq(FileLines) /\ own \in Seq(FileLines)
      /\ Len(merged) = 2 + Len(m) + Len(own)
      /\ \A k \in 1..2 : merged[k] = IsolatedCredentials[k]
      /\ \A k \in 1..Len(m) : merged[2 + k] = m[k]
      /\ \A k \in 1..Len(own) : merged[2 + Len(m) + k] = own[k]
  BY MergeParts
<1>2. Len(m) \in Nat /\ Len(own) \in Nat
  BY <1>1
<1>0. PICK at : ManagedFrom(at, m, main)
  BY ManagedSelects
<1>3. \A k \in 1..Len(m) :
        /\ at[k] \in 1..Len(main) /\ m[k] = main[at[k]]
        /\ Begins(main[at[k]]) => main[at[k]].name \notin Projects
        /\ \/ \E j \in 1..k : m[j].header
           \/ /\ \A i \in 1..at[k] : ~main[i].header
              /\ ~(main[at[k]].name \in CredentialKeys /\ main[at[k]].plain)
  BY <1>0 DEF ManagedFrom
<1>. HIDE DEF merged, m, own
<1>4. ASSUME NEW i \in 1..2 PROVE Right(i)
  <2>1. merged[i] = IsolatedCredentials[i] /\ (i = 1 \/ i = 2)
    BY <1>1
  <2>2. merged[i].plain /\ ~merged[i].header
    BY <2>1 DEF IsolatedCredentials, Setting
  <2>. QED
    BY <2>1, <2>2
<1>5. ASSUME NEW k \in 1..Len(m) PROVE Right(2 + k)
  <2>1. merged[2 + k] = m[k] /\ m[k] = main[at[k]] /\ at[k] \in 1..Len(main)
    BY <1>1, <1>3
  <2>2. ~main[at[k]].plain => main[at[k]].name \in Unfiltered
    <3>. main \in Seq(FileLines)
      BY LinesOfFiles
    <3>. DOMAIN main = 1..Len(main)
      OBVIOUS
    <3>. DEFINE names == {main[j].name : j \in {l \in DOMAIN main : ~main[l].plain}}
    <3>1. \A i \in DOMAIN main : ~main[i].plain => main[i].name \in names
      OBVIOUS
    <3>2. names \subseteq Unfiltered
      <4>. DEFINE all == {{c[i].name : i \in {l \in DOMAIN c : ~c[l].plain}} : c \in Configs}
      <4>1. names \in all
        OBVIOUS
      <4>2. Unfiltered = UNION all
        BY DEF Unfiltered
      <4>. HIDE DEF names, all
      <4>. QED
        BY <4>1, <4>2
    <3>. HIDE DEF names
    <3>. QED
      BY <2>1, <3>1, <3>2
  <2>3. ASSUME NEW j \in 1..k, m[j].header PROVE \E i \in 1..(2 + k) : merged[i].header
    <3>. 2 + j \in 1..(2 + k) /\ merged[2 + j] = m[j]
      BY <1>1, <1>2
    <3>. QED
      BY <2>3
  <2>4. \/ \E j \in 1..k : m[j].header
        \/ ~(main[at[k]].name \in CredentialKeys /\ main[at[k]].plain)
    BY <1>3
  <2>. QED
    BY <1>3, <2>1, <2>2, <2>3, <2>4 DEF Begins
<1>6. ASSUME NEW k \in 1..Len(own) PROVE Right(2 + Len(m) + k)
  <2>1. merged[2 + Len(m) + k] = own[k]
    BY <1>1
  <2>2. PICK i \in 1..Len(file) : own[k] = file[i]
    BY OwnHasSections DEF own
  <2>3. PICK j \in 1..k : own[j].header
    BY OwnHasSections DEF own
  <2>4. 2 + Len(m) + j \in 1..(2 + Len(m) + k) /\ merged[2 + Len(m) + j] = own[j]
    BY <1>1, <1>2
  <2>. QED
    BY <2>1, <2>2, <2>3, <2>4 DEF Begins
<1>7. ASSUME NEW i \in 1..Len(merged) PROVE Right(i)
  <2>1. CASE i \in 1..2
    BY <1>4, <2>1
  <2>2. CASE i \in 3..(2 + Len(m))
    <3>. i - 2 \in 1..Len(m) /\ 2 + (i - 2) = i
      BY <1>2, <2>2
    <3>. QED
      BY <1>5
  <2>3. CASE i \in (3 + Len(m))..Len(merged)
    <3>. i - 2 - Len(m) \in 1..Len(own) /\ 2 + Len(m) + (i - 2 - Len(m)) = i
      BY <1>1, <1>2, <2>3
    <3>. QED
      BY <1>6
  <2>. QED
    BY <1>1, <1>2, <2>1, <2>2, <2>3
<1>. HIDE DEF Right
<1>8. Isolated(merged, projects)
  BY <1>1, <1>2, <1>7 DEF Isolated, Right
<1>. QED
  BY <1>8 DEF merged

\* It stays so if more projects are trusted, and if one of them is written to it.
LEMMA IsolatedGrows ==
  ASSUME NEW file, NEW small, NEW large, small \subseteq large, Isolated(file, small)
  PROVE  Isolated(file, large)
BY DEF Isolated

LEMMA TrustIsIsolated ==
  ASSUME NEW file \in Seq(FileLines), NEW projects, NEW p \in Projects, p \in projects,
         Isolated(file, projects)
  PROVE  Isolated(file \o <<Header(p), Setting("trust_level", "trusted")>>, projects)
<1>. DEFINE section == <<Header(p), Setting("trust_level", "trusted")>>
            long == file \o section
<1>1. section \in Seq(FileLines) /\ Len(section) = 2
  BY LinesOfFiles
<1>2. /\ Len(long) = Len(file) + 2 /\ \A k \in 1..Len(file) : long[k] = file[k]
      /\ long[Len(file) + 1] = Header(p)
      /\ long[Len(file) + 2] = Setting("trust_level", "trusted")
  <2>1. \A k \in 1..2 : long[Len(file) + k] = section[k]
    BY <1>1, Joined
  <2>. QED
    BY <1>1, <2>1, Joined
<1>3. Len(file) \in Nat
  OBVIOUS
<1>. HIDE DEF long, section
<1>4. ASSUME NEW i \in 1..Len(long)
      PROVE  /\ ~long[i].plain => long[i].name \in Unfiltered
             /\ long[i].header /\ long[i].plain /\ long[i].name \in Projects => long[i].name \in projects
             /\ i > 2 /\ ~long[i].header /\ long[i].plain /\ long[i].name \in CredentialKeys
                  => \E j \in 1..i : long[j].header
  <2>1. CASE i \in 1..Len(file)
    <3>. \A j \in 1..i : j \in 1..Len(file) /\ long[j] = file[j]
      BY <1>2, <1>3, <2>1
    <3>. long[i] = file[i]
      BY <1>2, <2>1
    <3>. QED
      BY <2>1 DEF Isolated
  <2>2. CASE i = Len(file) + 1
    BY <1>2, <2>2 DEF Header
  <2>3. CASE i = Len(file) + 2
    BY <1>2, <2>3 DEF Setting, CredentialKeys
  <2>. QED
    BY <1>2, <1>3, <2>1, <2>2, <2>3
<1>5. Len(file) >= 2 /\ \A i \in 1..2 : file[i] = IsolatedCredentials[i]
  BY DEF Isolated
<1>6. Isolated(long, projects)
  BY <1>2, <1>3, <1>4, <1>5 DEF Isolated
<1>. QED
  BY <1>6 DEF long, section

LEMMA InitIsolated == Init => FilesAreIsolated /\ TrustIsThere
BY DEF Init, Idle, FilesAreIsolated, TrustIsThere

\* The home that the loop is about to write is one of the homes.
LEMMA HeadWasMade ==
  ASSUME Typed, sync.queue # <<>>
  PROVE  Head(sync.queue) \in 1..made /\ Head(sync.queue) \in Homes
BY HomesAssumption, TailQueued DEF Typed, TypeOK, Homes

LEMMA StepIsolated == Typed /\ FilesAreIsolated /\ [Next]_vars => FilesAreIsolated'
<1>. SUFFICES ASSUME Typed, FilesAreIsolated, [Next]_vars PROVE FilesAreIsolated'
  OBVIOUS
<1>1. 1..made \subseteq Homes /\ made \in Nat /\ primary \in Configs
  BY HomesAssumption DEF Typed, TypeOK, Homes
<1>2. ASSUME UNCHANGED <<configs, trusted, made>>,
             sync'.merged # NoValue => UNCHANGED sync
      PROVE  FilesAreIsolated'
  BY <1>2 DEF FilesAreIsolated
<1>3. CASE BeginSync \/ SyncFails
  BY <1>2, <1>3 DEF BeginSync, SyncFails, Idle
<1>4. CASE EditPrimary
  BY <1>2, <1>4 DEF EditPrimary
<1>5. ASSUME NEW h \in Homes \union {Primary}, NEW credentials \in Written, WriteAuth(h, credentials)
      PROVE  FilesAreIsolated'
  BY <1>2, <1>5 DEF WriteAuth
<1>6. CASE ReadConfigs
  <2>. DEFINE h == Head(sync.queue)
  <2>1. h \in 1..made /\ configs[h] \in Seq(FileLines)
    BY <1>1, <1>6, HeadWasMade DEF ReadConfigs, Typed
  <2>2. Isolated(Merge(primary, configs[h]), trusted[h])
    <3>. Isolated(configs[h], trusted[h])
      BY <2>1 DEF FilesAreIsolated
    <3>. QED
      BY <1>1, <2>1, MergeIsIsolated DEF Isolated, Begins
  <2>3. sync'.queue = sync.queue /\ sync'.merged = Merge(primary, configs[h])
    BY <1>6 DEF ReadConfigs, Typed
  <2>. QED
    BY <1>6, <2>2, <2>3 DEF ReadConfigs, FilesAreIsolated
<1>7. CASE CommitConfig
  <2>. DEFINE h == Head(sync.queue)
  <2>1. /\ h \in Homes /\ sync'.merged = NoValue
        /\ configs' = [configs EXCEPT ![h] = sync.merged]
    BY <1>7, HeadWasMade DEF CommitConfig, Typed, TypeOK
  <2>2. Isolated(sync.merged, trusted[h])
    BY <1>7 DEF CommitConfig, FilesAreIsolated
  <2>3. UNCHANGED <<trusted, made>>
    BY <1>7 DEF CommitConfig
  <2>4. \A g \in 1..made : configs'[g] = configs[g] \/ (g = h /\ configs'[g] = sync.merged)
    BY <1>1, <2>1 DEF Typed
  <2>. QED
    BY <2>1, <2>2, <2>3, <2>4 DEF FilesAreIsolated
<1>8. ASSUME NEW credentials, Create(credentials) PROVE FilesAreIsolated'
  <2>. DEFINE h == made + 1
  <2>1. /\ h \in Homes /\ made' = h /\ configs' = [configs EXCEPT ![h] = Merge(primary, <<>>)]
        /\ UNCHANGED <<sync, trusted>>
    BY <1>8 DEF Create
  <2>2. Isolated(Merge(primary, <<>>), trusted[h])
    <3>1. PICK file \in Seq(FileLines) : file = <<>> /\ Len(file) = 0
      BY EmptySeq
    <3>2. \A i \in 1..Len(file) : FALSE
      BY <3>1
    <3>3. Isolated(Merge(primary, file), trusted[h])
      BY <1>1, <3>2, MergeIsIsolated
    <3>. QED
      BY <3>1, <3>3
  <2>3. \A g \in 1..made : configs'[g] = configs[g]
    BY <1>1, <2>1 DEF Typed
  <2>4. configs'[h] = Merge(primary, <<>>)
    BY <2>1 DEF Typed
  <2>5. 1..h = 1..made \union {h}
    BY <1>1
  <2>. QED
    BY <2>1, <2>2, <2>3, <2>4, <2>5 DEF FilesAreIsolated
<1>9. ASSUME NEW h \in Homes, NEW p \in Projects, TrustProject(h, p) PROVE FilesAreIsolated'
  <2>. DEFINE long == configs[h] \o <<Header(p), Setting("trust_level", "trusted")>>
              more == trusted[h] \union {p}
  <2>1. /\ configs' = [configs EXCEPT ![h] = long] /\ trusted' = [trusted EXCEPT ![h] = more]
        /\ UNCHANGED <<sync, made>>
    BY <1>9 DEF TrustProject
  <2>2. h \in 1..made
    BY <1>9 DEF TrustProject, Listed, Range, Typed, TypeOK
  <2>3. Isolated(long, more)
    <3>1. Isolated(configs[h], more)
      BY <2>2, IsolatedGrows DEF FilesAreIsolated
    <3>2. configs[h] \in Seq(FileLines) /\ p \in more
      BY DEF Typed
    <3>. HIDE DEF more
    <3>. QED
      BY <3>1, <3>2, TrustIsIsolated
  <2>4. /\ configs'[h] = long /\ trusted'[h] = more
        /\ \A g \in Homes \ {h} : configs'[g] = configs[g] /\ trusted'[g] = trusted[g]
    BY <2>1 DEF Typed
  <2>5. \A g \in Homes : trusted[g] \subseteq trusted'[g]
    BY <2>4
  <2>. HIDE DEF long, more
  <2>6. \A g \in 1..made : Isolated(configs'[g], trusted'[g])
    BY <1>1, <2>3, <2>4 DEF FilesAreIsolated
  <2>7. ASSUME sync.merged # NoValue PROVE Isolated(sync.merged, trusted'[Head(sync.queue)])
    <3>. Head(sync.queue) \in Homes
      BY <2>7, HeadWasMade DEF Typed, TypeOK
    <3>. QED
      BY <2>5, <2>7, IsolatedGrows DEF FilesAreIsolated
  <2>. QED
    BY <2>1, <2>6, <2>7 DEF FilesAreIsolated
<1>10. CASE UNCHANGED vars
  BY <1>2, <1>10 DEF vars
<1>. QED
  BY <1>3, <1>4, <1>5, <1>6, <1>7, <1>8, <1>9, <1>10 DEF Next, AddAccount, AddAccountWithAuth

--------------------------------------------------------------------------------
(* What TOML makes of the files. *)

LEMMA TomlSectionIs ==
  ASSUME NEW file \in Seq(FileLines), NEW i \in 1..Len(file)
  PROVE  /\ (\A j \in 1..i : ~file[j].header) => TomlSection(file, i) = NoValue
         /\ (\E j \in 1..i : file[j].header) =>
              \E g \in 1..i : /\ file[g].header /\ TomlSection(file, i) = file[g].name
                             /\ \A k \in 1..i : file[k].header => k <= g
<1>. DEFINE headers == {j \in 1..i : file[j].header}
<1>1. (\A j \in 1..i : ~file[j].header) => TomlSection(file, i) = NoValue
  BY DEF TomlSection
<1>2. ASSUME NEW j \in 1..i, file[j].header
      PROVE  \E g \in 1..i : /\ file[g].header /\ TomlSection(file, i) = file[g].name
                            /\ \A k \in 1..i : file[k].header => k <= g
  <2>1. headers # {} /\ headers \in SUBSET (1..i) /\ i \in Nat
    BY <1>2
  <2>2. Max(headers) \in headers /\ \A k \in headers : k <= Max(headers)
    BY <2>1, GreatestNumber
  <2>3. TomlSection(file, i) = file[Max(headers)].name
    BY <2>1 DEF TomlSection
  <2>. QED
    BY <2>2, <2>3
<1>. QED
  BY <1>1, <1>2

\* The trust in an isolated file.
LEMMA IsolatedTrust ==
  ASSUME NEW file \in Seq(FileLines), NEW projects, Isolated(file, projects)
  PROVE  TrustIn(file) \subseteq projects \union Unfiltered
<1>. SUFFICES ASSUME NEW p \in TrustIn(file) PROVE p \in projects \union Unfiltered
  OBVIOUS
<1>1. p \in Projects /\ p # NoValue
  BY HomesAssumption DEF TrustIn
<1>2. PICK i \in 1..Len(file) : TomlSection(file, i) = p
  BY DEF TrustIn, SettingsOf
<1>3. PICK g \in 1..i : file[g].header /\ TomlSection(file, i) = file[g].name
  BY <1>1, <1>2, TomlSectionIs
<1>4. g \in 1..Len(file)
  BY <1>2
<1>. QED
  BY <1>1, <1>2, <1>3, <1>4 DEF Isolated

\* The credentials in an isolated file.
LEMMA IsolatedStores ==
  ASSUME NEW file \in Seq(FileLines), NEW projects, Isolated(file, projects),
         NEW key \in CredentialKeys
  PROVE  /\ file[Min(CredentialsIn(file, key))].value = "file"
         /\ key \in Unfiltered \/ Cardinality(CredentialsIn(file, key)) = 1
<1>. DEFINE found == CredentialsIn(file, key)
<1>1. PICK c \in 1..2 : IsolatedCredentials[c] = Setting(key, "file")
                        /\ \A d \in 1..2 : d # c => IsolatedCredentials[d].name # key
  <2>1. CASE key = "cli_auth_credentials_store"
    BY <2>1 DEF IsolatedCredentials, Setting
  <2>2. CASE key = "mcp_oauth_credentials_store"
    BY <2>2 DEF IsolatedCredentials, Setting
  <2>. QED
    BY <2>1, <2>2 DEF CredentialKeys
<1>2. \A d \in 1..2 : d \in 1..Len(file) /\ ~file[d].header
                      /\ file[d] = IsolatedCredentials[d]
  <2>. \A d \in 1..2 : ~IsolatedCredentials[d].header
    BY DEF IsolatedCredentials, Setting
  <2>. QED
    BY DEF Isolated
<1>3. file[c].name = key /\ file[c].value = "file" /\ ~file[c].header
  BY <1>1, <1>2 DEF Setting
<1>4. c \in found
  <2>. c \in 1..Len(file) /\ \A j \in 1..c : ~file[j].header
    BY <1>2
  <2>. TomlSection(file, c) = NoValue
    BY TomlSectionIs
  <2>. QED
    BY <1>2, <1>3 DEF CredentialsIn, SettingsOf
<1>5. found \in SUBSET Nat /\ \A i \in found : i \in 1..Len(file)
  BY DEF CredentialsIn, SettingsOf
<1>6. \A i \in found : i <= 2 => i = c
  <2>. SUFFICES ASSUME NEW i \in found, i <= 2, i # c PROVE FALSE
    OBVIOUS
  <2>1. i \in 1..2
    BY <1>5
  <2>2. file[i].name = key
    BY DEF CredentialsIn
  <2>. QED
    BY <1>1, <1>2, <2>1, <2>2
<1>7. Min(found) = c
  <2>1. Min(found) \in found /\ \A i \in found : Min(found) <= i
    BY <1>4, <1>5, SmallestNumber
  <2>2. Min(found) <= 2
    BY <1>4, <1>5, <2>1
  <2>. QED
    BY <1>6, <2>1, <2>2
<1>8. ASSUME key \notin Unfiltered, NEW i \in found PROVE i = c
  <2>. SUFFICES ASSUME i > 2 PROVE FALSE
    BY <1>5, <1>6
  <2>1. i \in 1..Len(file) /\ file[i].name = key /\ ~file[i].header /\ TomlSection(file, i) = NoValue
    BY <1>5 DEF CredentialsIn, SettingsOf
  <2>2. PICK j \in 1..i : file[j].header
    BY <1>8, <2>1 DEF Isolated
  <2>3. PICK g \in 1..i : file[g].header /\ TomlSection(file, i) = file[g].name
    BY <2>1, <2>2, TomlSectionIs
  <2>4. g \in 1..Len(file) /\ file[g] \in FileLines
    BY <2>1
  <2>. QED
    BY <2>1, <2>3, <2>4, LinesOfFiles
<1>9. key \notin Unfiltered => Cardinality(found) = 1
  <2>. SUFFICES ASSUME key \notin Unfiltered PROVE Cardinality(found) = 1
    OBVIOUS
  <2>. found = {c}
    BY <1>4, <1>8
  <2>. QED
    BY FS_Singleton
<1>. QED
  BY <1>3, <1>7, <1>9

\* An isolated home has the trust that its own app-server gave and one setting for
\* each credential store, except for what the filters do not know.
THEOREM SecretsAreLocal == Spec => []SecretsStayLocal
<1>. DEFINE Inductive == Typed /\ FilesAreIsolated
<1>1. Init => Inductive
  BY InitTyped, InitIsolated
<1>2. Inductive /\ [Next]_vars => Inductive'
  BY StepTyped, StepIsolated
<1>3. Inductive => SecretsStayLocal
  <2>. SUFFICES ASSUME Inductive, NEW h \in Listed
       PROVE  /\ TrustIn(configs[h]) \subseteq trusted[h] \union Unfiltered
              /\ \A key \in CredentialKeys :
                   /\ configs[h][Min(CredentialsIn(configs[h], key))].value = "file"
                   /\ key \in Unfiltered \/ Cardinality(CredentialsIn(configs[h], key)) = 1
    BY DEF SecretsStayLocal
  <2>1. Isolated(configs[h], trusted[h])
    BY DEF FilesAreIsolated, Typed, TypeOK
  <2>2. configs[h] \in Seq(FileLines)
    BY DEF Typed, Listed, Range
  <2>. QED
    BY <2>1, <2>2, IsolatedTrust, IsolatedStores
<1>. QED
  BY <1>1, <1>2, <1>3, PTL DEF Spec

--------------------------------------------------------------------------------
(* Trust. *)

\* The section that an app-server added survives the merge ...
LEMMA MergeKeepsTrust ==
  ASSUME NEW main \in Configs, NEW file \in Seq(FileLines), NEW p \in Projects, Trusts(file, p)
  PROVE  Trusts(Merge(main, file), p)
<1>. DEFINE merged == Merge(main, file)
            own == Own(file)
            before == 2 + Len(Managed(main))
<1>1. PICK i \in 1..(Len(file) - 1) :
        file[i] = Header(p) /\ file[i + 1] = Setting("trust_level", "trusted")
  BY DEF Trusts
<1>2. /\ i \in 1..Len(file) /\ i + 1 \in 1..Len(file)
      /\ Begins(file[i]) /\ ~Begins(file[i + 1]) /\ file[i].name = p
  BY <1>1 DEF Begins, Header, Setting
<1>3. SectionAt(file, i) = p /\ SectionAt(file, i + 1) = p
  <2>1. i \in 1..i /\ \A j \in 1..i : Begins(file[j]) => j <= i
    OBVIOUS
  <2>2. i \in 1..(i + 1) /\ \A j \in 1..(i + 1) : Begins(file[j]) => j <= i
    BY <1>2
  <2>. QED
    BY <1>2, <2>1, <2>2, SectionReaches
<1>4. i \in ProjectPart(file) /\ i + 1 \in ProjectPart(file)
  BY <1>2, <1>3 DEF ProjectPart
<1>5. PICK at : Selects(at, own, file, ProjectPart(file))
  <2>. ProjectPart(file) \in SUBSET (1..Len(file))
    BY DEF ProjectPart
  <2>. QED
    BY LinesSelect DEF Own
<1>6. own \in Seq(FileLines) /\ Len(own) \in Nat
  BY MergeParts
<1>. HIDE DEF own, merged
<1>7. PICK k \in 1..Len(own), l \in 1..Len(own) : at[k] = i /\ at[l] = i + 1
  BY <1>4, <1>5 DEF Selects
<1>8. \A j \in 1..Len(own) : at[j] \in Nat
  BY <1>5 DEF Selects, ProjectPart
<1>9. l = k + 1
  <2>1. k < l
    <3>1. k # l
      BY <1>7
    <3>2. ASSUME l < k PROVE FALSE
      <4>. at[l] < at[k]
        BY <1>5, <1>7, <3>2 DEF Selects
      <4>. QED
        BY <1>7
    <3>. QED
      BY <1>6, <3>1, <3>2
  <2>2. ASSUME k + 1 < l PROVE FALSE
    <3>. k + 1 \in 1..Len(own) /\ k < k + 1
      BY <1>6, <2>2
    <3>. at[k] < at[k + 1] /\ at[k + 1] < at[l] /\ at[k + 1] \in Nat
      BY <1>5, <1>7, <1>8, <2>2 DEF Selects
    <3>. QED
      BY <1>7
  <2>. QED
    BY <1>6, <2>1, <2>2
<1>10. own[k] = Header(p) /\ own[k + 1] = Setting("trust_level", "trusted") /\ k + 1 \in 1..Len(own)
  BY <1>1, <1>5, <1>7, <1>9 DEF Selects
<1>11. /\ before \in Nat /\ Len(merged) = before + Len(own)
       /\ \A j \in 1..Len(own) : merged[before + j] = own[j]
  BY MergeParts DEF merged, own
<1>. HIDE DEF before
<1>12. /\ merged[before + k] = Header(p)
       /\ merged[(before + k) + 1] = Setting("trust_level", "trusted")
       /\ before + k \in 1..(Len(merged) - 1)
  <2>. (before + k) + 1 = before + (k + 1)
    BY <1>11
  <2>. QED
    BY <1>6, <1>10, <1>11
<1>13. Trusts(merged, p)
  BY <1>12 DEF Trusts
<1>. QED
  BY <1>13 DEF merged

\* ... and whatever is added to the file after it.
LEMMA TrustsGrows ==
  ASSUME NEW file \in Seq(FileLines), NEW q \in Projects
  PROVE  /\ Trusts(file \o <<Header(q), Setting("trust_level", "trusted")>>, q)
         /\ \A p : Trusts(file, p)
                 => Trusts(file \o <<Header(q), Setting("trust_level", "trusted")>>, p)
<1>. DEFINE section == <<Header(q), Setting("trust_level", "trusted")>>
            long == file \o section
            n == Len(file)
<1>1. section \in Seq(FileLines) /\ Len(section) = 2 /\ n \in Nat
  BY LinesOfFiles
<1>2. /\ Len(long) = n + 2 /\ \A k \in 1..n : long[k] = file[k]
      /\ \A k \in 1..2 : long[n + k] = section[k]
  BY <1>1, Joined
<1>3. long[n + 1] = Header(q) /\ long[(n + 1) + 1] = Setting("trust_level", "trusted")
  <2>. (n + 1) + 1 = n + 2 /\ 1 \in 1..2 /\ 2 \in 1..2
    BY <1>1
  <2>. QED
    BY <1>2
<1>. HIDE DEF long, n
<1>4. Trusts(long, q)
  <2>. n + 1 \in 1..(Len(long) - 1)
    BY <1>1, <1>2
  <2>. QED
    BY <1>3 DEF Trusts
<1>5. ASSUME NEW p, Trusts(file, p) PROVE Trusts(long, p)
  <2>1. PICK i \in 1..(n - 1) :
          file[i] = Header(p) /\ file[i + 1] = Setting("trust_level", "trusted")
    BY <1>5 DEF Trusts, n
  <2>. i \in 1..n /\ i + 1 \in 1..n /\ i \in 1..(Len(long) - 1)
    BY <1>1, <1>2
  <2>. QED
    BY <1>2, <2>1 DEF Trusts
<1>. QED
  BY <1>4, <1>5 DEF long

LEMMA StepTrust == Typed /\ TrustIsThere /\ [Next]_vars => TrustIsThere'
<1>. SUFFICES ASSUME Typed, TrustIsThere, [Next]_vars PROVE TrustIsThere'
  OBVIOUS
<1>1. 1..made \subseteq Homes /\ made \in Nat /\ primary \in Configs
  BY HomesAssumption DEF Typed, TypeOK, Homes
<1>2. ASSUME UNCHANGED <<configs, trusted, overtaken, made>>,
             sync'.merged # NoValue => UNCHANGED sync
      PROVE  TrustIsThere'
  BY <1>2 DEF TrustIsThere
<1>3. CASE BeginSync \/ SyncFails
  BY <1>2, <1>3 DEF BeginSync, SyncFails, Idle
<1>4. CASE EditPrimary
  BY <1>2, <1>4 DEF EditPrimary
<1>5. ASSUME NEW h \in Homes \union {Primary}, NEW credentials \in Written, WriteAuth(h, credentials)
      PROVE  TrustIsThere'
  BY <1>2, <1>5 DEF WriteAuth
<1>6. CASE ReadConfigs
  <2>. DEFINE h == Head(sync.queue)
  <2>1. h \in 1..made /\ configs[h] \in Seq(FileLines) /\ trusted[h] \subseteq Projects
    BY <1>1, <1>6, HeadWasMade DEF ReadConfigs, Typed
  <2>2. \A p \in trusted[h] \ overtaken[h] : Trusts(Merge(primary, configs[h]), p)
    BY <1>1, <2>1, MergeKeepsTrust DEF TrustIsThere
  <2>3. sync'.queue = sync.queue /\ sync'.merged = Merge(primary, configs[h])
    BY <1>6 DEF ReadConfigs, Typed
  <2>. QED
    BY <1>6, <2>2, <2>3 DEF ReadConfigs, TrustIsThere
<1>7. CASE CommitConfig
  <2>. DEFINE h == Head(sync.queue)
  <2>1. /\ h \in Homes /\ sync'.merged = NoValue
        /\ configs' = [configs EXCEPT ![h] = sync.merged]
    BY <1>7, HeadWasMade DEF CommitConfig, Typed, TypeOK
  <2>2. UNCHANGED <<trusted, overtaken, made>> /\ sync.merged # NoValue
    BY <1>7 DEF CommitConfig
  <2>3. \A g \in 1..made : configs'[g] = configs[g] \/ (g = h /\ configs'[g] = sync.merged)
    BY <1>1, <2>1 DEF Typed
  <2>. QED
    BY <2>1, <2>2, <2>3 DEF TrustIsThere
<1>8. ASSUME NEW credentials, Create(credentials) PROVE TrustIsThere'
  <2>. DEFINE h == made + 1
  <2>1. /\ h \in Homes /\ made' = h /\ configs' = [configs EXCEPT ![h] = Merge(primary, <<>>)]
        /\ UNCHANGED <<sync, trusted, overtaken>>
    BY <1>8 DEF Create
  <2>2. \A g \in 1..made : configs'[g] = configs[g]
    BY <1>1, <2>1 DEF Typed
  <2>4. trusted'[h] = {}
    <3>1. h > made /\ h \in Homes /\ trusted' = trusted
      BY <1>1, <2>1
    <3>. HIDE DEF h
    <3>. QED
      BY <3>1 DEF Typed
  <2>3. 1..h = 1..made \union {h}
    BY <1>1
  <2>. QED
    BY <2>1, <2>2, <2>3, <2>4 DEF TrustIsThere
<1>9. ASSUME NEW h \in Homes, NEW p \in Projects, TrustProject(h, p) PROVE TrustIsThere'
  <2>. DEFINE long == configs[h] \o <<Header(p), Setting("trust_level", "trusted")>>
  <2>1. /\ configs' = [configs EXCEPT ![h] = long]
        /\ trusted' = [trusted EXCEPT ![h] = trusted[h] \union {p}]
        /\ UNCHANGED <<sync, made>>
    BY <1>9 DEF TrustProject
  <2>2. h \in 1..made /\ configs[h] \in Seq(FileLines)
    BY <1>9 DEF TrustProject, Listed, Range, Typed, TypeOK
  <2>3. Trusts(long, p) /\ \A q : Trusts(configs[h], q) => Trusts(long, q)
    BY <2>2, TrustsGrows
  <2>. HIDE DEF long
  <2>4. /\ configs'[h] = long /\ trusted'[h] = trusted[h] \union {p}
        /\ \A g \in Homes \ {h} : configs'[g] = configs[g] /\ trusted'[g] = trusted[g]
    BY <2>1 DEF Typed
  <2>5. /\ \A g \in Homes : overtaken[g] \subseteq overtaken'[g]
        /\ sync.merged # NoValue /\ Head(sync.queue) = h => p \in overtaken'[h]
    <3>1. CASE sync.merged # NoValue /\ Head(sync.queue) = h
      <4>. overtaken' = [overtaken EXCEPT ![h] = overtaken[h] \union {p}]
        BY <1>9, <3>1 DEF TrustProject
      <4>. QED
        BY DEF Typed
    <3>2. CASE ~(sync.merged # NoValue /\ Head(sync.queue) = h)
      BY <1>9, <3>2 DEF TrustProject
    <3>. QED
      BY <3>1, <3>2
  <2>6. ASSUME NEW g \in 1..made, NEW q \in trusted'[g] \ overtaken'[g]
        PROVE  /\ Trusts(configs'[g], q)
               /\ sync.merged # NoValue /\ Head(sync.queue) = g => Trusts(sync.merged, q)
    <3>1. CASE q \in trusted[g]
      BY <1>1, <2>3, <2>4, <2>5, <3>1 DEF TrustIsThere
    <3>2. CASE g = h /\ q = p
      BY <2>3, <2>4, <2>5, <3>2
    <3>. QED
      BY <1>1, <2>4, <3>1, <3>2
  <2>. QED
    BY <2>1, <2>6 DEF TrustIsThere
<1>10. CASE UNCHANGED vars
  BY <1>2, <1>10 DEF vars
<1>. QED
  BY <1>3, <1>4, <1>5, <1>6, <1>7, <1>8, <1>9, <1>10 DEF Next, AddAccount, AddAccountWithAuth

\* The section is in TOML what it is for the filters.
LEMMA TrustsIsTrust ==
  ASSUME NEW file \in Seq(FileLines), NEW p \in Projects, Trusts(file, p)
  PROVE  p \in TrustIn(file)
<1>1. PICK i \in 1..(Len(file) - 1) :
        file[i] = Header(p) /\ file[i + 1] = Setting("trust_level", "trusted")
  BY DEF Trusts
<1>2. /\ i + 1 \in 1..Len(file) /\ i \in 1..(i + 1)
      /\ file[i].header /\ file[i].name = p /\ ~file[i + 1].header
  BY <1>1 DEF Header, Setting
<1>3. PICK g \in 1..(i + 1) : /\ file[g].header /\ TomlSection(file, i + 1) = file[g].name
                              /\ \A k \in 1..(i + 1) : file[k].header => k <= g
  BY <1>2, TomlSectionIs
<1>4. g = i
  BY <1>2, <1>3
<1>5. i + 1 \in SettingsOf(file, p)
  BY <1>2, <1>3, <1>4 DEF SettingsOf
<1>. QED
  BY <1>5 DEF TrustIn

\* The trust that an app-server gave is lost only if it was given between the moment
\* the loop read the file and the one it replaced it.
THEOREM TrustIsKept == Spec => []TrustLostOnlyInOverlap
<1>. DEFINE Inductive == Typed /\ TrustIsThere
<1>1. Init => Inductive
  BY InitTyped, InitIsolated
<1>2. Inductive /\ [Next]_vars => Inductive'
  BY StepTyped, StepTrust
<1>3. Inductive => TrustLostOnlyInOverlap
  <2>. SUFFICES ASSUME Inductive, NEW h \in Listed, NEW p \in trusted[h] \ overtaken[h]
       PROVE  p \in TrustIn(configs[h])
    BY DEF TrustLostOnlyInOverlap
  <2>1. h \in 1..made /\ h \in Homes
    BY DEF Typed, TypeOK, Listed, Range
  <2>2. configs[h] \in Seq(FileLines) /\ p \in Projects /\ Trusts(configs[h], p)
    BY <2>1 DEF Typed, TrustIsThere
  <2>. QED
    BY <2>2, TrustsIsTrust
<1>. QED
  BY <1>1, <1>2, <1>3, PTL DEF Spec

--------------------------------------------------------------------------------
(* Lanes. *)

\* A setting at the top level of the Primary's file is at the top level of a merged
\* file, in the same order; what is before and after them does not hide them.
LEMMA MergeKeepsTopLevel ==
  ASSUME NEW main \in Configs, NEW file \in Seq(FileLines), NEW key, key \notin CredentialKeys
  PROVE  TopLevelConfigValue(Merge(main, file), key) = TopLevelConfigValue(main, key)
<1>. DEFINE merged == Merge(main, file)
            m == Managed(main)
            own == Own(file)
            kept == ManagedPart(main) \ TopLevelCredentials(main)
            inMain == {i \in DOMAIN main : main[i].name = key /\ \A j \in 1..i : ~main[j].header}
            inMerged == {i \in DOMAIN merged :
                          merged[i].name = key /\ \A j \in 1..i : ~merged[j].header}
<1>0. PICK at : ManagedFrom(at, m, main)
  BY ManagedSelects
<1>1. /\ Selects(at, m, main, kept)
      /\ \A k \in 1..Len(m) :
           /\ at[k] \in 1..Len(main) /\ m[k] = main[at[k]]
           /\ \/ \E j \in 1..k : m[j].header
              \/ /\ \A i \in 1..at[k] : ~main[i].header
                 /\ ~(main[at[k]].name \in CredentialKeys /\ main[at[k]].plain)
  BY <1>0 DEF ManagedFrom
<1>2. /\ m \in Seq(FileLines) /\ own \in Seq(FileLines) /\ merged \in Seq(FileLines)
      /\ Len(merged) = 2 + Len(m) + Len(own)
      /\ \A k \in 1..2 : merged[k] = IsolatedCredentials[k]
      /\ \A k \in 1..Len(m) : merged[2 + k] = m[k]
      /\ \A k \in 1..Len(own) : merged[2 + Len(m) + k] = own[k]
  BY MergeParts
<1>3. /\ main \in Seq(FileLines) /\ DOMAIN main = 1..Len(main) /\ Len(main) \in Nat
      /\ DOMAIN merged = 1..Len(merged) /\ Len(m) \in Nat /\ Len(own) \in Nat
  BY <1>2, LinesOfFiles
<1>4. \A k \in 1..2 : ~merged[k].header /\ merged[k].name # key
  BY <1>2 DEF IsolatedCredentials, Setting, CredentialKeys
<1>5. \A k \in 1..Len(own) : \E j \in 1..k : own[j].header
  BY OwnHasSections
<1>6. \A i \in inMain : i \in kept
  <2>. SUFFICES ASSUME NEW i \in inMain PROVE i \in kept
    OBVIOUS
  <2>1. i \in 1..Len(main) /\ \A j \in 1..i : ~Begins(main[j])
    BY <1>3 DEF Begins
  <2>2. SectionAt(main, i) = NoValue
    BY <1>3, <2>1, SectionBegins
  <2>. QED
    BY <1>3, <2>1, <2>2, HomesAssumption DEF ManagedPart, TopLevelCredentials
<1>. HIDE DEF merged, m, own, kept
\* Up ...
<1>7. ASSUME NEW i \in inMain
      PROVE  \E k \in 1..Len(m) : at[k] = i /\ 2 + k \in inMerged
  <2>1. PICK k \in 1..Len(m) : at[k] = i
    BY <1>1, <1>6 DEF Selects
  <2>2. 2 + k \in 1..Len(merged) /\ merged[2 + k] = main[i]
    BY <1>1, <1>2, <1>3, <2>1
  <2>3. ASSUME NEW j \in 1..(2 + k) PROVE ~merged[j].header
    <3>1. CASE j <= 2
      BY <1>4, <3>1
    <3>2. CASE j > 2
      <4>. DEFINE l == j - 2
      <4>1. l \in 1..Len(m) /\ l <= k /\ j = 2 + l
        BY <1>3, <3>2
      <4>. HIDE DEF l
      <4>2. at[l] \in 1..i
        <5>1. at[l] \in 1..Len(main) /\ (l < k => at[l] < at[k])
          BY <1>1, <4>1 DEF Selects
        <5>2. l < k \/ l = k
          BY <4>1
        <5>. QED
          BY <1>3, <2>1, <5>1, <5>2
      <4>3. ~main[at[l]].header /\ m[l] = main[at[l]] /\ merged[2 + l] = m[l]
        BY <1>1, <1>2, <4>1, <4>2
      <4>. QED
        BY <4>1, <4>3
    <3>. QED
      BY <3>1, <3>2
  <2>. QED
    BY <1>3, <2>1, <2>2, <2>3
\* ... and down.
<1>8. ASSUME NEW x \in inMerged
      PROVE  \E k \in 1..Len(m) : x = 2 + k /\ at[k] \in inMain
  <2>1. x \in 1..Len(merged) /\ merged[x].name = key /\ \A j \in 1..x : ~merged[j].header
    BY <1>3
  <2>2. x > 2
    BY <1>4, <2>1
  <2>3. x <= 2 + Len(m)
    <3>. SUFFICES ASSUME x > 2 + Len(m) PROVE FALSE
      BY <1>3, <2>1
    <3>. DEFINE k == x - (2 + Len(m))
    <3>1. k \in 1..Len(own) /\ x = 2 + Len(m) + k
      BY <1>2, <1>3, <2>1
    <3>. HIDE DEF k
    <3>2. PICK j \in 1..k : own[j].header
      BY <1>5, <3>1
    <3>3. j \in 1..Len(own) /\ 2 + Len(m) + j \in 1..x
      BY <1>3, <3>1
    <3>. QED
      BY <1>2, <2>1, <3>2, <3>3
  <2>. DEFINE k == x - 2
  <2>4. k \in 1..Len(m) /\ x = 2 + k
    BY <1>3, <2>1, <2>2, <2>3
  <2>. HIDE DEF k
  <2>5. ~ \E j \in 1..k : m[j].header
    <3>. SUFFICES ASSUME NEW j \in 1..k, m[j].header PROVE FALSE
      OBVIOUS
    <3>. j \in 1..Len(m) /\ 2 + j \in 1..x
      BY <1>3, <2>4
    <3>. QED
      BY <1>2, <2>1
  <2>6. at[k] \in 1..Len(main) /\ \A i \in 1..at[k] : ~main[i].header
    BY <1>1, <2>4, <2>5
  <2>7. main[at[k]].name = key
    BY <1>1, <1>2, <2>1, <2>4
  <2>. QED
    BY <1>3, <2>4, <2>6, <2>7
<1>9. inMain \in SUBSET Nat /\ inMerged \in SUBSET Nat
  BY <1>3
<1>10. CASE inMain = {}
  <2>. inMerged = {}
    BY <1>8, <1>10
  <2>. QED
    BY <1>10 DEF TopLevelConfigValue, merged
<1>11. CASE inMain # {}
  <2>. DEFINE a == Min(inMain)
              b == Min(inMerged)
  <2>1. a \in inMain /\ \A i \in inMain : a <= i
    BY <1>9, <1>11, SmallestNumber
  <2>2. inMerged # {}
    BY <1>7, <2>1
  <2>3. b \in inMerged /\ \A x \in inMerged : b <= x
    BY <1>9, <2>2, SmallestNumber
  <2>4. /\ TopLevelConfigValue(main, key) = main[a].value
        /\ TopLevelConfigValue(merged, key) = merged[b].value
    BY <1>11, <2>2 DEF TopLevelConfigValue
  <2>. HIDE DEF a, b
  <2>5. PICK k \in 1..Len(m) : at[k] = a /\ 2 + k \in inMerged
    BY <1>7, <2>1
  <2>6. PICK l \in 1..Len(m) : b = 2 + l /\ at[l] \in inMain
    BY <1>8, <2>3
  <2>7. l = k
    <3>1. l <= k
      BY <2>3, <2>5, <2>6
    <3>2. at[k] <= at[l] /\ at[k] \in Nat /\ at[l] \in Nat
      BY <1>1, <2>1, <2>5, <2>6
    <3>3. ASSUME l < k PROVE FALSE
      <4>. at[l] < at[k]
        BY <1>1, <3>3 DEF Selects
      <4>. QED
        BY <3>2
    <3>. QED
      BY <3>1, <3>3
  <2>8. merged[b] = main[a]
    BY <1>1, <1>2, <2>5, <2>6, <2>7
  <2>. QED
    BY <2>4, <2>8 DEF merged
<1>. QED
  BY <1>10, <1>11

\* The lane of a request does not depend on the account it goes to: a home that
\* is current classifies every request as the Primary's home does.
THEOREM LanesArePoolWide == Spec => []LaneIsPoolWide
<1>1. Typed => LaneIsPoolWide
  <2>. SUFFICES ASSUME Typed, NEW h \in Listed, Current(h), NEW q \in Requests
       PROVE  ClassifyRequestLane(q, configs[h]) = ClassifyRequestLane(q, primary)
    BY DEF LaneIsPoolWide
  <2>1. h \in Homes
    BY DEF Typed, Listed, Range
  <2>2. primary \in Configs /\ configs[h] \in Seq(FileLines)
    BY <2>1 DEF Typed, TypeOK
  <2>3. \A key \in {"model_provider", "openai_base_url", "model"} :
          TopLevelConfigValue(configs[h], key) = TopLevelConfigValue(primary, key)
    <3>. SUFFICES ASSUME NEW key \in {"model_provider", "openai_base_url", "model"}
         PROVE  TopLevelConfigValue(configs[h], key) = TopLevelConfigValue(primary, key)
      OBVIOUS
    <3>1. key \notin CredentialKeys
      BY DEF CredentialKeys
    <3>2. TopLevelConfigValue(Merge(primary, configs[h]), key) = TopLevelConfigValue(primary, key)
      BY <2>2, <3>1, MergeKeepsTopLevel
    <3>. QED
      BY <3>2 DEF Current
  <2>4. ClassifyCodexHomeLane(configs[h]) = ClassifyCodexHomeLane(primary)
    BY <2>3 DEF ClassifyCodexHomeLane
  <2>. QED
    BY <2>4 DEF ClassifyRequestLane
<1>. QED
  BY <1>1, InitTyped, StepTyped, PTL DEF Spec

================================================================================
