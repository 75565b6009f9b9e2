--------------------------- MODULE AppRunner_proofs ---------------------------
(***************************************************************************)
(* Proofs about the application runner's completion, for every finite set *)
(* of names on $PATH and every set of typable characters: Python's string  *)
(* order is a strict total order, sorted(self.bins) lists every name once *)
(* in that order, and try_complete() always leaves the completion of the   *)
(* least name the text starts with.                                        *)
(***************************************************************************)
EXTENDS AppRunner, LeastElement, FiniteSetTheorems, SequenceTheorems, TLAPS

(* The two ways a < b holds on str: a is a proper prefix of b, or they     *)
(* first differ at position k with the smaller code point in a.            *)
Pre(a, b) == Len(a) < Len(b) /\ \A m \in 1..Len(a) : a[m] = b[m]
Diff(a, b, k) ==
  /\ k \in 1..Len(a) /\ k <= Len(b)
  /\ \A m \in 1..k - 1 : a[m] = b[m]
  /\ a[k] < b[k]

LEMMA StrLessCases ==
  ASSUME NEW a, NEW b
  PROVE  StrLess(a, b) <=> Pre(a, b) \/ \E k \in Nat : Diff(a, b, k)
BY DEF StrLess, Pre, Diff

(* No name sorts before itself.                                            *)
LEMMA StrIrreflexive ==
  ASSUME NEW a \in Seq(Nat)
  PROVE  ~StrLess(a, a)
BY DEF StrLess

(* A first difference at k with the smaller code point in a gives a < b. *)
LEMMA DiffLess ==
  ASSUME NEW a, NEW b, NEW k \in 1..Len(a), k <= Len(b),
         \A m \in 1..k - 1 : a[m] = b[m], a[k] < b[k]
  PROVE  StrLess(a, b)
BY DEF StrLess

(* The order is transitive: the four combinations of prefix and first     *)
(* difference.                                                              *)
LEMMA StrTransitive ==
  ASSUME NEW a \in Seq(Nat), NEW b \in Seq(Nat), NEW c \in Seq(Nat),
         StrLess(a, b), StrLess(b, c)
  PROVE  StrLess(a, c)
<1>1. CASE Pre(a, b) /\ Pre(b, c)
  <2>1. Pre(a, c)
    BY <1>1 DEF Pre
  <2> QED
    BY <2>1, StrLessCases
<1>2. CASE Pre(a, b) /\ \E k \in Nat : Diff(b, c, k)
  <2>1. PICK k \in Nat : Diff(b, c, k)
    BY <1>2
  <2>2. CASE Len(a) < k
    <3>1. Pre(a, c)
      BY <1>2, <2>1, <2>2 DEF Pre, Diff
    <3> QED
      BY <3>1, StrLessCases
  <2>3. CASE k <= Len(a)
    <3>0. /\ k \in 1..Len(b) /\ k <= Len(c)
          /\ \A m \in 1..k - 1 : b[m] = c[m]
          /\ b[k] < c[k]
          /\ \A m \in 1..Len(a) : a[m] = b[m]
      BY <1>2, <2>1 DEF Pre, Diff
    <3>1. k \in 1..Len(a) /\ a[k] = b[k]
      BY <2>3, <3>0
    <3>2. \A m \in 1..k - 1 : a[m] = c[m]
      BY <2>3, <3>0
    <3>3. a[k] < c[k]
      BY <3>0, <3>1
    <3> QED
      BY <3>0, <3>1, <3>2, <3>3, DiffLess
  <2> QED
    BY <2>2, <2>3
<1>3. CASE (\E k \in Nat : Diff(a, b, k)) /\ Pre(b, c)
  <2>1. PICK k \in Nat : Diff(a, b, k)
    BY <1>3
  <2>2. k \in 1..Len(a) /\ k <= Len(c)
    BY <1>3, <2>1 DEF Pre, Diff
  <2>3. \A m \in 1..k : b[m] = c[m]
    BY <1>3, <2>1 DEF Pre, Diff
  <2>4. \A m \in 1..k - 1 : a[m] = c[m]
    BY <2>1, <2>3 DEF Diff
  <2>5. a[k] < c[k]
    BY <2>1, <2>3 DEF Diff
  <2> QED
    BY <2>2, <2>4, <2>5, StrLessCases DEF Diff
<1>4. CASE (\E k \in Nat : Diff(a, b, k)) /\ \E k \in Nat : Diff(b, c, k)
  <2>1. PICK k1 \in Nat : Diff(a, b, k1)
    BY <1>4
  <2>2. PICK k2 \in Nat : Diff(b, c, k2)
    BY <1>4
  <2>0. /\ k1 \in 1..Len(a) /\ k1 <= Len(b)
        /\ k2 \in 1..Len(b) /\ k2 <= Len(c)
        /\ \A m \in 1..k1 - 1 : a[m] = b[m]
        /\ \A m \in 1..k2 - 1 : b[m] = c[m]
        /\ a[k1] < b[k1] /\ b[k2] < c[k2]
    BY <2>1, <2>2 DEF Diff
  <2>3. CASE k1 < k2
    <3>1. k1 <= Len(c) /\ b[k1] = c[k1]
      BY <2>0, <2>3
    <3>2. \A m \in 1..k1 - 1 : a[m] = c[m]
      BY <2>0, <2>3
    <3> QED
      BY <2>0, <3>1, <3>2, DiffLess
  <2>4. CASE k2 < k1
    <3>1. k2 \in 1..Len(a) /\ a[k2] = b[k2]
      BY <2>0, <2>4
    <3>2. \A m \in 1..k2 - 1 : a[m] = c[m]
      BY <2>0, <2>4
    <3> QED
      BY <2>0, <3>1, <3>2, DiffLess
  <2>5. CASE k1 = k2
    <3>0. k1 \in 1..Len(a) /\ k1 \in 1..Len(b) /\ k1 \in 1..Len(c)
      BY <2>0, <2>5
    <3>1. a[k1] \in Nat /\ b[k1] \in Nat /\ c[k1] \in Nat
      <4>1. a[k1] \in Nat
        BY <3>0, ElementOfSeq
      <4>2. b[k1] \in Nat
        BY <3>0, ElementOfSeq
      <4>3. c[k1] \in Nat
        BY <3>0, ElementOfSeq
      <4> QED
        BY <4>1, <4>2, <4>3
    <3>2. a[k1] < c[k1]
      <4>1. a[k1] < b[k1]
        BY <2>0
      <4>2. b[k1] < c[k1]
        BY <2>0, <2>5
      <4> QED
        BY <3>1, <4>1, <4>2
    <3>3. \A m \in 1..k1 - 1 : a[m] = c[m]
      BY <2>0, <2>5
    <3> QED
      BY <2>0, <2>5, <3>2, <3>3, DiffLess
  <2> QED
    BY <2>3, <2>4, <2>5
<1> QED
  BY <1>1, <1>2, <1>3, <1>4, StrLessCases

(* Two different names are ordered one way or the other: the first        *)
(* position where they differ, or else the shorter is a prefix.            *)
LEMMA StrTotal ==
  ASSUME NEW a \in Seq(Nat), NEW b \in Seq(Nat), a # b
  PROVE  StrLess(a, b) \/ StrLess(b, a)
<1> DEFINE D == {m \in 1..Len(a) : m <= Len(b) /\ a[m] # b[m]}
<1>1. CASE D # {}
  <2>0. D \subseteq Nat
    BY DEF D
  <2>1. PICK k \in D : \A j \in D : k <= j
    BY <1>1, <2>0, NatSetHasMin
  <2>2. \A m \in 1..k - 1 : a[m] = b[m]
    <3> SUFFICES ASSUME NEW m \in 1..k - 1 PROVE a[m] = b[m]
      OBVIOUS
    <3>1. m \in 1..Len(a) /\ m <= Len(b)
      BY <2>1 DEF D
    <3>2. m \notin D
      BY <2>1
    <3> QED
      BY <3>1, <3>2 DEF D
  <2>3. Diff(a, b, k) \/ Diff(b, a, k)
    BY <2>1, <2>2 DEF Diff, D
  <2> QED
    BY <2>3, StrLessCases
<1>2. CASE D = {}
  <2>0. \A m \in 1..Len(a) : m <= Len(b) => a[m] = b[m]
    BY <1>2 DEF D
  <2>1. CASE Len(a) = Len(b)
    <3>1. \A i \in 1..Len(a) : a[i] = b[i]
      BY <2>0, <2>1
    <3>2. a = b
      BY <2>1, <3>1, SeqEqual
    <3> QED
      BY <3>2
  <2>2. CASE Len(a) # Len(b)
    <3>1. Pre(a, b) \/ Pre(b, a)
      BY <2>0, <2>2 DEF Pre
    <3> QED
      BY <3>1, StrLessCases
  <2> QED
    BY <2>1, <2>2
<1> QED
  BY <1>1, <1>2
-----------------------------------------------------------------------------
(* sorted(self.bins)                                                       *)

(* The names that sort before b.                                           *)
Before(b) == {c \in Bins : StrLess(c, b)}

LEMMA BinsFinite ==
  /\ IsFiniteSet(Bins) /\ Bins \subseteq Seq(Nat)
  /\ Cardinality(Bins) \in Nat
BY RunnerAssumption, FS_CardinalityType

(* A name's rank is a place in the list: 0 up to the number of names - 1. *)
LEMMA RankRange ==
  ASSUME NEW b \in Bins
  PROVE  Rank(b) \in 0..Cardinality(Bins) - 1
<1>1. Before(b) \subseteq Bins \ {b}
  BY BinsFinite, StrIrreflexive DEF Before
<1>2. IsFiniteSet(Bins \ {b}) /\ Cardinality(Bins \ {b}) = Cardinality(Bins) - 1
  BY BinsFinite, FS_RemoveElement
<1>3. IsFiniteSet(Before(b))
      /\ Cardinality(Before(b)) <= Cardinality(Bins \ {b})
  BY <1>1, <1>2, FS_Subset
<1>4. Cardinality(Before(b)) \in Nat
  BY <1>3, FS_CardinalityType
<1> QED
  BY <1>2, <1>3, <1>4, BinsFinite DEF Rank, Before

(* A name that sorts before another has the smaller rank.                 *)
LEMMA RankMonotone ==
  ASSUME NEW b1 \in Bins, NEW b2 \in Bins, StrLess(b1, b2)
  PROVE  Rank(b1) < Rank(b2)
<1>1. Before(b1) \subseteq Before(b2) \ {b1}
  BY BinsFinite, StrIrreflexive, StrTransitive DEF Before
<1>2. b1 \in Before(b2)
  BY DEF Before
<1>3. IsFiniteSet(Before(b2))
  BY BinsFinite, FS_Subset DEF Before
<1>4. IsFiniteSet(Before(b2) \ {b1})
      /\ Cardinality(Before(b2) \ {b1}) = Cardinality(Before(b2)) - 1
  BY <1>2, <1>3, FS_RemoveElement
<1>5. Cardinality(Before(b1)) <= Cardinality(Before(b2) \ {b1})
  BY <1>1, <1>4, FS_Subset
<1>6. Cardinality(Before(b1)) \in Nat /\ Cardinality(Before(b2)) \in Nat
  BY <1>3, <1>4, <1>1, FS_Subset, FS_CardinalityType
<1> QED
  BY <1>4, <1>5, <1>6 DEF Rank, Before

(* Different names have different ranks.                                   *)
LEMMA RankInjective ==
  ASSUME NEW b1 \in Bins, NEW b2 \in Bins, b1 # b2
  PROVE  Rank(b1) # Rank(b2)
<1>1. StrLess(b1, b2) \/ StrLess(b2, b1)
  BY BinsFinite, StrTotal
<1>2. Rank(b1) \in Int /\ Rank(b2) \in Int
  BY RankRange
<1> QED
  BY <1>1, <1>2, RankMonotone

(* Every place in the list is the rank of some name.                       *)
LEMMA RankOnto ==
  ASSUME NEW k \in 0..Cardinality(Bins) - 1
  PROVE  \E b \in Bins : Rank(b) = k
<1> DEFINE n == Cardinality(Bins)
           f == [b \in Bins |-> Rank(b)]
<1>1. n \in Nat
  BY BinsFinite
<1>2. IsFiniteSet(0..n - 1) /\ Cardinality(0..n - 1) = n
  BY <1>1, FS_Interval
<1>3. f \in Injection(Bins, 0..n - 1)
  BY RankRange, RankInjective DEF Injection, IsInjective
<1>4. f \in Surjection(Bins, 0..n - 1)
  BY <1>2, <1>3, FS_Injection
<1> QED
  BY <1>4 DEF Surjection

(* The k-th entry of sorted(self.bins) is a name of rank k - 1.            *)
LEMMA SortedEntry ==
  ASSUME NEW k \in 1..Cardinality(Bins)
  PROVE  /\ SortedBins[k] \in Bins
         /\ Rank(SortedBins[k]) = k - 1
<1>0. k - 1 \in 0..Cardinality(Bins) - 1
  BY BinsFinite
<1>1. \E b \in Bins : Rank(b) = k - 1
  BY <1>0, RankOnto
<1> QED
  BY <1>1 DEF SortedBins

(* The list is strictly increasing in Python's string order.               *)
LEMMA SortedIncreasing ==
  ASSUME NEW i \in 1..Cardinality(Bins), NEW j \in 1..Cardinality(Bins), i < j
  PROVE  StrLess(SortedBins[i], SortedBins[j])
<1>1. SortedBins[i] # SortedBins[j]
  BY SortedEntry
<1>2. ~StrLess(SortedBins[j], SortedBins[i])
  <2>1. Rank(SortedBins[i]) < Rank(SortedBins[j])
    BY SortedEntry
  <2> QED
    BY <2>1, SortedEntry, RankMonotone, RankRange
<1> QED
  BY <1>1, <1>2, SortedEntry, BinsFinite, StrTotal

(* Every name is in the list, at the place its rank says.                  *)
LEMMA SortedCovers ==
  ASSUME NEW b \in Bins
  PROVE  SortedBins[Rank(b) + 1] = b
<1>1. Rank(b) + 1 \in 1..Cardinality(Bins)
  BY RankRange, BinsFinite
<1>2. Rank(SortedBins[Rank(b) + 1]) = Rank(b)
  BY <1>1, SortedEntry, RankRange
<1> QED
  BY <1>1, <1>2, SortedEntry, RankInjective
-----------------------------------------------------------------------------
(* try_complete()                                                          *)

(* One of two names sorting before the other excludes the converse.        *)
LEMMA StrAsymmetric ==
  ASSUME NEW a \in Seq(Nat), NEW b \in Seq(Nat), StrLess(a, b)
  PROVE  ~StrLess(b, a)
BY StrTransitive, StrIrreflexive

(* b[len(d):] after d gives b back when b starts with d.                   *)
LEMMA SuffixRestores ==
  ASSUME NEW d \in Seq(Nat), NEW b \in Seq(Nat), StartsWith(b, d)
  PROVE  /\ SubSeq(b, Len(d) + 1, Len(b)) \in Seq(Nat)
         /\ d \o SubSeq(b, Len(d) + 1, Len(b)) = b
<1> DEFINE t == SubSeq(b, Len(d) + 1, Len(b))
<1>1. t \in Seq(Nat) /\ Len(t) = Len(b) - Len(d)
  BY DEF StartsWith
<1>2. \A i \in 1..Len(t) : t[i] = b[Len(d) + i]
  BY <1>1 DEF StartsWith
<1>3. d \o t \in Seq(Nat) /\ Len(d \o t) = Len(b)
  BY <1>1
<1>4. \A i \in 1..Len(b) : (d \o t)[i] = b[i]
  BY <1>1, <1>2 DEF StartsWith
<1> QED
  BY <1>1, <1>3, <1>4, SeqEqual

(* What try_complete() leaves: nothing for empty text or no match, else   *)
(* the rest of the least name, in string order, that the text starts      *)
(* with.                                                                   *)
TryCompleteOK(d) ==
  LET r == TryComplete(d)
  IN  /\ r.completed \in BOOLEAN /\ r.complete \in Seq(Nat)
      /\ d = <<>> => ~r.completed /\ r.complete = <<>>
      /\ ~r.completed => r.complete = <<>>
      /\ r.completed => Matches(d) # {} /\ d \o r.complete = LeastMatch(d)

LEMMA TryCompleteCorrect ==
  ASSUME NEW d \in Seq(Nat)
  PROVE  TryCompleteOK(d)
<1> DEFINE S    == SortedBins
           n    == Cardinality(Bins)
           hits == {i \in DOMAIN S : StartsWith(S[i], d)}
           i0   == CHOOSE i \in hits : \A j \in hits : i <= j
<1>1. DOMAIN S = 1..n
  BY DEF SortedBins
<1>2. CASE d = <<>> \/ hits = {}
  BY <1>2 DEF TryCompleteOK, TryComplete
<1>3. CASE d # <<>> /\ hits # {}
  <2>0. hits \subseteq Nat
    BY <1>1, BinsFinite DEF hits
  <2>1. \E i \in hits : \A j \in hits : i <= j
    BY <1>3, <2>0, NatSetHasMin
  <2>2. i0 \in hits /\ \A j \in hits : i0 <= j
    BY <2>1
  <2> DEFINE b == S[i0]
  <2>3. b \in Bins /\ StartsWith(b, d)
    BY <1>1, <2>2, SortedEntry
  <2>4. b \in Matches(d)
    BY <2>3 DEF Matches
  <2>5. \A o \in Matches(d) : ~StrLess(o, b)
    <3> SUFFICES ASSUME NEW o \in Matches(d) PROVE ~StrLess(o, b)
      OBVIOUS
    <3>1. o \in Bins /\ S[Rank(o) + 1] = o /\ Rank(o) + 1 \in 1..n
      BY RankRange, SortedCovers, BinsFinite DEF Matches
    <3>2. Rank(o) + 1 \in hits
      BY <1>1, <3>1 DEF Matches
    <3>3. i0 <= Rank(o) + 1 /\ i0 \in 1..n
      BY <1>1, <2>2, <3>2
    <3>4. CASE i0 = Rank(o) + 1
      <4>1. b = o /\ o \in Seq(Nat)
        BY <3>1, <3>4, BinsFinite DEF b
      <4> QED
        BY <4>1, StrIrreflexive
    <3>5. CASE i0 < Rank(o) + 1
      <4>1. StrLess(b, o)
        BY <3>1, <3>3, <3>5, SortedIncreasing
      <4> QED
        BY <4>1, <2>3, <3>1, BinsFinite, StrAsymmetric
    <3> QED
      BY <3>1, <3>3, <3>4, <3>5
  <2>6. LeastMatch(d) = b
    <3>1. \E x \in Matches(d) : \A o \in Matches(d) : ~StrLess(o, x)
      BY <2>4, <2>5
    <3> DEFINE x == LeastMatch(d)
    <3>2. x \in Matches(d) /\ \A o \in Matches(d) : ~StrLess(o, x)
      BY <3>1 DEF LeastMatch
    <3>3. x \in Bins /\ b \in Bins
      BY <3>2, <2>3 DEF Matches
    <3> QED
      BY <2>4, <2>5, <3>2, <3>3, BinsFinite, StrTotal
  <2>7. TryComplete(d) = [complete |-> SubSeq(b, Len(d) + 1, Len(b)),
                          completed |-> TRUE]
    BY <1>3 DEF TryComplete
  <2>8. /\ SubSeq(b, Len(d) + 1, Len(b)) \in Seq(Nat)
        /\ d \o SubSeq(b, Len(d) + 1, Len(b)) = b
    BY <2>3, BinsFinite, SuffixRestores
  <2>9. /\ TryComplete(d).completed = TRUE
        /\ TryComplete(d).complete = SubSeq(b, Len(d) + 1, Len(b))
    BY <2>7
  <2> QED
    BY <1>3, <2>4, <2>6, <2>8, <2>9 DEF TryCompleteOK
<1> QED
  BY <1>2, <1>3
-----------------------------------------------------------------------------
(* The runner's invariant                                                  *)

(* The invariant the completion proof carries: the runner's state is      *)
(* well typed and the completion shown is current.                         *)
RunnerInv == RunnerTypeOK /\ CompletionCurrent

(* Typed text is a string of code points.                                 *)
LEMMA TypedIsStr ==
  ASSUME NEW s \in Seq(Chars)
  PROVE  s \in Seq(Nat)
<1>1. Chars \subseteq Nat
  BY RunnerAssumption
<1>2. \A i \in 1..Len(s) : s[i] \in Nat
  BY <1>1, ElementOfSeq
<1> QED
  BY <1>2

(* Setting the text to d and calling try_complete() leaves a current,     *)
(* well-typed completion.                                                   *)
LEMMA SetDataOK ==
  ASSUME NEW d \in Seq(Chars), SetData(d)
  PROVE  /\ data' \in Seq(Chars) /\ completed' \in BOOLEAN
         /\ complete' \in Seq(Nat)
         /\ data' = <<>> => ~completed' /\ complete' = <<>>
         /\ ~completed' => complete' = <<>>
         /\ completed' => /\ Matches(data') # {}
                          /\ data' \o complete' = LeastMatch(data')
<1>1. d \in Seq(Nat)
  BY TypedIsStr
<1>2. TryCompleteOK(d)
  BY <1>1, TryCompleteCorrect
<1> QED
  BY <1>2 DEF SetData, TryCompleteOK

(* Every step of the runner, opening it or any key_action(), keeps         *)
(* RunnerInv.                                                               *)
LEMMA RunnerStep ==
  ASSUME RunnerInv, [RunnerNext]_runnervars
  PROVE  RunnerInv'
<1>1. CASE Open
  BY <1>1, EmptySeq DEF Open, RunnerInv, RunnerTypeOK, CompletionCurrent
<1>2. ASSUME runner_open, NEW ev \in KeyInputs, key_action(ev)
      PROVE  RunnerInv'
  <2>0. data \in Seq(Chars) /\ complete \in Seq(Nat)
    BY DEF RunnerInv, RunnerTypeOK
  <2>1. CASE ev.action # "down" /\ UNCHANGED runnervars
    BY <2>1 DEF RunnerInv, RunnerTypeOK, CompletionCurrent, runnervars
  <2>2. CASE /\ ev.action = "down" /\ ev.keycode = "Escape"
             /\ Close /\ UNCHANGED <<data, complete, completed, launched>>
    BY <2>2 DEF Close, RunnerInv, RunnerTypeOK, CompletionCurrent
  <2>3. CASE /\ ev.action = "down" /\ ev.keycode = "Del"
             /\ complete' = <<>> /\ completed' = FALSE
             /\ UNCHANGED <<runner_open, data, launched>>
    BY <2>3, EmptySeq DEF RunnerInv, RunnerTypeOK, CompletionCurrent
  <2>4. CASE /\ ev.action = "down" /\ ev.keycode = "Other" /\ ev.key = NUL
             /\ UNCHANGED runnervars
    BY <2>4 DEF RunnerInv, RunnerTypeOK, CompletionCurrent, runnervars
  <2>5. CASE /\ ev.action = "down" /\ ev.keycode = "Other" /\ ev.key = LF
             /\ launched' = IF data # <<>>
                            THEN [cmd |-> data \o complete, terminal |-> ev.shift]
                            ELSE launched
             /\ Close /\ UNCHANGED <<data, complete, completed>>
    <3>1. data \o complete \in Seq(Nat)
      BY <2>0, TypedIsStr
    <3> QED
      BY <2>5, <3>1 DEF Close, KeyInputs, RunnerInv, RunnerTypeOK,
                        CompletionCurrent
  <2>6. CASE /\ ev.action = "down" /\ ev.keycode = "Other" /\ ev.key = BS
             /\ backspace
             /\ UNCHANGED <<runner_open, launched>>
    <3>1. CASE data # <<>> /\ SetData(SubSeq(data, 1, Len(data) - 1))
      <4>1. SubSeq(data, 1, Len(data) - 1) \in Seq(Chars)
        BY <2>0, <3>1
      <4>2. RunnerTypeOK' /\ CompletionCurrent'
        BY <2>6, <3>1, <4>1, SetDataOK DEF RunnerInv, RunnerTypeOK,
                                          CompletionCurrent
      <4> QED
        BY <4>2 DEF RunnerInv
    <3>2. CASE data = <<>> /\ UNCHANGED <<data, complete, completed>>
      BY <2>6, <3>2 DEF RunnerInv, RunnerTypeOK, CompletionCurrent
    <3> QED
      BY <2>6, <3>1, <3>2 DEF backspace
  <2>7. CASE /\ ev.action = "down" /\ ev.keycode = "Other" /\ ev.key \in Chars
             /\ Len(data) < MaxData
             /\ SetData(Append(data, ev.key))
             /\ UNCHANGED <<runner_open, launched>>
    <3>1. Append(data, ev.key) \in Seq(Chars)
      BY <2>0, <2>7
    <3>2. RunnerTypeOK' /\ CompletionCurrent'
      BY <1>2, <2>7, <3>1, SetDataOK DEF RunnerInv, RunnerTypeOK,
                                        CompletionCurrent
    <3> QED
      BY <3>2 DEF RunnerInv
  <2> QED
    BY <1>2, <2>1, <2>2, <2>3, <2>4, <2>5, <2>6, <2>7 DEF key_action
<1>3. CASE UNCHANGED runnervars
  BY <1>3 DEF RunnerInv, RunnerTypeOK, CompletionCurrent, runnervars
<1> QED
  BY <1>1, <1>2, <1>3 DEF RunnerNext

(* The runner starts closed, with empty text and no launch.                *)
LEMMA RunnerInitOK ==
  RunnerInit => RunnerInv
<1> SUFFICES ASSUME RunnerInit PROVE RunnerInv
  OBVIOUS
<1>1. <<>> \in Seq(Chars) /\ <<>> \in Seq(Nat)
  BY EmptySeq
<1>2. launched \in [cmd : Seq(Nat), terminal : BOOLEAN]
  BY <1>1 DEF RunnerInit, NoLaunch
<1>3. RunnerTypeOK
  BY <1>1, <1>2 DEF RunnerInit, RunnerTypeOK
<1>4. CompletionCurrent
  BY DEF RunnerInit, CompletionCurrent
<1> QED
  BY <1>3, <1>4 DEF RunnerInv

(* The spec's runner invariant holds in every state the runner reaches,   *)
(* for every finite set of names and every bound on the text: the         *)
(* completion shown is cleared or is the rest of the least name, in        *)
(* Python's string order, that the typed text starts with, whatever mix of *)
(* typing, backspaces, DEL, launches and reopening came before.            *)
THEOREM CompletionCorrect == RunnerSpec => []CompletionCurrent
<1>1. RunnerInit => RunnerInv
  BY RunnerInitOK
<1>2. RunnerInv /\ [RunnerNext]_runnervars => RunnerInv'
  BY RunnerStep
<1>3. RunnerInv => CompletionCurrent
  BY DEF RunnerInv
<1> QED
  BY <1>1, <1>2, <1>3, PTL DEF RunnerSpec
=============================================================================
