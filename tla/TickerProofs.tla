---------------------------- MODULE TickerProofs ----------------------------
(***************************************************************************)
(* Proofs about MSTicker.tla and about VideoMixer.tla, the filter that the *)
(* video ticker runs.                                                      *)
(*                                                                         *)
(* The ticker: for any filters, links and graphs that the assumptions of   *)
(* MSTicker.tla allow and any count at which its ticks start again.        *)
(*                                                                         *)
(* The mixer: for any number of inputs and layouts, any timeout and any    *)
(* count at which the counters start again.                                *)
(***************************************************************************)
EXTENDS MSTicker, VideoMixer, FiniteSetTheorems, FunctionTheorems, SequenceTheorems,
        WellFoundedInduction, TLAPS

(* No link that is made leads into or out of S.                            *)
Whole(S, links) == \A l \in links : l[1] \in S <=> l[2] \in S

(* What the assumptions say of links.                                      *)
LEMMA LinkFacts ==
  /\ \A l \in Links : /\ l[1] \in Filters /\ l[2] \in Filters \ Sources
                      /\ l = <<l[1], l[2]>>
                      /\ l[2] \in Decoders => l[1] = Receiver
  /\ \A d \in Decoders : <<Receiver, d>> \in Links /\ d \in Filters \ Sources
<1>1. \A l \in Links : l \in Filters \X Filters /\ l[2] \notin Sources
  BY TickerAssumption DEF Links
<1>2. \A l \in Links : l[1] \in Filters /\ l[2] \in Filters /\ l = <<l[1], l[2]>>
  BY <1>1
<1>3. \A d \in Decoders : <<Receiver, d>> \in Links
  BY TickerAssumption
<1>4. QED BY <1>1, <1>2, <1>3, TickerAssumption

(* The least set is one of those it is the least of.                       *)
LEMMA LeastFacts ==
  ASSUME NEW S \in SUBSET Filters, NEW rel \in SUBSET (Filters \X Filters)
  PROVE  /\ Least(S, rel) \in SUBSET Filters /\ S \subseteq Least(S, rel)
         /\ Closed(Least(S, rel), rel)
         /\ \A T \in SUBSET Filters : S \subseteq T /\ Closed(T, rel) => Least(S, rel) \subseteq T
<1>1. \A f : f \in Least(S, rel) <=>
        f \in Filters /\ \A T \in SUBSET Filters : S \subseteq T /\ Closed(T, rel) => f \in T
  BY DEF Least
<1>2. Closed(Least(S, rel), rel)
  BY <1>1 DEF Closed
<1>3. QED BY <1>1, <1>2

(* What is found from f is the least part of the graphs that is whole and  *)
(* contains f.                                                             *)
LEMMA NeighboursFacts ==
  ASSUME linked \in SUBSET Links, NEW f \in Filters
  PROVE  /\ Neighbours(f) \in SUBSET Filters /\ f \in Neighbours(f)
         /\ Whole(Neighbours(f), linked)
         /\ \A T \in SUBSET Filters : f \in T /\ Whole(T, linked) => Neighbours(f) \subseteq T
<1>1. BothWays \in SUBSET (Filters \X Filters)
  BY LinkFacts DEF BothWays
<1>2. ASSUME NEW T \in SUBSET Filters
      PROVE  Closed(T, BothWays) <=> Whole(T, linked)
  <2>1. \A l \in linked : l \in BothWays /\ <<l[2], l[1]>> \in BothWays
    BY DEF BothWays
  <2>2. Closed(T, BothWays) => Whole(T, linked)
    BY <2>1 DEF Closed, Whole
  <2>3. \A m \in BothWays : \E l \in linked : m = l \/ m = <<l[2], l[1]>>
    BY DEF BothWays
  <2>4. Whole(T, linked) => Closed(T, BothWays)
    BY <2>3 DEF Closed, Whole
  <2>5. QED BY <2>2, <2>4
<1>3. QED BY <1>1, <1>2, LeastFacts DEF Neighbours

(* What the sources lead to without passing a part of the graph that is    *)
(* taken away, they still lead to.                                         *)
LEMMA StillLedTo ==
  ASSUME NEW S \in SUBSET Filters, NEW S2 \in SUBSET Filters, NEW D \in SUBSET Filters,
         NEW links \in SUBSET Links, NEW links2 \in SUBSET Links,
         S \subseteq S2 \cup D, Whole(D, links),
         \A l \in links : l \in links2 \/ l[1] \in D
  PROVE  Least(S, links) \subseteq Least(S2, links2) \cup D
<1>1. links \in SUBSET (Filters \X Filters) /\ links2 \in SUBSET (Filters \X Filters)
  BY DEF Links
<1>2. DEFINE T == Least(S2, links2)
<1>3. T \in SUBSET Filters /\ S2 \subseteq T /\ Closed(T, links2)
  BY <1>1, LeastFacts
<1>. HIDE DEF T
<1>4. Closed(T \cup D, links)
  BY <1>3 DEF Closed, Whole
<1>5. S \subseteq T \cup D /\ T \cup D \in SUBSET Filters
  BY <1>3
<1>6. Least(S, links) \subseteq T \cup D
  BY <1>1, <1>4, <1>5, LeastFacts
<1>7. QED BY <1>6 DEF T

(* Kept keeps the elements at the places K, and no two of one place.       *)
LEMMA KeptFacts ==
  ASSUME NEW T, NEW s \in Seq(T), NEW K \in SUBSET DOMAIN s
  PROVE  /\ Kept(s, K) \in Seq(T)
         /\ Range(Kept(s, K)) = {s[i] : i \in K}
         /\ IsInjective(s) => IsInjective(Kept(s, K))
<1>. DEFINE n == Cardinality(K)
            below(i) == {j \in K : j <= i}
            rank == [i \in K |-> Cardinality(below(i))]
<1>1. K \subseteq Nat /\ IsFiniteSet(K) /\ n \in Nat
  <2>1. DOMAIN s = 1 .. Len(s) /\ Len(s) \in Nat
    OBVIOUS
  <2>2. IsFiniteSet(1 .. Len(s))
    BY <2>1, FS_Interval
  <2>3. QED BY <2>1, <2>2, FS_Subset, FS_CardinalityType
<1>2. ASSUME NEW i \in K
      PROVE  Cardinality(below(i)) \in 1 .. n
  <2>1. below(i) \in SUBSET K /\ i \in below(i)
    BY <1>1
  <2>2. IsFiniteSet(below(i)) /\ Cardinality(below(i)) <= n
    BY <1>1, <2>1, FS_Subset
  <2>3. Cardinality(below(i)) \in Nat /\ Cardinality(below(i)) # 0
    BY <2>1, <2>2, FS_CardinalityType, FS_EmptySet
  <2>4. QED BY <1>1, <2>2, <2>3
<1>3. ASSUME NEW i \in K, NEW j \in K, i < j
      PROVE  Cardinality(below(i)) # Cardinality(below(j))
  <2>1. below(i) \in SUBSET below(j) /\ below(i) # below(j)
    <3>1. j \in below(j) /\ j \notin below(i)
      BY <1>1, <1>3
    <3>2. \A k \in K : k <= i => k <= j
      BY <1>1, <1>3
    <3>3. QED BY <3>1, <3>2
  <2>2. IsFiniteSet(below(j))
    BY <1>1, FS_Subset
  <2>3. QED BY <2>1, <2>2, FS_Subset
<1>4. rank \in Injection(K, 1 .. n)
  <2>1. rank \in [K -> 1 .. n]
    BY <1>2
  <2>2. \A i, j \in K : rank[i] = rank[j] => i = j
    <3>1. \A i, j \in K : i < j \/ j < i \/ i = j
      BY <1>1
    <3>2. QED BY <3>1, <1>3
  <2>3. QED BY <2>1, <2>2 DEF Injection, IsInjective
<1>5. rank \in Surjection(K, 1 .. n)
  <2>1. IsFiniteSet(1 .. n) /\ Cardinality(1 .. n) = n
    <3>1. \A m \in Nat : IsFiniteSet(1 .. m) /\ Cardinality(1 .. m) = m
      BY FS_Interval
    <3>2. QED BY <3>1, <1>1
  <2>2. QED BY <1>4, <2>1, FS_Injection
<1>6. ASSUME NEW k \in 1 .. n
      PROVE  Nth(K, k) \in K /\ Cardinality(below(Nth(K, k))) = k
  <2>1. \E i \in K : Cardinality(below(i)) = k
    BY <1>5 DEF Surjection
  <2>2. QED BY <2>1 DEF Nth
<1>7. ASSUME NEW i \in K
      PROVE  \E k \in 1 .. n : Nth(K, k) = i
  <2>1. DEFINE k == Cardinality(below(i))
  <2>2. k \in 1 .. n
    BY <1>2
  <2>3. rank[Nth(K, k)] = rank[i] /\ Nth(K, k) \in K
    BY <2>2, <1>6
  <2>4. Nth(K, k) = i
    BY <2>3, <1>4 DEF Injection, IsInjective
  <2>5. QED BY <2>2, <2>4
<1>. HIDE DEF below, rank
<1>8. Kept(s, K) = [k \in 1 .. n |-> s[Nth(K, k)]]
  BY DEF Kept
<1>9. \A i \in K : s[i] \in T
  OBVIOUS
<1>. HIDE DEF n
<1>10. Kept(s, K) \in Seq(T)
  BY <1>1, <1>6, <1>8, <1>9, IsASeq
<1>11. Range(Kept(s, K)) = {s[i] : i \in K}
  BY <1>6, <1>7, <1>8 DEF Range
<1>12. IsInjective(s) => IsInjective(Kept(s, K))
  <2>. SUFFICES ASSUME IsInjective(s), NEW k \in 1 .. n, NEW m \in 1 .. n,
                       s[Nth(K, k)] = s[Nth(K, m)]
                PROVE  k = m
    BY <1>8 DEF IsInjective
  <2>1. Nth(K, k) = Nth(K, m)
    BY <1>6 DEF IsInjective
  <2>2. QED BY <2>1, <1>6
<1>13. QED BY <1>10, <1>11, <1>12

(* The elements of sequences.                                              *)
LEMMA SeqRangeFacts ==
  ASSUME NEW T, NEW s \in Seq(T)
  PROVE  /\ Range(<<>>) = {} /\ Range(s) \in SUBSET T
         /\ \A t \in Seq(T) : s \o t \in Seq(T) /\ Range(s \o t) = Range(s) \cup Range(t)
         /\ \A x \in T : <<x>> \o s \in Seq(T) /\ Range(<<x>> \o s) = {x} \cup Range(s)
         /\ s # <<>> => /\ Head(s) \in T /\ Tail(s) \in Seq(T)
                        /\ Range(s) = {Head(s)} \cup Range(Tail(s))
<1>1. Range(<<>>) = {} /\ Range(s) \in SUBSET T
  BY DEF Range
<1>2. ASSUME NEW u \in Seq(T), NEW t \in Seq(T)
      PROVE  u \o t \in Seq(T) /\ Range(u \o t) = Range(u) \cup Range(t)
  BY ConcatProperties, RangeConcatenation
<1>3. ASSUME NEW x \in T
      PROVE  <<x>> \in Seq(T) /\ Range(<<x>>) = {x}
  BY DEF Range
<1>4. s # <<>> => Head(s) \in T /\ Tail(s) \in Seq(T) /\ s = <<Head(s)>> \o Tail(s)
  OBVIOUS
<1>5. ASSUME NEW x \in T, NEW t \in Seq(T)
      PROVE  <<x>> \o t \in Seq(T) /\ Range(<<x>> \o t) = {x} \cup Range(t)
  <2>1. <<x>> \in Seq(T) /\ Range(<<x>>) = {x}
    BY <1>3
  <2>2. <<x>> \o t \in Seq(T) /\ Range(<<x>> \o t) = Range(<<x>>) \cup Range(t)
    BY <1>2, <2>1, Zenon
  <2>3. QED BY <2>1, <2>2, Zenon
<1>6. \A x \in T : <<x>> \o s \in Seq(T) /\ Range(<<x>> \o s) = {x} \cup Range(s)
  BY <1>5, Zenon
<1>7. s # <<>> => Range(s) = {Head(s)} \cup Range(Tail(s))
  BY <1>4, <1>5, Zenon
<1>8. QED BY <1>1, <1>2, <1>4, <1>6, <1>7, Zenon

(* Two lists without repetitions that share nothing make another.          *)
LEMMA ConcatInjective ==
  ASSUME NEW T, NEW s \in Seq(T), NEW t \in Seq(T), IsInjective(s), IsInjective(t),
         Range(s) \cap Range(t) = {}
  PROVE  IsInjective(s \o t)
<1>1. /\ s \o t \in Seq(T) /\ Len(s \o t) = Len(s) + Len(t)
      /\ \A i \in 1 .. Len(s) + Len(t) : (s \o t)[i] = IF i <= Len(s) THEN s[i] ELSE t[i - Len(s)]
  BY ConcatProperties
<1>2. Len(s) \in Nat /\ Len(t) \in Nat
  OBVIOUS
<1>3. DOMAIN s = 1 .. Len(s) /\ DOMAIN t = 1 .. Len(t) /\ DOMAIN (s \o t) = 1 .. Len(s) + Len(t)
  BY <1>1, LenProperties
<1>4. \A i \in 1 .. Len(s), j \in 1 .. Len(t) : s[i] # t[j]
  BY <1>3 DEF Range
<1>5. \A i \in 1 .. Len(s) + Len(t) :
        (i <= Len(s) /\ i \in 1 .. Len(s)) \/ (~(i <= Len(s)) /\ i - Len(s) \in 1 .. Len(t))
  BY <1>2
<1>. SUFFICES ASSUME NEW i \in 1 .. Len(s) + Len(t), NEW j \in 1 .. Len(s) + Len(t),
                     (s \o t)[i] = (s \o t)[j]
              PROVE  i = j
  BY <1>3 DEF IsInjective
<1>6. CASE i <= Len(s) /\ j <= Len(s)
  BY <1>1, <1>3, <1>5, <1>6 DEF IsInjective
<1>7. CASE ~(i <= Len(s)) /\ ~(j <= Len(s))
  <2>1. t[i - Len(s)] = t[j - Len(s)]
    BY <1>1, <1>7
  <2>2. i - Len(s) = j - Len(s)
    BY <1>3, <1>5, <1>7, <2>1 DEF IsInjective
  <2>3. QED BY <1>2, <2>2
<1>8. QED BY <1>1, <1>5, <1>6, <1>7, <1>4

(* From a list without repetitions RemoveAll removes all.                  *)
LEMMA RemoveAllFacts ==
  ASSUME NEW T, NEW list \in Seq(T), IsInjective(list), NEW S
  PROVE  /\ RemoveAll(list, S) \in Seq(T)
         /\ Range(RemoveAll(list, S)) = Range(list) \ S
         /\ IsInjective(RemoveAll(list, S))
<1>1. DEFINE K == {i \in DOMAIN list : list[i] \in S => \E j \in 1 .. i - 1 : list[j] = list[i]}
<1>2. \A i \in DOMAIN list : \A j \in 1 .. i - 1 : j \in DOMAIN list /\ j # i
  OBVIOUS
<1>3. K = {i \in DOMAIN list : list[i] \notin S}
  BY <1>2 DEF IsInjective
<1>4. {list[i] : i \in K} = Range(list) \ S
  BY <1>3 DEF Range
<1>5. K \in SUBSET DOMAIN list
  OBVIOUS
<1>6. RemoveAll(list, S) = Kept(list, K)
  BY DEF RemoveAll
<1>. HIDE DEF K
<1>7. QED BY <1>4, <1>5, <1>6, KeptFacts

(* The outputs of a filter are those it is linked to.                      *)
LEMMA OutputsOfFacts ==
  ASSUME NEW f \in Filters, NEW links \in SUBSET Links
  PROVE  /\ OutputsOf(f, links) \in Seq(Filters)
         /\ Range(OutputsOf(f, links)) = {g \in Filters : <<f, g>> \in links}
<1>1. DEFINE s == OutputPins[f]
             K == {i \in DOMAIN s : <<f, s[i]>> \in links}
<1>2. s \in Seq(Filters) /\ K \in SUBSET DOMAIN s
  BY TickerAssumption
<1>3. OutputsOf(f, links) = Kept(s, K)
  BY DEF OutputsOf
<1>4. \A g \in Filters : <<f, g>> \in links => \E i \in DOMAIN s : s[i] = g
  BY DEF Links
<1>5. \A i \in DOMAIN s : s[i] \in Filters
  BY <1>2
<1>6. {s[i] : i \in K} = {g \in Filters : <<f, g>> \in links}
  BY <1>4, <1>5
<1>. HIDE DEF s, K
<1>7. QED BY <1>2, <1>3, <1>6, KeptFacts

(* A sequence of SetToSeqs(S) lists S, each element once.                  *)
LEMMA SetToSeqsFacts ==
  ASSUME NEW S \in SUBSET Filters, NEW s \in SetToSeqs(S)
  PROVE  s \in Seq(Filters) /\ Range(s) = S /\ IsInjective(s)
<1>1. DEFINE n == Cardinality(S)
<1>2. IsFiniteSet(S) /\ n \in Nat
  BY TickerAssumption, FS_Subset, FS_CardinalityType
<1>3. s \in [1 .. n -> S] /\ \A i, j \in 1 .. n : i # j => s[i] # s[j]
  BY DEF SetToSeqs
<1>4. IsFiniteSet(1 .. n) /\ Cardinality(1 .. n) = n
  <2>1. \A m \in Nat : IsFiniteSet(1 .. m) /\ Cardinality(1 .. m) = m
    BY FS_Interval
  <2>2. QED BY <1>2, <2>1
<1>5. Cardinality(S) = n
  OBVIOUS
<1>. HIDE DEF n
<1>6. s \in Injection(1 .. n, S) /\ IsInjective(s)
  BY <1>3 DEF Injection, IsInjective
<1>7. s \in Surjection(1 .. n, S)
  BY <1>2, <1>4, <1>5, <1>6, FS_Injection
<1>8. Range(s) = S
  BY <1>3, <1>7 DEF Range, Surjection
<1>9. s \in Seq(Filters)
  BY <1>2, <1>3
<1>10. QED BY <1>6, <1>8, <1>9

(* d makes way for e: d is renamed.                                        *)
Renamed(d, e, f) == IF f = d THEN e ELSE f

LEMMA ReplacedFacts ==
  ASSUME NEW links \in SUBSET Links, NEW d \in Decoders, NEW e \in Decoders,
         e \notin EndsOf(links), <<Receiver, d>> \in links
  PROVE  /\ Replaced(links, d, e) \in SUBSET Links
         /\ d # e /\ e \notin Sources /\ d \notin Sources /\ Receiver # d /\ Receiver # e
         /\ \A l \in links : /\ l[1] # e /\ l[2] # e
                             /\ <<Renamed(d, e, l[1]), Renamed(d, e, l[2])>> \in Replaced(links, d, e)
         /\ \A m \in Replaced(links, d, e) :
              \E l \in links : m[1] = Renamed(d, e, l[1]) /\ m[2] = Renamed(d, e, l[2])
         /\ \A l \in links : l[2] = d => l[1] = Receiver
         /\ <<Receiver, e>> \in Replaced(links, d, e)
         /\ d \notin EndsOf(Replaced(links, d, e))
<1>1. d # e /\ Receiver # d /\ Receiver # e /\ \A l \in links : l[1] # e /\ l[2] # e
  BY TickerAssumption DEF EndsOf
<1>2. Replaced(links, d, e) = {<<Renamed(d, e, l[1]), Renamed(d, e, l[2])>> : l \in links}
  BY DEF Replaced, Renamed
<1>3. ASSUME NEW l \in links
      PROVE  <<Renamed(d, e, l[1]), Renamed(d, e, l[2])>> \in Links
  <2>1. l \in Links /\ l = <<l[1], l[2]>> /\ l[1] \in Filters /\ l[2] \in Filters
    BY LinkFacts
  <2>2. e \in Filters /\ OutputPins[d] = OutputPins[e]
    BY TickerAssumption
  <2>3. CASE l[2] = d
    <3>1. l[1] = Receiver
      BY <2>1, <2>3, LinkFacts
    <3>2. QED BY <1>1, <2>3, <3>1, LinkFacts DEF Renamed
  <2>4. CASE l[2] # d /\ l[1] = d
    <3>1. \E i \in DOMAIN OutputPins[e] : OutputPins[e][i] = l[2]
      BY <2>1, <2>2, <2>4 DEF Links
    <3>2. <<e, l[2]>> \in Links
      BY <2>1, <2>2, <3>1 DEF Links
    <3>3. QED BY <2>4, <3>2 DEF Renamed
  <2>5. CASE l[2] # d /\ l[1] # d
    BY <2>1, <2>5 DEF Renamed
  <2>6. QED BY <2>3, <2>4, <2>5
<1>4. <<Receiver, e>> \in Replaced(links, d, e)
  <2>1. PICK l \in links : l = <<Receiver, d>>
    OBVIOUS
  <2>2. <<Renamed(d, e, l[1]), Renamed(d, e, l[2])>> = <<Receiver, e>>
    BY <1>1, <2>1 DEF Renamed
  <2>3. QED BY <1>2, <2>1, <2>2
<1>5. d \notin EndsOf(Replaced(links, d, e))
  BY <1>1, <1>2 DEF EndsOf, Renamed
<1>6. \A l \in links : l[2] = d => l[1] = Receiver
  BY LinkFacts
<1>7. e \notin Sources /\ d \notin Sources
  BY LinkFacts
<1>8. QED BY <1>1, <1>2, <1>3, <1>4, <1>5, <1>6, <1>7

-----------------------------------------------------------------------------
(***************************************************************************)
(* The inductive invariant.  A is the set of the filters that are attached *)
(* as the ticker sees it: those whose sources are in its list.  It differs *)
(* from scheduled while the main thread prepares or finishes filters.      *)
(***************************************************************************)

(* What the list leads to, and what the walk of this tick has come to.     *)
Started == Least(Range(execution_list), linked)
Reached == Range(todo) \cup Range(unschedulable) \cup ran

GraphInv ==
  /\ \A f \in EndsOf(linked) \ Sources : \E l \in linked : l[2] = f
  /\ scheduled \subseteq EndsOf(linked)

(* What the main thread has found is cut off from what is attached, and    *)
(* destroying is for a ticker that has nothing left.                       *)
CallInv(A) ==
  /\ A \subseteq scheduled /\ Whole(A, linked)
  /\ mpc \notin {"attach", "postprocess"} => A = scheduled
  /\ mpc = "attach" =>
       /\ filters \cap scheduled = {} /\ filters \subseteq EndsOf(linked)
       /\ Whole(filters \cup (scheduled \ A), linked)
       /\ \A f \in scheduled \ A : last_tick[f] = 0
       /\ Range(sources) = Sources \cap (filters \cup (scheduled \ A))
       /\ IsInjective(sources)
  /\ mpc = "detach" => \E f \in scheduled \ Decoders : filters = {f}
  /\ mpc = "postprocess" => filters \subseteq scheduled /\ A = scheduled \ filters
  /\ mpc \in {"stop", "join"} \/ tpc = "off" => scheduled = {}
  /\ tpc = "off" => mpc \in {"idle", "join"}
  /\ ~run => mpc = "join" \/ tpc = "off"

(* The list holds the sources of what is attached, once each.  A filter is *)
(* not marked with another tick unless the ticker comes to it again.       *)
ListInv(A) ==
  /\ Range(execution_list) = Sources \cap A /\ IsInjective(execution_list)
  /\ \A f \in A : last_tick[f] # 0 => f \in Started
  /\ tpc # "tick" => \A f \in A : \/ last_tick[f] \in {0, ticks}
                                  \/ ticks = 0 /\ last_tick[f] = MaxTicks

(* In a tick: a filter is marked iff it has run or passes for run in the   *)
(* tick counted 0, whatever follows one that has run has been come to or   *)
(* passes for run, a decoder has not been come to if its receiver has not  *)
(* run, what is put off waits for a filter that has not run or misses the  *)
(* tick, and what is forced is in a loop or behind one or misses the tick. *)
TickInv(A) ==
  /\ Reached \subseteq Started
  /\ Range(execution_list) \subseteq Reached \cup Fresh
  /\ \A l \in linked : l[1] \in ran => l[2] \in Reached \cup Fresh
  /\ \A f \in A : last_tick[f] = ticks <=> f \in ran \cup Fresh
  /\ ticks = 0 => \A f \in A : last_tick[f] \in {0, MaxTicks}
  /\ Reached \cap Decoders # {} => Receiver \in ran
  /\ ~force => \A f \in Range(unschedulable) :
                 \/ f \in ran \cup Missing \cup Range(todo)
                 \/ \E g \in Filters \ ran : <<g, f>> \in linked
  /\ force => /\ unschedulable = <<>>
              /\ \A f \in A \ (ran \cup Missing) : InOrBehindLoop(f)

Attached(A) == CallInv(A) /\ ListInv(A) /\ (tpc = "tick" => TickInv(A))

TickerIInv ==
  TickerTypeOK /\ GraphInv /\ \E A \in SUBSET Filters : Attached(A)

(* What is come to is attached.                                            *)
LEMMA StartedFacts ==
  ASSUME TickerTypeOK, NEW A \in SUBSET Filters, Attached(A)
  PROVE  /\ Started \in SUBSET A /\ Closed(Started, linked)
         /\ Range(execution_list) \subseteq Started
         /\ tpc = "tick" => Reached \subseteq A
<1>1. linked \in SUBSET (Filters \X Filters) /\ Range(execution_list) \in SUBSET A
  BY DEF TickerTypeOK, Links, Attached, ListInv
<1>2. Closed(A, linked)
  BY DEF Attached, CallInv, Whole, Closed
<1>3. Started \in SUBSET A /\ Closed(Started, linked) /\ Range(execution_list) \subseteq Started
  BY <1>1, <1>2, LeastFacts DEF Started
<1>4. tpc = "tick" => Reached \subseteq A
  BY <1>3 DEF Attached, TickInv
<1>5. QED BY <1>3, <1>4

(* Only in the tick counted 0 filters pass for run; what they lead to.     *)
LEMMA MissingFacts ==
  ASSUME TickerTypeOK
  PROVE  /\ Fresh \in SUBSET Filters /\ Missing \in SUBSET Filters
         /\ Fresh \subseteq Missing /\ Closed(Missing, linked)
         /\ ticks # 0 => Fresh = {}
         /\ \A f \in Filters : f \in Fresh <=> ticks = 0 /\ last_tick[f] = 0 /\ f \notin ran
<1>1. Fresh \in SUBSET Filters /\ (ticks # 0 => Fresh = {})
  BY DEF Fresh
<1>2. linked \in SUBSET (Filters \X Filters)
  BY DEF TickerTypeOK, Links
<1>3. Missing \in SUBSET Filters /\ Fresh \subseteq Missing /\ Closed(Missing, linked)
  BY <1>1, <1>2, LeastFacts DEF Missing
<1>4. \A f \in Filters : f \in Fresh <=> ticks = 0 /\ last_tick[f] = 0 /\ f \notin ran
  BY DEF Fresh
<1>5. QED BY <1>1, <1>3, <1>4

(* A step that leaves the attached graphs and the tick alone.              *)
LEMMA Elsewhere ==
  ASSUME TickerTypeOK, TickerTypeOK', NEW A \in SUBSET Filters, Attached(A),
         UNCHANGED <<execution_list, tick>>,
         \A f \in A : last_tick'[f] = last_tick[f],
         \A l \in Links : l[1] \in A \/ l[2] \in A => (l \in linked <=> l \in linked'),
         Started \cap A \subseteq Started'
  PROVE  Whole(A, linked') /\ ListInv(A)' /\ (tpc = "tick" => TickInv(A))'
<1>1. linked \in SUBSET Links /\ linked' \in SUBSET Links
  BY DEF TickerTypeOK
<1>2. Started \subseteq Started'
  BY StartedFacts
<1>3. Whole(A, linked')
  BY <1>1 DEF Attached, CallInv, Whole
<1>8. \A f \in A : f \in Fresh <=> f \in Fresh'
  BY DEF Fresh, tick
<1>9. Missing \cap A \subseteq Missing'
  <2>1. Fresh \in SUBSET Filters /\ Fresh' \in SUBSET Filters /\ Fresh \subseteq Fresh' \cup (Filters \ A)
    BY <1>8 DEF Fresh
  <2>2. Whole(Filters \ A, linked) /\ \A l \in linked : l \in linked' \/ l[1] \in Filters \ A
    BY <1>1, LinkFacts DEF Attached, CallInv, Whole
  <2>3. Filters \ A \in SUBSET Filters
    OBVIOUS
  <2>4. Least(Fresh, linked) \subseteq Least(Fresh', linked') \cup (Filters \ A)
    BY <1>1, <2>1, <2>2, <2>3, StillLedTo
  <2>5. QED BY <2>4 DEF Missing
<1>4. ListInv(A)'
  BY <1>2 DEF Attached, ListInv, tick
<1>5. ASSUME tpc = "tick"
      PROVE  TickInv(A)'
  <2>1. TickInv(A) /\ Reached \subseteq A
    BY <1>5, StartedFacts DEF Attached
  <2>2. Reached' = Reached /\ ran' = ran /\ force' = force /\ unschedulable' = unschedulable
    BY DEF Reached, tick
  <2>3. (Reached \subseteq Started)'
    BY <1>2, <2>1, <2>2 DEF TickInv
  <2>4. (Range(execution_list) \subseteq Reached \cup Fresh)'
    <3>1. Range(execution_list) \subseteq A
      BY DEF Attached, ListInv
    <3>2. QED BY <1>8, <2>1, <2>2, <3>1 DEF TickInv
  <2>5. (\A l \in linked : l[1] \in ran => l[2] \in Reached \cup Fresh)'
    <3>1. ran \subseteq A
      BY <2>1 DEF Reached
    <3>2. \A l \in linked' : l[1] \in ran => l \in linked
      BY <1>1, <3>1
    <3>3. \A l \in linked : l[1] \in ran => l[2] \in A
      BY <3>1 DEF Attached, CallInv, Whole
    <3>4. QED BY <1>8, <2>1, <2>2, <3>2, <3>3 DEF TickInv
  <2>6. (\A f \in A : last_tick[f] = ticks <=> f \in ran \cup Fresh)'
    BY <1>8, <2>1 DEF TickInv, tick
  <2>11. (ticks = 0 => \A f \in A : last_tick[f] \in {0, MaxTicks})'
    BY <2>1 DEF TickInv, tick
  <2>7. (Reached \cap Decoders # {} => Receiver \in ran)'
    BY <2>1, <2>2 DEF TickInv
  <2>8. (~force => \A f \in Range(unschedulable) :
                     \/ f \in ran \cup Missing \cup Range(todo)
                     \/ \E g \in Filters \ ran : <<g, f>> \in linked)'
    <3>. SUFFICES ASSUME ~force, NEW f \in Range(unschedulable), f \notin ran \cup Missing' \cup Range(todo)
                  PROVE  \E g \in Filters \ ran : <<g, f>> \in linked'
      BY DEF tick
    <3>2. f \in A
      BY <2>1 DEF Reached
    <3>1. PICK g \in Filters \ ran : <<g, f>> \in linked
      BY <1>9, <2>1, <3>2 DEF TickInv
    <3>3. <<g, f>> \in linked'
      BY <1>1, <3>1, <3>2
    <3>4. QED BY <3>1, <3>3
  <2>9. (force => unschedulable = <<>> /\ \A f \in A \ (ran \cup Missing) : InOrBehindLoop(f))'
    <3>1. ASSUME force, NEW f \in A \ (ran \cup Missing')
          PROVE  InOrBehindLoop(f)'
      <4>1. PICK S \in SUBSET Filters : f \in S /\ \A g \in S : \E h \in S : <<h, g>> \in linked
        BY <1>9, <2>1, <3>1 DEF TickInv, InOrBehindLoop
      <4>2. ASSUME NEW g \in S \cap A
            PROVE  \E h \in S \cap A : <<h, g>> \in linked'
        <5>1. PICK h \in S : <<h, g>> \in linked
          BY <4>1
        <5>2. h \in A
          BY <5>1 DEF Attached, CallInv, Whole
        <5>3. QED BY <1>1, <5>1, <5>2
      <4>3. QED BY <4>1, <4>2 DEF InOrBehindLoop
    <3>2. force => unschedulable = <<>>
      BY <2>1 DEF TickInv
    <3>3. QED BY <2>2, <3>1, <3>2, Zenon
  <2>10. QED BY <2>3, <2>4, <2>5, <2>6, <2>7, <2>8, <2>9, <2>11 DEF TickInv
<1>6. QED BY <1>3, <1>4, <1>5 DEF tick

(* A step that changes neither graphs nor lists nor the tick.              *)
LEMMA ElsewhereSame ==
  ASSUME TickerTypeOK, TickerTypeOK', NEW A \in SUBSET Filters, Attached(A),
         UNCHANGED <<linked, execution_list, tick>>,
         \A f \in A : last_tick'[f] = last_tick[f]
  PROVE  Whole(A, linked') /\ ListInv(A)' /\ (tpc = "tick" => TickInv(A))'
<1>1. Started' = Started
  BY DEF Started
<1>2. UNCHANGED <<execution_list, tick>> /\ linked' = linked
  OBVIOUS
<1>3. \A l \in Links : l[1] \in A \/ l[2] \in A => (l \in linked <=> l \in linked')
  BY <1>2
<1>4. Started \cap A \subseteq Started'
  BY <1>1
<1>5. QED BY <1>2, <1>3, <1>4, Elsewhere

-----------------------------------------------------------------------------
(* The steps of the main thread.                                           *)

LEMMA LinkStep ==
  ASSUME TickerIInv, NEW G \in Graphs, Link(G)
  PROVE  TickerIInv'
<1>1. PICK A \in SUBSET Filters : Attached(A)
  BY DEF TickerIInv
<1>2. /\ TickerTypeOK /\ GraphInv
      /\ linked' = linked \cup G /\ EndsOf(G) \cap EndsOf(linked) = {} /\ mpc = "idle"
      /\ UNCHANGED <<execution_list, tick>>
      /\ UNCHANGED <<scheduled, last_tick, run, tpc, mpc, filters, sources>>
  BY DEF TickerIInv, Link, call, tick
<1>3. /\ G \in SUBSET Links /\ linked \in SUBSET Links
      /\ \A f \in EndsOf(G) \ Sources : \E l \in G : l[2] = f
  BY <1>2, GraphsAssumption DEF TickerTypeOK
<1>4. TickerTypeOK'
  BY <1>2, <1>3 DEF TickerTypeOK, tick
<1>5. EndsOf(linked') = EndsOf(linked) \cup EndsOf(G)
  BY <1>2 DEF EndsOf
<1>6. GraphInv'
  BY <1>2, <1>3, <1>5 DEF GraphInv
<1>7. Whole(A, linked') /\ ListInv(A)' /\ (tpc = "tick" => TickInv(A))'
  <2>1. A \subseteq EndsOf(linked)
    BY <1>1, <1>2 DEF GraphInv, Attached, CallInv
  <2>2. \A l \in Links : l[1] \in A \/ l[2] \in A => (l \in linked <=> l \in linked')
    BY <1>2, <2>1 DEF EndsOf
  <2>3. Started \subseteq Started' \cup {}
    <3>1. Range(execution_list) \in SUBSET Filters
      BY <1>1 DEF Attached, ListInv
    <3>2. linked' \in SUBSET Links
      BY <1>2, <1>3
    <3>3. Least(Range(execution_list), linked) \subseteq Least(Range(execution_list), linked') \cup {}
      BY <1>2, <1>3, <3>1, <3>2, StillLedTo DEF Whole
    <3>4. QED BY <1>2, <3>3 DEF Started
  <2>4. QED BY <1>1, <1>2, <1>4, <2>2, <2>3, Elsewhere
<1>8. CallInv(A)'
  BY <1>1, <1>2, <1>7 DEF Attached, CallInv
<1>9. QED BY <1>4, <1>6, <1>7, <1>8 DEF TickerIInv, Attached

LEMMA UnlinkStep ==
  ASSUME TickerIInv, NEW f \in Handles, Unlink(f)
  PROVE  TickerIInv'
<1>1. PICK A \in SUBSET Filters : Attached(A)
  BY DEF TickerIInv
<1>2. DEFINE D == Neighbours(f)
<1>3. /\ TickerTypeOK /\ GraphInv
      /\ linked' = {l \in linked : l[1] \notin D} /\ mpc = "idle" /\ f \notin scheduled
      /\ UNCHANGED <<execution_list, tick>>
      /\ UNCHANGED <<scheduled, last_tick, run, tpc, mpc, filters, sources>>
  BY DEF TickerIInv, Unlink, call, tick
<1>4. /\ linked \in SUBSET Links /\ linked' \in SUBSET Links
      /\ linked \in SUBSET (Filters \X Filters) /\ f \in Filters
  BY <1>3, TickerAssumption DEF TickerTypeOK, Links
<1>5. A = scheduled /\ Whole(A, linked)
  BY <1>1, <1>3 DEF Attached, CallInv
<1>6. D \in SUBSET Filters /\ Whole(D, linked) /\ D \cap A = {}
  <2>1. f \in Filters \ A /\ Whole(Filters \ A, linked)
    BY <1>3, <1>4, <1>5, LinkFacts DEF Whole
  <2>2. D \in SUBSET Filters /\ Whole(D, linked)
    BY <1>4, NeighboursFacts
  <2>3. Filters \ A \in SUBSET Filters
    OBVIOUS
  <2>4. D \subseteq Filters \ A
    BY <1>4, <2>1, <2>3, NeighboursFacts
  <2>5. QED BY <2>2, <2>4
<1>. HIDE DEF D
<1>7. TickerTypeOK'
  BY <1>3, <1>4 DEF TickerTypeOK, tick
<1>8. GraphInv'
  <2>1. ASSUME NEW g \in EndsOf(linked') \ Sources
        PROVE  \E l \in linked' : l[2] = g
    <3>1. g \in EndsOf(linked) /\ g \notin D
      BY <1>3, <1>6 DEF EndsOf, Whole
    <3>2. PICK l \in linked : l[2] = g
      BY <1>3, <2>1, <3>1 DEF GraphInv
    <3>3. QED BY <1>3, <1>6, <3>1, <3>2 DEF Whole
  <2>2. \A g \in EndsOf(linked) \ D : g \in EndsOf(linked')
    BY <1>3, <1>6 DEF EndsOf, Whole
  <2>3. scheduled \subseteq EndsOf(linked')
    BY <1>3, <1>5, <1>6, <2>2 DEF GraphInv
  <2>4. QED BY <1>3, <2>1, <2>3 DEF GraphInv
<1>9. Whole(A, linked') /\ ListInv(A)' /\ (tpc = "tick" => TickInv(A))'
  <2>1. \A l \in Links : l[1] \in A \/ l[2] \in A => (l \in linked <=> l \in linked')
    BY <1>3, <1>6 DEF Whole
  <2>2. Started \subseteq Started' \cup D
    <3>1. Range(execution_list) \in SUBSET Filters
      BY <1>1 DEF Attached, ListInv
    <3>2. Least(Range(execution_list), linked) \subseteq Least(Range(execution_list), linked') \cup D
      BY <1>3, <1>4, <1>6, <3>1, StillLedTo
    <3>3. QED BY <1>3, <3>2 DEF Started
  <2>3. Started \cap A \subseteq Started'
    BY <1>6, <2>2
  <2>4. QED BY <1>1, <1>3, <1>7, <2>1, <2>3, Elsewhere
<1>10. CallInv(A)'
  BY <1>1, <1>3, <1>9 DEF Attached, CallInv
<1>11. QED BY <1>7, <1>8, <1>9, <1>10 DEF TickerIInv, Attached

LEMMA AttachStep ==
  ASSUME TickerIInv, NEW f \in Handles, Attach(f)
  PROVE  TickerIInv'
<1>1. PICK A \in SUBSET Filters : Attached(A)
  BY DEF TickerIInv
<1>2. DEFINE C == Neighbours(f)
<1>3. /\ TickerTypeOK /\ GraphInv
      /\ mpc = "idle" /\ mpc' = "attach" /\ tpc # "off" /\ f \in EndsOf(linked) \ scheduled
      /\ filters' = C /\ sources' \in SetToSeqs(C \cap Sources)
      /\ UNCHANGED <<linked, execution_list, tick>>
      /\ UNCHANGED <<scheduled, last_tick, run, tpc>>
  BY DEF TickerIInv, Attach, graphs, tick
<1>4. linked \in SUBSET Links /\ f \in Filters
  BY <1>3, TickerAssumption DEF TickerTypeOK
<1>5. A = scheduled /\ Whole(A, linked)
  BY <1>1, <1>3 DEF Attached, CallInv
<1>6. /\ C \in SUBSET Filters /\ Whole(C, linked)
      /\ C \subseteq EndsOf(linked) /\ C \cap scheduled = {}
  <2>1. f \in Filters \ A /\ Whole(Filters \ A, linked)
    BY <1>3, <1>4, <1>5, LinkFacts DEF Whole
  <2>2. EndsOf(linked) \in SUBSET Filters /\ Whole(EndsOf(linked), linked)
    BY <1>4, LinkFacts DEF EndsOf, Whole
  <2>3. QED BY <1>3, <1>4, <1>5, <2>1, <2>2, NeighboursFacts DEF TickerTypeOK
<1>. HIDE DEF C
<1>7. sources' \in Seq(Filters) /\ Range(sources') = C \cap Sources /\ IsInjective(sources')
  <2>1. C \cap Sources \in SUBSET Filters
    BY <1>6
  <2>2. QED BY <1>3, <2>1, SetToSeqsFacts
<1>8. TickerTypeOK'
  BY <1>3, <1>6, <1>7 DEF TickerTypeOK, tick
<1>9. GraphInv'
  BY <1>3 DEF GraphInv
<1>10. Whole(A, linked') /\ ListInv(A)' /\ (tpc = "tick" => TickInv(A))'
  BY <1>1, <1>3, <1>8, ElsewhereSame
<1>11. CallInv(A)'
  <2>1. filters' \cup (scheduled \ A) = C
    BY <1>3, <1>5
  <2>2. QED BY <1>1, <1>3, <1>5, <1>6, <1>7, <2>1 DEF Attached, CallInv
<1>12. QED BY <1>8, <1>9, <1>10, <1>11 DEF TickerIInv, Attached

LEMMA PreprocessStep ==
  ASSUME TickerIInv, NEW f \in Filters, Preprocess(f)
  PROVE  TickerIInv'
<1>1. PICK A \in SUBSET Filters : Attached(A)
  BY DEF TickerIInv
<1>2. /\ TickerTypeOK /\ GraphInv
      /\ mpc = "attach" /\ f \in filters
      /\ last_tick' = [last_tick EXCEPT ![f] = 0]
      /\ scheduled' = scheduled \cup {f} /\ filters' = filters \ {f}
      /\ UNCHANGED <<linked, execution_list, tick>>
      /\ UNCHANGED <<run, tpc, mpc, sources>>
  BY DEF TickerIInv, Preprocess, Preprocessed, IsFirst, tick
<1>3. /\ A \subseteq scheduled /\ Whole(A, linked) /\ f \notin scheduled
      /\ filters \subseteq EndsOf(linked) /\ filters \cap scheduled = {}
  BY <1>1, <1>2 DEF Attached, CallInv
<1>4. last_tick \in [Filters -> 0 .. MaxTicks]
  BY <1>2 DEF TickerTypeOK
<1>5. TickerTypeOK'
  <2>1. last_tick' \in [Filters -> 0 .. MaxTicks]
    BY <1>2, <1>4, TickerAssumption
  <2>2. QED BY <1>2, <2>1 DEF TickerTypeOK, tick
<1>6. GraphInv'
  BY <1>2, <1>3 DEF GraphInv
<1>7. Whole(A, linked') /\ ListInv(A)' /\ (tpc = "tick" => TickInv(A))'
  <2>1. \A g \in A : last_tick'[g] = last_tick[g]
    BY <1>2, <1>3, <1>4
  <2>2. QED BY <1>1, <1>2, <1>5, <2>1, ElsewhereSame
<1>8. CallInv(A)'
  <2>1. filters' \cup (scheduled' \ A) = filters \cup (scheduled \ A)
    BY <1>2, <1>3
  <2>2. scheduled' \ A = (scheduled \ A) \cup {f}
    BY <1>2, <1>3
  <2>3. \A g \in scheduled' \ A : last_tick'[g] = 0
    BY <1>1, <1>2, <1>4, <2>2 DEF Attached, CallInv
  <2>4. QED BY <1>1, <1>2, <1>3, <2>1, <2>3 DEF Attached, CallInv
<1>9. QED BY <1>5, <1>6, <1>7, <1>8 DEF TickerIInv, Attached

LEMMA AttachSourcesStep ==
  ASSUME TickerIInv, AttachSources
  PROVE  TickerIInv'
<1>1. PICK A \in SUBSET Filters : Attached(A)
  BY DEF TickerIInv
<1>2. /\ TickerTypeOK /\ GraphInv
      /\ mpc = "attach" /\ mpc' = "idle" /\ filters = {} /\ tpc # "tick"
      /\ execution_list' = execution_list \o sources
      /\ UNCHANGED tick
      /\ UNCHANGED <<linked, scheduled, last_tick, run, tpc, ticks, filters, sources>>
  BY DEF TickerIInv, AttachSources, LockIsFree, tick
<1>3. scheduled \in SUBSET Filters /\ execution_list \in Seq(Filters) /\ sources \in Seq(Filters)
  BY <1>2 DEF TickerTypeOK
<1>4. /\ A \subseteq scheduled /\ Whole(A, linked) /\ Whole(scheduled \ A, linked)
      /\ \A f \in scheduled \ A : last_tick[f] = 0
      /\ Range(execution_list) = Sources \cap A /\ IsInjective(execution_list)
      /\ Range(sources) = Sources \cap (scheduled \ A) /\ IsInjective(sources)
  <2>1. filters \cup (scheduled \ A) = scheduled \ A
    BY <1>2
  <2>2. QED BY <1>1, <1>2, <2>1 DEF Attached, CallInv, ListInv
<1>5. /\ execution_list' \in Seq(Filters) /\ IsInjective(execution_list')
      /\ Range(execution_list') = Sources \cap scheduled
  <2>1. Range(execution_list) \cap Range(sources) = {}
    BY <1>4
  <2>2. execution_list' \in Seq(Filters) /\ IsInjective(execution_list')
    BY <1>2, <1>3, <1>4, <2>1, ConcatProperties, ConcatInjective
  <2>3. Range(execution_list') = Range(execution_list) \cup Range(sources)
    BY <1>2, <1>3, RangeConcatenation
  <2>4. QED BY <1>4, <2>2, <2>3
<1>6. TickerTypeOK'
  BY <1>2, <1>5 DEF TickerTypeOK, tick
<1>7. GraphInv'
  BY <1>2 DEF GraphInv
<1>8. Started \subseteq Started'
  <2>1. Range(execution_list) \in SUBSET Filters /\ Range(execution_list') \in SUBSET Filters
    BY <1>3, <1>4, <1>5
  <2>2. linked \in SUBSET Links /\ {} \in SUBSET Filters
    BY <1>2 DEF TickerTypeOK
  <2>3. Range(execution_list) \subseteq Range(execution_list') \cup {}
    BY <1>4, <1>5
  <2>4. Least(Range(execution_list), linked) \subseteq Least(Range(execution_list'), linked) \cup {}
    BY <2>1, <2>2, <2>3, StillLedTo DEF Whole
  <2>5. QED BY <1>2, <2>4 DEF Started
<1>9. CallInv(scheduled)'
  <2>1. Whole(scheduled, linked)
    BY <1>4 DEF Whole
  <2>2. QED BY <1>1, <1>2, <2>1 DEF Attached, CallInv
<1>10. ListInv(scheduled)'
  <2>1. \A f \in scheduled : last_tick[f] # 0 => f \in A
    BY <1>4
  <2>2. /\ \A f \in A : last_tick[f] # 0 => f \in Started
        /\ \A f \in A : last_tick[f] \in {0, ticks} \/ (ticks = 0 /\ last_tick[f] = MaxTicks)
    BY <1>1, <1>2 DEF Attached, ListInv
  <2>3. (\A f \in scheduled : last_tick[f] # 0 => f \in Started)'
    BY <1>2, <1>8, <2>1, <2>2
  <2>4. (\A f \in scheduled : last_tick[f] \in {0, ticks} \/ (ticks = 0 /\ last_tick[f] = MaxTicks))'
    BY <1>2, <2>1, <2>2
  <2>5. QED BY <1>2, <1>5, <2>3, <2>4 DEF ListInv
<1>11. PICK B : B = scheduled'
  OBVIOUS
<1>12. B \in SUBSET Filters /\ Attached(B)'
  BY <1>2, <1>3, <1>9, <1>10, <1>11 DEF Attached, CallInv, ListInv
<1>13. QED BY <1>6, <1>7, <1>12 DEF TickerIInv

LEMMA DetachStep ==
  ASSUME TickerIInv, NEW f \in Handles, Detach(f)
  PROVE  TickerIInv'
<1>1. PICK A \in SUBSET Filters : Attached(A)
  BY DEF TickerIInv
<1>2. /\ TickerTypeOK /\ GraphInv
      /\ mpc = "idle" /\ mpc' = "detach" /\ f \in scheduled /\ filters' = {f}
      /\ UNCHANGED <<linked, execution_list, tick>>
      /\ UNCHANGED <<scheduled, last_tick, run, tpc, sources>>
  BY DEF TickerIInv, Detach, graphs, tick
<1>3. f \in Filters \ Decoders
  BY TickerAssumption
<1>4. TickerTypeOK'
  BY <1>2, <1>3 DEF TickerTypeOK, tick
<1>5. GraphInv'
  BY <1>2 DEF GraphInv
<1>6. Whole(A, linked') /\ ListInv(A)' /\ (tpc = "tick" => TickInv(A))'
  BY <1>1, <1>2, <1>4, ElsewhereSame
<1>7. CallInv(A)'
  BY <1>1, <1>2, <1>3, <1>6 DEF Attached, CallInv
<1>8. QED BY <1>4, <1>5, <1>6, <1>7 DEF TickerIInv, Attached

LEMMA DetachSourcesStep ==
  ASSUME TickerIInv, DetachSources
  PROVE  TickerIInv'
<1>1. PICK A \in SUBSET Filters : Attached(A)
  BY DEF TickerIInv
<1>2. PICK f \in filters : filters' = Neighbours(f)
  BY DEF DetachSources
<1>3. DEFINE C == Neighbours(f)
<1>4. /\ TickerTypeOK /\ GraphInv
      /\ mpc = "detach" /\ mpc' = "postprocess" /\ filters' = C /\ tpc # "tick"
      /\ execution_list' = RemoveAll(execution_list, C \cap Sources)
      /\ UNCHANGED tick
      /\ UNCHANGED <<linked, scheduled, last_tick, run, tpc, ticks, sources>>
  BY <1>2 DEF TickerIInv, DetachSources, LockIsFree, tick
<1>5. linked \in SUBSET Links /\ execution_list \in Seq(Filters) /\ scheduled \in SUBSET Filters
  BY <1>4 DEF TickerTypeOK
<1>6. /\ A = scheduled /\ Whole(A, linked) /\ f \in scheduled
      /\ Range(execution_list) = Sources \cap A /\ IsInjective(execution_list)
      /\ \A g \in A : last_tick[g] # 0 => g \in Started
      /\ \A g \in A : last_tick[g] \in {0, ticks} \/ (ticks = 0 /\ last_tick[g] = MaxTicks)
  BY <1>1, <1>2, <1>4 DEF Attached, CallInv, ListInv
<1>7. C \in SUBSET Filters /\ Whole(C, linked) /\ C \subseteq A
  BY <1>5, <1>6, NeighboursFacts
<1>. HIDE DEF C
<1>8. /\ execution_list' \in Seq(Filters) /\ IsInjective(execution_list')
      /\ Range(execution_list') = Sources \cap (A \ C)
  <2>1. Range(execution_list') = Range(execution_list) \ (C \cap Sources)
    BY <1>4, <1>5, <1>6, RemoveAllFacts
  <2>2. QED BY <1>4, <1>5, <1>6, <2>1, RemoveAllFacts
<1>9. TickerTypeOK'
  BY <1>4, <1>7, <1>8 DEF TickerTypeOK, tick
<1>10. GraphInv'
  BY <1>4 DEF GraphInv
<1>11. Started \subseteq Started' \cup C
  <2>1. Range(execution_list) \in SUBSET Filters /\ Range(execution_list') \in SUBSET Filters
    BY <1>5, <1>6, <1>8
  <2>2. Range(execution_list) \subseteq Range(execution_list') \cup C
    BY <1>6, <1>8
  <2>3. Least(Range(execution_list), linked) \subseteq Least(Range(execution_list'), linked) \cup C
    BY <1>5, <1>7, <2>1, <2>2, StillLedTo
  <2>4. QED BY <1>4, <2>3 DEF Started
<1>12. PICK B : B = A \ C
  OBVIOUS
<1>13. CallInv(B)'
  <2>1. Whole(B, linked)
    BY <1>6, <1>7, <1>12 DEF Whole
  <2>2. QED BY <1>1, <1>4, <1>6, <1>7, <1>12, <2>1 DEF Attached, CallInv
<1>14. ListInv(B)'
  <2>1. (\A g \in B : last_tick[g] # 0 => g \in Started)'
    BY <1>4, <1>6, <1>11, <1>12
  <2>2. (\A g \in B : last_tick[g] \in {0, ticks} \/ (ticks = 0 /\ last_tick[g] = MaxTicks))'
    BY <1>4, <1>6, <1>12
  <2>3. QED BY <1>8, <1>12, <2>1, <2>2 DEF ListInv
<1>15. B \in SUBSET Filters /\ Attached(B)'
  BY <1>4, <1>12, <1>13, <1>14 DEF Attached
<1>16. QED BY <1>9, <1>10, <1>15 DEF TickerIInv

LEMMA PostprocessStep ==
  ASSUME TickerIInv, NEW f \in Filters, Postprocess(f)
  PROVE  TickerIInv'
<1>1. PICK A \in SUBSET Filters : Attached(A)
  BY DEF TickerIInv
<1>2. /\ TickerTypeOK /\ GraphInv
      /\ mpc = "postprocess" /\ f \in filters
      /\ scheduled' = scheduled \ {f} /\ filters' = filters \ {f}
      /\ mpc' = IF filters' = {} THEN "idle" ELSE "postprocess"
      /\ UNCHANGED <<linked, execution_list, tick>>
      /\ UNCHANGED <<last_tick, run, tpc, sources>>
  BY DEF TickerIInv, Postprocess, IsFirst, tick
<1>3. filters \subseteq scheduled /\ A = scheduled \ filters /\ A = scheduled' \ filters'
  BY <1>1, <1>2 DEF Attached, CallInv
<1>4. TickerTypeOK'
  BY <1>2 DEF TickerTypeOK, tick
<1>5. GraphInv'
  BY <1>2 DEF GraphInv
<1>6. Whole(A, linked') /\ ListInv(A)' /\ (tpc = "tick" => TickInv(A))'
  BY <1>1, <1>2, <1>4, ElsewhereSame
<1>7. CallInv(A)'
  BY <1>1, <1>2, <1>3, <1>6 DEF Attached, CallInv
<1>8. QED BY <1>4, <1>5, <1>6, <1>7 DEF TickerIInv, Attached

LEMMA NewStep ==
  ASSUME TickerIInv, New
  PROVE  TickerIInv'
<1>1. PICK A \in SUBSET Filters : Attached(A)
  BY DEF TickerIInv
<1>2. /\ TickerTypeOK /\ GraphInv
      /\ mpc = "idle" /\ tpc = "off" /\ run' = TRUE /\ ticks' = 1 /\ tpc' = "wait"
      /\ execution_list' = <<>>
      /\ UNCHANGED <<linked, scheduled, last_tick, todo, unschedulable, force, ran>>
      /\ UNCHANGED <<mpc, filters, sources>>
  BY DEF TickerIInv, New, call
<1>3. A = {} /\ scheduled = {}
  BY <1>1, <1>2 DEF Attached, CallInv
<1>4. TickerTypeOK'
  BY <1>2, TickerAssumption DEF TickerTypeOK
<1>5. GraphInv'
  BY <1>2 DEF GraphInv
<1>6. CallInv({})'
  BY <1>2, <1>3 DEF CallInv, Whole
<1>7. ListInv({})'
  <2>1. Range(<<>>) = {} /\ IsInjective(<<>>)
    BY DEF Range, IsInjective
  <2>2. QED BY <1>2, <2>1 DEF ListInv
<1>8. Attached({})'
  BY <1>2, <1>6, <1>7 DEF Attached
<1>9. QED BY <1>4, <1>5, <1>8 DEF TickerIInv

(* Destroy, StopRun and Join.                                              *)
LEMMA DestroySteps ==
  ASSUME TickerIInv, Destroy \/ StopRun \/ Join
  PROVE  TickerIInv'
<1>1. PICK A \in SUBSET Filters : Attached(A)
  BY DEF TickerIInv
<1>2. /\ TickerTypeOK /\ GraphInv
      /\ UNCHANGED <<linked, execution_list, tick>>
      /\ UNCHANGED <<scheduled, last_tick, tpc, filters, sources>>
      /\ \/ mpc = "idle" /\ tpc # "off" /\ scheduled = {} /\ mpc' = "stop" /\ run' = run
         \/ mpc = "stop" /\ run' = FALSE /\ mpc' = "join"
         \/ mpc = "join" /\ tpc = "off" /\ mpc' = "idle" /\ run' = run
  BY DEF TickerIInv, Destroy, StopRun, Join, graphs, tick
<1>3. TickerTypeOK'
  BY <1>2 DEF TickerTypeOK, tick
<1>4. GraphInv'
  BY <1>2 DEF GraphInv
<1>5. Whole(A, linked') /\ ListInv(A)' /\ (tpc = "tick" => TickInv(A))'
  BY <1>1, <1>2, <1>3, ElsewhereSame
<1>6. CallInv(A)'
  BY <1>1, <1>2, <1>5 DEF Attached, CallInv
<1>7. QED BY <1>3, <1>4, <1>5, <1>6 DEF TickerIInv, Attached

-----------------------------------------------------------------------------
(* The steps of the ticker's thread.                                       *)

LEMMA BeginTickStep ==
  ASSUME TickerIInv, BeginTick
  PROVE  TickerIInv'
<1>1. PICK A \in SUBSET Filters : Attached(A)
  BY DEF TickerIInv
<1>2. /\ TickerTypeOK /\ GraphInv
      /\ tpc = "wait" /\ run /\ tpc' = "tick"
      /\ ticks' = IF ticks = MaxTicks THEN 0 ELSE ticks + 1
      /\ todo' = execution_list /\ unschedulable' = <<>> /\ ~force' /\ ran' = {}
      /\ UNCHANGED <<linked, scheduled, last_tick, execution_list, run>>
      /\ UNCHANGED <<mpc, filters, sources>>
  BY DEF TickerIInv, BeginTick, graphs, call
<1>3. /\ ticks \in 0 .. MaxTicks /\ ticks' \in 0 .. MaxTicks /\ ticks' # ticks
      /\ MaxTicks # 0
      /\ ticks' = 0 => ticks = MaxTicks
      /\ ticks = 0 => ticks' # MaxTicks
  BY <1>2, TickerAssumption DEF TickerTypeOK
<1>4. TickerTypeOK'
  <2>1. force' \in BOOLEAN
    BY DEF BeginTick
  <2>2. QED BY <1>2, <1>3, <2>1 DEF TickerTypeOK
<1>5. GraphInv'
  BY <1>2 DEF GraphInv
<1>6. Started' = Started /\ Reached' = Range(execution_list)
  BY <1>2 DEF Started, Reached, Range
<1>7. CallInv(A)'
  BY <1>1, <1>2 DEF Attached, CallInv
<1>8. ListInv(A)'
  BY <1>1, <1>2, <1>6 DEF Attached, ListInv
<1>9. TickInv(A)'
  <2>1. (Reached \subseteq Started)' /\ (Range(execution_list) \subseteq Reached \cup Fresh)'
    BY <1>1, <1>2, <1>6, StartedFacts
  <2>6. \A f \in A : last_tick[f] \in {0, ticks} \/ (ticks = 0 /\ last_tick[f] = MaxTicks)
    BY <1>1, <1>2 DEF Attached, ListInv
  <2>7. \A f \in A : f \in Fresh' <=> ticks' = 0 /\ last_tick[f] = 0
    BY <1>2 DEF Fresh
  <2>2. (\A f \in A : last_tick[f] = ticks <=> f \in ran \cup Fresh)'
    BY <1>2, <1>3, <2>6, <2>7
  <2>8. (ticks = 0 => \A f \in A : last_tick[f] \in {0, MaxTicks})'
    BY <1>2, <1>3, <2>6
  <2>3. (Reached \cap Decoders # {} => Receiver \in ran)'
    BY <1>1, <1>6, LinkFacts DEF Attached, ListInv
  <2>4. (\A f \in Range(unschedulable) :
           \/ f \in ran \cup Missing \cup Range(todo)
           \/ \E g \in Filters \ ran : <<g, f>> \in linked)'
    BY <1>2 DEF Range
  <2>9. ~force' /\ (\A l \in linked : l[1] \in ran => l[2] \in Reached \cup Fresh)'
    BY <1>2
  <2>5. QED BY <2>1, <2>2, <2>3, <2>4, <2>8, <2>9 DEF TickInv
<1>10. QED BY <1>2, <1>4, <1>5, <1>7, <1>8, <1>9 DEF TickerIInv, Attached

(* The next filter of a walk is attached and come to.                      *)
LEMMA InWalk ==
  ASSUME TickerTypeOK, NEW A \in SUBSET Filters, Attached(A), NEW f, IsNext(f)
  PROVE  /\ tpc = "tick" /\ TickInv(A)
         /\ f \in A /\ f \in Started /\ f \in Filters
         /\ Tail(todo) \in Seq(Filters)
         /\ Range(todo) = {f} \cup Range(Tail(todo))
         /\ f \in Reached
<1>1. tpc = "tick" /\ todo # <<>> /\ f = Head(todo) /\ todo \in Seq(Filters)
  BY DEF IsNext, TickerTypeOK
<1>2. Tail(todo) \in Seq(Filters) /\ Range(todo) = {f} \cup Range(Tail(todo))
  BY <1>1, SeqRangeFacts
<1>3. f \in Reached
  BY <1>2 DEF Reached
<1>4. QED BY <1>1, <1>2, <1>3, StartedFacts DEF Attached, TickInv

LEMMA SkipStep ==
  ASSUME TickerIInv, NEW f \in Filters, Skip(f)
  PROVE  TickerIInv'
<1>1. PICK A \in SUBSET Filters : Attached(A)
  BY DEF TickerIInv
<1>2. /\ TickerTypeOK /\ GraphInv /\ IsNext(f)
      /\ last_tick[f] = ticks /\ todo' = Tail(todo)
      /\ UNCHANGED <<linked, scheduled, last_tick, execution_list, run>>
      /\ UNCHANGED <<ticks, tpc, unschedulable, force, ran, mpc, filters, sources>>
  BY DEF TickerIInv, Skip, graphs, call
<1>3. TickInv(A) /\ f \in A /\ Tail(todo) \in Seq(Filters) /\ Range(todo) = {f} \cup Range(Tail(todo))
  BY <1>1, <1>2, InWalk
<1>4. f \in ran \cup Fresh /\ Fresh \subseteq Missing
  BY <1>2, <1>3, MissingFacts DEF TickInv
<1>11. Fresh' = Fresh /\ Missing' = Missing
  BY <1>2 DEF Fresh, Missing
<1>5. /\ Started' = Started /\ Reached' \subseteq Reached
      /\ Reached \subseteq Reached' \cup Fresh
  BY <1>2, <1>3, <1>4 DEF Started, Reached
<1>6. TickerTypeOK'
  BY <1>2, <1>3 DEF TickerTypeOK
<1>7. GraphInv'
  BY <1>2 DEF GraphInv
<1>8. CallInv(A)' /\ ListInv(A)'
  BY <1>1, <1>2, <1>5 DEF Attached, CallInv, ListInv
<1>9. TickInv(A)'
  <2>1. (~force => \A g \in Range(unschedulable) :
           \/ g \in ran \cup Missing \cup Range(todo)
           \/ \E h \in Filters \ ran : <<h, g>> \in linked)'
    BY <1>2, <1>3, <1>4, <1>11 DEF TickInv
  <2>2. (force => unschedulable = <<>> /\ \A g \in A \ (ran \cup Missing) : InOrBehindLoop(g))'
    BY <1>2, <1>3, <1>11 DEF TickInv, InOrBehindLoop
  <2>4. (Reached \subseteq Started /\ Range(execution_list) \subseteq Reached \cup Fresh)'
    BY <1>2, <1>3, <1>5, <1>11 DEF TickInv
  <2>5. (\A l \in linked : l[1] \in ran => l[2] \in Reached \cup Fresh)'
    BY <1>2, <1>3, <1>5, <1>11 DEF TickInv
  <2>6. (Reached \cap Decoders # {} => Receiver \in ran)'
    BY <1>2, <1>3, <1>5 DEF TickInv
  <2>3. QED BY <1>2, <1>3, <1>11, <2>1, <2>2, <2>4, <2>5, <2>6 DEF TickInv
<1>10. QED BY <1>1, <1>6, <1>7, <1>8, <1>9 DEF TickerIInv, Attached

LEMMA PostponeStep ==
  ASSUME TickerIInv, NEW f \in Filters, Postpone(f)
  PROVE  TickerIInv'
<1>1. PICK A \in SUBSET Filters : Attached(A)
  BY DEF TickerIInv
<1>2. /\ TickerTypeOK /\ GraphInv /\ IsNext(f)
      /\ ~CanProcess(f) /\ ~force
      /\ unschedulable' = <<f>> \o unschedulable /\ todo' = Tail(todo)
      /\ UNCHANGED <<linked, scheduled, last_tick, execution_list, run>>
      /\ UNCHANGED <<ticks, tpc, force, ran, mpc, filters, sources>>
  BY DEF TickerIInv, Postpone, PutOff, graphs, call
<1>3. TickInv(A) /\ f \in A /\ Tail(todo) \in Seq(Filters) /\ Range(todo) = {f} \cup Range(Tail(todo))
  BY <1>1, <1>2, InWalk
<1>4. unschedulable' \in Seq(Filters) /\ Range(unschedulable') = {f} \cup Range(unschedulable)
  <2>1. unschedulable \in Seq(Filters)
    BY <1>2 DEF TickerTypeOK
  <2>2. \A x \in Filters : /\ <<x>> \o unschedulable \in Seq(Filters)
                           /\ Range(<<x>> \o unschedulable) = {x} \cup Range(unschedulable)
    BY <2>1, SeqRangeFacts, Zenon
  <2>3. QED BY <1>2, <2>2, Zenon
<1>5. Started' = Started /\ Reached' = Reached
  BY <1>2, <1>3, <1>4 DEF Started, Reached
<1>11. Fresh' = Fresh /\ Missing' = Missing
  BY <1>2 DEF Fresh, Missing
<1>6. TickerTypeOK'
  BY <1>2, <1>3, <1>4 DEF TickerTypeOK
<1>7. GraphInv'
  BY <1>2 DEF GraphInv
<1>8. CallInv(A)' /\ ListInv(A)'
  BY <1>1, <1>2, <1>5 DEF Attached, CallInv, ListInv
<1>9. TickInv(A)'
  <2>1. PICK g \in Filters : <<g, f>> \in linked /\ last_tick[g] # ticks
    BY <1>2 DEF CanProcess
  <2>2. g \in A
    BY <1>1, <1>3, <2>1 DEF Attached, CallInv, Whole
  <2>3. g \in Filters \ ran /\ <<g, f>> \in linked
    BY <1>3, <2>1, <2>2 DEF TickInv
  <2>4. (\A h \in Range(unschedulable) :
           \/ h \in ran \cup Missing \cup Range(todo)
           \/ \E k \in Filters \ ran : <<k, h>> \in linked)'
    BY <1>2, <1>3, <1>4, <1>11, <2>3 DEF TickInv
  <2>5. (Range(execution_list) \subseteq Reached \cup Fresh)'
    BY <1>2, <1>3, <1>5, <1>11 DEF TickInv
  <2>6. QED BY <1>2, <1>3, <1>5, <1>11, <2>4, <2>5 DEF TickInv
<1>10. QED BY <1>1, <1>6, <1>7, <1>8, <1>9 DEF TickerIInv, Attached

LEMMA RunStep ==
  ASSUME TickerIInv, NEW f \in Filters, Run(f)
  PROVE  TickerIInv'
<1>1. PICK A \in SUBSET Filters : Attached(A)
  BY DEF TickerIInv
<1>2. /\ TickerTypeOK /\ GraphInv /\ IsNext(f)
      /\ last_tick[f] # ticks /\ last_tick' = [last_tick EXCEPT ![f] = ticks]
      /\ ran' = ran \cup {f}
      /\ todo' = OutputsOf(f, linked) \o Tail(todo)
      /\ UNCHANGED <<linked, scheduled, execution_list, run>>
      /\ UNCHANGED <<ticks, tpc, unschedulable, force, mpc, filters, sources>>
  BY DEF TickerIInv, Run, MayRun, call
<1>3. /\ tpc = "tick" /\ TickInv(A) /\ f \in A /\ f \in Started /\ f \in Reached
      /\ Tail(todo) \in Seq(Filters) /\ Range(todo) = {f} \cup Range(Tail(todo))
  BY <1>1, <1>2, InWalk
<1>4. linked \in SUBSET Links /\ last_tick \in [Filters -> 0 .. MaxTicks] /\ ticks \in 0 .. MaxTicks
  BY <1>2 DEF TickerTypeOK
<1>5. DEFINE next == {g \in Filters : <<f, g>> \in linked}
<1>6. todo' \in Seq(Filters) /\ Range(todo') = next \cup Range(Tail(todo))
  <2>1. OutputsOf(f, linked) \in Seq(Filters) /\ Range(OutputsOf(f, linked)) = next
    BY <1>4, OutputsOfFacts
  <2>2. \A s, t \in Seq(Filters) : s \o t \in Seq(Filters) /\ Range(s \o t) = Range(s) \cup Range(t)
    BY ConcatProperties, RangeConcatenation
  <2>3. Tail(todo) \in Seq(Filters) /\ todo' = OutputsOf(f, linked) \o Tail(todo)
    BY <1>2, <1>3
  <2>4. QED BY <2>1, <2>2, <2>3, Zenon
<1>7. \A l \in linked : l[1] = f => l[2] \in next
  BY <1>4, LinkFacts
<1>8. next \subseteq Started
  BY <1>1, <1>2, <1>3, StartedFacts DEF Closed
<1>9. next \cap Decoders # {} => f = Receiver
  BY <1>4, LinkFacts
<1>. HIDE DEF next
<1>10. Started' = Started /\ Reached' = Reached \cup next
  BY <1>2, <1>3, <1>6 DEF Started, Reached
<1>11. last_tick' \in [Filters -> 0 .. MaxTicks]
  BY <1>2, <1>4
<1>12. \A g \in Filters : last_tick'[g] = IF g = f THEN ticks ELSE last_tick[g]
  BY <1>2, <1>4
<1>19. Fresh' = Fresh /\ Missing' = Missing
  <2>1. \A g \in Filters : g \in Fresh' <=> g \in Fresh
    BY <1>2, <1>12 DEF Fresh
  <2>2. Fresh' = Fresh
    BY <2>1 DEF Fresh
  <2>3. QED BY <1>2, <2>2 DEF Missing
<1>13. TickerTypeOK'
  BY <1>2, <1>6, <1>11 DEF TickerTypeOK
<1>14. GraphInv'
  BY <1>2 DEF GraphInv
<1>15. CallInv(A)'
  <2>1. A \subseteq scheduled /\ scheduled \in SUBSET Filters
    BY <1>1, <1>2 DEF TickerTypeOK, Attached, CallInv
  <2>2. \A g \in scheduled \ A : last_tick'[g] = last_tick[g]
    BY <1>3, <1>12, <2>1
  <2>3. QED BY <1>1, <1>2, <2>2 DEF Attached, CallInv
<1>16. ListInv(A)'
  BY <1>1, <1>2, <1>3, <1>10, <1>12 DEF Attached, ListInv
<1>17. TickInv(A)'
  <2>1. (Reached \subseteq Started)' /\ (Range(execution_list) \subseteq Reached \cup Fresh)'
    BY <1>2, <1>3, <1>8, <1>10, <1>19 DEF TickInv
  <2>2. (\A l \in linked : l[1] \in ran => l[2] \in Reached \cup Fresh)'
    BY <1>2, <1>3, <1>7, <1>10, <1>19 DEF TickInv
  <2>3. (\A g \in A : last_tick[g] = ticks <=> g \in ran \cup Fresh)'
    BY <1>2, <1>3, <1>12, <1>19 DEF TickInv
  <2>8. (ticks = 0 => \A g \in A : last_tick[g] \in {0, MaxTicks})'
    BY <1>2, <1>3, <1>12 DEF TickInv
  <2>4. (Reached \cap Decoders # {} => Receiver \in ran)'
    BY <1>2, <1>3, <1>9, <1>10 DEF TickInv
  <2>5. (~force => \A g \in Range(unschedulable) :
           \/ g \in ran \cup Missing \cup Range(todo)
           \/ \E h \in Filters \ ran : <<h, g>> \in linked)'
    <3>. SUFFICES ASSUME ~force, NEW g \in Range(unschedulable),
                         g \notin ran', g \notin Missing, g \notin Range(todo')
                  PROVE  \E h \in Filters \ ran' : <<h, g>> \in linked
      BY <1>2, <1>19
    <3>1. PICK h \in Filters \ ran : <<h, g>> \in linked
      BY <1>2, <1>3, <1>6 DEF TickInv
    <3>2. h # f
      BY <1>6, <1>7, <3>1
    <3>3. QED BY <1>2, <3>1, <3>2
  <2>6. (force => unschedulable = <<>> /\ \A g \in A \ (ran \cup Missing) : InOrBehindLoop(g))'
    BY <1>2, <1>3, <1>19 DEF TickInv, InOrBehindLoop
  <2>7. QED BY <2>1, <2>2, <2>3, <2>4, <2>5, <2>6, <2>8 DEF TickInv
<1>18. QED BY <1>1, <1>13, <1>14, <1>15, <1>16, <1>17 DEF TickerIInv, Attached

LEMMA ForceRoundStep ==
  ASSUME TickerIInv, ForceRound
  PROVE  TickerIInv'
<1>1. PICK A \in SUBSET Filters : Attached(A)
  BY DEF TickerIInv
<1>2. /\ TickerTypeOK /\ GraphInv
      /\ tpc = "tick" /\ todo = <<>> /\ unschedulable # <<>>
      /\ force' = TRUE /\ todo' = unschedulable /\ unschedulable' = <<>>
      /\ UNCHANGED <<linked, scheduled, last_tick, execution_list, run>>
      /\ UNCHANGED <<ticks, tpc, ran, mpc, filters, sources>>
  BY DEF TickerIInv, ForceRound, LeftOver, graphs, call
<1>3. TickInv(A) /\ ~force
  BY <1>1, <1>2 DEF Attached, TickInv
<1>4. Range(<<>>) = {}
  BY DEF Range
<1>5. Started' = Started /\ Reached' = Reached
  BY <1>2, <1>4 DEF Started, Reached
<1>12. Fresh' = Fresh /\ Missing' = Missing
  BY <1>2 DEF Fresh, Missing
<1>13. Fresh \subseteq Missing /\ Closed(Missing, linked)
  BY <1>2, MissingFacts
<1>6. TickerTypeOK'
  BY <1>2 DEF TickerTypeOK
<1>7. GraphInv'
  BY <1>2 DEF GraphInv
<1>8. CallInv(A)' /\ ListInv(A)'
  BY <1>1, <1>2, <1>5 DEF Attached, CallInv, ListInv
<1>9. ASSUME NEW g \in A \ (ran \cup Missing)
      PROVE  \E h \in A \ (ran \cup Missing) : <<h, g>> \in linked
  <2>1. linked \in SUBSET Links /\ A \subseteq EndsOf(linked) /\ Whole(A, linked)
    BY <1>1, <1>2 DEF Attached, CallInv, GraphInv, TickerTypeOK
  <2>2. CASE g \in Range(unschedulable)
    <3>1. PICK h \in Filters \ ran : <<h, g>> \in linked
      BY <1>2, <1>3, <1>4, <1>9, <2>2 DEF TickInv
    <3>2. h \in A
      BY <1>9, <2>1, <3>1 DEF Whole
    <3>3. h \notin Missing
      BY <1>9, <1>13, <3>1 DEF Closed
    <3>4. QED BY <3>1, <3>2, <3>3
  <2>3. CASE g \notin Range(unschedulable)
    <3>1. g \notin Reached
      BY <1>2, <1>4, <1>9, <2>3 DEF Reached
    <3>2. g \notin Sources
      BY <1>1, <1>3, <1>9, <1>13, <3>1 DEF Attached, ListInv, TickInv
    <3>3. PICK l \in linked : l[2] = g
      BY <1>2, <1>9, <2>1, <3>2 DEF GraphInv
    <3>4. l = <<l[1], g>> /\ l[1] \in A /\ l[1] \notin ran
      BY <1>3, <1>9, <1>13, <2>1, <3>1, <3>3, LinkFacts DEF Whole, TickInv
    <3>5. l[1] \notin Missing
      BY <1>9, <1>13, <3>3 DEF Closed
    <3>6. QED BY <3>3, <3>4, <3>5
  <2>4. QED BY <2>2, <2>3
<1>10. \A g \in A \ (ran \cup Missing) : InOrBehindLoop(g)
  <2>1. A \ (ran \cup Missing) \in SUBSET Filters
    OBVIOUS
  <2>2. QED BY <1>9, <2>1 DEF InOrBehindLoop
<1>11. TickInv(A)'
  <2>1. (force => unschedulable = <<>> /\ \A g \in A \ (ran \cup Missing) : InOrBehindLoop(g))'
    BY <1>2, <1>10, <1>12 DEF InOrBehindLoop
  <2>2. QED BY <1>2, <1>3, <1>5, <1>12, <2>1 DEF TickInv
<1>14. QED BY <1>1, <1>6, <1>7, <1>8, <1>11 DEF TickerIInv, Attached

(* At the end of a tick all has run that the sources lead to without       *)
(* passing a filter that passes for run.                                   *)
LEMMA AllHaveRun ==
  ASSUME TickerTypeOK, NEW A \in SUBSET Filters, Attached(A), EndTick
  PROVE  /\ Least(Range(execution_list) \ Fresh, {l \in linked : l[2] \notin Fresh}) \subseteq ran
         /\ ticks # 0 => Started \subseteq ran
<1>1. tpc = "tick" /\ TickInv(A) /\ Reached = ran
  BY DEF EndTick, Attached, Reached, Range
<1>2. PICK links : links = {l \in linked : l[2] \notin Fresh}
  OBVIOUS
<1>3. PICK S : S = Range(execution_list) \ Fresh
  OBVIOUS
<1>4. /\ ran \in SUBSET Filters /\ links \in SUBSET (Filters \X Filters)
      /\ S \in SUBSET Filters
  BY <1>2, <1>3 DEF TickerTypeOK, Links, Attached, ListInv
<1>5. S \subseteq ran /\ Closed(ran, links)
  BY <1>1, <1>2, <1>3 DEF TickInv, Closed
<1>6. Least(S, links) \subseteq ran
  BY <1>4, <1>5, LeastFacts
<1>7. ASSUME ticks # 0
      PROVE  Started \subseteq ran
  <2>1. Fresh = {}
    BY <1>7 DEF Fresh
  <2>2. links = linked /\ S = Range(execution_list)
    BY <1>2, <1>3, <2>1
  <2>3. QED BY <1>6, <2>2 DEF Started
<1>8. QED BY <1>2, <1>3, <1>6, <1>7

LEMMA EndTickStep ==
  ASSUME TickerIInv, EndTick
  PROVE  TickerIInv'
<1>1. PICK A \in SUBSET Filters : Attached(A)
  BY DEF TickerIInv
<1>2. /\ TickerTypeOK /\ GraphInv
      /\ tpc = "tick" /\ tpc' = "wait"
      /\ UNCHANGED <<linked, scheduled, last_tick, execution_list, run>>
      /\ UNCHANGED <<ticks, todo, unschedulable, force, ran, mpc, filters, sources>>
  BY DEF TickerIInv, EndTick, graphs, call
<1>3. TickInv(A) /\ (ticks # 0 => Started \subseteq ran)
  BY <1>1, <1>2, AllHaveRun DEF Attached
<1>4. Started' = Started
  BY <1>2 DEF Started
<1>5. TickerTypeOK'
  BY <1>2 DEF TickerTypeOK
<1>6. GraphInv'
  BY <1>2 DEF GraphInv
<1>7. CallInv(A)'
  BY <1>1, <1>2 DEF Attached, CallInv
<1>8. ListInv(A)'
  <2>1. \A f \in A : last_tick[f] \in {0, ticks} \/ (ticks = 0 /\ last_tick[f] = MaxTicks)
    BY <1>1, <1>3 DEF Attached, ListInv, TickInv
  <2>2. QED BY <1>1, <1>2, <1>4, <2>1 DEF Attached, ListInv
<1>9. QED BY <1>2, <1>5, <1>6, <1>7, <1>8 DEF TickerIInv, Attached

LEMMA ExitStep ==
  ASSUME TickerIInv, Exit
  PROVE  TickerIInv'
<1>1. PICK A \in SUBSET Filters : Attached(A)
  BY DEF TickerIInv
<1>2. /\ TickerTypeOK /\ GraphInv
      /\ tpc = "wait" /\ ~run /\ tpc' = "off"
      /\ UNCHANGED <<linked, scheduled, last_tick, execution_list, run>>
      /\ UNCHANGED <<ticks, todo, unschedulable, force, ran, mpc, filters, sources>>
  BY DEF TickerIInv, Exit, graphs, call
<1>3. Started' = Started
  BY <1>2 DEF Started
<1>4. TickerTypeOK'
  BY <1>2 DEF TickerTypeOK
<1>5. GraphInv'
  BY <1>2 DEF GraphInv
<1>6. mpc = "join" /\ scheduled = {}
  BY <1>1, <1>2 DEF Attached, CallInv
<1>7. CallInv(A)'
  BY <1>1, <1>2, <1>6 DEF Attached, CallInv
<1>8. ListInv(A)'
  BY <1>1, <1>2, <1>3 DEF Attached, ListInv
<1>9. QED BY <1>2, <1>4, <1>5, <1>7, <1>8 DEF TickerIInv, Attached

(* What S leads to, the same filters lead to, renamed, if d is replaced.   *)
LEMMA ReplacedLeadsOn ==
  ASSUME NEW S \in SUBSET Filters, NEW S2 \in SUBSET Filters, NEW links \in SUBSET Links,
         NEW d \in Decoders, NEW e \in Decoders,
         e \notin EndsOf(links), <<Receiver, d>> \in links,
         \A f \in S \ {e} : Renamed(d, e, f) \in S2
  PROVE  \A f \in Least(S, links) \ {e} : Renamed(d, e, f) \in Least(S2, Replaced(links, d, e))
<1>1. PICK links2 : links2 = Replaced(links, d, e)
  OBVIOUS
<1>2. /\ links2 \in SUBSET Links
      /\ \A l \in links : /\ l[1] # e /\ l[2] # e
                          /\ <<Renamed(d, e, l[1]), Renamed(d, e, l[2])>> \in links2
  <2>1. Replaced(links, d, e) \in SUBSET Links
    BY ReplacedFacts, Zenon
  <2>2. \A l \in links : /\ l[1] # e /\ l[2] # e
                         /\ <<Renamed(d, e, l[1]), Renamed(d, e, l[2])>> \in Replaced(links, d, e)
    BY ReplacedFacts, Zenon
  <2>3. QED BY <1>1, <2>1, <2>2, Zenon
<1>3. links \in SUBSET (Filters \X Filters) /\ links2 \in SUBSET (Filters \X Filters)
  BY <1>2 DEF Links
<1>4. PICK R : R = Least(S2, links2)
  OBVIOUS
<1>5. R \in SUBSET Filters /\ S2 \subseteq R /\ Closed(R, links2)
  BY <1>3, <1>4, LeastFacts
<1>6. PICK T : T = {f \in Filters : f = e \/ Renamed(d, e, f) \in R}
  OBVIOUS
<1>7. T \in SUBSET Filters /\ S \subseteq T
  BY <1>5, <1>6
<1>8. Closed(T, links)
  <2>. SUFFICES ASSUME NEW l \in links, l[1] \in T
                PROVE  l[2] \in T
    BY DEF Closed
  <2>1. l[1] # e /\ l[2] \in Filters
    BY <1>2, LinkFacts
  <2>2. Renamed(d, e, l[1]) \in R
    BY <1>6, <2>1
  <2>3. Renamed(d, e, l[2]) \in R
    BY <1>2, <1>5, <2>2 DEF Closed
  <2>4. QED BY <1>6, <2>1, <2>3
<1>9. Least(S, links) \subseteq T
  BY <1>3, <1>7, <1>8, LeastFacts
<1>10. QED BY <1>1, <1>4, <1>6, <1>9

(* Replacing renames the filters of the graphs, whole parts among them ... *)
LEMMA ReplacedKeeps ==
  ASSUME NEW links \in SUBSET Links, NEW d \in Decoders, NEW e \in Decoders,
         e \notin EndsOf(links), <<Receiver, d>> \in links
  PROVE  /\ EndsOf(Replaced(links, d, e)) = {Renamed(d, e, f) : f \in EndsOf(links)}
         /\ \A S : Whole(S, links) =>
              /\ d \in S => Whole((S \ {d}) \cup {e}, Replaced(links, d, e))
              /\ d \notin S /\ e \notin S => Whole(S, Replaced(links, d, e))
<1>1. PICK links2 : links2 = Replaced(links, d, e)
  OBVIOUS
<1>2. /\ \A l \in links : /\ l[1] # e /\ l[2] # e
                          /\ <<Renamed(d, e, l[1]), Renamed(d, e, l[2])>> \in links2
      /\ \A m \in links2 : \E l \in links : m[1] = Renamed(d, e, l[1]) /\ m[2] = Renamed(d, e, l[2])
      /\ d # e
  <2>1. \A l \in links : /\ l[1] # e /\ l[2] # e
                         /\ <<Renamed(d, e, l[1]), Renamed(d, e, l[2])>> \in Replaced(links, d, e)
    BY ReplacedFacts, Zenon
  <2>2. \A m \in Replaced(links, d, e) :
          \E l \in links : m[1] = Renamed(d, e, l[1]) /\ m[2] = Renamed(d, e, l[2])
    BY DEF Replaced, Renamed
  <2>3. d # e
    BY ReplacedFacts, Zenon
  <2>4. QED BY <1>1, <2>1, <2>2, <2>3
<1>3. EndsOf(links2) \subseteq {Renamed(d, e, f) : f \in EndsOf(links)}
  BY <1>2 DEF EndsOf
<1>4. ASSUME NEW f \in EndsOf(links)
      PROVE  Renamed(d, e, f) \in EndsOf(links2)
  <2>1. PICK l \in links : f = l[1] \/ f = l[2]
    BY DEF EndsOf
  <2>2. PICK m \in links2 : m[1] = Renamed(d, e, l[1]) /\ m[2] = Renamed(d, e, l[2])
    BY <1>2
  <2>3. QED BY <2>1, <2>2 DEF EndsOf
<1>5. ASSUME NEW S, Whole(S, links)
      PROVE  /\ d \in S => Whole((S \ {d}) \cup {e}, links2)
             /\ d \notin S /\ e \notin S => Whole(S, links2)
  BY <1>2, <1>5 DEF Whole, Renamed
<1>6. QED BY <1>1, <1>3, <1>4, <1>5

(* ... and loops.                                                          *)
LEMMA ReplacedLoop ==
  ASSUME linked \in SUBSET Links, NEW d \in Decoders, NEW e \in Decoders,
         e \notin EndsOf(linked), <<Receiver, d>> \in linked,
         linked' = Replaced(linked, d, e),
         NEW f, InOrBehindLoop(f)
  PROVE  InOrBehindLoop(Renamed(d, e, f))'
<1>1. PICK S \in SUBSET Filters : f \in S /\ \A g \in S : \E h \in S : <<h, g>> \in linked
  BY DEF InOrBehindLoop
<1>2. DEFINE S2 == {Renamed(d, e, g) : g \in S}
<1>3. S2 \in SUBSET Filters
  BY TickerAssumption DEF Renamed
<1>4. ASSUME NEW g \in S
      PROVE  \E h \in S2 : <<h, Renamed(d, e, g)>> \in linked'
  <2>1. PICK h \in S : <<h, g>> \in linked
    BY <1>1
  <2>2. \A l \in linked : <<Renamed(d, e, l[1]), Renamed(d, e, l[2])>> \in linked'
    BY ReplacedFacts, Zenon
  <2>3. <<h, g>>[1] = h /\ <<h, g>>[2] = g
    OBVIOUS
  <2>4. <<Renamed(d, e, h), Renamed(d, e, g)>> \in linked'
    BY <2>1, <2>2, <2>3, Zenon
  <2>5. QED BY <2>4
<1>5. Renamed(d, e, f) \in S2 /\ \A g \in S2 : \E h \in S2 : <<h, g>> \in linked'
  BY <1>1, <1>4
<1>6. PICK b : b = Renamed(d, e, f)
  OBVIOUS
<1>. HIDE DEF S2
<1>7. \E T \in SUBSET Filters : b \in T /\ \A g \in T : \E h \in T : <<h, g>> \in linked'
  BY <1>3, <1>5, <1>6
<1>8. InOrBehindLoop(b)'
  BY <1>7 DEF InOrBehindLoop
<1>9. QED BY <1>6, <1>8

(* The receiver runs and has its decoder replaced.                         *)
LEMMA ChangeDecoderStep ==
  ASSUME TickerIInv, NEW d \in Decoders, NEW e \in Decoders, RunAndChangeDecoder(d, e)
  PROVE  TickerIInv'
<1>1. PICK A \in SUBSET Filters : Attached(A)
  BY DEF TickerIInv
<1>2. PICK f : f = Receiver
  OBVIOUS
<1>3. /\ TickerTypeOK /\ GraphInv /\ IsNext(f) /\ last_tick[f] # ticks
      /\ <<f, d>> \in linked /\ e \notin EndsOf(linked)
      /\ linked' = Replaced(linked, d, e)
      /\ scheduled' = (scheduled \ {d}) \cup {e}
      /\ last_tick' = [[last_tick EXCEPT ![f] = ticks] EXCEPT ![e] = 0]
      /\ ran' = ran \cup {f}
      /\ todo' = OutputsOf(f, linked') \o Tail(todo)
      /\ UNCHANGED <<execution_list, run>>
      /\ UNCHANGED <<ticks, tpc, unschedulable, force, mpc, filters, sources>>
  BY <1>2 DEF TickerIInv, RunAndChangeDecoder, MayRun, Preprocessed, call
<1>4. /\ tpc = "tick" /\ TickInv(A) /\ f \in A /\ f \in Started /\ f \in Reached /\ f \in Filters
      /\ Tail(todo) \in Seq(Filters) /\ Range(todo) = {f} \cup Range(Tail(todo))
  BY <1>1, <1>3, InWalk
<1>5. /\ linked \in SUBSET Links /\ scheduled \in SUBSET Filters
      /\ last_tick \in [Filters -> 0 .. MaxTicks] /\ ticks \in 0 .. MaxTicks
  BY <1>3 DEF TickerTypeOK
<1>6. /\ linked' \in SUBSET Links
      /\ d # e /\ e \notin Sources /\ d \notin Sources /\ f # d /\ f # e
      /\ e \in Filters /\ d \in Filters
      /\ \A l \in linked : /\ l[1] # e /\ l[2] # e
                           /\ <<Renamed(d, e, l[1]), Renamed(d, e, l[2])>> \in linked'
      /\ \A m \in linked' : \E l \in linked : m[1] = Renamed(d, e, l[1]) /\ m[2] = Renamed(d, e, l[2])
      /\ <<f, e>> \in linked'
      /\ EndsOf(linked') = {Renamed(d, e, g) : g \in EndsOf(linked)}
  <2>1. linked \in SUBSET Links /\ <<Receiver, d>> \in linked
    BY <1>2, <1>3, <1>5
  <2>2. e \in Filters /\ d \in Filters
    BY TickerAssumption
  <2>3. EndsOf(linked') = {Renamed(d, e, g) : g \in EndsOf(linked)}
    BY <1>3, <2>1, ReplacedKeeps, Zenon
  <2>4. QED BY <1>2, <1>3, <2>1, <2>2, <2>3, ReplacedFacts, Zenon
<1>7. /\ A \subseteq scheduled /\ Whole(A, linked) /\ d \in A
      /\ scheduled \subseteq EndsOf(linked) /\ e \notin scheduled /\ e \notin A
  BY <1>1, <1>3, <1>4 DEF Attached, CallInv, Whole, GraphInv
<1>8. f \notin ran /\ Reached \cap Decoders = {} /\ Reached \subseteq Started
  BY <1>2, <1>3, <1>4 DEF TickInv
<1>9. DEFINE next == {g \in Filters : <<f, g>> \in linked'}
<1>10. todo' \in Seq(Filters) /\ Range(todo') = next \cup Range(Tail(todo))
  <2>1. OutputsOf(f, linked') \in Seq(Filters) /\ Range(OutputsOf(f, linked')) = next
    BY <1>4, <1>6, OutputsOfFacts
  <2>2. \A s, t \in Seq(Filters) : s \o t \in Seq(Filters) /\ Range(s \o t) = Range(s) \cup Range(t)
    BY ConcatProperties, RangeConcatenation
  <2>3. Tail(todo) \in Seq(Filters) /\ todo' = OutputsOf(f, linked') \o Tail(todo)
    BY <1>3, <1>4
  <2>4. QED BY <2>1, <2>2, <2>3, Zenon
<1>11. \A l \in linked' : l[1] = f => l[2] \in next
  BY <1>6, LinkFacts
<1>12. PICK N : N = next
  OBVIOUS
<1>. HIDE DEF next
<1>13. Reached' = Reached \cup N
  BY <1>3, <1>4, <1>10, <1>12 DEF Reached
<1>14. /\ \A g \in Started \ {d, e} : g \in Started'
       /\ N \subseteq Started'
  <2>1. Range(execution_list) \in SUBSET Sources
    BY <1>1 DEF Attached, ListInv
  <2>2. \A g \in Started \ {d, e} : g \in Started'
    <3>1. Range(execution_list) \in SUBSET Filters
      BY <2>1, TickerAssumption
    <3>2. \A g \in Range(execution_list) \ {e} : Renamed(d, e, g) \in Range(execution_list)
      BY <1>6, <2>1 DEF Renamed
    <3>3. <<Receiver, d>> \in linked
      BY <1>2, <1>3
    <3>4. \A g \in Least(Range(execution_list), linked) \ {e} :
            Renamed(d, e, g) \in Least(Range(execution_list), Replaced(linked, d, e))
      BY <1>3, <1>5, <3>1, <3>2, <3>3, ReplacedLeadsOn
    <3>5. QED BY <1>3, <3>4 DEF Started, Renamed
  <2>3. Range(execution_list) \in SUBSET Filters /\ linked' \in SUBSET (Filters \X Filters)
    BY <1>6, <2>1, TickerAssumption DEF Links
  <2>4. Closed(Least(Range(execution_list), linked'), linked')
    BY <2>3, LeastFacts
  <2>5. f \in Started'
    BY <1>4, <1>6, <2>2
  <2>6. N \subseteq Started'
    BY <1>3, <1>12, <2>4, <2>5 DEF Started, Closed, next
  <2>7. QED BY <2>2, <2>6
<1>15. /\ last_tick' \in [Filters -> 0 .. MaxTicks]
       /\ \A g \in Filters : last_tick'[g] = IF g = e THEN 0 ELSE IF g = f THEN ticks ELSE last_tick[g]
  <2>1. 0 \in 0 .. MaxTicks /\ ticks \in 0 .. MaxTicks
    BY <1>5, TickerAssumption
  <2>2. DOMAIN last_tick = Filters
    BY <1>5
  <2>3. \A g \in Filters : last_tick'[g] = IF g = e THEN 0 ELSE IF g = f THEN ticks ELSE last_tick[g]
    BY <1>3, <1>4, <1>6, <2>2
  <2>4. QED BY <1>3, <1>5, <2>1, <2>3
<1>24. /\ \A g \in Filters \ {d, e, f} : g \in Fresh <=> g \in Fresh'
       /\ e \in Fresh' <=> ticks = 0
       /\ f \notin Fresh /\ f \notin Fresh'
       /\ Fresh \in SUBSET Filters /\ Fresh' \in SUBSET Filters
  <2>1. e \notin ran'
    BY <1>3, <1>6, <1>8 DEF Reached
  <2>2. QED BY <1>3, <1>4, <1>6, <1>15, <2>1 DEF Fresh
<1>25. \A g \in Missing \ {e} : Renamed(d, e, g) \in Missing'
  <2>1. \A g \in Fresh \ {e} : Renamed(d, e, g) \in Fresh'
    BY <1>24 DEF Renamed, Fresh
  <2>2. <<Receiver, d>> \in linked
    BY <1>2, <1>3
  <2>3. \A g \in Least(Fresh, linked) \ {e} : Renamed(d, e, g) \in Least(Fresh', Replaced(linked, d, e))
    BY <1>3, <1>5, <1>24, <2>1, <2>2, ReplacedLeadsOn
  <2>4. QED BY <1>3, <2>3 DEF Missing
<1>16. TickerTypeOK'
  BY <1>3, <1>4, <1>5, <1>6, <1>10, <1>15 DEF TickerTypeOK
<1>17. GraphInv'
  <2>1. ASSUME NEW g \in EndsOf(linked') \ Sources
        PROVE  \E l \in linked' : l[2] = g
    <3>1. PICK g0 \in EndsOf(linked) : g = Renamed(d, e, g0)
      BY <1>6
    <3>2. CASE g0 = d
      BY <1>6, <3>1, <3>2 DEF Renamed
    <3>3. CASE g0 # d
      <4>1. g0 = g /\ g0 \notin Sources
        BY <2>1, <3>1, <3>3 DEF Renamed
      <4>2. PICK l \in linked : l[2] = g0
        BY <1>3, <4>1 DEF GraphInv
      <4>3. <<Renamed(d, e, l[1]), g>> \in linked'
        BY <1>6, <3>1, <4>2
      <4>4. QED BY <4>3
    <3>4. QED BY <3>2, <3>3
  <2>2. \A g \in EndsOf(linked) \ {d} : g \in EndsOf(linked')
    BY <1>6 DEF Renamed
  <2>3. e \in EndsOf(linked')
    BY <1>6 DEF EndsOf
  <2>4. scheduled' \subseteq EndsOf(linked')
    BY <1>3, <1>7, <2>2, <2>3
  <2>5. QED BY <2>1, <2>4 DEF GraphInv
<1>18. PICK B : B = (A \ {d}) \cup {e}
  OBVIOUS
<1>19. CallInv(B)'
  <2>1. scheduled' \ B = scheduled \ A /\ B \subseteq scheduled'
    BY <1>3, <1>7, <1>18
  <2>2. Whole(B, linked')
    BY <1>2, <1>3, <1>5, <1>7, <1>18, ReplacedKeeps
  <2>3. mpc \notin {"stop", "join"} /\ run
    BY <1>1, <1>4, <1>7 DEF Attached, CallInv
  <2>4. mpc \notin {"attach", "postprocess"} => B = scheduled'
    BY <1>1, <1>3, <1>18 DEF Attached, CallInv
  <2>5. ASSUME mpc = "attach"
        PROVE  /\ filters \cap scheduled' = {} /\ filters \subseteq EndsOf(linked')
               /\ Whole(filters \cup (scheduled \ A), linked')
               /\ \A g \in scheduled \ A : last_tick'[g] = 0
               /\ Range(sources) = Sources \cap (filters \cup (scheduled \ A))
               /\ IsInjective(sources)
    <3>1. /\ filters \cap scheduled = {} /\ filters \subseteq EndsOf(linked)
          /\ Whole(filters \cup (scheduled \ A), linked)
          /\ \A g \in scheduled \ A : last_tick[g] = 0
          /\ Range(sources) = Sources \cap (filters \cup (scheduled \ A))
          /\ IsInjective(sources)
      BY <1>1, <2>5 DEF Attached, CallInv
    <3>2. d \notin filters \cup (scheduled \ A) /\ e \notin filters \cup (scheduled \ A)
      BY <1>3, <1>7, <3>1
    <3>3. filters \subseteq EndsOf(linked')
      BY <1>6, <3>1, <3>2 DEF Renamed
    <3>4. Whole(filters \cup (scheduled \ A), linked')
      BY <1>2, <1>3, <1>5, <3>1, <3>2, ReplacedKeeps
    <3>5. \A g \in scheduled \ A : last_tick'[g] = 0
      BY <1>4, <1>5, <1>15, <3>1
    <3>6. QED BY <1>3, <3>1, <3>2, <3>3, <3>4, <3>5
  <2>6. mpc = "detach" => \E g \in scheduled' \ Decoders : filters = {g}
    BY <1>1, <1>3 DEF Attached, CallInv
  <2>7. mpc = "postprocess" => filters \subseteq scheduled' /\ B = scheduled' \ filters
    BY <1>1, <1>3, <1>7, <1>18 DEF Attached, CallInv
  <2>8. QED BY <1>3, <1>4, <2>1, <2>2, <2>3, <2>4, <2>5, <2>6, <2>7 DEF CallInv
<1>20. ListInv(B)'
  <2>1. Range(execution_list) = Sources \cap B /\ IsInjective(execution_list)
    BY <1>1, <1>6, <1>18 DEF Attached, ListInv
  <2>2. ASSUME NEW g \in B, last_tick'[g] # 0
        PROVE  g \in Started'
    <3>1. g \in A \ {d} /\ g # e
      BY <1>6, <1>15, <1>18, <2>2
    <3>2. g \in Started
      BY <1>1, <1>4, <1>15, <2>2, <3>1 DEF Attached, ListInv
    <3>3. QED BY <1>14, <3>1, <3>2
  <2>3. QED BY <1>3, <1>4, <2>1, <2>2 DEF ListInv
<1>21. TickInv(B)'
  <2>1. (Reached \subseteq Started)' /\ (Range(execution_list) \subseteq Reached \cup Fresh)'
    <3>1. Reached \subseteq Started'
      BY <1>8, <1>14
    <3>3. Range(execution_list) \subseteq Sources
      BY <1>1 DEF Attached, ListInv
    <3>4. \A g \in Range(execution_list) : g \in Fresh => g \in Fresh'
      BY <1>6, <1>24, <3>3
    <3>2. QED BY <1>3, <1>4, <1>13, <1>14, <3>1, <3>4 DEF TickInv
  <2>2. ASSUME NEW m \in linked', m[1] \in ran'
        PROVE  m[2] \in Reached' \cup Fresh'
    <3>1. CASE m[1] = f
      BY <1>11, <1>12, <1>13, <3>1
    <3>2. CASE m[1] # f
      <4>1. m[1] \in ran /\ m[1] \in Reached
        BY <1>3, <2>2, <3>2 DEF Reached
      <4>2. PICK l \in linked : m[1] = Renamed(d, e, l[1]) /\ m[2] = Renamed(d, e, l[2])
        BY <1>6
      <4>3. l[1] = m[1]
        BY <1>8, <4>1, <4>2 DEF Renamed
      <4>4. l[2] \in Reached \cup Fresh
        BY <1>4, <4>1, <4>3 DEF TickInv
      <4>5. l[2] # d /\ l[2] # e /\ l[2] = m[2]
        <5>1. l[2] # d
          BY <1>2, <1>5, <3>2, <4>3, LinkFacts
        <5>2. QED BY <1>6, <4>2, <5>1 DEF Renamed
      <4>7. l[2] # f \/ l[2] \in Reached
        BY <1>24, <4>4
      <4>8. l[2] \in Filters
        BY <1>5, LinkFacts
      <4>6. QED BY <1>13, <1>24, <4>4, <4>5, <4>7, <4>8
    <3>3. QED BY <3>1, <3>2
  <2>3. (\A g \in B : last_tick[g] = ticks <=> g \in ran \cup Fresh)'
    <3>1. e \notin ran
      BY <1>8 DEF Reached
    <3>2. \A g \in A : last_tick[g] = ticks <=> g \in ran \cup Fresh
      BY <1>4 DEF TickInv
    <3>3. QED BY <1>3, <1>5, <1>6, <1>15, <1>18, <1>24, <3>1, <3>2
  <2>12. (ticks = 0 => \A g \in B : last_tick[g] \in {0, MaxTicks})'
    <3>1. ticks = 0 => \A g \in A : last_tick[g] \in {0, MaxTicks}
      BY <1>4 DEF TickInv
    <3>2. QED BY <1>3, <1>6, <1>15, <1>18, <3>1
  <2>4. (Reached \cap Decoders # {} => Receiver \in ran)'
    BY <1>2, <1>3
  <2>5. ASSUME ~force, NEW g \in Range(unschedulable),
               g \notin ran', g \notin Missing', g \notin Range(todo')
        PROVE  \E h \in Filters \ ran' : <<h, g>> \in linked'
    <3>1. g \in Reached /\ g # d /\ g # e
      BY <1>8 DEF Reached
    <3>7. g \notin Missing
      BY <1>25, <2>5, <3>1 DEF Renamed
    <3>2. PICK h \in Filters \ ran : <<h, g>> \in linked
      BY <1>3, <1>4, <1>10, <2>5, <3>7 DEF TickInv
    <3>3. <<Renamed(d, e, h), g>> \in linked'
      BY <1>6, <3>1, <3>2 DEF Renamed
    <3>4. Renamed(d, e, h) # f
      BY <1>10, <1>11, <2>5, <3>3
    <3>5. Renamed(d, e, h) \in Filters \ ran
      BY <1>6, <1>8, <3>2 DEF Renamed, Reached
    <3>6. QED BY <1>3, <3>3, <3>4, <3>5
  <2>6. ASSUME force, NEW g \in B \ (ran' \cup Missing')
        PROVE  InOrBehindLoop(g)'
    <3>1. PICK g0 \in A \ ran : g = Renamed(d, e, g0)
      <4>1. d \in A \ ran
        BY <1>7, <1>8 DEF Reached
      <4>2. CASE g = e
        BY <4>1, <4>2 DEF Renamed
      <4>3. CASE g # e
        BY <1>3, <1>18, <2>6, <4>3 DEF Renamed
      <4>4. QED BY <4>2, <4>3
    <3>5. g0 \notin Missing
      BY <1>7, <1>25, <2>6, <3>1
    <3>2. InOrBehindLoop(g0)
      BY <1>4, <2>6, <3>5 DEF TickInv
    <3>3. InOrBehindLoop(Renamed(d, e, g0))'
      BY <1>2, <1>3, <1>5, <3>2, ReplacedLoop
    <3>4. QED BY <3>1, <3>3
  <2>7. force => unschedulable = <<>>
    BY <1>4 DEF TickInv
  <2>8. (\A m \in linked : m[1] \in ran => m[2] \in Reached \cup Fresh)'
    BY <2>2
  <2>9. (~force => \A g \in Range(unschedulable) :
           \/ g \in ran \cup Missing \cup Range(todo)
           \/ \E h \in Filters \ ran : <<h, g>> \in linked)'
    BY <1>3, <2>5
  <2>10. (force => unschedulable = <<>> /\ \A g \in B \ (ran \cup Missing) : InOrBehindLoop(g))'
    BY <1>3, <2>6, <2>7, Zenon
  <2>11. QED BY <2>1, <2>3, <2>4, <2>8, <2>9, <2>10, <2>12 DEF TickInv
<1>22. B \in SUBSET Filters /\ Attached(B)'
  BY <1>6, <1>18, <1>19, <1>20, <1>21 DEF Attached
<1>23. QED BY <1>16, <1>17, <1>22 DEF TickerIInv

-----------------------------------------------------------------------------
LEMMA TickerInitInv == TickerInit => TickerIInv
<1>. SUFFICES ASSUME TickerInit PROVE TickerIInv
  OBVIOUS
<1>1. TickerTypeOK
  <2>1. 0 \in 0 .. MaxTicks /\ 1 \in 0 .. MaxTicks
    BY TickerAssumption
  <2>2. <<>> \in Seq(Filters)
    OBVIOUS
  <2>3. last_tick \in [Filters -> 0 .. MaxTicks]
    BY <2>1 DEF TickerInit
  <2>4. QED BY <2>1, <2>2, <2>3 DEF TickerInit, TickerTypeOK
<1>2. GraphInv
  BY DEF TickerInit, GraphInv, EndsOf
<1>3. Attached({})
  BY DEF TickerInit, Attached, CallInv, ListInv, Whole, Range, IsInjective
<1>4. QED BY <1>1, <1>2, <1>3 DEF TickerIInv

LEMMA TickerStep == TickerIInv /\ [TickerNext]_tickerVars => TickerIInv'
<1>. SUFFICES ASSUME TickerIInv, [TickerNext]_tickerVars
              PROVE  TickerIInv'
  OBVIOUS
<1>1. CASE \E G \in Graphs : Link(G)
  BY <1>1, LinkStep
<1>2. CASE \E f \in Handles : Unlink(f) \/ Attach(f) \/ Detach(f)
  BY <1>2, UnlinkStep, AttachStep, DetachStep
<1>3. CASE New \/ Destroy
  BY <1>3, NewStep, DestroySteps
<1>4. CASE InCall
  BY <1>4, PreprocessStep, PostprocessStep, AttachSourcesStep, DetachSourcesStep, DestroySteps
     DEF InCall
<1>5. CASE Ticker
  BY <1>5, BeginTickStep, ForceRoundStep, EndTickStep, ExitStep, SkipStep, PostponeStep, RunStep,
     ChangeDecoderStep DEF Ticker
<1>6. CASE UNCHANGED tickerVars
  <2>1. PICK A \in SUBSET Filters : Attached(A)
    BY DEF TickerIInv
  <2>2. /\ TickerTypeOK /\ GraphInv
        /\ UNCHANGED <<linked, execution_list, tick>>
        /\ UNCHANGED <<scheduled, last_tick, run, tpc, mpc, filters, sources>>
    BY <1>6 DEF TickerIInv, tickerVars, graphs, call, tick
  <2>3. TickerTypeOK'
    BY <2>2 DEF TickerTypeOK, tick
  <2>4. GraphInv'
    BY <2>2 DEF GraphInv
  <2>5. Whole(A, linked') /\ ListInv(A)' /\ (tpc = "tick" => TickInv(A))'
    BY <2>1, <2>2, <2>3, ElsewhereSame
  <2>6. CallInv(A)'
    BY <2>1, <2>2, <2>5 DEF Attached, CallInv
  <2>7. QED BY <2>3, <2>4, <2>5, <2>6 DEF TickerIInv, Attached
<1>7. QED BY <1>1, <1>2, <1>3, <1>4, <1>5, <1>6 DEF TickerNext, Main

LEMMA TickerInductive == TickerSpec => []TickerIInv
BY TickerInitInv, TickerStep, PTL DEF TickerSpec

(* Whatever the ticker starts from, calls or comes back to is scheduled,   *)
(* although the main thread prepares and finishes filters outside the lock *)
(* and decoders are replaced in the middle of a walk.                      *)
THEOREM TickerInvariant == TickerSpec => []TickerInv
<1>1. TickerIInv => TickerInv
  <2>. SUFFICES ASSUME TickerIInv PROVE TickerInv
    OBVIOUS
  <2>1. PICK A \in SUBSET Filters : Attached(A)
    BY DEF TickerIInv
  <2>2. TickerTypeOK /\ A \subseteq scheduled
    BY <2>1 DEF TickerIInv, Attached, CallInv
  <2>3. Range(execution_list) \subseteq A /\ (tpc = "tick" => Reached \subseteq A)
    BY <2>1, <2>2, StartedFacts DEF Attached, ListInv
  <2>4. QED BY <2>2, <2>3 DEF TickerInv, OnlyScheduledRun, Reached
<1>2. QED BY <1>1, TickerInductive, PTL

(* A filter that may run has not run, and if it may run before one of      *)
(* those that lead to it, that is for a loop.                              *)
LEMMA MayRunFacts ==
  ASSUME TickerIInv, NEW f \in Filters, MayRun(f)
  PROVE  /\ f \notin ran
         /\ \A g \in Filters : <<g, f>> \in linked => g \in ran \cup Missing \/ InOrBehindLoop(f)
<1>1. PICK A \in SUBSET Filters : Attached(A)
  BY DEF TickerIInv
<1>2. IsNext(f) /\ last_tick[f] # ticks /\ (CanProcess(f) \/ force)
  BY DEF MayRun
<1>3. TickInv(A) /\ f \in A
  BY <1>1, <1>2, InWalk DEF TickerIInv
<1>4. f \notin ran
  BY <1>2, <1>3 DEF TickInv
<1>5. ASSUME NEW g \in Filters, <<g, f>> \in linked
      PROVE  g \in ran \cup Missing \/ InOrBehindLoop(f)
  <2>1. g \in A
    BY <1>1, <1>3, <1>5 DEF Attached, CallInv, Whole
  <2>2. CASE CanProcess(f)
    BY <1>3, <1>5, <2>1, <2>2, MissingFacts DEF CanProcess, TickInv, TickerIInv
  <2>3. CASE force
    <3>. SUFFICES ASSUME g \notin ran \cup Missing
                  PROVE  InOrBehindLoop(f)
      OBVIOUS
    <3>1. PICK S \in SUBSET Filters : g \in S /\ \A h \in S : \E k \in S : <<k, h>> \in linked
      BY <1>3, <2>1, <2>3 DEF TickInv, InOrBehindLoop
    <3>2. S \cup {f} \in SUBSET Filters
      OBVIOUS
    <3>3. \A h \in S \cup {f} : \E k \in S \cup {f} : <<k, h>> \in linked
      BY <1>5, <3>1
    <3>4. QED BY <3>2, <3>3 DEF InOrBehindLoop
  <2>4. QED BY <1>2, <2>2, <2>3
<1>6. QED BY <1>4, <1>5

(* In each tick each filter runs at most once, and all that the sources    *)
(* lead to have run at its end, with any graph and loops; in the tick      *)
(* counted 0, all that they lead to without passing a filter that is new.  *)
THEOREM EachRunsOncePerTick == TickerSpec => RunsOncePerTick
<1>1. ASSUME TickerIInv
      PROVE  /\ \A f \in Filters : MayRun(f) => f \notin ran
             /\ EndTick => Least(Range(execution_list) \ Fresh, {l \in linked : l[2] \notin Fresh})
                             \subseteq ran
  <2>1. PICK A \in SUBSET Filters : Attached(A)
    BY <1>1 DEF TickerIInv
  <2>2. EndTick => Least(Range(execution_list) \ Fresh, {l \in linked : l[2] \notin Fresh}) \subseteq ran
    BY <1>1, <2>1, AllHaveRun DEF TickerIInv
  <2>3. QED BY <1>1, <2>2, MayRunFacts
<1>2. QED BY <1>1, TickerInductive, PTL DEF TickerSpec, RunsOncePerTick

(* A filter runs after those that lead to it unless it is in a loop or     *)
(* behind one, or those that lead to it miss the tick counted 0.           *)
THEOREM RunsUpstreamFirst == TickerSpec => UpstreamFirst
<1>1. ASSUME TickerIInv
      PROVE  \A f, g \in Filters :
               MayRun(f) /\ <<g, f>> \in linked => g \in ran \cup Missing \/ InOrBehindLoop(f)
  BY <1>1, MayRunFacts
<1>2. QED BY <1>1, TickerInductive, PTL DEF TickerSpec, UpstreamFirst

-----------------------------------------------------------------------------
(***************************************************************************)
(* The walk ends, whatever the graph: each step of it lessens, in the      *)
(* order of what comes first, the number of filters that have not run, the *)
(* rounds there may be after this one, and the calls still to be made.     *)
(***************************************************************************)
NotRun == Cardinality(Filters \ ran)
Rounds == IF force THEN 0 ELSE 1

LessIsLeft ==
  \/ NotRun' < NotRun
  \/ NotRun' = NotRun /\ Rounds' < Rounds
  \/ NotRun' = NotRun /\ Rounds' = Rounds /\ Len(todo)' < Len(todo)

(* Nothing the main thread does meanwhile makes a walk longer.             *)
WalkEnds ==
  [][tpc = "tick" => /\ NotRun \in Nat /\ Rounds \in Nat /\ Len(todo) \in Nat
                     /\ Main => UNCHANGED tick
                     /\ Ticker => tpc' = "wait" \/ LessIsLeft]_tickerVars

LEMMA NotRunFacts ==
  /\ NotRun \in Nat
  /\ \A f \in Filters \ ran : ran' = ran \cup {f} => NotRun' < NotRun
<1>1. IsFiniteSet(Filters \ ran) /\ Cardinality(Filters \ ran) \in Nat
  BY TickerAssumption, FS_Subset, FS_CardinalityType
<1>2. ASSUME NEW f \in Filters \ ran, ran' = ran \cup {f}
      PROVE  NotRun' < NotRun
  <2>1. Filters \ ran' = (Filters \ ran) \ {f}
    BY <1>2
  <2>2. Cardinality((Filters \ ran) \ {f}) = Cardinality(Filters \ ran) - 1
    BY <1>1, <1>2, FS_RemoveElement
  <2>3. NotRun' = Cardinality(Filters \ ran') /\ NotRun = Cardinality(Filters \ ran)
    BY DEF NotRun
  <2>4. NotRun' = NotRun - 1
    BY <2>1, <2>2, <2>3, Zenon
  <2>5. NotRun \in Nat
    BY <1>1 DEF NotRun
  <2>6. QED BY <2>4, <2>5
<1>3. QED BY <1>1, <1>2 DEF NotRun

LEMMA WalkSteps ==
  ASSUME TickerIInv, tpc = "tick", Ticker
  PROVE  tpc' = "wait" \/ LessIsLeft
<1>1. TickerTypeOK
  BY DEF TickerIInv
<1>2. ASSUME todo # <<>>, todo' = Tail(todo)
      PROVE  Len(todo)' < Len(todo)
  BY <1>1, <1>2 DEF TickerTypeOK
<1>3. CASE BeginTick \/ EndTick \/ Exit
  BY <1>3 DEF BeginTick, EndTick, Exit
<1>4. CASE ForceRound
  <2>1. ~force
    BY <1>4 DEF TickerIInv, Attached, TickInv, ForceRound
  <2>2. force' = TRUE /\ ran' = ran
    BY <1>4 DEF ForceRound
  <2>3. NotRun' = NotRun /\ Rounds' < Rounds
    BY <2>1, <2>2 DEF NotRun, Rounds
  <2>4. QED BY <2>3 DEF LessIsLeft
<1>5. ASSUME NEW f \in Filters, Skip(f) \/ Postpone(f)
      PROVE  LessIsLeft
  <2>1. todo # <<>> /\ todo' = Tail(todo) /\ force' = force /\ ran' = ran
    BY <1>5 DEF Skip, Postpone, IsNext
  <2>2. NotRun' = NotRun /\ Rounds' = Rounds
    BY <2>1 DEF NotRun, Rounds
  <2>3. QED BY <1>2, <2>1, <2>2 DEF LessIsLeft
<1>6. ASSUME NEW f \in Filters, MayRun(f), ran' = ran \cup {f}
      PROVE  LessIsLeft
  BY <1>6, MayRunFacts, NotRunFacts DEF LessIsLeft
<1>7. ASSUME NEW f \in Filters, Run(f)
      PROVE  LessIsLeft
  BY <1>6, <1>7 DEF Run
<1>8. ASSUME NEW d \in Decoders, NEW e \in Decoders, RunAndChangeDecoder(d, e)
      PROVE  LessIsLeft
  BY <1>6, <1>8, TickerAssumption DEF RunAndChangeDecoder
<1>9. QED BY <1>3, <1>4, <1>5, <1>7, <1>8 DEF Ticker

(* No graph, no loop and no call of the main thread keeps the ticker in a  *)
(* tick, and with it the lock that these calls wait for.                   *)
THEOREM EveryWalkEnds == TickerSpec => WalkEnds
<1>1. ASSUME TickerIInv, tpc = "tick", Main
      PROVE  UNCHANGED tick
  <2>1. tpc # "off"
    BY <1>1
  <2>2. QED BY <1>1, <2>1
    DEF Main, Link, Unlink, Attach, Detach, New, Destroy, InCall, Preprocess, Postprocess,
        AttachSources, DetachSources, StopRun, Join
<1>2. TickerIInv => Rounds \in Nat /\ Len(todo) \in Nat
  BY DEF Rounds, TickerIInv, TickerTypeOK
<1>3. ASSUME TickerIInv, tpc = "tick"
      PROVE  /\ NotRun \in Nat /\ Rounds \in Nat /\ Len(todo) \in Nat
             /\ Main => UNCHANGED tick
             /\ Ticker => tpc' = "wait" \/ LessIsLeft
  BY <1>1, <1>2, <1>3, NotRunFacts, WalkSteps
<1>4. QED BY <1>3, TickerInductive, PTL DEF TickerSpec, WalkEnds

-----------------------------------------------------------------------------
(***************************************************************************)
(* The mixer.                                                              *)
(***************************************************************************)
(* A set of numbers that is not empty has a least one.                     *)
LEMMA HasLeast ==
  ASSUME NEW T, T \subseteq Nat, T # {}
  PROVE  \E x \in T : \A y \in T : x <= y
<1>. DEFINE R == OpToRel(<, Nat)
<1>1. \A x, y \in Nat : <<y, x>> \in R <=> y < x
  BY DEF OpToRel
<1>2. IsWellFoundedOn(R, Nat)
  BY NatLessThanWellFounded
<1>. HIDE DEF R
<1>3. PICK x \in T : \A y \in T : ~(<<y, x>> \in R)
  BY <1>2, WFMin
<1>4. \A y \in T : y \in Nat /\ ~(y < x)
  BY <1>1, <1>3
<1>5. QED BY <1>3, <1>4

(* And a greatest one if it is bounded.                                    *)
LEMMA HasGreatest ==
  ASSUME NEW T, T \subseteq Nat, T # {}, NEW b \in Nat, \A x \in T : x <= b
  PROVE  \E x \in T : \A y \in T : x >= y
<1>1. DEFINE D == {b - x : x \in T}
<1>2. D \subseteq Nat /\ D # {}
  <2>1. \A x \in T : x \in Nat /\ x <= b
    OBVIOUS
  <2>2. \A x \in T : b - x \in Nat
    BY <2>1
  <2>3. QED BY <2>2
<1>3. \E d \in D : \A e \in D : d <= e
  BY <1>2, HasLeast
<1>4. PICK x \in T : \A y \in T : b - x <= b - y
  BY <1>3
<1>5. QED BY <1>4

LEMMA MinFacts ==
  ASSUME NEW T, T \subseteq Nat, T # {}
  PROVE  Min(T) \in T /\ \A y \in T : Min(T) <= y
BY HasLeast DEF Min

LEMMA MaxFacts ==
  ASSUME NEW T, T \subseteq Nat, T # {}, NEW b \in Nat, \A x \in T : x <= b
  PROVE  Max(T) \in T /\ \A y \in T : Max(T) >= y
BY HasGreatest DEF Max

(* What the assumptions say of the inputs.                                 *)
LEMMA InputFacts ==
  /\ NInputs \in Nat /\ NInputs > 0 /\ NLayouts \in Nat /\ NInputs <= NLayouts
  /\ Inputs \subseteq Nat /\ 0 \in Inputs
  /\ Inputs \subseteq Regions /\ Inputs \subseteq Outputs
  /\ Black \notin Outputs /\ 0 \in Regions
  /\ MaxCounter \in Nat /\ Ahead \in 0 .. MaxCounter /\ Timeout \in Nat
  /\ Mutable \subseteq Inputs
BY VideoMixerAssumption DEF Inputs, Outputs, Regions

(* There are at most as many active inputs as inputs, and one that is      *)
(* ready is active and has a place before that many.                       *)
LEMMA PlaceFacts ==
  ASSUME TypeOK
  PROVE  /\ ActiveNow \subseteq Inputs /\ NActive \in 0 .. NInputs
         /\ ActiveNow # {} => NActive > 0
         /\ Ready \subseteq ActiveNow
         /\ \A i \in ActiveNow : Place(i) \in Nat /\ Place(i) < NActive
<1>1. ActiveNow \subseteq Inputs /\ Ready \subseteq ActiveNow
  BY DEF ActiveNow, Ready, TypeOK
<1>2. IsFiniteSet(Inputs) /\ Cardinality(Inputs) = NInputs
  <2>1. NInputs - 1 \in Int /\ 0 \in Int
    BY InputFacts
  <2>2. PICK b \in Int : b = NInputs - 1
    BY <2>1
  <2>3. IsFiniteSet(0 .. b) /\ Cardinality(0 .. b) = IF 0 > b THEN 0 ELSE b - 0 + 1
    BY FS_Interval
  <2>4. QED BY <2>2, <2>3, InputFacts DEF Inputs
<1>3. IsFiniteSet(ActiveNow) /\ Cardinality(ActiveNow) <= NInputs
  BY <1>1, <1>2, FS_Subset
<1>4. NActive \in 0 .. NInputs
  BY <1>3, FS_CardinalityType, InputFacts DEF NActive
<1>5. ActiveNow # {} => NActive > 0
  BY <1>3, <1>4, FS_EmptySet DEF NActive
<1>6. ASSUME NEW i \in ActiveNow
      PROVE  Place(i) \in Nat /\ Place(i) < NActive
  <2>1. DEFINE B == {j \in ActiveNow : j < i}
  <2>2. B \in SUBSET ActiveNow /\ B # ActiveNow
    BY <1>1, <1>6, InputFacts
  <2>3. IsFiniteSet(B) /\ Cardinality(B) <= NActive /\ Cardinality(B) # NActive
    BY <1>3, <2>2, FS_Subset DEF NActive
  <2>4. Cardinality(B) \in Nat
    BY <2>3, FS_CardinalityType
  <2>5. QED BY <1>4, <2>3, <2>4 DEF Place
<1>7. QED BY <1>1, <1>4, <1>5, <1>6

(* The layout is the one for the active inputs, if there are any.          *)
LEMMA LayoutFacts ==
  ASSUME TypeOK
  PROVE  /\ NRegions \in 0 .. NLayouts
         /\ ActiveNow # {} => NRegions = NActive
         /\ ~Relayout => NRegions = nregions
BY PlaceFacts, InputFacts DEF NRegions, Relayout, TypeOK

(* The fastest input is an input, and no count exceeds its count.          *)
LEMMA FastestFacts ==
  ASSUME TypeOK
  PROVE  /\ Fastest \in Inputs
         /\ MaxCount \in Nat
         /\ \A i \in Inputs : Counted(i) \in Nat /\ Counted(i) <= MaxCount
<1>1. \A i \in Inputs : Counted(i) \in Nat /\ Counted(i) <= MaxCounter + 1
  BY InputFacts DEF Counted, CleanCounter, TypeOK
<1>2. DEFINE T == {Counted(i) : i \in Inputs}
<1>3. /\ T \subseteq Nat /\ T # {} /\ \A x \in T : x <= MaxCounter + 1
      /\ MaxCounter + 1 \in Nat
  BY <1>1, InputFacts
<1>4. MaxCount \in T /\ \A y \in T : MaxCount >= y
  <2>1. PICK b \in Nat : b = MaxCounter + 1
    BY <1>3
  <2>2. \A x \in T : x <= b
    BY <1>3, <2>1
  <2>3. T \subseteq Nat /\ T # {}
    BY <1>3
  <2>4. QED BY <2>2, <2>3, MaxFacts DEF MaxCount
<1>5. DEFINE Leaders == {i \in Inputs : Counted(i) = MaxCount}
<1>6. Leaders \subseteq Nat /\ Leaders # {}
  BY <1>4, InputFacts
<1>7. Min(Leaders) \in Leaders
  BY <1>6, MinFacts
<1>8. QED BY <1>1, <1>3, <1>4, <1>7, InputFacts DEF Fastest

LEMMA MixerInit ==
  ASSUME Init
  PROVE  MixerInv
<1>1. TypeOK
  <2>1. Timeout + 1 \in 0 .. Timeout + 1 /\ 0 \in 0 .. MaxCounter /\ 0 \in 0 .. NLayouts
    BY InputFacts
  <2>2. QED BY <2>1, InputFacts DEF Init, TypeOK
<1>2. QED
  BY <1>1 DEF Init, MixerInv, DrawsInLayout, TwoFrames, ScalersFit

(* Up to five inputs a layout has regions of one size.                     *)
LEMMA OneWidth ==
  ASSUME NEW n \in 0 .. 5, NEW r \in Nat
  PROVE  Width(n, r) = Width(n, 0) /\ Width(n, r) \in Widths
BY DEF Width, Widths

(* Drawing keeps the scalers those of the layout in use.                   *)
LEMMA ScaleFits ==
  ASSUME MixerInv, NEW drawn, NEW resized, NEW W,
         \A i \in Inputs : i \in drawn => W[i] \in Widths,
         NInputs <= 5 => \A i \in Inputs : i \in drawn =>
           W[i] = IF NRegions = 2 THEN Width(1, 0) ELSE Width(NRegions, 0)
  PROVE  /\ Scale(drawn, resized, W) \in [Inputs -> Widths \cup {NoScaler}]
         /\ NInputs <= 5 => \A i \in Inputs :
              Scale(drawn, resized, W)[i] \in
                {NoScaler, IF NRegions = 2 THEN Width(1, 0) ELSE Width(NRegions, 0)}
         /\ NInputs <= 5 => \A i \in Inputs : i \in drawn =>
              Scale(drawn, resized, W)[i] =
                IF NRegions = 2 THEN Width(1, 0) ELSE Width(NRegions, 0)
<1>1. TypeOK
  BY DEF MixerInv
<1>2. \A i \in Inputs : CleanScaler(i) \in Widths \cup {NoScaler}
  BY <1>1 DEF CleanScaler, TypeOK
<1>3. NInputs <= 5 => \A i \in Inputs :
        CleanScaler(i) \in
          {NoScaler, IF NRegions = 2 THEN Width(1, 0) ELSE Width(NRegions, 0)}
  <2>1. ~Relayout => NRegions = nregions
    BY <1>1, LayoutFacts
  <2>2. QED BY <2>1 DEF CleanScaler, MixerInv, ScalersFit
<1>4. QED BY <1>2, <1>3 DEF Scale

(* What both layouts leave of the frames and counts.                       *)
LEMMA CleanFacts ==
  ASSUME MixerInv
  PROVE  /\ CleanFrame \in [Regions -> Inputs \cup {Black}]
         /\ CleanAmd \in Inputs \cup {Black}
         /\ \A i \in Inputs : CleanCounter(i) \in 0 .. MaxCounter
         /\ \A r \in Regions : CleanFrame[r] # Black => r < NRegions
         /\ NRegions = 2 => CleanAmd # 0 /\ \A r \in Regions : CleanFrame[r] \in {0, Black}
<1>1. TypeOK
  BY DEF MixerInv
<1>2. ~Relayout => NRegions = nregions
  BY <1>1, LayoutFacts
<1>3. Black # 0
  BY InputFacts
<1>4. QED
  BY <1>1, <1>2, <1>3, InputFacts
  DEF CleanFrame, CleanAmd, CleanCounter, MixerInv, TypeOK, DrawsInLayout, TwoFrames

(* Mixing for two parties.                                                 *)
LEMMA TwoPartiesInv ==
  ASSUME MixerInv, NEW resized, NRegions = 2, TwoParties(resized), nregions' = 2
  PROVE  /\ queue' \in SUBSET Inputs /\ counter' \in [Inputs -> 0 .. MaxCounter]
         /\ scaler' \in [Inputs -> Widths \cup {NoScaler}] /\ pin_controller' \in Inputs
         /\ frame' \in [Regions -> Inputs \cup {Black}] /\ amd' \in Inputs \cup {Black}
         /\ sent' \in SUBSET Outputs
         /\ \A r \in Regions : frame'[r] # Black => r < nregions'
         /\ TwoFrames' /\ ScalersFit'
         /\ NInputs <= 5 => \A i \in Ready \ queue' : scaler'[i] = Width(1, 0)
<1>1. TypeOK /\ Ready \subseteq Inputs
  BY PlaceFacts DEF MixerInv
<1>2. Others # {} => Min(Others) \in Others /\ Min(Others) \in Inputs /\ Min(Others) # 0
  <2>1. Others \subseteq Nat
    BY <1>1, InputFacts DEF Others
  <2>2. Others # {} => Min(Others) \in Others
    BY <2>1, MinFacts
  <2>3. QED BY <1>1, <2>2 DEF Others
<1>3. PICK drawn : /\ drawn \subseteq Ready
                   /\ scaler' = Scale(drawn, resized, Full)
                   /\ queue' = Ready \ drawn
  <2>1. (Ready \cap {0}) \cup (IF Others = {} THEN {} ELSE {Min(Others)}) \subseteq Ready
    BY <1>2 DEF Others
  <2>2. QED BY <2>1 DEF TwoParties
<1>4. \A i \in Inputs : Full[i] = Width(1, 0) /\ Full[i] \in Widths
  BY DEF Full, Width, Widths
<1>5. /\ scaler' \in [Inputs -> Widths \cup {NoScaler}]
      /\ NInputs <= 5 => \A i \in Inputs : scaler'[i] \in {NoScaler, Width(1, 0)}
      /\ NInputs <= 5 => \A i \in Inputs : i \in drawn => scaler'[i] = Width(1, 0)
  BY <1>3, <1>4, ScaleFits
<1>6. /\ frame' = [r \in Regions |-> IF r = 0 /\ 0 \in Ready THEN 0 ELSE CleanFrame[r]]
      /\ amd' = IF Others = {} THEN CleanAmd ELSE Min(Others)
      /\ counter' = [i \in Inputs |-> CleanCounter(i)]
      /\ pin_controller' = IF Relayout THEN 0 ELSE pin_controller
      /\ sent' = (IF Others = {} THEN {} ELSE {0})
                 \cup (IF 0 \in Ready THEN Outputs \ {0} ELSE {})
  BY DEF TwoParties
<1>7. /\ frame' \in [Regions -> Inputs \cup {Black}]
      /\ \A r \in Regions : frame'[r] # Black => r < 2
      /\ \A r \in Regions : frame'[r] \in {0, Black}
  BY <1>6, CleanFacts, InputFacts
<1>8. amd' \in Inputs \cup {Black} /\ amd' # 0
  BY <1>2, <1>6, CleanFacts
<1>9. /\ counter' \in [Inputs -> 0 .. MaxCounter] /\ pin_controller' \in Inputs
      /\ sent' \in SUBSET Outputs
  BY <1>1, <1>6, CleanFacts, InputFacts DEF TypeOK
<1>10. queue' \in SUBSET Inputs /\ Ready \ queue' = drawn
  BY <1>1, <1>3
<1>11. TwoFrames' /\ ScalersFit'
  BY <1>5, <1>7, <1>8 DEF TwoFrames, ScalersFit
<1>12. QED BY <1>1, <1>3, <1>5, <1>7, <1>8, <1>9, <1>10, <1>11

(* Mixing for another number of parties.                                   *)
LEMMA CompositionInv ==
  ASSUME MixerInv, NEW resized, NRegions # 2, Composition(resized), nregions' = NRegions
  PROVE  /\ queue' \in SUBSET Inputs /\ counter' \in [Inputs -> 0 .. MaxCounter]
         /\ scaler' \in [Inputs -> Widths \cup {NoScaler}] /\ pin_controller' \in Inputs
         /\ frame' \in [Regions -> Inputs \cup {Black}] /\ amd' \in Inputs \cup {Black}
         /\ sent' \in SUBSET Outputs
         /\ \A r \in Regions : frame'[r] # Black => r < nregions'
         /\ TwoFrames' /\ ScalersFit'
         /\ NInputs <= 5 => \A i \in Ready \ queue' : scaler'[i] = WidthOfPlace[i]
<1>1. /\ TypeOK /\ Ready \subseteq ActiveNow /\ ActiveNow \subseteq Inputs
      /\ NActive \in 0 .. NInputs
      /\ \A i \in ActiveNow : Place(i) \in Nat /\ Place(i) < NActive /\ NRegions = NActive
  BY PlaceFacts, LayoutFacts DEF MixerInv
<1>2. \A i \in Ready : Place(i) < NRegions
  BY <1>1
<1>3. \A i \in Inputs : i \in Ready => WidthOfPlace[i] \in Widths
  BY DEF WidthOfPlace, Width, Widths
<1>4. NInputs <= 5 => \A i \in Inputs : i \in Ready =>
        WidthOfPlace[i] = Width(NRegions, 0)
  <2>1. NInputs <= 5 => \A i \in Ready : NRegions \in 0 .. 5 /\ Place(i) \in Nat
    BY <1>1, InputFacts
  <2>2. QED BY <2>1, OneWidth DEF WidthOfPlace
<1>5. scaler' = Scale(Ready, resized, WidthOfPlace)
  BY DEF Composition
<1>6. /\ scaler' \in [Inputs -> Widths \cup {NoScaler}]
      /\ NInputs <= 5 => \A i \in Inputs : scaler'[i] \in {NoScaler, Width(NRegions, 0)}
      /\ NInputs <= 5 => \A i \in Inputs : i \in Ready => scaler'[i] = Width(NRegions, 0)
  BY <1>3, <1>4, <1>5, ScaleFits
<1>7. /\ frame' = [r \in Regions |->
                    IF \E i \in Ready : Place(i) = r
                    THEN CHOOSE i \in Ready : Place(i) = r
                    ELSE CleanFrame[r]]
      /\ amd' = CleanAmd /\ queue' = {} /\ pin_controller' = Fastest
      /\ counter' = [i \in Inputs |-> IF MaxCount <= MaxCounter THEN Counted(i)
                                      ELSE IF i = Fastest THEN Ahead ELSE 0]
      /\ sent' \in SUBSET Outputs
  BY DEF Composition
<1>8. /\ frame' \in [Regions -> Inputs \cup {Black}]
      /\ \A r \in Regions : frame'[r] # Black => r < NRegions
  <2>1. ASSUME NEW r \in Regions
        PROVE  frame'[r] \in Inputs \cup {Black} /\ (frame'[r] # Black => r < NRegions)
    <3>1. CASE \E i \in Ready : Place(i) = r
      BY <1>1, <1>2, <1>7, <3>1
    <3>2. CASE ~ \E i \in Ready : Place(i) = r
      BY <1>7, <3>2, CleanFacts
    <3>3. QED BY <3>1, <3>2
  <2>2. QED BY <1>7, <2>1
<1>9. counter' \in [Inputs -> 0 .. MaxCounter] /\ pin_controller' \in Inputs
  BY <1>1, <1>7, FastestFacts, InputFacts
<1>10. TwoFrames' /\ ScalersFit'
  BY <1>6 DEF TwoFrames, ScalersFit
<1>11. NInputs <= 5 => \A i \in Ready \ queue' : scaler'[i] = WidthOfPlace[i]
  BY <1>1, <1>4, <1>6
<1>12. QED BY <1>6, <1>7, <1>8, <1>9, <1>10, <1>11, CleanFacts

(* mixer_process.                                                          *)
LEMMA ProcessInv ==
  ASSUME MixerInv, Process
  PROVE  /\ MixerInv'
         /\ NInputs <= 5 => \A i \in Ready \ queue' :
              scaler'[i] = IF nregions' = 2 THEN Width(1, 0) ELSE WidthOfPlace[i]
<1>1. TypeOK
  BY DEF MixerInv
<1>2. /\ age' = [i \in Inputs |-> IF i \in queue THEN 0 ELSE age[i]]
      /\ active' = ActiveNow /\ force_update' = FALSE /\ nregions' = NRegions
      /\ muted' = muted
  BY DEF Process
<1>3. PICK resized : IF NRegions = 2 THEN TwoParties(resized) ELSE Composition(resized)
  BY DEF Process
<1>4. /\ queue' \in SUBSET Inputs /\ counter' \in [Inputs -> 0 .. MaxCounter]
      /\ scaler' \in [Inputs -> Widths \cup {NoScaler}] /\ pin_controller' \in Inputs
      /\ frame' \in [Regions -> Inputs \cup {Black}] /\ amd' \in Inputs \cup {Black}
      /\ sent' \in SUBSET Outputs
      /\ \A r \in Regions : frame'[r] # Black => r < nregions'
      /\ TwoFrames' /\ ScalersFit'
      /\ NInputs <= 5 => \A i \in Ready \ queue' :
           scaler'[i] = IF nregions' = 2 THEN Width(1, 0) ELSE WidthOfPlace[i]
  BY <1>2, <1>3, TwoPartiesInv, CompositionInv
<1>5. age' \in [Inputs -> 0 .. Timeout + 1]
  BY <1>1, <1>2, InputFacts DEF TypeOK
<1>6. nregions' \in 0 .. NLayouts /\ active' \in SUBSET Inputs
  BY <1>1, <1>2, LayoutFacts, PlaceFacts
<1>7. TypeOK'
  BY <1>1, <1>2, <1>4, <1>5, <1>6 DEF TypeOK
<1>8. active' # {} => Cardinality(active') = nregions'
  BY <1>1, <1>2, LayoutFacts DEF NActive
<1>9. QED BY <1>4, <1>7, <1>8 DEF MixerInv, DrawsInLayout

(* Every step preserves the invariant.                                     *)
LEMMA MixerNext ==
  ASSUME MixerInv, [Next]_vars
  PROVE  MixerInv'
<1>1. CASE Process
  BY <1>1, ProcessInv
<1>2. CASE Tick
  <2>1. age' \in [Inputs -> 0 .. Timeout + 1]
    BY <1>2, InputFacts DEF Tick, MixerInv, TypeOK
  <2>2. TypeOK'
    BY <1>2, <2>1 DEF Tick, MixerInv, TypeOK
  <2>3. QED BY <1>2, <2>2 DEF Tick, MixerInv, DrawsInLayout, TwoFrames, ScalersFit
<1>3. ASSUME NEW i \in Mutable, Mute(i) \/ Unmute(i)
      PROVE  MixerInv'
  <2>1. TypeOK'
    BY <1>3, InputFacts DEF Mute, Unmute, MixerInv, TypeOK
  <2>2. QED
    BY <1>3, <2>1 DEF Mute, Unmute, MixerInv, DrawsInLayout, TwoFrames, ScalersFit
<1>4. CASE RequestVfu
  BY <1>4 DEF RequestVfu, MixerInv, TypeOK, DrawsInLayout, TwoFrames, ScalersFit
<1>5. CASE UNCHANGED vars
  BY <1>5 DEF vars, MixerInv, TypeOK, DrawsInLayout, TwoFrames, ScalersFit
<1>6. QED BY <1>1, <1>2, <1>3, <1>4, <1>5 DEF Next

(* The mixer's frames, regions and scalers stay consistent (video_mixer.c, *)
(* mixer_process with all it calls).                                       *)
THEOREM MixerInvariant == Spec => []MixerInv
<1>1. Init => MixerInv
  BY MixerInit
<1>2. MixerInv /\ [Next]_vars => MixerInv'
  BY MixerNext
<1>3. QED BY <1>1, <1>2, PTL DEF Spec

(* No picture is drawn beyond the layout in use, whose regions are as many *)
(* as the active inputs.                                                   *)
THEOREM MixerDrawsInLayout == Spec => []DrawsInLayout
<1>1. MixerInv => DrawsInLayout
  BY DEF MixerInv
<1>2. QED BY <1>1, MixerInvariant, PTL

(* With two parties nobody is sent his own picture.                        *)
THEOREM NobodyGetsOwnPicture == Spec => []NoOwnPicture
<1>1. MixerInv => NoOwnPicture
  BY InputFacts DEF MixerInv, TypeOK, TwoFrames, NoOwnPicture
<1>2. QED BY <1>1, MixerInvariant, PTL

(* With up to five inputs pictures have the size of their regions: only    *)
(* the layout for six has regions of two sizes.                            *)
THEOREM PicturesFitUpToFive ==
  ASSUME NInputs <= 5
  PROVE  Spec => PictureFitsItsRegion
<1>1. MixerInv /\ [Next]_vars =>
        [Process => \A i \in Ready \ queue' :
           scaler'[i] = IF nregions' = 2 THEN Width(1, 0) ELSE WidthOfPlace[i]]_vars
  BY ProcessInv
<1>2. QED BY <1>1, MixerInvariant, PTL DEF Spec, PictureFitsItsRegion
-----------------------------------------------------------------------------
(* No input keeps the frame from being sent for good: while the input that *)
(* leads the count delivers nothing, each picture of input 0 lowers its    *)
(* lead, which no step raises without sending to every output.  With two   *)
(* parties each picture of input 0 is sent to all outputs but its own.     *)
(* This is why every output gets frames as long as input 0 delivers,       *)
(* within as many pictures as the counters can count.                      *)
Lead == Max({counter[i] : i \in Inputs}) - counter[0]

InputZeroCatchesUp ==
  [][Process =>
       IF nregions' = 2 THEN 0 \in Ready => Outputs \ {0} \subseteq sent'
       ELSE sent' = Outputs \/ (Lead' <= Lead /\ (0 \in Ready => Lead' < Lead))]_vars

(* The largest of several counts.                                          *)
LEMMA LargestCount ==
  ASSUME NEW c \in [Inputs -> 0 .. MaxCounter], NEW j \in Inputs, \A i \in Inputs : c[i] <= c[j]
  PROVE  Max({c[i] : i \in Inputs}) = c[j]
<1> DEFINE T == {c[i] : i \in Inputs}
<1>1. T \subseteq Nat /\ c[j] \in T /\ \A x \in T : x <= c[j]
  BY InputFacts
<1>2. PICK b \in Nat : b = c[j]
  BY <1>1
<1>3. \A x \in T : x <= b
  BY <1>1, <1>2
<1>4. T # {} /\ T \subseteq Nat
  BY <1>1
<1> HIDE DEF T
<1>5. Max(T) \in T /\ \A y \in T : Max(T) >= y
  BY <1>3, <1>4, MaxFacts
<1>6. Max(T) <= c[j] /\ Max(T) >= c[j] /\ Max(T) \in Nat
  BY <1>1, <1>4, <1>5
<1>7. Max(T) = c[j]
  BY <1>6, <1>1
<1>8. QED BY <1>7 DEF T

(* A count that leads is that of the fastest input.                        *)
LEMMA FastestLeads ==
  ASSUME TypeOK
  PROVE  MaxCount # 0 => Counted(Fastest) = MaxCount
<1> DEFINE T == {Counted(i) : i \in Inputs}
<1>1. \A i \in Inputs : Counted(i) \in Nat /\ Counted(i) <= MaxCounter + 1
  BY InputFacts DEF Counted, CleanCounter, TypeOK
<1>2. PICK b \in Nat : b = MaxCounter + 1
  BY InputFacts
<1>3. T \subseteq Nat /\ T # {} /\ \A x \in T : x <= b
  BY <1>1, <1>2, InputFacts
<1>4. MaxCount \in T
  BY <1>3, MaxFacts DEF MaxCount
<1> DEFINE Leaders == {i \in Inputs : Counted(i) = MaxCount}
<1>5. Leaders \subseteq Nat /\ Leaders # {}
  BY <1>4, InputFacts
<1>6. Min(Leaders) \in Leaders
  BY <1>5, MinFacts
<1>7. QED BY <1>6 DEF Fastest

(* Where the frame is not sent, the leader has not delivered.              *)
LEMMA LeaderWaits ==
  ASSUME MixerInv, NEW resized, Composition(resized), sent' # Outputs,
         age' = [i \in Inputs |-> IF i \in queue THEN 0 ELSE age[i]]
  PROVE  /\ counter' = [i \in Inputs |-> Counted(i)]
         /\ MaxCount # 0 => ~Relayout /\ counter[Fastest] = MaxCount /\ counter'[Fastest] = MaxCount
<1>1. TypeOK
  BY DEF MixerInv
<1>2. Fastest \in Inputs /\ MaxCount \in Nat
  BY <1>1, FastestFacts
<1>3. Fastest \notin Ready
  <2>1. age'[Fastest] # 0
    BY DEF Composition
  <2>2. QED BY <1>2, <2>1 DEF Ready
<1>4. ASSUME MaxCount # 0
      PROVE  ~Relayout /\ counter[Fastest] = MaxCount
  <2>1. Counted(Fastest) = CleanCounter(Fastest)
    BY <1>3 DEF Counted
  <2>2. Counted(Fastest) = MaxCount
    BY <1>1, <1>4, FastestLeads
  <2>3. QED BY <1>4, <2>1, <2>2 DEF CleanCounter
<1>5. MaxCount <= MaxCounter
  <2>1. CASE MaxCount = 0
    BY <2>1, InputFacts
  <2>2. CASE MaxCount # 0
    BY <1>1, <1>2, <1>4, <2>2, InputFacts DEF TypeOK
  <2>3. QED BY <2>1, <2>2
<1>6. counter' = [i \in Inputs |-> Counted(i)]
  BY <1>5 DEF Composition
<1>7. ASSUME MaxCount # 0 PROVE counter'[Fastest] = MaxCount
  BY <1>1, <1>2, <1>6, <1>7, FastestLeads
<1>8. QED BY <1>4, <1>6, <1>7

(* A composition that is not sent brings input 0 nearer to the lead.       *)
LEMMA LeadFalls ==
  ASSUME MixerInv, MixerInv', NEW resized, Composition(resized), sent' # Outputs,
         age' = [i \in Inputs |-> IF i \in queue THEN 0 ELSE age[i]]
  PROVE  Lead' <= Lead /\ (0 \in Ready => Lead' < Lead)
<1>1. /\ TypeOK /\ 0 \in Inputs /\ Fastest \in Inputs /\ MaxCount \in Nat
      /\ counter \in [Inputs -> 0 .. MaxCounter] /\ counter' \in [Inputs -> 0 .. MaxCounter]
      /\ \A i \in Inputs : Counted(i) \in Nat /\ Counted(i) <= MaxCount
  BY InputFacts, FastestFacts DEF MixerInv, TypeOK
<1>2. counter' = [i \in Inputs |-> Counted(i)]
  BY LeaderWaits
<1>3. CASE MaxCount # 0
  <2>1. ~Relayout /\ counter[Fastest] = MaxCount /\ counter'[Fastest] = MaxCount
    BY <1>3, LeaderWaits
  <2>2. \A i \in Inputs : /\ counter'[i] = IF i \in Ready THEN counter[i] + 1 ELSE counter[i]
                          /\ counter[i] <= counter'[i] /\ counter'[i] <= MaxCount
    <3>1. \A i \in Inputs : counter'[i] = Counted(i) /\ counter[i] \in Nat
      BY <1>1, <1>2, InputFacts
    <3>2. \A i \in Inputs : Counted(i) = IF i \in Ready THEN counter[i] + 1 ELSE counter[i]
      BY <2>1 DEF Counted, CleanCounter
    <3>3. QED BY <1>1, <3>1, <3>2
  <2>3. \A i \in Inputs : counter[i] <= MaxCount
    BY <1>1, <2>2, InputFacts
  <2>4. Max({counter[i] : i \in Inputs}) = MaxCount
    BY <1>1, <2>1, <2>3, LargestCount
  <2>5. Max({counter'[i] : i \in Inputs}) = MaxCount
    BY <1>1, <2>1, <2>2, LargestCount
  <2>6. Lead = MaxCount - counter[0] /\ Lead' = MaxCount - counter'[0]
    BY <2>4, <2>5 DEF Lead
  <2>7. counter[0] \in Nat /\ counter'[0] = IF 0 \in Ready THEN counter[0] + 1 ELSE counter[0]
    BY <1>1, <2>2, InputFacts
  <2>8. QED BY <1>1, <2>6, <2>7
<1>4. CASE MaxCount = 0
  <2>1. \A i \in Inputs : Counted(i) = 0
    BY <1>1, <1>4
  <2>2. 0 \notin Ready
    <3>1. CleanCounter(0) \in Nat
      BY <1>1, InputFacts DEF CleanCounter
    <3>2. QED BY <1>1, <2>1, <3>1 DEF Counted
  <2>3. \A i \in Inputs : counter'[i] = 0
    BY <1>2, <2>1
  <2>4. Max({counter'[i] : i \in Inputs}) = counter'[0]
    BY <1>1, <2>3, LargestCount
  <2>5. Lead' = 0
    BY <1>1, <2>3, <2>4 DEF Lead
  <2>6. Lead >= 0
    <3> DEFINE T == {counter[i] : i \in Inputs}
    <3>1. PICK b \in Nat : b = MaxCounter
      BY InputFacts
    <3>2. T \subseteq Nat /\ T # {} /\ counter[0] \in T /\ \A x \in T : x <= b
      BY <1>1, <3>1, InputFacts
    <3> HIDE DEF T
    <3>3. Max(T) \in Nat /\ Max(T) >= counter[0] /\ counter[0] \in Nat
      BY <3>2, MaxFacts
    <3>4. QED BY <3>3 DEF Lead, T
  <2>7. Lead \in Int
    <3> DEFINE T == {counter[i] : i \in Inputs}
    <3>1. PICK b \in Nat : b = MaxCounter
      BY InputFacts
    <3>2. T \subseteq Nat /\ T # {} /\ counter[0] \in T /\ \A x \in T : x <= b
      BY <1>1, <3>1, InputFacts
    <3> HIDE DEF T
    <3>3. Max(T) \in Nat /\ counter[0] \in Nat
      BY <3>2, MaxFacts
    <3>4. QED BY <3>3 DEF Lead, T
  <2>8. QED BY <2>2, <2>5, <2>6, <2>7
<1>5. QED BY <1>3, <1>4

(* The mixer falls behind input 0 for a while only (mixer_process).        *)
THEOREM InputZeroIsServed == Spec => InputZeroCatchesUp
<1>1. ASSUME MixerInv, MixerInv', Process
      PROVE  IF nregions' = 2 THEN 0 \in Ready => Outputs \ {0} \subseteq sent'
             ELSE sent' = Outputs \/ (Lead' <= Lead /\ (0 \in Ready => Lead' < Lead))
  <2>1. /\ nregions' = NRegions
        /\ age' = [i \in Inputs |-> IF i \in queue THEN 0 ELSE age[i]]
    BY <1>1 DEF Process
  <2>2. PICK resized : IF NRegions = 2 THEN TwoParties(resized) ELSE Composition(resized)
    BY <1>1 DEF Process
  <2>3. CASE NRegions = 2
    <3>1. 0 \in Ready => Outputs \ {0} \subseteq sent'
      BY <2>2, <2>3 DEF TwoParties
    <3>2. QED BY <2>1, <2>3, <3>1
  <2>4. CASE NRegions # 2
    <3>1. sent' = Outputs \/ (Lead' <= Lead /\ (0 \in Ready => Lead' < Lead))
      BY <1>1, <2>1, <2>2, <2>4, LeadFalls
    <3>2. QED BY <2>1, <2>4, <3>1
  <2>5. QED BY <2>3, <2>4
<1>2. MixerInv /\ [Next]_vars => MixerInv'
  BY MixerNext
<1>3. QED BY <1>1, <1>2, MixerInvariant, PTL DEF Spec, InputZeroCatchesUp

-----------------------------------------------------------------------------
(* In a composition every picture is drawn in the region of its input, and *)
(* when all active inputs have one, nothing is left to be seen of an input *)
(* that is not active.                                                     *)
EachAtItsPlace ==
  [][Process /\ nregions' # 2 =>
       /\ \A i \in Ready : Place(i) < nregions' /\ frame'[Place(i)] = i
       /\ ActiveNow \subseteq Ready /\ ActiveNow # {} =>
            \A r \in Regions : frame'[r] \in ActiveNow \cup {Black}]_vars

(* Active inputs have different places, all regions of their layout.       *)
LEMMA PlacesDiffer ==
  ASSUME TypeOK
  PROVE  /\ \A i, j \in ActiveNow : Place(i) = Place(j) => i = j
         /\ \A r \in Nat : r < NActive => \E i \in ActiveNow : Place(i) = r
<1>1. ActiveNow \subseteq Nat /\ IsFiniteSet(ActiveNow)
  <2>1. NInputs - 1 \in Int
    BY InputFacts
  <2>2. IsFiniteSet(Inputs)
    BY <2>1, FS_Interval DEF Inputs
  <2>3. QED BY <2>2, PlaceFacts, InputFacts, FS_Subset
<1>2. ASSUME NEW i \in ActiveNow, NEW j \in ActiveNow, i < j
      PROVE  Place(i) < Place(j)
  <2> DEFINE Before(k) == {x \in ActiveNow : x < k}
  <2>1. IsFiniteSet(Before(j)) /\ Before(i) \in SUBSET Before(j) /\ Before(i) # Before(j)
    <3>1. Before(j) \in SUBSET ActiveNow
      OBVIOUS
    <3>2. IsFiniteSet(Before(j))
      BY <1>1, <3>1, FS_Subset
    <3>3. i \in Before(j) /\ i \notin Before(i)
      BY <1>1, <1>2
    <3>4. Before(i) \in SUBSET Before(j)
      <4>1. i \in Nat /\ j \in Nat /\ \A x \in ActiveNow : x \in Nat
        BY <1>1
      <4>2. \A x \in ActiveNow : x < i => x < j
        BY <1>2, <4>1
      <4>3. QED BY <4>2
    <3> HIDE DEF Before
    <3>5. QED BY <3>2, <3>3, <3>4
  <2> HIDE DEF Before
  <2>2. /\ Cardinality(Before(i)) <= Cardinality(Before(j))
        /\ Cardinality(Before(i)) # Cardinality(Before(j))
        /\ IsFiniteSet(Before(i))
    BY <2>1, FS_Subset
  <2>3. Cardinality(Before(i)) \in Nat /\ Cardinality(Before(j)) \in Nat
    BY <2>1, <2>2, FS_CardinalityType
  <2>4. Cardinality(Before(i)) < Cardinality(Before(j))
    BY <2>2, <2>3
  <2>5. QED BY <2>4 DEF Place, Before
<1>3. \A i, j \in ActiveNow : Place(i) = Place(j) => i = j
  <2> TAKE i, j \in ActiveNow
  <2>1. i = j \/ i < j \/ j < i
    BY <1>1
  <2>2. Place(i) \in Nat /\ Place(j) \in Nat
    BY PlaceFacts
  <2>3. QED BY <1>2, <2>1, <2>2
<1>4. \A r \in Nat : r < NActive => \E i \in ActiveNow : Place(i) = r
  <2> DEFINE T == {Place(i) : i \in ActiveNow}
             S == 0 .. NActive - 1
             f == [i \in ActiveNow |-> Place(i)]
  <2>1. f \in Bijection(ActiveNow, T)
    <3>1. f \in [ActiveNow -> T] /\ \A t \in T : \E s \in ActiveNow : f[s] = t
      OBVIOUS
    <3>2. \A a, b \in ActiveNow : f[a] = f[b] => a = b
      BY <1>3
    <3> HIDE DEF f, T
    <3>3. QED BY <3>1, <3>2, Fun_IsBij
  <2>2. ExistsBijection(ActiveNow, T)
    BY <2>1, Fun_ExistsBij
  <2> HIDE DEF f
  <2>3. NActive \in Nat /\ Cardinality(T) = NActive
    <3>1. Cardinality(T) = Cardinality(ActiveNow)
      BY <1>1, <2>2, FS_Bijection
    <3>2. QED BY <3>1, PlaceFacts, InputFacts DEF NActive
  <2>4. T \in SUBSET S
    BY <2>3, PlaceFacts
  <2>5. IsFiniteSet(S) /\ Cardinality(S) = NActive
    <3>1. \A n \in Nat : IsFiniteSet(0 .. n - 1) /\ Cardinality(0 .. n - 1) = n
      <4> TAKE n \in Nat
      <4>1. 0 \in Int /\ n - 1 \in Int
        OBVIOUS
      <4>2. IsFiniteSet(0 .. n - 1)
            /\ Cardinality(0 .. n - 1) = IF 0 > n - 1 THEN 0 ELSE n - 1 - 0 + 1
        BY <4>1, FS_Interval
      <4>3. QED BY <4>2
    <3>2. QED BY <2>3, <3>1
  <2>6. S = T
    BY <2>3, <2>4, <2>5, FS_Subset
  <2>7. QED BY <2>3, <2>6
<1>5. QED BY <1>3, <1>4

(* Every picture is in the region of the input it came from.               *)
THEOREM PicturesAreAtTheirPlaces == Spec => EachAtItsPlace
<1>1. ASSUME MixerInv, Process, nregions' # 2
      PROVE  /\ \A i \in Ready : Place(i) < nregions' /\ frame'[Place(i)] = i
             /\ ActiveNow \subseteq Ready /\ ActiveNow # {} =>
                  \A r \in Regions : frame'[r] \in ActiveNow \cup {Black}
  <2>1. TypeOK /\ nregions' = NRegions
    BY <1>1 DEF MixerInv, Process
  <2>2. frame' = [r \in Regions |-> IF \E i \in Ready : Place(i) = r
                                    THEN CHOOSE i \in Ready : Place(i) = r
                                    ELSE CleanFrame[r]]
    BY <1>1, <2>1 DEF Process, Composition
  <2>3. \A i \in Ready : i \in ActiveNow /\ Place(i) \in Nat /\ Place(i) < NActive
    BY <2>1, PlaceFacts
  <2>4. ASSUME NEW i \in Ready PROVE Place(i) < nregions' /\ frame'[Place(i)] = i
    <3>1. NRegions = NActive /\ NActive \in Nat /\ NActive <= NLayouts
      BY <2>1, <2>3, <2>4, LayoutFacts, PlaceFacts, InputFacts
    <3>2. Place(i) \in Regions
      BY <2>3, <2>4, <3>1, InputFacts DEF Regions
    <3>3. \A j \in Ready : Place(j) = Place(i) => j = i
      BY <2>1, <2>3, PlacesDiffer
    <3>4. frame'[Place(i)] = i
      BY <2>2, <3>2, <3>3
    <3>5. QED BY <2>1, <2>3, <3>1, <3>4
  <2>5. ASSUME ActiveNow \subseteq Ready, ActiveNow # {}, NEW r \in Regions
        PROVE  frame'[r] \in ActiveNow \cup {Black}
    <3>1. CASE \E i \in Ready : Place(i) = r
      BY <2>2, <2>3, <3>1
    <3>2. CASE ~ \E i \in Ready : Place(i) = r
      <4>1. frame'[r] = CleanFrame[r]
        BY <2>2, <3>2
      <4>2. NRegions = NActive /\ r \in Nat /\ ~(r < NActive)
        BY <2>1, <2>5, <3>2, LayoutFacts, PlacesDiffer DEF Regions
      <4>3. QED BY <1>1, <4>1, <4>2, CleanFacts
    <3>3. QED BY <3>1, <3>2
  <2>6. QED BY <2>4, <2>5
<1>2. QED BY <1>1, MixerInvariant, PTL DEF Spec, EachAtItsPlace
=============================================================================
