--------------------------- MODULE LogReadsProofs ---------------------------
(* What a read of a changing request log shows, for any entries, any pages *)
(* and any recording and purging during the read.                          *)
EXTENDS LogReads, FiniteSetTheorems, FunctionTheorems, TLAPS

(* The inductive invariant of the specification.                            *)

(* Each row is of one entry, and is gone once it is purged.                 *)
LogOK ==
    /\ \A id \in LogIds : ledger[id] # Absent => ledger[id] = Entry(ledger[id].by)
    /\ \A i, j \in LogIds :
          ledger[i] # Absent /\ ledger[j] # Absent /\ ledger[i].by = ledger[j].by => i = j
    /\ start \cup born \cup gone \cup page \subseteq written
    /\ \A w \in Writers \ written : shown[w] = 0
    /\ gone \cap Rows = {}
    /\ Reading => start \ gone \subseteq Rows

CallOK ==
    /\ pc = "idle" => /\ offset = 0 /\ shown = [w \in Writers |-> 0]
                      /\ born = {} /\ gone = {}
    /\ pc # "count" => page = {}
    /\ pc # "idle" => call \in Calls
    /\ pc \in {"list", "count"} => call.op = "walk"
    /\ pc \in {"log", "decision", "notFound"} => call.op = "detail"
    /\ pc \in {"backends", "statuses", "latency"} => call.op = "summary"

(* A walk has got to row number NextRow; Passed are the rows it will not    *)
(* show any more, and Due those it has shown and will meet again.           *)
NextRow  == offset + Cardinality(page)
Seen     == [w \in Writers |-> IF w \in page THEN shown[w] + 1 ELSE shown[w]]
Above(w) == {v \in Matching(call.filter) : Values[v].started > Values[w].started}
Lone     == {w \in Wanted(call.filter) : Alone(w, Wanted(call.filter))}

Passed == {w \in (start \cap Lone) \ gone : Seen[w] = 0 /\ Cardinality(Above(w)) < NextRow}
Due    == {w \in Rows \cap Lone : Seen[w] > 0 /\ Cardinality(Above(w)) >= NextRow}

WalkOK ==
    pc \in {"list", "count"} =>
        /\ Cardinality(Passed) <= Cardinality(gone \cap Wanted(call.filter))
        /\ Cardinality(Repeats(Seen, Lone)) + Cardinality(Due)
              <= Cardinality(born \cap Wanted(call.filter))

DetailOK ==
    pc = "decision" =>
        /\ entry \in Writers
        /\ \/ entry \in gone
           \/ ledger[call.id] # Absent /\ ledger[call.id].by = entry

(* What the first statement of a summary counted, after it: of the rows     *)
(* that have been there since, all; of those it may have seen, no more.     *)
InTime == {w \in Writers : Since(call.filter, w)}

SummaryOK ==
    pc \in {"statuses", "latency"} /\ call.filter.before = None =>
        LET old       == (Rows \ born) \cap InTime
            byBackend == Cardinality(Counted(counts.backends))
            byStatus  == counts.statuses[TRUE] + counts.statuses[FALSE]
        IN  /\ byBackend \in Nat /\ Cardinality(old) <= byBackend
            /\ \A b \in Backends :
                  Cardinality({w \in old : Values[w].backend = b}) <= counts.backends[b]
            /\ pc = "statuses" => byBackend <= Cardinality((Rows \cup gone) \cap InTime)
            /\ pc = "latency" =>
                  /\ byStatus <= byBackend + Cardinality(born \cap InTime)
                  /\ byBackend <= byStatus + Cardinality(gone \cap InTime)

IInv == /\ TypeOK /\ LogOK /\ CallOK /\ WalkOK /\ DetailOK /\ SummaryOK
        /\ WalkDrift /\ DetailWhole /\ SummaryDrift

-----------------------------------------------------------------------------
USE PageAssumption, ValueAssumption

-----------------------------------------------------------------------------
(* Counting writers.                                                        *)
LEMMA Finite ==
    ASSUME NEW S \in SUBSET Writers
    PROVE  IsFiniteSet(S) /\ Cardinality(S) \in Nat
  BY StartAssumption, FS_Subset, FS_CardinalityType

LEMMA Fewer ==
    ASSUME NEW S \in SUBSET Writers, NEW T \in SUBSET S
    PROVE  /\ Cardinality(T) \in Nat /\ Cardinality(S) \in Nat
           /\ Cardinality(T) <= Cardinality(S)
           /\ Cardinality(S) = Cardinality(T) => S = T
  BY Finite, FS_Subset

LEMMA OneMore ==
    ASSUME NEW S \in SUBSET Writers, NEW w \in Writers \ S
    PROVE  Cardinality(S \cup {w}) = Cardinality(S) + 1
  BY Finite, FS_AddElement

LEMMA Together ==
    ASSUME NEW S \in SUBSET Writers, NEW T \in SUBSET Writers
    PROVE  /\ Cardinality(S \cup T) \in Nat
           /\ Cardinality(S \cup T) <= Cardinality(S) + Cardinality(T)
           /\ S \cap T = {} => Cardinality(S \cup T) = Cardinality(S) + Cardinality(T)
<1>1. IsFiniteSet(S) /\ IsFiniteSet(T) /\ IsFiniteSet(S \cap T) /\ IsFiniteSet(S \cup T)
  BY Finite
<1>2. /\ Cardinality(S) \in Nat /\ Cardinality(T) \in Nat
      /\ Cardinality(S \cap T) \in Nat /\ Cardinality(S \cup T) \in Nat
  BY Finite
<1>3. Cardinality(S \cup T) = Cardinality(S) + Cardinality(T) - Cardinality(S \cap T)
  BY <1>1, FS_Union
<1>4. S \cap T = {} => Cardinality(S \cap T) = 0
  BY FS_EmptySet
<1> QED
  BY <1>2, <1>3, <1>4

(* At most one element.                                                     *)
LEMMA AtMostOne ==
    ASSUME NEW S, \A v, w \in S : v = w
    PROVE  IsFiniteSet(S) /\ Cardinality(S) \in Nat /\ Cardinality(S) <= 1
<1>1. CASE S = {}
  BY <1>1, FS_EmptySet
<1>2. CASE S # {}
  <2>1. PICK w \in S : TRUE
    BY <1>2
  <2>2. S = {w}
    BY <2>1
  <2>3. IsFiniteSet(S) /\ Cardinality(S) = 1
    BY <2>2, FS_Singleton
  <2> QED
    BY <2>3
<1> QED
  BY <1>1, <1>2

-----------------------------------------------------------------------------
(* The first rows.                                                          *)
Newer(w, M) == {v \in M : Values[v].started > Values[w].started}

LEMMA Started == \A w \in Writers : Values[w].started \in Int
  BY DEF RowValues

LEMMA NewerFacts ==
    ASSUME NEW M \in SUBSET Writers, NEW w \in M
    PROVE  /\ Newer(w, M) \in SUBSET M /\ w \notin Newer(w, M)
           /\ Cardinality(Newer(w, M)) \in Nat
           /\ Cardinality(Newer(w, M)) + 1 <= Cardinality(M)
<1>1. Newer(w, M) \in SUBSET M /\ w \in Writers /\ w \notin Newer(w, M)
  BY Started DEF Newer
<1>2. Newer(w, M) \in SUBSET Writers /\ Newer(w, M) \cup {w} \in SUBSET M
  BY <1>1
<1>3. Cardinality(Newer(w, M) \cup {w}) = Cardinality(Newer(w, M)) + 1
  BY <1>1, <1>2, OneMore
<1>4. Cardinality(Newer(w, M) \cup {w}) <= Cardinality(M)
  BY <1>2, Fewer
<1>5. Cardinality(Newer(w, M)) \in Nat
  BY <1>2, Finite
<1> QED
  BY <1>1, <1>3, <1>4, <1>5

(* Two rows that are alone do not have the same number of newer ones.       *)
LEMMA NewerDiffer ==
    ASSUME NEW M \in SUBSET Writers, NEW v \in M, NEW w \in M, v # w,
           Alone(v, M)
    PROVE  Cardinality(Newer(v, M)) # Cardinality(Newer(w, M))
<1>1. ASSUME NEW a \in M, NEW b \in M, Values[a].started > Values[b].started
      PROVE  Cardinality(Newer(a, M)) < Cardinality(Newer(b, M))
  <2>1. /\ Newer(a, M) \in SUBSET M /\ a \notin Newer(a, M)
        /\ Newer(b, M) \in SUBSET Writers
    BY NewerFacts
  <2>2. Newer(a, M) \cup {a} \in SUBSET Newer(b, M)
    BY <1>1, Started DEF Newer
  <2>3. Cardinality(Newer(a, M) \cup {a}) = Cardinality(Newer(a, M)) + 1
    BY <2>1, OneMore
  <2>4. Cardinality(Newer(a, M) \cup {a}) <= Cardinality(Newer(b, M))
    BY <2>1, <2>2, Fewer
  <2>5. Cardinality(Newer(a, M)) \in Nat /\ Cardinality(Newer(b, M)) \in Nat
    BY NewerFacts
  <2> QED
    BY <2>3, <2>4, <2>5
<1>2. Values[v].started # Values[w].started
  BY DEF Alone
<1>3. Values[v].started \in Int /\ Values[w].started \in Int
  BY Started
<1>4. \/ Values[v].started > Values[w].started
      \/ Values[w].started > Values[v].started
  BY <1>2, <1>3
<1>5. Cardinality(Newer(v, M)) \in Nat /\ Cardinality(Newer(w, M)) \in Nat
  BY NewerFacts
<1> QED
  BY <1>1, <1>4, <1>5

LEMMA TopFacts ==
    ASSUME NEW M \in SUBSET Writers, NEW k \in Nat, NEW T \in Top(M, k)
    PROVE  /\ T \in SUBSET M /\ Cardinality(T) \in Nat /\ Cardinality(M) \in Nat
           /\ Cardinality(T) <= k /\ Cardinality(T) <= Cardinality(M)
           /\ Cardinality(T) = k \/ T = M
           /\ \A w \in T : Newer(w, M) \in SUBSET T
<1>1. T \in SUBSET M /\ Cardinality(T) = Smaller(k, Cardinality(M))
  BY DEF Top
<1>2. Cardinality(T) \in Nat /\ Cardinality(M) \in Nat
  BY <1>1, Fewer
<1>3. Cardinality(T) <= k /\ Cardinality(T) <= Cardinality(M)
  BY <1>1, <1>2 DEF Smaller
<1>4. Cardinality(T) = k \/ Cardinality(T) = Cardinality(M)
  BY <1>1 DEF Smaller
<1>5. Cardinality(M) = Cardinality(T) => M = T
  BY <1>1, Fewer
<1>6. \A t \in T, w \in M \ T : Values[t].started >= Values[w].started
  BY DEF Top
<1>7. \A w \in T : Newer(w, M) \in SUBSET T
  BY <1>1, <1>6, Started DEF Newer
<1> QED
  BY <1>1, <1>2, <1>3, <1>4, <1>5, <1>7

LEMMA TopHas ==
    ASSUME NEW M \in SUBSET Writers, NEW k \in Nat, NEW T \in Top(M, k),
           NEW w \in M, Alone(w, M)
    PROVE  w \in T <=> Cardinality(Newer(w, M)) < k
<1> DEFINE A == Newer(w, M)
<1>1. /\ T \in SUBSET M /\ Cardinality(T) \in Nat /\ Cardinality(M) \in Nat
      /\ Cardinality(T) <= k /\ (Cardinality(T) = k \/ T = M)
  BY TopFacts
<1>2. A \in SUBSET M /\ w \notin A /\ Cardinality(A) \in Nat
  BY NewerFacts
<1>3. ASSUME w \in T
      PROVE  Cardinality(A) < k
  <2>1. A \cup {w} \in SUBSET T
    BY <1>3, TopFacts
  <2>2. Cardinality(A \cup {w}) = Cardinality(A) + 1
    BY <1>2, OneMore
  <2>3. Cardinality(A \cup {w}) <= Cardinality(T)
    BY <1>1, <2>1, Fewer
  <2> QED
    BY <1>1, <1>2, <2>2, <2>3
<1>4. ASSUME w \notin T
      PROVE  ~(Cardinality(A) < k)
  <2>1. \A t \in T : Values[t].started >= Values[w].started
    BY <1>4 DEF Top
  <2>2. \A t \in T : Values[t].started # Values[w].started
    BY <1>1, <1>4 DEF Alone
  <2>3. T \in SUBSET A
    BY <1>1, <2>1, <2>2, Started DEF Newer
  <2>4. Cardinality(T) <= Cardinality(A)
    BY <1>2, <2>3, Fewer
  <2>5. Cardinality(T) = k
    BY <1>1, <1>4
  <2> QED
    BY <1>2, <2>4, <2>5
<1> QED
  BY <1>3, <1>4

(* A page of at most c rows after the first o.                              *)
LEMMA PageFacts ==
    ASSUME NEW M \in SUBSET Writers, NEW o \in Nat, NEW c \in Nat,
           NEW before, NEW upTo,
           before \in Top(M, o), upTo \in Top(M, o + c), before \subseteq upTo
    PROVE  \E p : /\ p = upTo \ before
                  /\ p \in SUBSET M /\ Cardinality(p) \in Nat /\ Cardinality(p) <= c
                  /\ \A w \in M : Alone(w, M) =>
                        /\ w \in p => o <= Cardinality(Newer(w, M)) /\ Cardinality(Newer(w, M)) < o + Cardinality(p)
                        /\ o <= Cardinality(Newer(w, M)) /\ Cardinality(Newer(w, M)) < o + Cardinality(p) => w \in p
<1> PICK p : p = upTo \ before
  OBVIOUS
<1>0. o + c \in Nat
  OBVIOUS
<1>1. /\ before \in SUBSET M /\ Cardinality(before) \in Nat /\ Cardinality(before) <= o
      /\ Cardinality(before) = o \/ before = M
  BY TopFacts
<1>2. /\ upTo \in SUBSET M /\ Cardinality(upTo) \in Nat /\ Cardinality(upTo) <= o + c
      /\ \A w \in upTo : Newer(w, M) \in SUBSET upTo
  BY <1>0, TopFacts
<1>3. p \in SUBSET M /\ Cardinality(p) \in Nat
  BY <1>2, Finite
<1>4. Cardinality(upTo) = Cardinality(before) + Cardinality(p)
  <2>1. before \cup p = upTo /\ before \cap p = {}
    OBVIOUS
  <2> QED
    BY <1>1, <1>3, <2>1, Together
<1>5. Cardinality(p) <= c
  <2>1. CASE Cardinality(before) = o
    BY <1>1, <1>2, <1>3, <1>4, <2>1
  <2>2. CASE before = M
    <3>1. p = {}
      BY <1>2, <2>2
    <3>2. Cardinality(p) = 0
      BY <3>1, FS_EmptySet
    <3> QED
      BY <3>2
  <2> QED
    BY <1>1, <2>1, <2>2
<1>6. ASSUME NEW w \in M, Alone(w, M)
      PROVE  w \in p <=> /\ o <= Cardinality(Newer(w, M))
                         /\ Cardinality(Newer(w, M)) < o + Cardinality(p)
  <2>1. Newer(w, M) \in SUBSET M /\ w \notin Newer(w, M) /\ Cardinality(Newer(w, M)) \in Nat
    BY NewerFacts
  <2>2. w \in before <=> Cardinality(Newer(w, M)) < o
    BY <1>6, TopHas
  <2>3. w \in upTo <=> Cardinality(Newer(w, M)) < o + c
    BY <1>0, <1>6, TopHas
  <2>4. ASSUME w \in upTo
        PROVE  Cardinality(Newer(w, M)) < o + Cardinality(p)
    <3>1. Newer(w, M) \cup {w} \in SUBSET upTo
      BY <1>2, <2>4
    <3>2. Cardinality(Newer(w, M) \cup {w}) = Cardinality(Newer(w, M)) + 1
      BY <2>1, OneMore
    <3>3. Cardinality(Newer(w, M) \cup {w}) <= Cardinality(upTo)
      BY <1>2, <3>1, Fewer
    <3> QED
      BY <1>1, <1>2, <1>3, <1>4, <2>1, <3>2, <3>3
  <2>5. Cardinality(Newer(w, M)) < o + Cardinality(p) => Cardinality(Newer(w, M)) < o + c
    BY <1>3, <1>5, <2>1
  <2>6. w \in p <=> w \in upTo /\ w \notin before
    OBVIOUS
  <2> QED
    BY <2>1, <2>2, <2>3, <2>4, <2>5, <2>6
<1> QED
  BY <1>3, <1>5, <1>6, Zenon

-----------------------------------------------------------------------------
(* Counting pairs.                                                          *)
LEMMA RepeatsHas ==
    ASSUME NEW times, NEW rows
    PROVE  \A p : p \in Repeats(times, rows) <=>
                     \E w \in rows : \E n \in 2 .. times[w] : p = <<w, n>>
  BY DEF Repeats

LEMMA RepeatsFinite ==
    ASSUME NEW times \in [Writers -> Nat], NEW rows \in SUBSET Writers
    PROVE  IsFiniteSet(Repeats(times, rows)) /\ Cardinality(Repeats(times, rows)) \in Nat
<1> DEFINE each == {{w} \X (2 .. times[w]) : w \in rows}
           f    == [w \in rows |-> {w} \X (2 .. times[w])]
<1>1. f \in [rows -> each] /\ \A t \in each : \E w \in rows : f[w] = t
  OBVIOUS
<1>2. f \in Surjection(rows, each)
  BY <1>1, Fun_IsSurj
<1>3. IsFiniteSet(each)
  BY <1>2, Finite, FS_Surjection
<1>4. ASSUME NEW t \in each
      PROVE  IsFiniteSet(t)
  <2>1. PICK w \in rows : t = {w} \X (2 .. times[w])
    OBVIOUS
  <2>2. w \in Writers /\ times[w] \in Int /\ 2 \in Int
    OBVIOUS
  <2>3. IsFiniteSet({w}) /\ IsFiniteSet(2 .. times[w])
    BY <2>2, FS_Singleton, FS_Interval
  <2> QED
    BY <2>1, <2>3, FS_Product
<1>5. IsFiniteSet(UNION each)
  BY <1>3, <1>4, FS_UNION
<1> QED
  BY <1>5, FS_CardinalityType DEF Repeats

(* A page adds one repetition for each of its rows that was shown before.   *)
LEMMA RepeatsGrow ==
    ASSUME NEW times \in [Writers -> Nat], NEW rows \in SUBSET Writers,
           NEW p \in SUBSET Writers, NEW again,
           again = {w \in rows \cap p : times[w] > 0},
           NEW after,
           after = [w \in Writers |-> IF w \in p THEN times[w] + 1 ELSE times[w]]
    PROVE  Cardinality(Repeats(after, rows)) <= Cardinality(Repeats(times, rows)) + Cardinality(again)
<1> DEFINE old == Repeats(times, rows)
           new == Repeats(after, rows)
           f   == [w \in again |-> <<w, times[w] + 1>>]
           add == {<<w, times[w] + 1>> : w \in again}
<1>1. f \in [again -> add] /\ \A t \in add : \E w \in again : f[w] = t
  OBVIOUS
<1>2. f \in Surjection(again, add)
  BY <1>1, Fun_IsSurj
<1>3. again \in SUBSET Writers
  OBVIOUS
<1>4. IsFiniteSet(again) /\ Cardinality(again) \in Nat
  BY <1>3, Finite
<1>5. IsFiniteSet(add) /\ Cardinality(add) <= Cardinality(again)
  BY <1>2, <1>4, FS_Surjection
<1>6. IsFiniteSet(old) /\ Cardinality(old) \in Nat
  BY RepeatsFinite
<1>7. new \in SUBSET (old \cup add)
  <2> SUFFICES ASSUME NEW w \in rows, NEW n \in 2 .. after[w], <<w, n>> \notin old
               PROVE  <<w, n>> \in add
    BY RepeatsHas
  <2>1. w \in Writers /\ times[w] \in Nat /\ n \in Nat /\ 2 <= n /\ n <= after[w]
    OBVIOUS
  <2>2. ~(n <= times[w])
    <3>1. SUFFICES ASSUME n \in 2 .. times[w]
                   PROVE  FALSE
      BY <2>1
    <3> QED
      BY <3>1, RepeatsHas
  <2>3. w \in p /\ n = times[w] + 1 /\ times[w] > 0
    BY <2>1, <2>2
  <2> QED
    BY <2>3
<1>8. /\ IsFiniteSet(old \cup add)
      /\ Cardinality(old \cup add) = Cardinality(old) + Cardinality(add) - Cardinality(old \cap add)
  BY <1>5, <1>6, FS_Union
<1>9. Cardinality(new) <= Cardinality(old \cup add)
  BY <1>7, <1>8, FS_Subset
<1>10. /\ Cardinality(add) \in Nat /\ Cardinality(old \cap add) \in Nat
       /\ Cardinality(new) \in Nat /\ Cardinality(old \cup add) \in Nat
  <2>1. old \cap add \in SUBSET add
    OBVIOUS
  <2>2. IsFiniteSet(old \cap add) /\ IsFiniteSet(new)
    BY <1>5, <1>7, <1>8, <2>1, FS_Subset
  <2> QED
    BY <1>5, <1>8, <2>2, FS_CardinalityType
<1> HIDE DEF old, new, add, f
<1>11. Cardinality(new) <= Cardinality(old) + Cardinality(again)
  BY <1>4, <1>5, <1>6, <1>8, <1>9, <1>10
<1> QED
  BY <1>11 DEF old, new

LEMMA CountedHas ==
    ASSUME NEW count
    PROVE  \A p : p \in Counted(count) <=>
                     \E b \in Backends : \E n \in 1 .. count[b] : p = <<b, n>>
  BY DEF Counted

(* Rows counted by backend are as many as the rows.                         *)
LEMMA CountedIs ==
    ASSUME NEW rows \in SUBSET Writers, NEW count,
           \A b \in Backends : count[b] = Cardinality({w \in rows : Values[w].backend = b})
    PROVE  Cardinality(Counted(count)) = Cardinality(rows)
<1> DEFINE of(b) == {w \in rows : Values[w].backend = b}
           nth(b) == CHOOSE f : f \in Bijection(1 .. Cardinality(of(b)), of(b))
           f == [p \in Counted(count) |-> nth(p[1])[p[2]]]
<1>1. ASSUME NEW b \in Backends
      PROVE  /\ count[b] = Cardinality(of(b)) /\ count[b] \in Nat
             /\ nth(b) \in [1 .. count[b] -> of(b)]
             /\ \A i, j \in 1 .. count[b] : nth(b)[i] = nth(b)[j] => i = j
             /\ \A w \in of(b) : \E i \in 1 .. count[b] : nth(b)[i] = w
  <2>1. of(b) \in SUBSET Writers
    OBVIOUS
  <2>2. IsFiniteSet(of(b)) /\ Cardinality(of(b)) \in Nat
    BY <2>1, Finite
  <2>3. ExistsBijection(1 .. Cardinality(of(b)), of(b))
    BY <2>2, FS_CardinalityType
  <2>4. nth(b) \in Bijection(1 .. Cardinality(of(b)), of(b))
    BY <2>3 DEF ExistsBijection
  <2>5. count[b] = Cardinality(of(b))
    BY DEF of
  <2> HIDE DEF nth, of
  <2>6. nth(b) \in Bijection(1 .. count[b], of(b))
    BY <2>4, <2>5
  <2>7. /\ nth(b) \in [1 .. count[b] -> of(b)]
        /\ \A i, j \in 1 .. count[b] : nth(b)[i] = nth(b)[j] => i = j
        /\ \A w \in of(b) : \E i \in 1 .. count[b] : nth(b)[i] = w
    <3>1. PICK S, T, g : S = 1 .. count[b] /\ T = of(b) /\ g = nth(b)
      OBVIOUS
    <3>2. g \in Bijection(S, T)
      BY <2>6, <3>1
    <3>3. /\ g \in [S -> T]
          /\ \A i, j \in S : g[i] = g[j] => i = j
          /\ \A w \in T : \E i \in S : g[i] = w
      BY <3>2, Fun_BijectionProperties
    <3> QED
      BY <3>1, <3>3, Zenon
  <2>8. count[b] \in Nat
    BY <2>2, <2>5
  <2> QED
    BY <2>5, <2>7, <2>8
<1>2. \A p : p \in Counted(count) <=>
                \E b \in Backends : \E n \in 1 .. count[b] : p = <<b, n>>
  BY CountedHas
<1>3. \A w \in rows : Values[w].backend \in Backends /\ w \in of(Values[w].backend)
  BY DEF RowValues
<1>4. \A b \in Backends : \A w \in of(b) : w \in rows /\ Values[w].backend = b
  OBVIOUS
<1> HIDE DEF nth, of
<1>5. ASSUME NEW b \in Backends, NEW n \in 1 .. count[b]
      PROVE  /\ <<b, n>> \in Counted(count) /\ f[<<b, n>>] = nth(b)[n]
             /\ f[<<b, n>>] \in rows /\ Values[f[<<b, n>>]].backend = b
  <2>1. <<b, n>> \in Counted(count)
    BY <1>2
  <2>2. f[<<b, n>>] = nth(b)[n]
    BY <2>1
  <2>3. nth(b)[n] \in of(b)
    BY <1>1
  <2> QED
    BY <1>4, <2>1, <2>2, <2>3
<1>6. f \in [Counted(count) -> rows]
  <2>1. ASSUME NEW p \in Counted(count)
        PROVE  f[p] \in rows
    <3>1. PICK b \in Backends : \E n \in 1 .. count[b] : p = <<b, n>>
      BY <1>2
    <3>2. PICK n \in 1 .. count[b] : p = <<b, n>>
      BY <3>1
    <3>3. f[<<b, n>>] \in rows
      BY <1>5
    <3> QED
      BY <3>2, <3>3
  <2>2. f = [p \in Counted(count) |-> f[p]]
    OBVIOUS
  <2> QED
    BY <2>1, <2>2
<1>7. \A p, q \in Counted(count) : f[p] = f[q] => p = q
  <2> SUFFICES ASSUME NEW p \in Counted(count), NEW q \in Counted(count), f[p] = f[q]
               PROVE  p = q
    OBVIOUS
  <2>1. PICK b \in Backends : \E n \in 1 .. count[b] : p = <<b, n>>
    BY <1>2
  <2>2. PICK n \in 1 .. count[b] : p = <<b, n>>
    BY <2>1
  <2>3. PICK c \in Backends : \E m \in 1 .. count[c] : q = <<c, m>>
    BY <1>2
  <2>4. PICK m \in 1 .. count[c] : q = <<c, m>>
    BY <2>3
  <2>5. /\ f[<<b, n>>] = nth(b)[n] /\ Values[f[<<b, n>>]].backend = b
        /\ f[<<c, m>>] = nth(c)[m] /\ Values[f[<<c, m>>]].backend = c
    BY <1>5
  <2>6. b = c
    BY <2>2, <2>4, <2>5
  <2>7. nth(b)[n] = nth(b)[m]
    BY <2>2, <2>4, <2>5, <2>6
  <2>8. n = m
    <3>1. \A i, j \in 1 .. count[b] : nth(b)[i] = nth(b)[j] => i = j
      BY <1>1
    <3>2. n \in 1 .. count[b] /\ m \in 1 .. count[b]
      BY <2>6
    <3> QED
      BY <2>7, <3>1, <3>2
  <2> QED
    BY <2>2, <2>4, <2>6, <2>8
<1>8. \A w \in rows : \E p \in Counted(count) : f[p] = w
  <2> SUFFICES ASSUME NEW w \in rows
               PROVE  \E p \in Counted(count) : f[p] = w
    OBVIOUS
  <2>1. PICK b \in Backends : b = Values[w].backend /\ w \in of(b)
    BY <1>3
  <2>2. PICK n \in 1 .. count[b] : nth(b)[n] = w
    BY <1>1, <2>1
  <2>3. <<b, n>> \in Counted(count) /\ f[<<b, n>>] = w
    BY <1>5, <2>2
  <2> QED
    BY <2>3
<1>9. f \in Bijection(Counted(count), rows)
  BY <1>6, <1>7, <1>8, Fun_IsBij
<1> HIDE DEF f
<1>10. ExistsBijection(Counted(count), rows)
  BY <1>9 DEF ExistsBijection
<1>11. ExistsBijection(rows, Counted(count))
  BY <1>10, Fun_ExistsBijSymmetric
<1> QED
  BY <1>11, Finite, FS_Bijection

-----------------------------------------------------------------------------
(* What the client may ask for.                                             *)
LEMMA CallFacts ==
    ASSUME NEW c \in Calls
    PROVE  /\ c.op \in {"walk", "detail", "summary"}
           /\ c.op = "walk" => PageSize(c.limit) \in Nat /\ PageSize(c.limit) <= MaxPageSize
           /\ c.op = "detail" => c.id \in LogIds
           /\ c.op \in {"walk", "summary"} => c.filter \in Filters
<1>1. \/ c.op = "walk"    /\ c.filter \in Filters /\ c.limit \in (Nat \ {0}) \cup {None}
      \/ c.op = "detail"  /\ c.id \in LogIds
      \/ c.op = "summary" /\ c.filter \in Filters
  BY CallAssumption
<1>2. None \notin Int
  BY CallAssumption
<1>3. c.op = "walk" => PageSize(c.limit) \in Nat /\ PageSize(c.limit) <= MaxPageSize
  BY <1>1, <1>2 DEF PageSize, Smaller
<1> QED
  BY <1>1, <1>3

LEMMA EntryFacts ==
    /\ Absent \notin Entries
    /\ \A w \in Writers : Entry(w) \in Entries /\ Entry(w).by = w /\ Entry(w) # Absent
  BY StartAssumption DEF Entry, Entries, RowValues

LEMMA RowFacts ==
    ASSUME TypeOK
    PROVE  /\ \A id \in LogIds : ledger[id] # Absent =>
                  ledger[id] \in Entries /\ ledger[id].by \in Writers /\ ledger[id].by \in Rows
           /\ \A w \in Rows : \E id \in LogIds : ledger[id] # Absent /\ ledger[id].by = w
           /\ Rows \in SUBSET Writers
<1>1. \A id \in LogIds : ledger[id] # Absent => ledger[id] \in Entries /\ ledger[id].by \in Writers
  BY DEF TypeOK, Entries
<1>2. \A id \in LogIds : ledger[id] # Absent => ledger[id].by \in Rows
  BY DEF Rows
<1>3. \A w \in Rows : \E id \in LogIds : ledger[id] # Absent /\ ledger[id].by = w
  BY DEF Rows
<1> QED
  BY <1>1, <1>2, <1>3

(* One row for each entry.                                                  *)
LedgerOK ==
    /\ \A id \in LogIds : ledger[id] # Absent => ledger[id] = Entry(ledger[id].by)
    /\ \A i, j \in LogIds :
          ledger[i] # Absent /\ ledger[j] # Absent /\ ledger[i].by = ledger[j].by => i = j

LEMMA Recorded ==
    ASSUME TypeOK, LedgerOK, NEW w \in Writers, RecordRow(w)
    PROVE  /\ Rows' = Rows \cup {w} /\ w \notin Rows /\ w \notin written
           /\ ledger' \in [LogIds -> Entries \cup {Absent}] /\ LedgerOK'
           /\ \A id \in LogIds : ledger[id] # Absent => ledger'[id] = ledger[id]
<1>1. PICK id \in LogIds : Record(id, Entry(w))
  BY DEF RecordRow
<1>2. w \notin written /\ w \notin Rows
  BY DEF RecordRow, TypeOK
<1>3. /\ ledger[id] = Absent /\ ledger' = [ledger EXCEPT ![id] = Entry(w)]
      /\ ledger \in [LogIds -> Entries \cup {Absent}]
  BY <1>1 DEF Record, TypeOK
<1>4. Entry(w) \in Entries /\ Entry(w).by = w /\ Entry(w) # Absent
  BY EntryFacts
<1>5. ledger' \in [LogIds -> Entries \cup {Absent}]
  BY <1>3, <1>4
<1>6. ledger'[id] = Entry(w) /\ \A i \in LogIds \ {id} : ledger'[i] = ledger[i]
  BY <1>3
<1>7. Rows' = Rows \cup {w}
  <2>1. ASSUME NEW v
        PROVE  v \in Rows' <=> \E i \in LogIds : ledger'[i] # Absent /\ v = ledger'[i].by
    BY DEF Rows
  <2>2. ASSUME NEW v
        PROVE  v \in Rows <=> \E i \in LogIds : ledger[i] # Absent /\ v = ledger[i].by
    BY DEF Rows
  <2>3. \A v : v \in Rows' <=> v \in Rows \/ v = w
    BY <1>3, <1>4, <1>6, <2>1, <2>2
  <2> QED
    BY <2>3
<1>8. \A i \in LogIds : ledger[i] # Absent => ledger[i].by # w
  BY <1>2, RowFacts
<1>9. LedgerOK'
  BY <1>4, <1>6, <1>8 DEF LedgerOK, Entry
<1> QED
  BY <1>2, <1>3, <1>5, <1>6, <1>7, <1>9

LEMMA Purged ==
    ASSUME TypeOK, LedgerOK, NEW cutoff, NEW ids \in SUBSET LogIds, PurgeRows(cutoff, ids)
    PROVE  \E X : /\ X = {ledger[id].by : id \in ids}
                  /\ Rows' = Rows \ X /\ X \in SUBSET Rows /\ X \in SUBSET Writers
                  /\ ledger' \in [LogIds -> Entries \cup {Absent}] /\ LedgerOK'
                  /\ \A id \in LogIds : ledger'[id] = ledger[id] \/ ledger[id].by \in X
<1> PICK X : X = {ledger[id].by : id \in ids}
  OBVIOUS
<1>1. /\ \A id \in ids : ledger[id] # Absent
      /\ ledger' = [id \in LogIds |-> IF id \in ids THEN Absent ELSE ledger[id]]
      /\ ledger \in [LogIds -> Entries \cup {Absent}]
  BY DEF PurgeRows, Purge, TypeOK
<1>2. X \in SUBSET Rows /\ X \in SUBSET Writers
  BY <1>1, RowFacts
<1>3. ledger' \in [LogIds -> Entries \cup {Absent}]
  BY <1>1
<1>4. \A id \in LogIds : ledger'[id] = IF id \in ids THEN Absent ELSE ledger[id]
  BY <1>1
<1>5. LedgerOK'
  BY <1>4 DEF LedgerOK, Entry
<1>6. Rows' = Rows \ X
  <2>1. ASSUME NEW v
        PROVE  v \in Rows' <=> \E i \in LogIds : ledger'[i] # Absent /\ v = ledger'[i].by
    BY DEF Rows
  <2>2. ASSUME NEW v
        PROVE  v \in Rows <=> \E i \in LogIds : ledger[i] # Absent /\ v = ledger[i].by
    BY DEF Rows
  <2>3. \A v : v \in X <=> \E i \in ids : v = ledger[i].by
    OBVIOUS
  <2>4. \A i, j \in LogIds :
           ledger[i] # Absent /\ ledger[j] # Absent /\ ledger[i].by = ledger[j].by => i = j
    BY DEF LedgerOK
  <2>5. ASSUME NEW v \in Rows'
        PROVE  v \in Rows \ X
    <3>1. PICK i \in LogIds : ledger'[i] # Absent /\ v = ledger'[i].by
      BY <2>1, <2>5
    <3>2. i \notin ids /\ ledger[i] # Absent /\ v = ledger[i].by
      BY <1>4, <3>1
    <3>3. v \notin X
      BY <1>1, <2>3, <2>4, <3>2
    <3> QED
      BY <2>2, <3>2, <3>3
  <2>6. ASSUME NEW v \in Rows, v \notin X
        PROVE  v \in Rows'
    <3>1. PICK i \in LogIds : ledger[i] # Absent /\ v = ledger[i].by
      BY <2>2, <2>6
    <3>2. i \notin ids
      BY <2>3, <2>6, <3>1
    <3>3. ledger'[i] = ledger[i]
      BY <1>4, <3>2
    <3> QED
      BY <2>1, <3>1, <3>3
  <2> QED
    BY <2>5, <2>6
<1>7. \A id \in LogIds : ledger'[id] = ledger[id] \/ ledger[id].by \in X
  BY <1>4
<1> QED
  BY <1>2, <1>3, <1>5, <1>6, <1>7, Zenon

-----------------------------------------------------------------------------
(* Types, the log, and where the reader is.                                 *)
Basics == TypeOK /\ LogOK /\ CallOK

LEMMA BasicFacts ==
    ASSUME Basics
    PROVE  /\ TypeOK /\ LogOK /\ CallOK /\ LedgerOK
           /\ Rows \in SUBSET Writers /\ Rows \in SUBSET written
           /\ written \in SUBSET Writers /\ page \in SUBSET Writers
           /\ start \in SUBSET Writers /\ born \in SUBSET Writers /\ gone \in SUBSET Writers
           /\ offset \in Nat /\ shown \in [Writers -> Nat]
           /\ Cardinality(page) \in Nat
<1>1. page \in SUBSET Writers
  BY DEF Basics, TypeOK
<1>2. Cardinality(page) \in Nat /\ Cardinality(Writers) \in Nat
  BY <1>1, Finite
<1>3. LedgerOK
  BY DEF Basics, LogOK, LedgerOK
<1> QED
  BY <1>1, <1>2, <1>3, RowFacts DEF Basics, TypeOK

LEMMA BasicsInit ==
    ASSUME Init
    PROVE  Basics
<1>1. /\ ledger = [id \in LogIds |-> IF id \in Existing THEN Entry(WrittenBy[id]) ELSE Absent]
      /\ written = {WrittenBy[id] : id \in Existing}
  BY DEF Init
<1>2. \A id \in LogIds :
         ledger[id] = IF id \in Existing THEN Entry(WrittenBy[id]) ELSE Absent
  BY <1>1
<1>3. \A id \in Existing : id \in LogIds /\ WrittenBy[id] \in Writers
  BY StartAssumption
<1>4. \A id \in Existing :
         /\ Entry(WrittenBy[id]) \in Entries /\ Entry(WrittenBy[id]) # Absent
         /\ Entry(WrittenBy[id]).by = WrittenBy[id]
  BY <1>3, EntryFacts
<1>5. ledger \in [LogIds -> Entries \cup {Absent}]
  BY <1>1, <1>4
<1>6. Rows \subseteq written
  BY <1>1, <1>2, <1>4 DEF Rows
<1>7. written \in SUBSET Writers
  BY <1>1, <1>3
<1>8. Cardinality({}) = 0 /\ Cardinality(Writers) \in Nat
  BY FS_EmptySet, Finite
<1>9. TypeOK
  BY <1>5, <1>6, <1>7, <1>8 DEF Init, TypeOK
<1>10. LogOK
  <2>1. \A i, j \in Existing : WrittenBy[i] = WrittenBy[j] => i = j
    BY StartAssumption
  <2>2. \A id \in LogIds : ledger[id] # Absent =>
            /\ id \in Existing /\ ledger[id] = Entry(WrittenBy[id])
            /\ ledger[id].by = WrittenBy[id]
    BY <1>2, <1>4
  <2>3. start = {} /\ born = {} /\ gone = {} /\ page = {} /\ pc = "idle"
        /\ shown = [w \in Writers |-> 0]
    BY DEF Init
  <2>4. \A i, j \in LogIds :
          ledger[i] # Absent /\ ledger[j] # Absent /\ ledger[i].by = ledger[j].by => i = j
    BY <2>1, <2>2
  <2>5. \A id \in LogIds : ledger[id] # Absent => ledger[id] = Entry(ledger[id].by)
    BY <2>2
  <2> QED
    BY <2>3, <2>4, <2>5 DEF LogOK, Reading
<1>11. CallOK
  BY DEF Init, CallOK
<1> QED
  BY <1>9, <1>10, <1>11 DEF Basics

LEMMA BasicsRecord ==
    ASSUME Basics, NEW w \in Writers, RecordRow(w)
    PROVE  Basics'
<1>1. /\ Rows' = Rows \cup {w} /\ w \notin Rows /\ w \notin written
      /\ ledger' \in [LogIds -> Entries \cup {Absent}] /\ LedgerOK'
  BY BasicFacts, Recorded
<1>2. /\ written' = written \cup {w} /\ born' \in {born, born \cup {w}}
      /\ pc' = pc /\ call' = call /\ offset' = offset /\ page' = page /\ shown' = shown
      /\ entry' = entry /\ decision' = decision /\ counts' = counts
      /\ start' = start /\ gone' = gone
      /\ ~Reading => born' = born
  BY DEF RecordRow, reader
<1>3. /\ Rows \subseteq written /\ start \subseteq Writers
      /\ born \subseteq Writers /\ gone \subseteq Writers
  BY BasicFacts
<1>4. TypeOK'
  BY <1>1, <1>2, <1>3 DEF Basics, TypeOK
<1>5. LogOK'
  <2>1. gone' \cap Rows' = {}
    BY <1>1, <1>2 DEF Basics, LogOK
  <2>2. Reading' => start' \ gone' \subseteq Rows'
    BY <1>1, <1>2 DEF Basics, LogOK, Reading
  <2>3. start' \cup born' \cup gone' \cup page' \subseteq written'
    BY <1>2 DEF Basics, LogOK
  <2>4. \A v \in Writers \ written' : shown'[v] = 0
    BY <1>2 DEF Basics, LogOK
  <2> QED
    BY <1>1, <2>1, <2>2, <2>3, <2>4 DEF LedgerOK, LogOK
<1>6. CallOK'
  BY <1>2 DEF Basics, CallOK, Reading
<1> QED
  BY <1>4, <1>5, <1>6 DEF Basics

LEMMA BasicsPurge ==
    ASSUME Basics, NEW cutoff, NEW ids \in SUBSET LogIds, PurgeRows(cutoff, ids)
    PROVE  Basics'
<1>1. PICK X : /\ X = {ledger[id].by : id \in ids}
               /\ Rows' = Rows \ X /\ X \in SUBSET Rows /\ X \in SUBSET Writers
               /\ ledger' \in [LogIds -> Entries \cup {Absent}] /\ LedgerOK'
  <2>1. TypeOK /\ LedgerOK
    BY BasicFacts
  <2> QED
    BY <2>1, Purged, Zenon
<1>2. /\ gone' = IF Reading THEN gone \cup X ELSE gone
      /\ written' = written /\ born' = born
      /\ pc' = pc /\ call' = call /\ offset' = offset /\ page' = page /\ shown' = shown
      /\ entry' = entry /\ decision' = decision /\ counts' = counts
      /\ start' = start
  BY <1>1 DEF PurgeRows, reader
<1>3. /\ Rows \subseteq written /\ start \subseteq Writers
      /\ born \subseteq Writers /\ gone \subseteq Writers
  BY BasicFacts
<1>4. TypeOK'
  BY <1>1, <1>2, <1>3 DEF Basics, TypeOK
<1>5. LogOK'
  <2>1. gone' \cap Rows' = {}
    BY <1>1, <1>2 DEF Basics, LogOK
  <2>2. Reading' => start' \ gone' \subseteq Rows'
    BY <1>1, <1>2 DEF Basics, LogOK, Reading
  <2>3. start' \cup born' \cup gone' \cup page' \subseteq written'
    BY <1>1, <1>2, <1>3 DEF Basics, LogOK
  <2>4. \A v \in Writers \ written' : shown'[v] = 0
    BY <1>2 DEF Basics, LogOK
  <2> QED
    BY <1>1, <2>1, <2>2, <2>3, <2>4 DEF LedgerOK, LogOK
<1>6. CallOK'
  BY <1>2 DEF Basics, CallOK, Reading
<1> QED
  BY <1>4, <1>5, <1>6 DEF Basics

(* A step of the reader: the log stays as it is.                            *)
Reads ==
    /\ ledger' = ledger /\ written' = written
    /\ born' = born /\ gone' = gone

LEMMA ReadsFacts ==
    ASSUME Basics, Reads
    PROVE  Rows' = Rows /\ LedgerOK'
  BY BasicFacts DEF Reads, Rows, LedgerOK, Entry

LEMMA BasicsBegin ==
    ASSUME Basics, NEW c \in Calls, Begin(c)
    PROVE  Basics' /\ Reads
<1>1. /\ Reads /\ pc = "idle" /\ call' = c /\ start' = Rows
      /\ offset' = offset /\ page' = page /\ shown' = shown
      /\ entry' = entry /\ decision' = decision /\ counts' = counts
      /\ pc' = CASE c.op = "walk" -> "list" [] c.op = "detail" -> "log" [] OTHER -> "backends"
  BY DEF Begin, Reads
<1>2. \/ c.op = "walk" /\ pc' = "list"
      \/ c.op = "detail" /\ pc' = "log"
      \/ c.op = "summary" /\ pc' = "backends"
  BY <1>1, CallFacts
<1>3. Rows' = Rows /\ LedgerOK' /\ Rows \subseteq written /\ Rows \subseteq Writers
  BY <1>1, BasicFacts, ReadsFacts
<1>4. TypeOK'
  BY <1>1, <1>2, <1>3 DEF Basics, TypeOK, Reads
<1>5. LogOK'
  BY <1>1, <1>3 DEF Basics, LogOK, LedgerOK, Reads
<1>6. CallOK'
  BY <1>1, <1>2 DEF Basics, CallOK
<1> QED
  BY <1>1, <1>4, <1>5, <1>6 DEF Basics

(* What the page of a List is.                                              *)
LEMMA ListFacts ==
    ASSUME Basics, List, NEW M, M = Matching(call.filter)
    PROVE  /\ Reads /\ pc = "list" /\ pc' = "count" /\ call' = call /\ call \in Calls
           /\ call.op = "walk" /\ call.filter \in Filters
           /\ M \in SUBSET Rows /\ M \in SUBSET Writers
           /\ offset' = offset /\ shown' = shown /\ start' = start /\ page = {}
           /\ entry' = entry /\ decision' = decision /\ counts' = counts
           /\ page' \in SUBSET M /\ Cardinality(page') \in Nat
           /\ Cardinality(page') <= MaxPageSize
           /\ \A w \in M : Alone(w, M) =>
                 /\ w \in page' => offset <= Cardinality(Newer(w, M)) /\ Cardinality(Newer(w, M)) < offset + Cardinality(page')
                 /\ offset <= Cardinality(Newer(w, M)) /\ Cardinality(Newer(w, M)) < offset + Cardinality(page') => w \in page'
<1>1. /\ Reads /\ pc = "list" /\ pc' = "count" /\ call' = call
      /\ offset' = offset /\ shown' = shown /\ start' = start
      /\ entry' = entry /\ decision' = decision /\ counts' = counts
  BY DEF List, Reads
<1>2. call \in Calls /\ call.op = "walk" /\ page = {}
  BY <1>1 DEF Basics, CallOK
<1>3. /\ PageSize(call.limit) \in Nat /\ PageSize(call.limit) <= MaxPageSize
      /\ call.filter \in Filters
  BY <1>2, CallFacts
<1>4. M \in SUBSET Rows /\ M \in SUBSET Writers /\ offset \in Nat
  BY BasicFacts DEF Matching
<1>5. PICK c \in Nat : c = PageSize(call.limit)
  BY <1>3
<1>6. \E before \in Top(M, offset), upTo \in Top(M, offset + c) :
          before \subseteq upTo /\ page' = upTo \ before
  BY <1>5 DEF List
<1>7. PICK S, T : /\ S \in Top(M, offset) /\ T \in Top(M, offset + c)
                  /\ S \subseteq T /\ page' = T \ S
  BY <1>6
<1>8. PICK p : /\ p = T \ S
               /\ p \in SUBSET M /\ Cardinality(p) \in Nat /\ Cardinality(p) <= c
               /\ \A w \in M : Alone(w, M) =>
                     /\ w \in p => offset <= Cardinality(Newer(w, M)) /\ Cardinality(Newer(w, M)) < offset + Cardinality(p)
                     /\ offset <= Cardinality(Newer(w, M)) /\ Cardinality(Newer(w, M)) < offset + Cardinality(p) => w \in p
  <2>1. M \in SUBSET Writers /\ offset \in Nat /\ c \in Nat
    BY <1>4
  <2>2. S \in Top(M, offset) /\ T \in Top(M, offset + c) /\ S \subseteq T
    BY <1>7
  <2> QED
    BY <2>1, <2>2, PageFacts
<1>9. Cardinality(p) <= MaxPageSize
  BY <1>3, <1>5, <1>8
<1> QED
  BY <1>1, <1>2, <1>3, <1>4, <1>7, <1>8, <1>9

LEMMA BasicsList ==
    ASSUME Basics, List
    PROVE  Basics'
<1> PICK M : M = Matching(call.filter)
  OBVIOUS
<1>1. /\ Reads /\ pc' = "count" /\ call' = call /\ call \in Calls /\ call.op = "walk"
      /\ M \in SUBSET Rows /\ M \in SUBSET Writers
      /\ offset' = offset /\ shown' = shown /\ start' = start /\ pc = "list"
      /\ entry' = entry /\ decision' = decision /\ counts' = counts
      /\ page' \in SUBSET M /\ Cardinality(page') <= MaxPageSize
  BY ListFacts
<1>2. Rows' = Rows /\ LedgerOK' /\ Rows \subseteq written /\ page' \subseteq written
  BY <1>1, BasicFacts, ReadsFacts
<1>3. TypeOK'
  BY <1>1, <1>2 DEF Basics, TypeOK, Reads
<1>4. LogOK'
  BY <1>1, <1>2 DEF Basics, LogOK, LedgerOK, Reads, Reading
<1>5. CallOK'
  BY <1>1 DEF Basics, CallOK
<1> QED
  BY <1>3, <1>4, <1>5 DEF Basics

LEMMA CountFacts ==
    ASSUME Basics, Count, NEW M, M = Matching(call.filter)
    PROVE  /\ Reads /\ pc = "count" /\ pc' \in {"list", "done"} /\ call' = call /\ call \in Calls
           /\ call.op = "walk" /\ call.filter \in Filters
           /\ M \in SUBSET Rows /\ M \in SUBSET Writers
           /\ Cardinality(M) \in Nat /\ Cardinality(M) <= Cardinality(Writers)
           /\ shown' = Seen /\ start' = start /\ page' = {}
           /\ entry' = entry /\ decision' = decision /\ counts' = counts
           /\ pc' = "list" => /\ offset' = offset + Cardinality(page)
                              /\ offset + Cardinality(page) < Cardinality(M)
           /\ pc' = "done" => /\ offset' = offset
                              /\ Cardinality(M) <= offset + Cardinality(page)
<1>1. /\ Reads /\ pc = "count" /\ call' = call /\ start' = start /\ page' = {}
      /\ entry' = entry /\ decision' = decision /\ counts' = counts
      /\ shown' = Seen
  BY DEF Count, Reads, Seen
<1>2. call \in Calls /\ call.op = "walk"
  BY <1>1 DEF Basics, CallOK
<1>3. call.filter \in Filters
  BY <1>2, CallFacts
<1>4. M \in SUBSET Rows /\ M \in SUBSET Writers /\ offset \in Nat /\ Cardinality(page) \in Nat
  BY BasicFacts DEF Matching
<1>5. Cardinality(M) \in Nat /\ Cardinality(M) <= Cardinality(Writers)
  BY <1>4, Fewer
<1>6. IF offset + Cardinality(page) < Cardinality(M)
      THEN pc' = "list" /\ offset' = offset + Cardinality(page)
      ELSE pc' = "done" /\ offset' = offset
  BY DEF Count, HasMore
<1> QED
  BY <1>1, <1>2, <1>3, <1>4, <1>5, <1>6

LEMMA SeenFacts ==
    ASSUME Basics
    PROVE  /\ Seen \in [Writers -> Nat]
           /\ page = {} => Seen = shown
           /\ \A w \in Writers : Seen[w] = IF w \in page THEN shown[w] + 1 ELSE shown[w]
           /\ \A w \in Writers \ written : Seen[w] = 0
<1>1. shown \in [Writers -> Nat] /\ page \subseteq written
  BY DEF Basics, TypeOK, LogOK
<1>2. \A w \in Writers \ written : shown[w] = 0
  BY DEF Basics, LogOK
<1> QED
  BY <1>1, <1>2 DEF Seen

LEMMA BasicsCount ==
    ASSUME Basics, Count
    PROVE  Basics'
<1> PICK M : M = Matching(call.filter)
  OBVIOUS
<1>1. /\ Reads /\ pc' \in {"list", "done"} /\ call' = call /\ call \in Calls
      /\ call.op = "walk" /\ pc = "count" /\ Cardinality(M) \in Nat
      /\ Cardinality(M) <= Cardinality(Writers)
      /\ shown' = Seen /\ start' = start /\ page' = {}
      /\ entry' = entry /\ decision' = decision /\ counts' = counts
      /\ pc' = "list" => /\ offset' = offset + Cardinality(page)
                         /\ offset + Cardinality(page) < Cardinality(M)
      /\ pc' = "done" => offset' = offset
  BY CountFacts
<1>2. Rows' = Rows /\ LedgerOK' /\ Rows \subseteq written
  BY <1>1, BasicFacts, ReadsFacts
<1>3. /\ Cardinality({}) = 0 /\ Cardinality(Writers) \in Nat
      /\ offset \in Nat /\ Cardinality(page) \in Nat
  BY FS_EmptySet, Finite, BasicFacts
<1>4. offset' \in 0 .. Cardinality(Writers)
  <2>1. offset \in 0 .. Cardinality(Writers)
    BY DEF Basics, TypeOK
  <2>2. CASE pc' = "list"
    BY <1>1, <1>3, <2>2
  <2>3. CASE pc' = "done"
    BY <1>1, <2>1, <2>3
  <2> QED
    BY <1>1, <2>2, <2>3
<1>5. shown' \in [Writers -> Nat] /\ \A w \in Writers \ written : shown'[w] = 0
  BY <1>1, SeenFacts
<1>6. TypeOK'
  BY <1>1, <1>2, <1>3, <1>4, <1>5 DEF Basics, TypeOK, Reads
<1>7. LogOK'
  BY <1>1, <1>2, <1>5 DEF Basics, LogOK, LedgerOK, Reads, Reading
<1>8. CallOK'
  BY <1>1 DEF Basics, CallOK
<1> QED
  BY <1>6, <1>7, <1>8 DEF Basics

LEMMA BasicsDetail ==
    ASSUME Basics, DetailLog \/ DetailDecision
    PROVE  /\ Basics' /\ Reads /\ call' = call /\ call.op = "detail" /\ call.id \in LogIds
           /\ start' = start
<1>1. /\ Reads /\ call' = call /\ start' = start
      /\ offset' = offset /\ page' = page /\ shown' = shown /\ counts' = counts
      /\ \/ /\ pc = "log" /\ decision' = decision
            /\ \/ pc' = "notFound" /\ entry' = entry
               \/ /\ pc' = "decision" /\ entry' = ledger[call.id].by
                  /\ ledger[call.id] # Absent
         \/ /\ pc = "decision" /\ pc' = "done" /\ decision' = DecisionOf(call.id)
            /\ entry' = entry
  BY DEF DetailLog, DetailDecision, Reads
<1>2. call \in Calls /\ call.op = "detail"
  BY <1>1 DEF Basics, CallOK
<1>3. call.id \in LogIds
  BY <1>2, CallFacts
<1>4. Rows' = Rows /\ LedgerOK' /\ Rows \subseteq written /\ TypeOK
  BY <1>1, BasicFacts, ReadsFacts
<1>5. /\ ledger[call.id] # Absent => ledger[call.id].by \in Writers
      /\ DecisionOf(call.id) \in Writers \cup {None}
  BY <1>3, <1>4, RowFacts DEF DecisionOf
<1>6. TypeOK'
  BY <1>1, <1>4, <1>5 DEF Basics, TypeOK, Reads
<1>7. LogOK'
  BY <1>1, <1>4 DEF Basics, LogOK, LedgerOK, Reads, Reading
<1>8. CallOK'
  BY <1>1, <1>2 DEF Basics, CallOK
<1> QED
  BY <1>1, <1>2, <1>3, <1>6, <1>7, <1>8 DEF Basics

LEMMA BasicsSummary ==
    ASSUME Basics, BackendStats \/ StatusBreakdown \/ LatencyPercentiles
    PROVE  /\ Basics' /\ Reads /\ call' = call /\ call.op = "summary"
           /\ start' = start /\ call.filter \in Filters
<1> PICK timely : timely = {w \in Rows : Since(call.filter, w)}
  OBVIOUS
<1>1. /\ Reads /\ call' = call /\ start' = start
      /\ offset' = offset /\ page' = page /\ shown' = shown
      /\ entry' = entry /\ decision' = decision
      /\ pc \in {"backends", "statuses", "latency"}
      /\ pc' \in {"statuses", "latency", "done"}
  BY DEF BackendStats, StatusBreakdown, LatencyPercentiles, Part, Reads
<1>2. call \in Calls /\ call.op = "summary" /\ page = {}
  BY <1>1 DEF Basics, CallOK
<1>3. Rows' = Rows /\ LedgerOK' /\ Rows \in SUBSET written /\ Rows \in SUBSET Writers
  BY <1>1, BasicFacts, ReadsFacts
<1>4. counts' \in [backends : [Backends -> Nat], statuses : [BOOLEAN -> Nat], samples : Nat]
  <2>1. counts \in [backends : [Backends -> Nat], statuses : [BOOLEAN -> Nat], samples : Nat]
    BY DEF Basics, TypeOK
  <2>2. CASE BackendStats
    <3> DEFINE rows == {w \in Rows : Since(call.filter, w) /\ Until(call.filter, w)}
               n == [b \in Backends |-> Cardinality({w \in rows : Values[w].backend = b})]
    <3>1. counts' = [counts EXCEPT !["backends"] = n]
      BY <2>2 DEF BackendStats, Part
    <3>2. \A b \in Backends : {w \in rows : Values[w].backend = b} \in SUBSET Writers
      BY <1>3
    <3>3. n \in [Backends -> Nat]
      BY <3>2, Finite
    <3> HIDE DEF n
    <3> QED
      BY <2>1, <3>1, <3>3
  <2>3. CASE StatusBreakdown
    <3> DEFINE n == Statuses(timely)
    <3>1. counts' = [counts EXCEPT !["statuses"] = n]
      BY <2>3 DEF StatusBreakdown, Part
    <3>2. \A f \in BOOLEAN : {w \in timely : Values[w].failed = f} \in SUBSET Writers
      BY <1>3
    <3>3. n \in [BOOLEAN -> Nat]
      BY <3>2, Finite DEF Statuses
    <3> HIDE DEF n
    <3> QED
      BY <2>1, <3>1, <3>3
  <2>4. CASE LatencyPercentiles
    <3> DEFINE rows == {w \in Rows : /\ Values[w].timed /\ Since(call.filter, w)
                                     /\ call.filter.backend \in {None, Values[w].backend}}
               n == Cardinality(rows)
    <3>1. counts' = [counts EXCEPT !["samples"] = n]
      BY <2>4 DEF LatencyPercentiles, Part
    <3>2. rows \in SUBSET Writers
      BY <1>3
    <3>3. n \in Nat
      BY <3>2, Finite
    <3> HIDE DEF n
    <3> QED
      BY <2>1, <3>1, <3>3
  <2> QED
    BY <2>2, <2>3, <2>4
<1>5. TypeOK'
  BY <1>1, <1>3, <1>4 DEF Basics, TypeOK, Reads
<1>6. LogOK'
  BY <1>1, <1>3 DEF Basics, LogOK, LedgerOK, Reads, Reading
<1>7. CallOK'
  BY <1>1, <1>2 DEF Basics, CallOK
<1>8. call.filter \in Filters
  BY <1>2, CallFacts
<1> QED
  BY <1>1, <1>2, <1>5, <1>6, <1>7, <1>8 DEF Basics

-----------------------------------------------------------------------------
(* A walk.                                                                  *)
LEMMA WalkSets ==
    ASSUME Basics, NEW M, M = Matching(call.filter)
    PROVE  /\ Wanted(call.filter) \in SUBSET Writers
           /\ Lone \in SUBSET Wanted(call.filter) /\ Lone \in SUBSET Writers
           /\ M = Rows \cap Wanted(call.filter)
           /\ M \in SUBSET Writers
           /\ \A w \in Lone : Alone(w, Wanted(call.filter)) /\ Alone(w, M)
           /\ NextRow \in Nat
           /\ Passed \in SUBSET Writers /\ Due \in SUBSET Writers
           /\ \A w : w \in Passed <=> /\ w \in start \cap Lone /\ w \notin gone
                                      /\ Seen[w] = 0
                                      /\ Cardinality(Newer(w, M)) < NextRow
           /\ \A w : w \in Due <=> /\ w \in Rows \cap Lone
                                   /\ Seen[w] > 0
                                   /\ Cardinality(Newer(w, M)) >= NextRow
<1>1. Wanted(call.filter) \in SUBSET Writers
  BY DEF Wanted
<1>2. Lone \in SUBSET Wanted(call.filter) /\ Lone \in SUBSET Writers
  BY <1>1 DEF Lone
<1>3. M = Rows \cap Wanted(call.filter) /\ M \in SUBSET Writers
  BY <1>1 DEF Matching
<1>4. \A w \in Lone : Alone(w, Wanted(call.filter)) /\ Alone(w, M)
  BY <1>3 DEF Lone, Alone
<1>5. NextRow \in Nat
  BY BasicFacts DEF NextRow
<1>6. \A w : Above(w) = Newer(w, M)
  BY DEF Above, Newer
<1>7. Passed \in SUBSET Writers /\ Due \in SUBSET Writers
  BY <1>2 DEF Passed, Due
<1>8. \A w : w \in Passed <=> /\ w \in start \cap Lone /\ w \notin gone
                              /\ Seen[w] = 0
                              /\ Cardinality(Newer(w, M)) < NextRow
  BY <1>6 DEF Passed
<1>9. \A w : w \in Due <=> /\ w \in Rows \cap Lone
                           /\ Seen[w] > 0
                           /\ Cardinality(Newer(w, M)) >= NextRow
  BY <1>6 DEF Due
<1> QED
  BY <1>1, <1>2, <1>3, <1>4, <1>5, <1>7, <1>8, <1>9

LEMMA SameCall ==
    ASSUME call' = call
    PROVE  /\ Wanted(call'.filter) = Wanted(call.filter)
           /\ Wanted(call.filter)' = Wanted(call.filter)
           /\ Lone' = Lone /\ InTime' = InTime
  BY DEF Wanted, Lone, Alone, Since, Until, InTime

(* The same of the state after a step that does not change the call.        *)
LEMMA WalkSetsNext ==
    ASSUME Basics', call' = call, NEW M, M = Rows' \cap Wanted(call.filter)
    PROVE  /\ M \in SUBSET Writers
           /\ \A w \in Lone : Alone(w, M)
           /\ NextRow' \in Nat
           /\ Passed' \in SUBSET Writers /\ Due' \in SUBSET Writers
           /\ \A w : w \in Passed' <=> /\ w \in start' \cap Lone /\ w \notin gone'
                                       /\ Seen'[w] = 0
                                       /\ Cardinality(Newer(w, M)) < NextRow'
           /\ \A w : w \in Due' <=> /\ w \in Rows' \cap Lone
                                    /\ Seen'[w] > 0
                                    /\ Cardinality(Newer(w, M)) >= NextRow'
<1>1. Wanted(call.filter) \in SUBSET Writers /\ M \in SUBSET Writers
  BY DEF Wanted
<1>2. Lone' = Lone /\ Lone \in SUBSET Wanted(call.filter)
  BY SameCall DEF Lone
<1>3. M = Matching(call.filter)'
  BY SameCall DEF Matching
<1>4. \A w \in Lone : Alone(w, M)
  BY DEF Lone, Alone
<1>5. NextRow' \in Nat
  <2>1. page' \in SUBSET Writers /\ offset' \in 0 .. Cardinality(Writers)
    BY DEF Basics, TypeOK
  <2>2. Cardinality(page') \in Nat /\ Cardinality(Writers) \in Nat
    BY <2>1, Finite
  <2> QED
    BY <2>1, <2>2 DEF NextRow
<1>6. \A w : Above(w)' = Newer(w, M)
  BY <1>3 DEF Above, Newer
<1>7. Passed' = {w \in (start' \cap Lone) \ gone' :
                    Seen'[w] = 0 /\ Cardinality(Newer(w, M)) < NextRow'}
  BY <1>2, <1>6 DEF Passed
<1>8. Due' = {w \in Rows' \cap Lone :
                 Seen'[w] > 0 /\ Cardinality(Newer(w, M)) >= NextRow'}
  BY <1>2, <1>6 DEF Due
<1>9. Passed' \in SUBSET Writers /\ Due' \in SUBSET Writers
  BY <1>1, <1>2, <1>7, <1>8
<1>10. \A w : w \in Passed' <=> /\ w \in start' \cap Lone /\ w \notin gone'
                                /\ Seen'[w] = 0
                                /\ Cardinality(Newer(w, M)) < NextRow'
  BY <1>7
<1>11. \A w : w \in Due' <=> /\ w \in Rows' \cap Lone
                             /\ Seen'[w] > 0
                             /\ Cardinality(Newer(w, M)) >= NextRow'
  BY <1>8
<1> QED
  BY <1>1, <1>4, <1>5, <1>9, <1>10, <1>11

(* Nothing is passed or due when a walk begins.                             *)
LEMMA WalkBegins ==
    ASSUME Basics, NEW c \in Calls, Begin(c)
    PROVE  WalkOK'
<1>1. Basics' /\ Reads
  BY BasicsBegin
<1>2. /\ pc = "idle" /\ offset' = offset /\ page' = page /\ shown' = shown
      /\ born' = born /\ gone' = gone
  BY DEF Begin
<1>3. /\ offset = 0 /\ page = {} /\ shown = [w \in Writers |-> 0]
      /\ born = {} /\ gone = {}
  BY <1>2 DEF Basics, CallOK
<1>4. Seen' = [w \in Writers |-> 0] /\ NextRow' = 0
  BY <1>2, <1>3, FS_EmptySet DEF Seen, NextRow
<1>5. Lone' \in SUBSET Writers /\ Rows' \in SUBSET Writers
  BY <1>1, BasicFacts, ReadsFacts DEF Lone, Wanted
<1>6. Passed' = {}
  <2> SUFFICES ASSUME NEW w \in Passed'
               PROVE  FALSE
    OBVIOUS
  <2>1. Cardinality(Above(w)') < 0 /\ w \in Writers
    BY <1>4, <1>5 DEF Passed
  <2>2. Above(w)' \in SUBSET Writers
    BY <1>5 DEF Above, Matching
  <2> QED
    BY <2>1, <2>2, Finite
<1>7. Due' = {}
  BY <1>4, <1>5 DEF Due
<1>8. Repeats(Seen', Lone') = {}
  <2> SUFFICES ASSUME NEW p \in Repeats(Seen', Lone')
               PROVE  FALSE
    OBVIOUS
  <2>1. PICK w \in Lone' : \E n \in 2 .. Seen'[w] : p = <<w, n>>
    BY RepeatsHas
  <2>2. Seen'[w] = 0
    BY <1>4, <1>5
  <2> QED
    BY <2>1, <2>2
<1>9. gone' \cap Wanted(call.filter)' = {} /\ born' \cap Wanted(call.filter)' = {}
  BY <1>2, <1>3
<1> QED
  BY <1>6, <1>7, <1>8, <1>9, FS_EmptySet DEF WalkOK

LEMMA WalkLists ==
    ASSUME Basics, WalkOK, List
    PROVE  WalkOK'
<1> PICK M : M = Matching(call.filter)
  OBVIOUS
<1>1. /\ Reads /\ pc = "list" /\ call' = call /\ page = {}
      /\ offset' = offset /\ shown' = shown /\ start' = start
      /\ page' \in SUBSET M /\ Cardinality(page') \in Nat
      /\ \A w \in M : Alone(w, M) =>
            /\ w \in page' => /\ offset <= Cardinality(Newer(w, M))
                              /\ Cardinality(Newer(w, M)) < offset + Cardinality(page')
            /\ offset <= Cardinality(Newer(w, M)) /\ Cardinality(Newer(w, M)) < offset + Cardinality(page')
                  => w \in page'
  BY ListFacts
<1>2. Basics' /\ Rows' = Rows /\ gone' = gone /\ born' = born
  BY <1>1, BasicsList, ReadsFacts DEF Reads
<1> PICK W : W = Wanted(call.filter)
  OBVIOUS
<1>3. /\ W \in SUBSET Writers /\ Lone \in SUBSET W /\ Lone \in SUBSET Writers
      /\ M = Rows \cap W /\ M \in SUBSET Writers
      /\ \A w \in Lone : Alone(w, M)
      /\ Due \in SUBSET Writers /\ Passed \in SUBSET Writers
      /\ \A w : w \in Passed <=> /\ w \in start \cap Lone /\ w \notin gone
                                 /\ Seen[w] = 0
                                 /\ Cardinality(Newer(w, M)) < NextRow
      /\ \A w : w \in Due <=> /\ w \in Rows \cap Lone
                              /\ Seen[w] > 0
                              /\ Cardinality(Newer(w, M)) >= NextRow
  BY WalkSets
<1>4. /\ Due' \in SUBSET Writers
      /\ \A w : w \in Passed' <=> /\ w \in start' \cap Lone /\ w \notin gone'
                                  /\ Seen'[w] = 0
                                  /\ Cardinality(Newer(w, M)) < NextRow'
      /\ \A w : w \in Due' <=> /\ w \in Rows' \cap Lone
                               /\ Seen'[w] > 0
                               /\ Cardinality(Newer(w, M)) >= NextRow'
  BY <1>1, <1>2, <1>3, WalkSetsNext
<1>5. NextRow = offset /\ NextRow' = offset + Cardinality(page') /\ offset \in Nat
  BY <1>1, BasicFacts, FS_EmptySet DEF NextRow
<1>6. /\ shown \in [Writers -> Nat] /\ Seen = shown
      /\ Seen' = [w \in Writers |-> IF w \in page' THEN shown[w] + 1 ELSE shown[w]]
  BY <1>1, BasicFacts, SeenFacts DEF Seen
<1>7. \A w \in M : Cardinality(Newer(w, M)) \in Nat
  BY <1>3, NewerFacts
<1>8. start \ gone \subseteq Rows
  BY <1>1 DEF Basics, LogOK, Reading
<1>9. Passed' \in SUBSET Passed
  <2> SUFFICES ASSUME NEW w \in Passed'
               PROVE  w \in Passed
    OBVIOUS
  <2>1. /\ w \in start \cap Lone /\ w \notin gone /\ Seen'[w] = 0
        /\ Cardinality(Newer(w, M)) < offset + Cardinality(page')
    BY <1>1, <1>2, <1>4, <1>5
  <2>2. w \in M /\ Alone(w, M) /\ w \in Writers
    BY <1>3, <1>8, <2>1
  <2>3. w \notin page' /\ shown[w] = 0
    BY <1>6, <2>1, <2>2
  <2>4. ~(offset <= Cardinality(Newer(w, M)))
    BY <1>1, <2>1, <2>2, <2>3
  <2>5. Cardinality(Newer(w, M)) < NextRow
    BY <1>5, <1>7, <2>2, <2>4
  <2>6. Seen[w] = 0
    BY <1>6, <2>3
  <2> QED
    BY <1>3, <2>1, <2>5, <2>6
<1> PICK again : again = {w \in Lone \cap page' : shown[w] > 0}
  OBVIOUS
<1>10. again \in SUBSET Due /\ again \cap Due' = {}
  <2> SUFFICES ASSUME NEW w \in again
               PROVE  w \in Due /\ w \notin Due'
    OBVIOUS
  <2>1. w \in M /\ w \in Lone /\ w \in page' /\ shown[w] > 0 /\ Alone(w, M)
    BY <1>1, <1>3
  <2>2. /\ offset <= Cardinality(Newer(w, M))
        /\ Cardinality(Newer(w, M)) < offset + Cardinality(page')
    BY <1>1, <2>1
  <2>3. w \in Rows \cap Lone /\ Seen[w] > 0
    BY <1>3, <1>6, <2>1
  <2>4. /\ Cardinality(Newer(w, M)) >= NextRow
        /\ ~(Cardinality(Newer(w, M)) >= NextRow')
    BY <1>1, <1>5, <1>7, <2>1, <2>2
  <2> QED
    BY <1>3, <1>4, <2>3, <2>4
<1>11. Due' \in SUBSET Due
  <2> SUFFICES ASSUME NEW w \in Due'
               PROVE  w \in Due
    OBVIOUS
  <2>1. /\ w \in Rows \cap Lone /\ Seen'[w] > 0
        /\ Cardinality(Newer(w, M)) >= offset + Cardinality(page')
    BY <1>2, <1>4, <1>5
  <2>2. w \in M /\ Alone(w, M) /\ w \in Writers
    BY <1>3, <2>1
  <2>3. w \notin page'
    BY <1>1, <1>5, <1>7, <2>1, <2>2
  <2>4. shown[w] > 0
    BY <1>6, <2>1, <2>2, <2>3
  <2>5. Cardinality(Newer(w, M)) >= NextRow
    BY <1>1, <1>5, <1>7, <2>1, <2>2
  <2>6. Seen[w] > 0
    BY <1>6, <2>4
  <2> QED
    BY <1>3, <2>1, <2>5, <2>6
<1>12. /\ Cardinality(again) \in Nat /\ Cardinality(Due') \in Nat /\ Cardinality(Due) \in Nat
       /\ Cardinality(Due') + Cardinality(again) <= Cardinality(Due)
  <2>1. Due' \cup again \in SUBSET Due /\ again \in SUBSET Writers
    BY <1>3, <1>10, <1>11
  <2>2. Cardinality(Due' \cup again) = Cardinality(Due') + Cardinality(again)
    BY <1>4, <1>10, <2>1, Together
  <2>3. Cardinality(Due' \cup again) <= Cardinality(Due)
    BY <1>3, <2>1, Fewer
  <2> QED
    BY <1>3, <1>4, <2>1, <2>2, <2>3, Finite
<1>13. Cardinality(Repeats(Seen', Lone)) <= Cardinality(Repeats(Seen, Lone)) + Cardinality(again)
  <2>1. page' \in SUBSET Writers
    BY <1>1, <1>3
  <2> PICK after : after = Seen'
    OBVIOUS
  <2>2. Cardinality(Repeats(after, Lone)) <= Cardinality(Repeats(shown, Lone)) + Cardinality(again)
    BY <1>3, <1>6, <2>1, RepeatsGrow
  <2> QED
    BY <1>6, <2>2
<1>14. /\ Cardinality(Repeats(Seen', Lone)) \in Nat
       /\ Cardinality(Repeats(Seen, Lone)) \in Nat
  <2>1. Seen' \in [Writers -> Nat] /\ Seen \in [Writers -> Nat]
    BY <1>6
  <2> QED
    BY <1>3, <2>1, RepeatsFinite
<1>15. Cardinality(Passed') <= Cardinality(Passed)
  BY <1>3, <1>9, Fewer
<1>16. /\ Cardinality(Passed) <= Cardinality(gone \cap W)
       /\ Cardinality(Repeats(Seen, Lone)) + Cardinality(Due) <= Cardinality(born \cap W)
  BY <1>1 DEF WalkOK
<1>17. /\ Cardinality(Passed) \in Nat /\ Cardinality(Passed') \in Nat
       /\ Cardinality(gone \cap W) \in Nat /\ Cardinality(born \cap W) \in Nat
  <2>1. Passed' \in SUBSET Writers /\ gone \cap W \in SUBSET Writers /\ born \cap W \in SUBSET Writers
    BY <1>3, <1>9
  <2> QED
    BY <1>3, <2>1, Finite
<1>18. /\ Cardinality(Passed') <= Cardinality(gone \cap W)
       /\ Cardinality(Repeats(Seen', Lone)) + Cardinality(Due') <= Cardinality(born \cap W)
  BY <1>12, <1>13, <1>14, <1>15, <1>16, <1>17
<1>19. Lone' = Lone /\ Wanted(call.filter)' = W
  BY <1>1, SameCall
<1> QED
  BY <1>2, <1>18, <1>19 DEF WalkOK

LEMMA WalkCounts ==
    ASSUME Basics, WalkOK, Count
    PROVE  WalkOK' /\ WalkDrift'
<1> PICK M : M = Matching(call.filter)
  OBVIOUS
<1>1. /\ Reads /\ pc = "count" /\ pc' \in {"list", "done"} /\ call' = call
      /\ M \in SUBSET Writers /\ Cardinality(M) \in Nat
      /\ shown' = Seen /\ start' = start /\ page' = {}
      /\ pc' = "list" => offset' = offset + Cardinality(page)
      /\ pc' = "done" => Cardinality(M) <= offset + Cardinality(page)
  BY CountFacts
<1>2. Rows' = Rows /\ gone' = gone /\ born' = born
  BY <1>1, ReadsFacts DEF Reads
<1> PICK W : W = Wanted(call.filter)
  OBVIOUS
<1>3. /\ Lone \in SUBSET W /\ Lone \in SUBSET Writers /\ M = Rows \cap W
      /\ Passed \in SUBSET Writers /\ Due \in SUBSET Writers /\ NextRow \in Nat
      /\ \A w : w \in Passed <=> /\ w \in start \cap Lone /\ w \notin gone
                                 /\ Seen[w] = 0
                                 /\ Cardinality(Newer(w, M)) < NextRow
      /\ W \in SUBSET Writers
  BY WalkSets
<1>4. /\ Cardinality(Passed) <= Cardinality(gone \cap W)
      /\ Cardinality(Repeats(Seen, Lone)) + Cardinality(Due) <= Cardinality(born \cap W)
  BY <1>1 DEF WalkOK
<1>5. Lone' = Lone /\ Wanted(call.filter)' = W
  BY <1>1, SameCall
<1>6. Seen \in [Writers -> Nat]
  BY SeenFacts
<1>7. WalkOK'
  <2> SUFFICES ASSUME pc' = "list"
               PROVE  WalkOK'
    BY <1>1 DEF WalkOK
  <2>1. Seen' = Seen
    BY <1>1, <1>6 DEF Seen
  <2>2. NextRow' = NextRow
    BY <1>1, <1>3, FS_EmptySet DEF NextRow
  <2>3. \A w : Above(w)' = Above(w)
    BY <1>1, <1>2, SameCall DEF Above, Matching
  <2>4. Passed' = Passed /\ Due' = Due
    BY <1>1, <1>2, <1>5, <2>1, <2>2, <2>3 DEF Passed, Due
  <2> QED
    BY <1>2, <1>4, <1>5, <2>1, <2>4 DEF WalkOK
<1>8. WalkDrift'
  <2> SUFFICES ASSUME pc' = "done"
               PROVE  WalkDrift'
    BY DEF WalkDrift
  <2> PICK missed : missed = {w \in (start \cap Lone) \ gone : Seen[w] = 0}
    OBVIOUS
  <2>1. missed \in SUBSET Passed
    <3> SUFFICES ASSUME NEW w \in missed
                 PROVE  w \in Passed
      OBVIOUS
    <3>1. w \in start \cap Lone /\ w \notin gone /\ Seen[w] = 0
      OBVIOUS
    <3>2. start \ gone \subseteq Rows
      BY <1>1 DEF Basics, LogOK, Reading
    <3>3. w \in M
      BY <1>3, <3>1, <3>2
    <3>4. /\ Cardinality(Newer(w, M)) \in Nat
          /\ Cardinality(Newer(w, M)) + 1 <= Cardinality(M)
      BY <1>1, <3>3, NewerFacts
    <3>5. Cardinality(Newer(w, M)) < NextRow
      BY <1>1, <1>3, <3>4 DEF NextRow
    <3> QED
      BY <1>3, <3>1, <3>5
  <2>2. Cardinality(missed) <= Cardinality(Passed)
    BY <1>3, <2>1, Fewer
  <2>3. missed \in SUBSET Writers /\ gone \cap W \in SUBSET Writers /\ born \cap W \in SUBSET Writers
    BY <1>3
  <2>4. /\ Cardinality(missed) \in Nat /\ Cardinality(Passed) \in Nat /\ Cardinality(Due) \in Nat
        /\ Cardinality(gone \cap W) \in Nat /\ Cardinality(born \cap W) \in Nat
    BY <1>3, <2>3, Finite
  <2>5. Cardinality(Repeats(Seen, Lone)) \in Nat
    BY <1>3, <1>6, RepeatsFinite
  <2>6. /\ Cardinality(missed) <= Cardinality(gone \cap W)
        /\ Cardinality(Repeats(Seen, Lone)) <= Cardinality(born \cap W)
    BY <1>4, <2>2, <2>4, <2>5
  <2>7. Lone = {w \in W : Alone(w, W)}
    BY DEF Lone
  <2>8. W = Wanted(call'.filter)
    BY <1>1, SameCall
  <2>9. missed = {w \in (start' \cap Lone) \ gone' : shown'[w] = 0}
    BY <1>1, <1>2
  <2> QED
    BY <1>1, <1>2, <2>6, <2>7, <2>8, <2>9 DEF WalkDrift, Repeats, Alone
<1> QED
  BY <1>7, <1>8

(* At the end nothing of a walk changes any more.                           *)
LEMMA WalkStays ==
    ASSUME WalkDrift, call' = call, pc' = pc, start' = start, shown' = shown,
           pc = "done" => born' = born /\ gone' = gone
    PROVE  WalkDrift'
<1> SUFFICES ASSUME pc = "done"
             PROVE  WalkDrift'
  BY DEF WalkDrift
<1>1. Wanted(call'.filter) = Wanted(call.filter)
  BY SameCall
<1> QED
  BY <1>1 DEF WalkDrift, Repeats, Alone

(* A row that is recorded puts at most one other row back on a page.        *)
LEMMA WalkRecords ==
    ASSUME Basics, WalkOK, NEW x \in Writers, RecordRow(x)
    PROVE  WalkOK'
<1> SUFFICES ASSUME pc' \in {"list", "count"}
             PROVE  WalkOK'
  BY DEF WalkOK
<1>1. /\ written' = written \cup {x}
      /\ pc' = pc /\ call' = call /\ offset' = offset /\ page' = page /\ shown' = shown
      /\ start' = start /\ gone' = gone /\ Reading
      /\ born' = born \cup {x}
  BY DEF RecordRow, reader, Reading
<1>2. /\ Rows' = Rows \cup {x} /\ x \notin Rows /\ x \notin written /\ Basics'
  BY BasicFacts, Recorded, BasicsRecord
<1> PICK W : W = Wanted(call.filter)
  OBVIOUS
<1> PICK M : M = Matching(call.filter)
  OBVIOUS
<1> PICK N : N = Rows' \cap W
  OBVIOUS
<1>3. /\ W \in SUBSET Writers /\ Lone \in SUBSET W /\ Lone \in SUBSET Writers
      /\ M = Rows \cap W /\ M \in SUBSET Writers
      /\ \A w \in Lone : Alone(w, W) /\ Alone(w, M)
      /\ Due \in SUBSET Writers /\ Passed \in SUBSET Writers /\ NextRow \in Nat
      /\ \A w : w \in Passed <=> /\ w \in start \cap Lone /\ w \notin gone
                                 /\ Seen[w] = 0
                                 /\ Cardinality(Newer(w, M)) < NextRow
      /\ \A w : w \in Due <=> /\ w \in Rows \cap Lone
                              /\ Seen[w] > 0
                              /\ Cardinality(Newer(w, M)) >= NextRow
  BY WalkSets
<1>4. /\ Due' \in SUBSET Writers /\ N \in SUBSET Writers
      /\ \A w : w \in Passed' <=> /\ w \in start' \cap Lone /\ w \notin gone'
                                  /\ Seen'[w] = 0
                                  /\ Cardinality(Newer(w, N)) < NextRow'
      /\ \A w : w \in Due' <=> /\ w \in Rows' \cap Lone
                               /\ Seen'[w] > 0
                               /\ Cardinality(Newer(w, N)) >= NextRow'
  BY <1>1, <1>2, WalkSetsNext
<1>5. NextRow' = NextRow /\ Seen' = Seen
  BY <1>1 DEF NextRow, Seen
<1>6. N = M \cup ({x} \cap W) /\ M \in SUBSET N
  BY <1>2, <1>3
<1>7. ASSUME NEW w \in M
      PROVE  /\ Cardinality(Newer(w, M)) \in Nat /\ Cardinality(Newer(w, N)) \in Nat
             /\ Cardinality(Newer(w, M)) <= Cardinality(Newer(w, N))
             /\ Cardinality(Newer(w, N)) <= Cardinality(Newer(w, M)) + 1
             /\ x \notin W => Cardinality(Newer(w, N)) = Cardinality(Newer(w, M))
  <2>1. /\ Newer(w, M) \in SUBSET Newer(w, N) /\ Newer(w, N) \in SUBSET Writers
        /\ Newer(w, N) \in SUBSET (Newer(w, M) \cup {x})
        /\ Newer(w, M) \in SUBSET Writers /\ x \notin Newer(w, M)
    BY <1>2, <1>3, <1>4, <1>6 DEF Newer
  <2>2. Cardinality(Newer(w, M)) <= Cardinality(Newer(w, N))
    BY <2>1, Fewer
  <2>3. Cardinality(Newer(w, M) \cup {x}) = Cardinality(Newer(w, M)) + 1
    BY <2>1, OneMore
  <2>4. Cardinality(Newer(w, N)) <= Cardinality(Newer(w, M) \cup {x})
    <3>1. Newer(w, M) \cup {x} \in SUBSET Writers
      BY <2>1
    <3> QED
      BY <2>1, <3>1, Fewer
  <2>5. x \notin W => N = M
    BY <1>6
  <2> QED
    BY <2>1, <2>2, <2>3, <2>4, <2>5, Finite
<1>8. Passed' \in SUBSET Passed
  <2> SUFFICES ASSUME NEW w \in Passed'
               PROVE  w \in Passed
    OBVIOUS
  <2>1. /\ w \in start \cap Lone /\ w \notin gone /\ Seen[w] = 0
        /\ Cardinality(Newer(w, N)) < NextRow
    BY <1>1, <1>4, <1>5
  <2>2. start \ gone \subseteq Rows
    BY <1>1 DEF Basics, LogOK
  <2>3. w \in M
    BY <1>3, <2>1, <2>2
  <2>4. Cardinality(Newer(w, M)) < NextRow
    <3>1. /\ Cardinality(Newer(w, M)) \in Nat /\ Cardinality(Newer(w, N)) \in Nat
          /\ Cardinality(Newer(w, M)) <= Cardinality(Newer(w, N))
      BY <1>7, <2>3
    <3> QED
      BY <1>3, <2>1, <3>1
  <2> QED
    BY <1>3, <2>1, <2>4
<1>9. ASSUME NEW w \in Due', w \notin Due
      PROVE  /\ w \in M /\ w \in Lone /\ x \in W
             /\ Cardinality(Newer(w, M)) = NextRow - 1
  <2>1. /\ w \in Rows \cup {x} /\ w \in Lone /\ Seen[w] > 0
        /\ Cardinality(Newer(w, N)) >= NextRow
    BY <1>2, <1>4, <1>5
  <2>2. Seen[x] = 0
    BY <1>2, SeenFacts
  <2>3. w \in Rows /\ w \in M
    BY <1>3, <2>1, <2>2
  <2>4. ~(Cardinality(Newer(w, M)) >= NextRow)
    BY <1>3, <1>9, <2>1, <2>3
  <2>5. /\ Cardinality(Newer(w, M)) \in Nat /\ Cardinality(Newer(w, N)) \in Nat
        /\ Cardinality(Newer(w, N)) <= Cardinality(Newer(w, M)) + 1
        /\ x \notin W => Cardinality(Newer(w, N)) = Cardinality(Newer(w, M))
    BY <1>7, <2>3
  <2>6. x \in W
    BY <2>1, <2>4, <2>5
  <2>7. Cardinality(Newer(w, M)) = NextRow - 1
    BY <1>3, <2>1, <2>4, <2>5
  <2> QED
    BY <2>1, <2>3, <2>6, <2>7
<1>10. /\ Cardinality(Due) \in Nat /\ Cardinality(Due') \in Nat
       /\ Cardinality(Due') <= Cardinality(Due) + 1
       /\ x \notin W => Cardinality(Due') <= Cardinality(Due)
  <2> PICK new : new = Due' \ Due
    OBVIOUS
  <2>1. ASSUME NEW v \in new, NEW w \in new, v # w
        PROVE  FALSE
    <3>1. /\ v \in M /\ w \in M /\ v \in Lone
          /\ Cardinality(Newer(v, M)) = Cardinality(Newer(w, M))
      BY <1>9
    <3>2. Alone(v, M)
      BY <1>3, <3>1
    <3> QED
      BY <1>3, <2>1, <3>1, <3>2, NewerDiffer
  <2>2. Cardinality(new) \in Nat /\ Cardinality(new) <= 1
    BY <2>1, AtMostOne
  <2>3. x \notin W => new = {}
    BY <1>9
  <2>4. new \in SUBSET Writers /\ Due' \in SUBSET (Due \cup new) /\ Due \cup new \in SUBSET Writers
    BY <1>3, <1>4
  <2>5. /\ Cardinality(Due \cup new) <= Cardinality(Due) + Cardinality(new)
        /\ Cardinality(Due \cup new) \in Nat
    BY <1>3, <2>4, Together
  <2>6. Cardinality(Due') <= Cardinality(Due \cup new)
    BY <2>4, Fewer
  <2>7. x \notin W => Cardinality(Due') <= Cardinality(Due)
    <3> SUFFICES ASSUME x \notin W
                 PROVE  Cardinality(Due') <= Cardinality(Due)
      OBVIOUS
    <3>1. Due' \in SUBSET Due
      BY <2>3
    <3> QED
      BY <1>3, <3>1, Fewer
  <2>8. Cardinality(Due) \in Nat /\ Cardinality(Due') \in Nat
    BY <1>3, <1>4, Finite
  <2> QED
    BY <2>2, <2>5, <2>6, <2>7, <2>8
<1>11. /\ Cardinality(born \cap W) \in Nat /\ Cardinality(born' \cap W) \in Nat
       /\ x \in W => Cardinality(born' \cap W) = Cardinality(born \cap W) + 1
       /\ x \notin W => Cardinality(born' \cap W) = Cardinality(born \cap W)
  <2>1. born \in SUBSET Writers /\ x \notin born
    BY <1>2, BasicFacts DEF Basics, LogOK
  <2>2. born \cap W \in SUBSET Writers /\ born' \cap W \in SUBSET Writers
    BY <1>3
  <2>3. x \notin W => born' \cap W = born \cap W
    BY <1>1
  <2>4. x \in W => born' \cap W = (born \cap W) \cup {x}
    BY <1>1
  <2>5. Cardinality((born \cap W) \cup {x}) = Cardinality(born \cap W) + 1
    <3>1. x \in Writers \ (born \cap W)
      BY <2>1
    <3> QED
      BY <2>2, <3>1, OneMore
  <2> QED
    BY <2>2, <2>3, <2>4, <2>5, Finite
<1>12. /\ Cardinality(Passed) <= Cardinality(gone \cap W)
       /\ Cardinality(Repeats(Seen, Lone)) + Cardinality(Due) <= Cardinality(born \cap W)
  BY <1>1 DEF WalkOK
<1>13. Cardinality(Repeats(Seen, Lone)) \in Nat
  BY <1>3, SeenFacts, RepeatsFinite
<1>14. Cardinality(Repeats(Seen, Lone)) + Cardinality(Due') <= Cardinality(born' \cap W)
  BY <1>10, <1>11, <1>12, <1>13
<1>15. Cardinality(Passed') <= Cardinality(gone \cap W)
  <2>1. Passed' \in SUBSET Writers /\ gone \cap W \in SUBSET Writers
    BY <1>3, <1>8
  <2>2. Cardinality(Passed') <= Cardinality(Passed)
    BY <1>3, <1>8, Fewer
  <2> QED
    BY <1>3, <1>12, <2>1, <2>2, Finite
<1>16. Lone' = Lone /\ Wanted(call.filter)' = W
  BY <1>1, SameCall
<1> QED
  BY <1>1, <1>5, <1>14, <1>15, <1>16 DEF WalkOK

(* Each row that is purged moves at most one other row to a page before.    *)
LEMMA WalkPurges ==
    ASSUME Basics, WalkOK, NEW cutoff, NEW ids \in SUBSET LogIds, PurgeRows(cutoff, ids)
    PROVE  WalkOK'
<1> SUFFICES ASSUME pc' \in {"list", "count"}
             PROVE  WalkOK'
  BY DEF WalkOK
<1>1. PICK X : /\ X = {ledger[id].by : id \in ids}
               /\ Rows' = Rows \ X /\ X \in SUBSET Rows /\ X \in SUBSET Writers
  <2>1. TypeOK /\ LedgerOK
    BY BasicFacts
  <2> QED
    BY <2>1, Purged, Zenon
<1>2. /\ gone' = gone \cup X /\ born' = born /\ start' = start /\ Reading
      /\ pc' = pc /\ call' = call /\ offset' = offset /\ page' = page /\ shown' = shown
  BY <1>1 DEF PurgeRows, reader, Reading
<1>3. Basics'
  BY BasicsPurge
<1> PICK W : W = Wanted(call.filter)
  OBVIOUS
<1> PICK M : M = Matching(call.filter)
  OBVIOUS
<1> PICK N : N = Rows' \cap W
  OBVIOUS
<1> PICK Y : Y = X \cap W
  OBVIOUS
<1>4. /\ W \in SUBSET Writers /\ Lone \in SUBSET W /\ Lone \in SUBSET Writers
      /\ M = Rows \cap W /\ M \in SUBSET Writers
      /\ \A w \in Lone : Alone(w, W) /\ Alone(w, M)
      /\ Due \in SUBSET Writers /\ Passed \in SUBSET Writers /\ NextRow \in Nat
      /\ \A w : w \in Passed <=> /\ w \in start \cap Lone /\ w \notin gone
                                 /\ Seen[w] = 0
                                 /\ Cardinality(Newer(w, M)) < NextRow
      /\ \A w : w \in Due <=> /\ w \in Rows \cap Lone
                              /\ Seen[w] > 0
                              /\ Cardinality(Newer(w, M)) >= NextRow
  BY WalkSets
<1>5. /\ N \in SUBSET Writers /\ Passed' \in SUBSET Writers
      /\ \A w : w \in Passed' <=> /\ w \in start' \cap Lone /\ w \notin gone'
                                  /\ Seen'[w] = 0
                                  /\ Cardinality(Newer(w, N)) < NextRow'
      /\ \A w : w \in Due' <=> /\ w \in Rows' \cap Lone
                               /\ Seen'[w] > 0
                               /\ Cardinality(Newer(w, N)) >= NextRow'
  BY <1>2, <1>3, WalkSetsNext
<1>6. NextRow' = NextRow /\ Seen' = Seen
  BY <1>2 DEF NextRow, Seen
<1>7. N = M \ Y /\ Y \in SUBSET M /\ Y \in SUBSET Writers /\ Cardinality(Y) \in Nat
  <2>1. N = M \ Y /\ Y \in SUBSET M /\ Y \in SUBSET Writers
    BY <1>1, <1>4
  <2> QED
    BY <2>1, Finite
<1>8. ASSUME NEW w \in N
      PROVE  /\ Cardinality(Newer(w, M)) \in Nat /\ Cardinality(Newer(w, N)) \in Nat
             /\ Cardinality(Newer(w, N)) <= Cardinality(Newer(w, M))
             /\ Cardinality(Newer(w, M)) <= Cardinality(Newer(w, N)) + Cardinality(Y)
  <2>1. /\ Newer(w, N) \in SUBSET Newer(w, M) /\ Newer(w, M) \in SUBSET Writers
        /\ Newer(w, N) \in SUBSET Writers
        /\ Newer(w, M) \in SUBSET (Newer(w, N) \cup Y)
        /\ Newer(w, N) \cup Y \in SUBSET Writers
    BY <1>4, <1>7 DEF Newer
  <2>2. Cardinality(Newer(w, N)) <= Cardinality(Newer(w, M))
    BY <2>1, Fewer
  <2>3. Cardinality(Newer(w, M)) <= Cardinality(Newer(w, N) \cup Y)
    BY <2>1, Fewer
  <2>4. /\ Cardinality(Newer(w, N) \cup Y) <= Cardinality(Newer(w, N)) + Cardinality(Y)
        /\ Cardinality(Newer(w, N) \cup Y) \in Nat
    BY <1>7, <2>1, Together
  <2>5. Cardinality(Newer(w, M)) \in Nat /\ Cardinality(Newer(w, N)) \in Nat
    BY <2>1, Finite
  <2> QED
    BY <1>7, <2>2, <2>3, <2>4, <2>5
<1>9. Due' \in SUBSET Due
  <2> SUFFICES ASSUME NEW w \in Due'
               PROVE  w \in Due
    OBVIOUS
  <2>1. /\ w \in Rows' \cap Lone /\ Seen[w] > 0 /\ Cardinality(Newer(w, N)) >= NextRow
    BY <1>5, <1>6
  <2>2. w \in N /\ w \in Rows \cap Lone
    BY <1>1, <1>4, <2>1
  <2>3. /\ Cardinality(Newer(w, M)) \in Nat /\ Cardinality(Newer(w, N)) \in Nat
        /\ Cardinality(Newer(w, N)) <= Cardinality(Newer(w, M))
    BY <1>8, <2>2
  <2>4. Cardinality(Newer(w, M)) >= NextRow
    BY <1>4, <2>1, <2>3
  <2> QED
    BY <1>4, <2>1, <2>2, <2>4
<1> PICK new : new = Passed' \ Passed
  OBVIOUS
<1>10. ASSUME NEW w \in new
       PROVE  /\ w \in M /\ w \in Lone
              /\ Cardinality(Newer(w, M)) \in NextRow .. (NextRow + Cardinality(Y) - 1)
  <2>1. /\ w \in start \cap Lone /\ w \notin gone /\ w \notin X /\ Seen[w] = 0
        /\ Cardinality(Newer(w, N)) < NextRow
    BY <1>2, <1>5, <1>6
  <2>2. start \ gone \subseteq Rows
    BY <1>2 DEF Basics, LogOK
  <2>3. w \in N /\ w \in M
    BY <1>1, <1>4, <2>1, <2>2
  <2>4. ~(Cardinality(Newer(w, M)) < NextRow)
    BY <1>4, <2>1
  <2>5. /\ Cardinality(Newer(w, M)) \in Nat /\ Cardinality(Newer(w, N)) \in Nat
        /\ Cardinality(Newer(w, M)) <= Cardinality(Newer(w, N)) + Cardinality(Y)
    BY <1>8, <2>3
  <2>6. Cardinality(Newer(w, M)) \in NextRow .. (NextRow + Cardinality(Y) - 1)
    BY <1>4, <1>7, <2>1, <2>4, <2>5
  <2> QED
    BY <2>1, <2>3, <2>6
<1>11. Cardinality(new) \in Nat /\ Cardinality(new) <= Cardinality(Y)
  <2> DEFINE places == NextRow .. (NextRow + Cardinality(Y) - 1)
             place  == [w \in new |-> Cardinality(Newer(w, M))]
  <2>1. place \in [new -> places]
    BY <1>10
  <2>2. ASSUME NEW v \in new, NEW w \in new, place[v] = place[w]
        PROVE  v = w
    <3>1. /\ v \in M /\ w \in M /\ v \in Lone
          /\ Cardinality(Newer(v, M)) = Cardinality(Newer(w, M))
      BY <1>10, <2>2
    <3>2. Alone(v, M)
      BY <1>4, <3>1
    <3> QED
      BY <1>4, <3>1, <3>2, NewerDiffer
  <2>3. place \in Injection(new, places)
    BY <2>1, <2>2, Fun_IsInj
  <2>4. /\ NextRow \in Int /\ NextRow + Cardinality(Y) - 1 \in Int
    BY <1>4, <1>7
  <2>5. /\ IsFiniteSet(places)
        /\ Cardinality(places) = IF NextRow > NextRow + Cardinality(Y) - 1 THEN 0
                                 ELSE (NextRow + Cardinality(Y) - 1) - NextRow + 1
    BY <2>4, FS_Interval
  <2>6. Cardinality(places) = Cardinality(Y)
    BY <1>4, <1>7, <2>5
  <2> HIDE DEF places, place
  <2>7. IsFiniteSet(new) /\ Cardinality(new) <= Cardinality(places)
    BY <2>3, <2>5, FS_Injection
  <2> QED
    BY <2>6, <2>7, FS_CardinalityType
<1>12. /\ Cardinality(Passed) \in Nat /\ Cardinality(Passed') \in Nat
       /\ Cardinality(Passed') <= Cardinality(Passed) + Cardinality(Y)
  <2>1. /\ new \in SUBSET Writers /\ Passed' \in SUBSET (Passed \cup new)
        /\ Passed \cup new \in SUBSET Writers
    BY <1>4, <1>5
  <2>2. /\ Cardinality(Passed \cup new) <= Cardinality(Passed) + Cardinality(new)
        /\ Cardinality(Passed \cup new) \in Nat
    BY <1>4, <2>1, Together
  <2>3. Cardinality(Passed') <= Cardinality(Passed \cup new)
    BY <2>1, Fewer
  <2>4. Cardinality(Passed) \in Nat /\ Cardinality(Passed') \in Nat
    BY <1>4, <1>5, Finite
  <2> QED
    BY <1>7, <1>11, <2>2, <2>3, <2>4
<1>13. /\ Cardinality(gone \cap W) \in Nat
       /\ Cardinality(gone' \cap W) = Cardinality(gone \cap W) + Cardinality(Y)
  <2>1. gone' \cap W = (gone \cap W) \cup Y
    BY <1>2
  <2>2. gone \cap W \in SUBSET Writers
    BY <1>4
  <2>3. (gone \cap W) \cap Y = {}
    BY <1>1 DEF Basics, LogOK
  <2>4. Cardinality((gone \cap W) \cup Y) = Cardinality(gone \cap W) + Cardinality(Y)
    BY <1>7, <2>2, <2>3, Together
  <2> QED
    BY <2>1, <2>2, <2>4, Finite
<1>14. /\ Cardinality(Passed) <= Cardinality(gone \cap W)
       /\ Cardinality(Repeats(Seen, Lone)) + Cardinality(Due) <= Cardinality(born \cap W)
  BY <1>2 DEF WalkOK
<1>15. Cardinality(Passed') <= Cardinality(gone' \cap W)
  BY <1>7, <1>12, <1>13, <1>14
<1>16. Cardinality(Repeats(Seen, Lone)) + Cardinality(Due') <= Cardinality(born \cap W)
  <2>1. Cardinality(Repeats(Seen, Lone)) \in Nat
    BY <1>4, SeenFacts, RepeatsFinite
  <2>2. /\ Cardinality(Due') \in Nat /\ Cardinality(Due) \in Nat
        /\ Cardinality(Due') <= Cardinality(Due)
    BY <1>4, <1>9, Fewer
  <2>3. born \cap W \in SUBSET Writers
    BY <1>4
  <2> QED
    BY <1>14, <2>1, <2>2, <2>3, Finite
<1>17. Lone' = Lone /\ Wanted(call.filter)' = W
  BY <1>2, SameCall
<1> QED
  BY <1>2, <1>6, <1>15, <1>16, <1>17 DEF WalkOK

-----------------------------------------------------------------------------
(* One entry.                                                               *)
DetailInv == DetailOK /\ DetailWhole

LEMMA DetailRead ==
    ASSUME Basics, DetailInv, DetailLog \/ DetailDecision
    PROVE  DetailInv'
<1>1. /\ Reads /\ call' = call /\ call.id \in LogIds /\ gone' = gone
      /\ ledger' = ledger
  BY BasicsDetail DEF Reads
<1>2. CASE DetailLog
  <2>1. /\ pc' \in {"notFound", "decision"}
        /\ pc' = "decision" => entry' = ledger[call.id].by /\ ledger[call.id] # Absent
    BY <1>2 DEF DetailLog
  <2>2. ledger[call.id] # Absent => ledger[call.id].by \in Writers
    BY <1>1, BasicFacts, RowFacts
  <2>3. DetailOK'
    BY <1>1, <2>1, <2>2 DEF DetailOK
  <2> QED
    BY <2>1, <2>3 DEF DetailInv, DetailWhole
<1>3. CASE DetailDecision
  <2>1. /\ pc = "decision" /\ pc' = "done" /\ entry' = entry
        /\ decision' = DecisionOf(call.id)
    BY <1>3 DEF DetailDecision
  <2>2. \/ entry \in gone
        \/ ledger[call.id] # Absent /\ ledger[call.id].by = entry
    BY <2>1 DEF DetailInv, DetailOK
  <2>3. ledger[call.id] # Absent => ledger[call.id] = Entry(ledger[call.id].by)
    BY <1>1, BasicFacts DEF LedgerOK
  <2>4. ledger[call.id] # Absent /\ ledger[call.id].by = entry =>
           decision' = IF Values[entry].decided THEN entry ELSE None
    BY <2>1, <2>3 DEF DecisionOf, Entry
  <2>5. DetailWhole'
    BY <1>1, <2>1, <2>2, <2>4 DEF DetailWhole
  <2> QED
    BY <2>1, <2>5 DEF DetailInv, DetailOK
<1> QED
  BY <1>2, <1>3

(* An entry that is shown stays, or is known as gone.                       *)
LEMMA DetailElse ==
    ASSUME Basics, DetailInv,
           \/ \E w \in Writers : RecordRow(w)
           \/ \E cutoff \in Times, ids \in SUBSET LogIds : PurgeRows(cutoff, ids)
    PROVE  DetailInv'
<1>1. /\ pc' = pc /\ call' = call /\ entry' = entry /\ decision' = decision
      /\ gone \subseteq gone'
  BY DEF RecordRow, PurgeRows, reader
<1>2. pc = "decision" => call.id \in LogIds
  BY CallFacts DEF Basics, CallOK
<1>3. ASSUME pc = "decision", ledger[call.id] # Absent, ledger[call.id].by = entry
      PROVE  \/ entry \in gone'
             \/ ledger'[call.id] # Absent /\ ledger'[call.id].by = entry
  <2>0. TypeOK /\ LedgerOK
    BY BasicFacts
  <2>1. CASE \E w \in Writers : RecordRow(w)
    <3>1. PICK w \in Writers : RecordRow(w)
      BY <2>1
    <3>2. ledger'[call.id] = ledger[call.id]
      BY <1>2, <1>3, <2>0, <3>1, Recorded
    <3> QED
      BY <1>3, <3>2
  <2>2. CASE \E cutoff \in Times, ids \in SUBSET LogIds : PurgeRows(cutoff, ids)
    <3>1. PICK cutoff \in Times, ids \in SUBSET LogIds : PurgeRows(cutoff, ids)
      BY <2>2
    <3>2. PICK X : /\ X = {ledger[id].by : id \in ids}
                   /\ \A id \in LogIds : ledger'[id] = ledger[id] \/ ledger[id].by \in X
      BY <2>0, <3>1, Purged, Zenon
    <3>3. gone' = gone \cup X
      BY <1>3, <3>1, <3>2 DEF PurgeRows, Reading
    <3> QED
      BY <1>2, <1>3, <3>2, <3>3
  <2> QED
    BY <2>1, <2>2
<1>4. DetailOK'
  BY <1>1, <1>3 DEF DetailInv, DetailOK
<1>5. DetailWhole'
  BY <1>1 DEF DetailInv, DetailWhole
<1> QED
  BY <1>4, <1>5 DEF DetailInv

-----------------------------------------------------------------------------
(* The summary.                                                             *)
SummaryInv == SummaryOK /\ SummaryDrift

(* The rows one of its statements can see.                                  *)
Old(b) == {w \in (Rows \ born) \cap InTime : Values[w].backend = b}

LEMMA SummarySets ==
    ASSUME Basics
    PROVE  /\ Rows \cap InTime \in SUBSET Writers
           /\ Rows \cap InTime = {w \in Rows : Since(call.filter, w)}
           /\ (Rows \ born) \cap InTime \in SUBSET Writers
           /\ (Rows \cup gone) \cap InTime \in SUBSET Writers
           /\ born \cap InTime \in SUBSET Writers /\ gone \cap InTime \in SUBSET Writers
           /\ \A b : Old(b) \in SUBSET Writers
  BY BasicFacts DEF InTime, Old

LEMMA SummaryByBackend ==
    ASSUME Basics, BackendStats, call.filter.before = None
    PROVE  SummaryOK'
<1>1. /\ Basics' /\ Reads /\ call' = call /\ call.filter \in Filters
  BY BasicsSummary
<1>2. Rows' = Rows /\ born' = born /\ gone' = gone /\ Rows \in SUBSET Writers
  BY <1>1, BasicFacts, ReadsFacts DEF Reads
<1>3. InTime' = InTime
  BY <1>1, SameCall
<1> PICK rows : rows = Rows \cap InTime
  OBVIOUS
<1>4. rows \in SUBSET Writers /\ rows = {w \in Rows : Since(call.filter, w)}
  BY SummarySets
<1>5. \A w : Until(call.filter, w)
  BY DEF Until
<1>6. {w \in Rows : Since(call.filter, w) /\ Until(call.filter, w)} = rows
  BY <1>4, <1>5
<1> PICK n : n = [b \in Backends |-> Cardinality({w \in rows : Values[w].backend = b})]
  OBVIOUS
<1>7. counts' = [counts EXCEPT !["backends"] = n] /\ pc' = "statuses"
  BY <1>6 DEF BackendStats, Part
<1>8. counts'.backends = n
  BY <1>7 DEF Basics, TypeOK
<1>9. \A b \in Backends : n[b] = Cardinality({w \in rows : Values[w].backend = b})
  OBVIOUS
<1>10. Cardinality(Counted(n)) = Cardinality(rows)
  BY <1>4, <1>9, CountedIs
<1>11. Cardinality((Rows \ born) \cap InTime) <= Cardinality(rows)
  <2>1. (Rows \ born) \cap InTime \in SUBSET rows
    OBVIOUS
  <2> QED
    BY <1>4, <2>1, Fewer
<1>12. Cardinality(rows) <= Cardinality((Rows \cup gone) \cap InTime)
  <2>1. rows \in SUBSET ((Rows \cup gone) \cap InTime)
    OBVIOUS
  <2> QED
    BY <2>1, SummarySets, Fewer
<1>13. \A b \in Backends : Cardinality(Old(b)) <= n[b]
  <2> SUFFICES ASSUME NEW b \in Backends
               PROVE  Cardinality(Old(b)) <= n[b]
    OBVIOUS
  <2> PICK of : of = {w \in rows : Values[w].backend = b}
    OBVIOUS
  <2>1. Old(b) \in SUBSET of /\ of \in SUBSET Writers
    BY <1>4 DEF Old
  <2> QED
    BY <1>9, <2>1, Fewer
<1>14. Counted(counts.backends)' = Counted(n)
  BY <1>8 DEF Counted
<1>15. ((Rows \ born) \cap InTime)' = (Rows \ born) \cap InTime
  BY <1>2, <1>3
<1>16. \A b \in Backends : {w \in ((Rows \ born) \cap InTime)' : Values[w].backend = b} = Old(b)
  BY <1>15 DEF Old
<1>17. Cardinality(rows) \in Nat
  BY <1>4, Finite
<1> QED
  BY <1>2, <1>3, <1>7, <1>8, <1>10, <1>11, <1>12, <1>13, <1>14, <1>15, <1>16, <1>17 DEF SummaryOK

(* The breakdown by status counts what is there, and what was there before  *)
(* but for what is gone.                                                    *)
LEMMA StatusCount ==
    ASSUME Basics, StatusBreakdown
    PROVE  /\ counts'.backends = counts.backends
           /\ counts'.statuses[TRUE] + counts'.statuses[FALSE] = Cardinality(Rows \cap InTime)
<1> PICK rows : rows = Rows \cap InTime
  OBVIOUS
<1>1. rows \in SUBSET Writers /\ rows = {w \in Rows : Since(call.filter, w)}
  BY SummarySets
<1> PICK n : n = Statuses(rows)
  OBVIOUS
<1>2. counts' = [counts EXCEPT !["statuses"] = n]
  BY <1>1 DEF StatusBreakdown, Part
<1>3. counts'.statuses = n /\ counts'.backends = counts.backends
  BY <1>2 DEF Basics, TypeOK
<1> PICK F, T : F = {w \in rows : ~Values[w].failed} /\ T = {w \in rows : Values[w].failed}
  OBVIOUS
<1>4. \A w \in Writers : Values[w].failed \in BOOLEAN
  BY DEF RowValues
<1>5. /\ {w \in rows : Values[w].failed = TRUE} = T
      /\ {w \in rows : Values[w].failed = FALSE} = F
  BY <1>1, <1>4
<1>6. n[TRUE] = Cardinality(T) /\ n[FALSE] = Cardinality(F)
  BY <1>5 DEF Statuses
<1>7. T \in SUBSET Writers /\ F \in SUBSET Writers /\ T \cap F = {} /\ T \cup F = rows
  BY <1>1
<1>8. Cardinality(rows) = Cardinality(T) + Cardinality(F)
  BY <1>7, Together
<1> QED
  BY <1>3, <1>6, <1>8

LEMMA SummaryByStatus ==
    ASSUME Basics, SummaryOK, StatusBreakdown, call.filter.before = None
    PROVE  SummaryOK'
<1>1. Basics' /\ Reads /\ call' = call
  BY BasicsSummary
<1>2. Rows' = Rows /\ born' = born /\ gone' = gone /\ InTime' = InTime
  BY <1>1, ReadsFacts, SameCall DEF Reads
<1>3. pc = "statuses" /\ pc' = "latency"
  BY DEF StatusBreakdown, Part
<1> PICK rows, old, ever : /\ rows = Rows \cap InTime
                           /\ old = (Rows \ born) \cap InTime
                           /\ ever = (Rows \cup gone) \cap InTime
  OBVIOUS
<1> PICK byBackend, byStatus :
       /\ byBackend = Cardinality(Counted(counts.backends))
       /\ byStatus = counts'.statuses[TRUE] + counts'.statuses[FALSE]
  OBVIOUS
<1>4. /\ byBackend \in Nat /\ Cardinality(old) <= byBackend
      /\ \A b \in Backends : Cardinality({w \in old : Values[w].backend = b}) <= counts.backends[b]
      /\ byBackend <= Cardinality(ever)
  BY <1>3 DEF SummaryOK
<1>5. counts'.backends = counts.backends /\ byStatus = Cardinality(rows)
  BY StatusCount
<1>6. /\ rows \in SUBSET Writers /\ old \in SUBSET Writers /\ ever \in SUBSET Writers
      /\ born \cap InTime \in SUBSET Writers /\ gone \cap InTime \in SUBSET Writers
  BY SummarySets
<1>7. /\ Cardinality(rows) \in Nat /\ Cardinality(old) \in Nat /\ Cardinality(ever) \in Nat
      /\ Cardinality(born \cap InTime) \in Nat /\ Cardinality(gone \cap InTime) \in Nat
  BY <1>6, Finite
<1>8. Cardinality(rows) <= Cardinality(old) + Cardinality(born \cap InTime)
  <2>1. /\ rows \in SUBSET (old \cup (born \cap InTime))
        /\ old \cup (born \cap InTime) \in SUBSET Writers
    BY <1>6
  <2>2. Cardinality(rows) <= Cardinality(old \cup (born \cap InTime))
    BY <2>1, Fewer
  <2>3. /\ Cardinality(old \cup (born \cap InTime)) \in Nat
        /\ Cardinality(old \cup (born \cap InTime)) <= Cardinality(old) + Cardinality(born \cap InTime)
    BY <1>6, Together
  <2> QED
    BY <1>7, <2>2, <2>3
<1>9. Cardinality(ever) <= Cardinality(rows) + Cardinality(gone \cap InTime)
  <2>1. ever = rows \cup (gone \cap InTime)
    OBVIOUS
  <2> QED
    BY <1>6, <2>1, Together
<1>10. PICK o, e, r, k, p, q :
          /\ o = Cardinality(old) /\ e = Cardinality(ever) /\ r = Cardinality(rows)
          /\ k = byBackend
          /\ p = Cardinality(born \cap InTime) /\ q = Cardinality(gone \cap InTime)
  OBVIOUS
<1>11. /\ byStatus <= byBackend + Cardinality(born \cap InTime)
       /\ byBackend <= byStatus + Cardinality(gone \cap InTime)
  <2>1. /\ o \in Nat /\ e \in Nat /\ r \in Nat /\ k \in Nat /\ p \in Nat /\ q \in Nat
        /\ o <= k /\ k <= e /\ r <= o + p /\ e <= r + q
    BY <1>4, <1>7, <1>8, <1>9, <1>10
  <2>2. r <= k + p /\ k <= r + q
    BY <2>1
  <2> QED
    BY <1>5, <1>10, <2>2
<1>12. Cardinality(Counted(counts.backends))' = byBackend
  BY <1>5 DEF Counted
<1>13. ((Rows \ born) \cap InTime)' = old
  BY <1>2
<1> QED
  BY <1>2, <1>3, <1>4, <1>5, <1>11, <1>12, <1>13 DEF SummaryOK

LEMMA SummaryByLatency ==
    ASSUME Basics, SummaryOK, LatencyPercentiles
    PROVE  SummaryOK' /\ SummaryDrift'
<1>1. Basics' /\ Reads /\ call' = call /\ call.filter \in Filters
  BY BasicsSummary
<1>2. born' = born /\ gone' = gone /\ InTime' = InTime
  BY <1>1, SameCall DEF Reads
<1>3. pc = "latency" /\ pc' = "done"
  BY DEF LatencyPercentiles, Part
<1>4. SummaryOK'
  BY <1>3 DEF SummaryOK
<1> SUFFICES ASSUME call.filter.before = None
             PROVE  SummaryDrift'
  BY <1>1, <1>4 DEF SummaryDrift
<1> PICK old, recorded : /\ old = (Rows \ born) \cap InTime
                         /\ recorded = born \cap InTime
  OBVIOUS
<1>5. PICK sampled : sampled = {w \in Rows : /\ Values[w].timed /\ Since(call.filter, w)
                                             /\ call.filter.backend \in {None, Values[w].backend}}
  OBVIOUS
<1>6. counts' = [counts EXCEPT !["samples"] = Cardinality(sampled)]
  BY <1>5 DEF LatencyPercentiles, Part
<1>7. /\ counts'.samples = Cardinality(sampled)
      /\ counts'.backends = counts.backends /\ counts'.statuses = counts.statuses
  BY <1>6 DEF Basics, TypeOK
<1>8. PICK byBackend, byStatus :
         /\ byBackend = Cardinality(Counted(counts.backends))
         /\ byStatus = counts.statuses[TRUE] + counts.statuses[FALSE]
  OBVIOUS
<1>9. /\ byBackend \in Nat /\ Cardinality(old) <= byBackend
      /\ \A b \in Backends : Cardinality({w \in old : Values[w].backend = b}) <= counts.backends[b]
      /\ byStatus <= byBackend + Cardinality(recorded)
      /\ byBackend <= byStatus + Cardinality(gone \cap InTime)
  BY <1>3, <1>8 DEF SummaryOK
<1>10. /\ old \in SUBSET Writers /\ recorded \in SUBSET Writers
       /\ Rows \in SUBSET Writers /\ Rows \cap InTime = {w \in Rows : Since(call.filter, w)}
  BY SummarySets, BasicFacts
<1>11. ASSUME NEW part \in SUBSET old, sampled \subseteq part \cup recorded,
              NEW n \in Nat, Cardinality(part) <= n
       PROVE  counts'.samples <= n + Cardinality(recorded)
  <2>1. part \in SUBSET Writers /\ part \cup recorded \in SUBSET Writers
    BY <1>10
  <2>2. /\ Cardinality(sampled) \in Nat
        /\ Cardinality(sampled) <= Cardinality(part \cup recorded)
    BY <1>11, <2>1, Fewer
  <2>3. /\ Cardinality(part \cup recorded) \in Nat
        /\ Cardinality(part \cup recorded) <= Cardinality(part) + Cardinality(recorded)
    BY <1>10, <2>1, Together
  <2>4. Cardinality(part) \in Nat /\ Cardinality(recorded) \in Nat
    BY <1>10, <2>1, Finite
  <2>5. Cardinality(sampled) <= n + Cardinality(recorded)
    BY <1>11, <2>2, <2>3, <2>4
  <2> QED
    BY <1>7, <2>5
<1>12. PICK ofLatency : ofLatency = IF call.filter.backend = None THEN byBackend
                                    ELSE counts.backends[call.filter.backend]
  OBVIOUS
<1>13. counts'.samples <= ofLatency + Cardinality(recorded)
  <2>1. CASE call.filter.backend = None
    <3>1. sampled \subseteq old \cup recorded /\ old \in SUBSET old
      BY <1>5, <1>10
    <3>2. counts'.samples <= byBackend + Cardinality(recorded)
      BY <1>9, <1>11, <3>1
    <3> QED
      BY <1>12, <2>1, <3>2
  <2>2. CASE call.filter.backend # None
    <3>1. PICK b : b = call.filter.backend
      OBVIOUS
    <3>2. b \in Backends /\ b # None
      BY <1>1, <2>2, <3>1 DEF Filters
    <3>3. PICK part : part = {w \in old : Values[w].backend = b}
      OBVIOUS
    <3>4. /\ part \in SUBSET old
          /\ Cardinality(part) <= counts.backends[b] /\ counts.backends[b] \in Nat
      BY <1>9, <3>2, <3>3 DEF Basics, TypeOK
    <3>5. sampled \subseteq part \cup recorded
      BY <1>5, <1>10, <3>1, <3>2, <3>3
    <3>6. counts'.samples <= counts.backends[b] + Cardinality(recorded)
      BY <1>11, <3>4, <3>5
    <3> QED
      BY <1>12, <2>2, <3>1, <3>6
  <2> QED
    BY <2>1, <2>2
<1>14. Counted(counts.backends)' = Counted(counts.backends)
  BY <1>7 DEF Counted
<1>15. InTime = {w \in Writers : Since(call'.filter, w)}
  BY <1>1 DEF InTime
<1> QED
  BY <1>1, <1>2, <1>7, <1>8, <1>9, <1>12, <1>13, <1>14, <1>15 DEF SummaryDrift

(* Recording and purging while the summary is read.                         *)
LEMMA SummaryElse ==
    ASSUME Basics, SummaryInv,
           \/ \E w \in Writers : RecordRow(w)
           \/ \E cutoff \in Times, ids \in SUBSET LogIds : PurgeRows(cutoff, ids)
    PROVE  SummaryInv'
<1>1. /\ pc' = pc /\ call' = call /\ counts' = counts
      /\ ~Reading => born' = born /\ gone' = gone
  BY DEF RecordRow, PurgeRows, reader
<1>2. InTime' = InTime
  BY <1>1, SameCall
<1>3. SummaryDrift'
  <2> SUFFICES ASSUME pc = "done"
               PROVE  SummaryDrift'
    BY <1>1 DEF SummaryDrift
  <2>1. born' = born /\ gone' = gone
    BY <1>1 DEF Reading
  <2>2. /\ InTime = {w \in Writers : Since(call.filter, w)}
        /\ InTime = {w \in Writers : Since(call'.filter, w)}
    BY <1>1 DEF InTime
  <2> QED
    BY <1>1, <2>1, <2>2 DEF SummaryInv, SummaryDrift, Counted
<1>4. SummaryOK'
  <2> SUFFICES ASSUME pc \in {"statuses", "latency"}, call.filter.before = None
               PROVE  SummaryOK'
    BY <1>1 DEF SummaryOK
  <2>0. TypeOK /\ LedgerOK /\ Reading
    BY BasicFacts DEF Reading
  <2>1. /\ (Rows' \ born') \subseteq (Rows \ born)
        /\ (Rows \cup gone) \subseteq (Rows' \cup gone')
        /\ born \subseteq born' /\ gone \subseteq gone'
    <3>1. CASE \E w \in Writers : RecordRow(w)
      <4>1. PICK w \in Writers : RecordRow(w)
        BY <3>1
      <4>2. Rows' = Rows \cup {w}
        BY <2>0, <4>1, Recorded
      <4>3. born' = born \cup {w} /\ gone' = gone
        BY <2>0, <4>1 DEF RecordRow
      <4> QED
        BY <4>2, <4>3
    <3>2. CASE \E cutoff \in Times, ids \in SUBSET LogIds : PurgeRows(cutoff, ids)
      <4>1. PICK cutoff \in Times, ids \in SUBSET LogIds : PurgeRows(cutoff, ids)
        BY <3>2
      <4>2. PICK X : X = {ledger[id].by : id \in ids} /\ Rows' = Rows \ X
        BY <2>0, <4>1, Purged, Zenon
      <4>3. born' = born /\ gone' = gone \cup X
        BY <2>0, <4>1, <4>2 DEF PurgeRows
      <4> QED
        BY <4>2, <4>3
    <3> QED
      BY <3>1, <3>2
  <2>2. /\ Rows' \in SUBSET Writers /\ born' \in SUBSET Writers /\ gone' \in SUBSET Writers
    <3>1. Basics'
      BY BasicsRecord, BasicsPurge
    <3>2. Rows' \in SUBSET written' /\ written' \in SUBSET Writers
          /\ born' \in SUBSET Writers /\ gone' \in SUBSET Writers
      BY <3>1 DEF Basics, TypeOK
    <3> QED
      BY <3>2
  <2>3. PICK old, ever, old1, ever1 :
           /\ old = (Rows \ born) \cap InTime /\ ever = (Rows \cup gone) \cap InTime
           /\ old1 = (Rows' \ born') \cap InTime /\ ever1 = (Rows' \cup gone') \cap InTime
    OBVIOUS
  <2>4. /\ old1 \in SUBSET old /\ old \in SUBSET Writers
        /\ ever \in SUBSET ever1 /\ ever1 \in SUBSET Writers
    BY <2>1, <2>2, <2>3 DEF InTime
  <2>5. /\ Cardinality(old1) \in Nat /\ Cardinality(old) \in Nat
        /\ Cardinality(old1) <= Cardinality(old)
        /\ Cardinality(ever1) \in Nat /\ Cardinality(ever) \in Nat
        /\ Cardinality(ever) <= Cardinality(ever1)
    BY <2>4, Fewer
  <2>6. /\ Cardinality(born \cap InTime) \in Nat /\ Cardinality(born' \cap InTime) \in Nat
        /\ Cardinality(born \cap InTime) <= Cardinality(born' \cap InTime)
        /\ Cardinality(gone \cap InTime) \in Nat /\ Cardinality(gone' \cap InTime) \in Nat
        /\ Cardinality(gone \cap InTime) <= Cardinality(gone' \cap InTime)
    <3>1. /\ born \cap InTime \in SUBSET (born' \cap InTime)
          /\ gone \cap InTime \in SUBSET (gone' \cap InTime)
          /\ born' \cap InTime \in SUBSET Writers /\ gone' \cap InTime \in SUBSET Writers
      BY <2>1, <2>2
    <3> QED
      BY <3>1, Fewer
  <2>7. ASSUME NEW b \in Backends
        PROVE  /\ Cardinality({w \in old1 : Values[w].backend = b}) \in Nat
               /\ Cardinality({w \in old : Values[w].backend = b}) \in Nat
               /\ Cardinality({w \in old1 : Values[w].backend = b})
                     <= Cardinality({w \in old : Values[w].backend = b})
    <3> PICK of, of1 : /\ of = {w \in old : Values[w].backend = b}
                       /\ of1 = {w \in old1 : Values[w].backend = b}
      OBVIOUS
    <3>1. of1 \in SUBSET of /\ of \in SUBSET Writers
      BY <2>4
    <3> QED
      BY <3>1, Fewer
  <2>8. PICK byBackend, byStatus :
           /\ byBackend = Cardinality(Counted(counts.backends))
           /\ byStatus = counts.statuses[TRUE] + counts.statuses[FALSE]
    OBVIOUS
  <2>9. byStatus \in Nat /\ \A b \in Backends : counts.backends[b] \in Nat
    <3>1. counts.statuses \in [BOOLEAN -> Nat] /\ counts.backends \in [Backends -> Nat]
      BY <2>0 DEF TypeOK
    <3>2. counts.statuses[TRUE] \in Nat /\ counts.statuses[FALSE] \in Nat
      BY <3>1
    <3>3. PICK m, n : m = counts.statuses[TRUE] /\ n = counts.statuses[FALSE]
      OBVIOUS
    <3>4. m + n \in Nat
      <4>1. m \in Nat /\ n \in Nat
        BY <3>2, <3>3
      <4> QED
        BY <4>1
    <3>5. byStatus = m + n
      BY <2>8, <3>3
    <3>6. \A b \in Backends : counts.backends[b] \in Nat
      BY <3>1
    <3> QED
      BY <3>4, <3>5, <3>6, Zenon
  <2>10. /\ byBackend \in Nat /\ Cardinality(old) <= byBackend
         /\ \A b \in Backends :
               Cardinality({w \in old : Values[w].backend = b}) <= counts.backends[b]
         /\ pc = "statuses" => byBackend <= Cardinality(ever)
         /\ pc = "latency" =>
               /\ byStatus <= byBackend + Cardinality(born \cap InTime)
               /\ byBackend <= byStatus + Cardinality(gone \cap InTime)
    BY <2>3, <2>8 DEF SummaryInv, SummaryOK
  <2>11. Cardinality(old1) <= byBackend
    BY <2>5, <2>10
  <2>12. ASSUME NEW b \in Backends
         PROVE  Cardinality({w \in old1 : Values[w].backend = b}) <= counts.backends[b]
    <3>1. PICK m, n, k : /\ m = Cardinality({w \in old1 : Values[w].backend = b})
                         /\ n = Cardinality({w \in old : Values[w].backend = b})
                         /\ k = counts.backends[b]
      OBVIOUS
    <3>2. m \in Nat /\ n \in Nat /\ m <= n
      BY <2>7, <3>1
    <3>3. n <= k /\ k \in Nat
      BY <2>9, <2>10, <3>1
    <3>4. m <= k
      BY <3>2, <3>3
    <3> QED
      BY <3>1, <3>4
  <2>13. pc = "statuses" => byBackend <= Cardinality(ever1)
    BY <2>5, <2>10
  <2>14. pc = "latency" =>
            /\ byStatus <= byBackend + Cardinality(born' \cap InTime)
            /\ byBackend <= byStatus + Cardinality(gone' \cap InTime)
    BY <2>6, <2>9, <2>10
  <2>15. Counted(counts.backends)' = Counted(counts.backends)
    BY <1>1 DEF Counted
  <2>16. /\ ((Rows \ born) \cap InTime)' = old1
         /\ ((Rows \cup gone) \cap InTime)' = ever1
    BY <1>2, <2>3
  <2> QED
    BY <1>1, <1>2, <2>8, <2>10, <2>11, <2>12, <2>13, <2>14, <2>15, <2>16 DEF SummaryOK
<1> QED
  BY <1>3, <1>4 DEF SummaryInv

-----------------------------------------------------------------------------
LEMMA InitOK ==
    ASSUME Init
    PROVE  IInv
<1>1. Basics /\ pc = "idle"
  BY BasicsInit DEF Init
<1> QED
  BY <1>1 DEF IInv, Basics, WalkOK, DetailOK, SummaryOK, WalkDrift, DetailWhole, SummaryDrift

LEMMA IInvParts ==
    IInv <=> Basics /\ WalkOK /\ WalkDrift /\ DetailInv /\ SummaryInv
  BY DEF IInv, Basics, DetailInv, SummaryInv

LEMMA IInvStutter ==
    ASSUME IInv, UNCHANGED vars
    PROVE  IInv'
<1>1. /\ ledger' = ledger /\ written' = written /\ pc' = pc /\ call' = call
      /\ offset' = offset /\ page' = page /\ shown' = shown /\ entry' = entry
      /\ decision' = decision /\ counts' = counts
      /\ start' = start /\ born' = born /\ gone' = gone
  BY DEF vars, reader
<1>2. Rows' = Rows /\ Reading' = Reading /\ Seen' = Seen /\ NextRow' = NextRow
  BY <1>1 DEF Rows, Reading, Seen, NextRow
<1>3. /\ Lone' = Lone /\ InTime' = InTime /\ Wanted(call.filter)' = Wanted(call.filter)
  BY <1>1, SameCall
<1>4. \A w : Above(w)' = Above(w)
  BY <1>1, <1>2, <1>3 DEF Above, Matching
<1>5. Passed' = Passed /\ Due' = Due
  BY <1>1, <1>2, <1>3, <1>4 DEF Passed, Due
<1>6. TypeOK' /\ LogOK' /\ CallOK' /\ DetailOK' /\ DetailWhole'
  BY <1>1, <1>2 DEF IInv, TypeOK, LogOK, CallOK, DetailOK, DetailWhole, Entry
<1>7. WalkOK'
  BY <1>1, <1>2, <1>3, <1>5 DEF IInv, WalkOK
<1>8. WalkDrift'
  BY <1>1, WalkStays DEF IInv
<1>9. Counted(counts.backends)' = Counted(counts.backends)
  BY <1>1 DEF Counted
<1>10. SummaryOK'
  BY <1>1, <1>2, <1>3, <1>9 DEF IInv, SummaryOK
<1>11. SummaryDrift'
  BY <1>1, <1>9 DEF IInv, SummaryDrift, Since
<1> QED
  BY <1>6, <1>7, <1>8, <1>10, <1>11 DEF IInv

(* The invariant, action by action.                                         *)
LEMMA StepOK ==
    ASSUME IInv, Next
    PROVE  IInv'
<1>0. Basics /\ WalkOK /\ WalkDrift /\ DetailInv /\ SummaryInv
  BY IInvParts
<1> SUFFICES Basics' /\ WalkOK' /\ WalkDrift' /\ DetailInv' /\ SummaryInv'
  BY DEF IInv, Basics, DetailInv, SummaryInv
<1>1. ASSUME NEW w \in Writers, RecordRow(w)
      PROVE  Basics' /\ WalkOK' /\ WalkDrift' /\ DetailInv' /\ SummaryInv'
  <2>1. /\ pc' = pc /\ call' = call /\ start' = start /\ shown' = shown
        /\ pc = "done" => born' = born /\ gone' = gone
    BY <1>1 DEF RecordRow, reader, Reading
  <2>2. WalkDrift'
    BY <1>0, <2>1, WalkStays
  <2>3. Basics' /\ WalkOK'
    BY <1>0, <1>1, BasicsRecord, WalkRecords
  <2> QED
    BY <1>0, <1>1, <2>2, <2>3, DetailElse, SummaryElse
<1>2. ASSUME NEW cutoff \in Times, NEW ids \in SUBSET LogIds, PurgeRows(cutoff, ids)
      PROVE  Basics' /\ WalkOK' /\ WalkDrift' /\ DetailInv' /\ SummaryInv'
  <2>1. /\ pc' = pc /\ call' = call /\ start' = start /\ shown' = shown
        /\ pc = "done" => born' = born /\ gone' = gone
    BY <1>2 DEF PurgeRows, reader, Reading
  <2>2. WalkDrift'
    BY <1>0, <2>1, WalkStays
  <2>3. Basics' /\ WalkOK'
    BY <1>0, <1>2, BasicsPurge, WalkPurges
  <2> QED
    BY <1>0, <1>2, <2>2, <2>3, DetailElse, SummaryElse
<1>3. ASSUME NEW c \in Calls, Begin(c)
      PROVE  Basics' /\ WalkOK' /\ WalkDrift' /\ DetailInv' /\ SummaryInv'
  <2>1. pc' \in {"list", "log", "backends"}
    BY <1>3 DEF Begin
  <2>2. Basics' /\ WalkOK'
    BY <1>0, <1>3, BasicsBegin, WalkBegins
  <2> QED
    BY <2>1, <2>2 DEF WalkDrift, DetailInv, DetailOK, DetailWhole,
                      SummaryInv, SummaryOK, SummaryDrift
<1>4. CASE List
  <2>1. pc' = "count"
    BY <1>4 DEF List
  <2>2. Basics' /\ WalkOK'
    BY <1>0, <1>4, BasicsList, WalkLists
  <2> QED
    BY <2>1, <2>2 DEF WalkDrift, DetailInv, DetailOK, DetailWhole,
                      SummaryInv, SummaryOK, SummaryDrift
<1>5. CASE Count
  <2>1. pc' \in {"list", "done"} /\ call'.op = "walk"
    BY <1>0, <1>5, CountFacts
  <2>2. Basics' /\ WalkOK' /\ WalkDrift'
    BY <1>0, <1>5, BasicsCount, WalkCounts
  <2> QED
    BY <2>1, <2>2 DEF DetailInv, DetailOK, DetailWhole, SummaryInv, SummaryOK, SummaryDrift
<1>6. CASE DetailLog \/ DetailDecision
  <2>1. Basics' /\ call'.op = "detail"
    BY <1>0, <1>6, BasicsDetail
  <2>2. pc' \in {"notFound", "decision", "done"}
    BY <1>6 DEF DetailLog, DetailDecision
  <2>3. DetailInv'
    BY <1>0, <1>6, DetailRead
  <2> QED
    BY <2>1, <2>2, <2>3 DEF WalkOK, WalkDrift, SummaryInv, SummaryOK, SummaryDrift
<1>7. CASE BackendStats \/ StatusBreakdown \/ LatencyPercentiles
  <2>1. Basics' /\ call' = call /\ call'.op = "summary"
    BY <1>0, <1>7, BasicsSummary
  <2>2. pc' \in {"statuses", "latency", "done"}
    BY <1>7 DEF BackendStats, StatusBreakdown, LatencyPercentiles, Part
  <2>3. SummaryOK'
    <3> SUFFICES ASSUME pc' \in {"statuses", "latency"}, call.filter.before = None
                 PROVE  SummaryOK'
      BY <2>1, <2>2 DEF SummaryOK
    <3>1. BackendStats \/ StatusBreakdown
      BY <1>7 DEF LatencyPercentiles, Part
    <3> QED
      BY <1>0, <3>1, SummaryByBackend, SummaryByStatus DEF SummaryInv
  <2>4. SummaryDrift'
    <3> SUFFICES ASSUME pc' = "done"
                 PROVE  SummaryDrift'
      BY DEF SummaryDrift
    <3>1. LatencyPercentiles
      BY <1>7 DEF BackendStats, StatusBreakdown, Part
    <3> QED
      BY <1>0, <3>1, SummaryByLatency DEF SummaryInv
  <2> QED
    BY <2>1, <2>2, <2>3, <2>4 DEF WalkOK, WalkDrift, DetailInv, DetailOK, DetailWhole, SummaryInv
<1>8. CASE Done
  BY <1>8, IInvStutter DEF Done, IInv, Basics, DetailInv, SummaryInv
<1> QED
  BY <1>1, <1>2, <1>3, <1>4, <1>5, <1>6, <1>7, <1>8 DEF Next, Step

LEMMA Invariance == Spec => []IInv
<1>1. Init => IInv
  BY InitOK
<1>2. IInv /\ [Next]_vars => IInv'
  BY StepOK, IInvStutter
<1> QED
  BY <1>1, <1>2, PTL DEF Spec

-----------------------------------------------------------------------------
(* The state of the log and of a read has its types; in particular a page   *)
(* never has more rows than MaxPageSize, whatever limit was asked for       *)
(* (PageParams.build).                                                      *)
THEOREM TypeCorrect == Spec => []TypeOK
<1>1. IInv => TypeOK
  BY DEF IInv
<1> QED
  BY <1>1, Invariance, PTL

(* The detail of an entry shows the decision of that entry, unless it was   *)
(* purged meanwhile, though two statements read them                        *)
(* (RequestLogRepository.get).                                              *)
THEOREM DetailsMatch == Spec => []DetailWhole
<1>1. IInv => DetailWhole
  BY DEF IInv
<1> QED
  BY <1>1, Invariance, PTL

(* A walk through the pages misses no more of the rows that stayed than     *)
(* were purged, and repeats no more than were recorded                      *)
(* (RequestLogRepository.list, PageParams.build).                           *)
THEOREM WalksDriftNoFurther == Spec => []WalkDrift
<1>1. IInv => WalkDrift
  BY DEF IInv
<1> QED
  BY <1>1, Invariance, PTL

(* The parts of a summary differ by no more than what the log changed       *)
(* between the statements (RequestLogService.summary).                      *)
THEOREM SummariesDriftNoFurther == Spec => []SummaryDrift
<1>1. IInv => SummaryDrift
  BY DEF IInv
<1> QED
  BY <1>1, Invariance, PTL
=============================================================================
