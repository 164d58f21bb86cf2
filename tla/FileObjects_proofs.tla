------------------------- MODULE FileObjects_proofs -------------------------
(* Proofs about FileObjects for any number of files, removers, sizes and     *)
(* faults: the quota is respected, a usable file has its bytes, and no bytes *)
(* are forgotten.                                                            *)
(*                                                                           *)
(* The argument: as long as a request works on a file its row is PROCESSING  *)
(* and not late, so no cleanup may take it; a removal first marks the row,   *)
(* and nothing leads back from there.  So a file HEAD accepted keeps bytes,  *)
(* its own unless its client PUTs again, and what is counted for a file, up  *)
(* to what was reserved if the client did, falls with every step but the     *)
(* reservation itself, which looks.                                          *)
EXTENDS FileObjects, FiniteSetTheorems, TLAPS

-----------------------------------------------------------------------------
(* Sums over a finite set.  The library's induction theorems take an operator *)
(* as a parameter, so induction is done with sets: among the subsets of a     *)
(* finite set that refute a claim one is the smallest.                        *)

Least(T, B) == T \in B /\ \A U \in B : U \subseteq T => U = T

(* Among some subsets of a finite set one contains no other.                 *)
LEMMA SmallestSubset ==
  ASSUME NEW S, IsFiniteSet(S), NEW B, B \subseteq SUBSET S, B # {}
  PROVE  \E T : Least(T, B)
  <1>1. IsWellFoundedOn(StrictSubsetOrdering(S), SUBSET S)
    BY FS_StrictSubsetOrderingWellFounded, FS_FiniteSubsetsOfFinite
  <1>2. PICK T \in B : \A U \in B : ~ (<<U, T>> \in StrictSubsetOrdering(S))
    <2> HIDE DEF StrictSubsetOrdering
    <2> QED BY <1>1, WFMin
  <1> QED
    BY <1>2 DEF StrictSubsetOrdering, Least

(* A set with 0 and all successors holds every number.                       *)
LEMMA NatInduct ==
  ASSUME NEW G, 0 \in G, \A n \in Nat : n \in G => n + 1 \in G
  PROVE  Nat \subseteq G
  <1> SUFFICES ASSUME NEW k \in Nat, k \notin G PROVE FALSE
    OBVIOUS
  <1> DEFINE B == {1..n : n \in (0..k) \ G}
  <1>1. IsFiniteSet(1..k)
    BY FS_Interval
  <1>6. 1..k \in B
    OBVIOUS
  <1>7. B \subseteq SUBSET (1..k)
    OBVIOUS
  <1>2. PICK T : Least(T, B)
    <2>1. B # {}
      BY <1>6
    <2> HIDE DEF B
    <2> DEFINE S == 1..k
    <2>2. IsFiniteSet(S) /\ B \subseteq SUBSET S
      BY <1>1, <1>7
    <2> HIDE DEF S
    <2> QED BY <2>1, <2>2, SmallestSubset
  <1>3. PICK n \in (0..k) \ G : T = 1..n
    BY <1>2 DEF Least
  <1>4. n # 0 /\ n - 1 \in (0..k) \ G
    OBVIOUS
  <1>5. 1..(n-1) \in B /\ 1..(n-1) \subseteq T /\ n \in T /\ n \notin 1..(n-1)
    BY <1>3, <1>4
  <1> QED
    BY <1>2, <1>5 DEF Least

(* The function that SumFunction is defined by: the sums of f over the parts *)
(* of a set, an element at a time.                                           *)
Pick(s) == CHOOSE x \in s : TRUE
Next1(f, g, s) == IF s = {} THEN 0 ELSE f[Pick(s)] + g[s \ {Pick(s)}]
IsSums(g, f, D) == g = [s \in SUBSET D |-> Next1(f, g, s)]
Sums(f, D) == CHOOSE g : IsSums(g, f, D)

(* The element that is taken out first is one of the set.                    *)
LEMMA PickIn == ASSUME NEW s, s # {} PROVE Pick(s) \in s
  BY DEF Pick

(* The library's SumFunction is that function at the whole domain.           *)
LEMMA SumIsSums == ASSUME NEW f PROVE SumFunction(f) = Sums(f, DOMAIN f)[DOMAIN f]
  BY DEF SumFunction, SumFunctionOnSet, FoldFunctionOnSet, MapThenFoldSet, Sums, IsSums, Next1, Pick

(* There is such a function: by induction on the size of the parts.          *)
LEMMA SumsExist ==
  ASSUME NEW D, IsFiniteSet(D), NEW f \in [D -> Nat]
  PROVE  \E g : IsSums(g, f, D)
  <1> DEFINE Upto(n) == {s \in SUBSET D : Cardinality(s) <= n}
             Right(g, n) == \A s \in Upto(n) : g[s] = Next1(f, g, s)
             G == {n \in Nat : \E g \in [SUBSET D -> Nat] : Right(g, n)}
  <1>1. \A s \in SUBSET D : IsFiniteSet(s) /\ Cardinality(s) \in Nat
    BY FS_Subset, FS_CardinalityType
  <1>2. \A s \in SUBSET D : s # {} =>
          /\ Pick(s) \in D /\ s \ {Pick(s)} \in SUBSET D
          /\ Cardinality(s \ {Pick(s)}) = Cardinality(s) - 1
    BY <1>1, PickIn, FS_RemoveElement
  <1>3. 0 \in G
    <2> DEFINE g == [s \in SUBSET D |-> 0]
    <2>1. Right(g, 0)
      BY <1>1, FS_EmptySet DEF Next1
    <2> QED
      BY <2>1
  <1>4. ASSUME NEW n \in Nat, n \in G
        PROVE  n + 1 \in G
    <2>1. PICK g \in [SUBSET D -> Nat] : Right(g, n)
      BY <1>4
    <2> DEFINE h == [s \in SUBSET D |-> IF s \in Upto(n) THEN g[s] ELSE Next1(f, g, s)]
    <2>2. ASSUME NEW s \in SUBSET D
          PROVE  Next1(f, g, s) \in Nat
      <3>1. s # {} => f[Pick(s)] \in Nat /\ g[s \ {Pick(s)}] \in Nat
        BY <1>2
      <3> QED
        BY <3>1 DEF Next1
    <2>3. h \in [SUBSET D -> Nat]
      BY <2>2
    <2>4. ASSUME NEW s \in Upto(n + 1)
          PROVE  h[s] = Next1(f, h, s)
      <3>1. h[s] = Next1(f, g, s)
        BY <2>1
      <3>2. s # {} => s \ {Pick(s)} \in Upto(n)
        BY <1>1, <1>2
      <3>3. s # {} => h[s \ {Pick(s)}] = g[s \ {Pick(s)}]
        BY <3>2
      <3> QED
        BY <3>1, <3>3 DEF Next1
    <2>5. Right(h, n + 1)
      BY <2>4
    <2>6. \E gg \in [SUBSET D -> Nat] : Right(gg, n + 1)
      <3> HIDE DEF Right, h
      <3> QED BY <2>3, <2>5
    <2> QED
      BY <2>6
  <1>5. Cardinality(D) \in G
    <2> HIDE DEF G
    <2> QED
      BY <1>1, <1>3, <1>4, NatInduct
  <1>6. PICK g \in [SUBSET D -> Nat] : Right(g, Cardinality(D))
    BY <1>5
  <1>7. \A s \in SUBSET D : s \in Upto(Cardinality(D))
    BY FS_Subset
  <1>8. \A s \in SUBSET D : g[s] = Next1(f, g, s)
    BY <1>6, <1>7
  <1>9. IsSums(g, f, D)
    BY <1>8 DEF IsSums
  <1> QED
    BY <1>9

(* So it satisfies its recursive definition,                                 *)
LEMMA SumsDef ==
  ASSUME NEW D, IsFiniteSet(D), NEW f \in [D -> Nat], NEW s \in SUBSET D
  PROVE  Sums(f, D)[s] = Next1(f, Sums(f, D), s)
  <1>1. IsSums(Sums(f, D), f, D)
    BY SumsExist DEF Sums
  <1> HIDE DEF Sums
  <1> QED
    BY <1>1 DEF IsSums

(* What passes from the parts that lack one element to a set holds of all.   *)
LEMMA SubsetInduct ==
  ASSUME NEW S, IsFiniteSet(S), NEW G,
         \A T \in SUBSET S : (\A x \in T : T \ {x} \in G) => T \in G
  PROVE  SUBSET S \subseteq G
  <1> SUFFICES ASSUME (SUBSET S) \ G # {} PROVE FALSE
    OBVIOUS
  <1> DEFINE B == (SUBSET S) \ G
  <1>1. B \subseteq SUBSET S /\ B # {}
    OBVIOUS
  <1>2. PICK T : Least(T, B)
    <2> HIDE DEF B
    <2> QED BY <1>1, SmallestSubset
  <1>3. T \in B /\ \A x \in T : T \ {x} \in G
    BY <1>2 DEF Least
  <1> QED
    BY <1>3

(* ... its values are numbers,                                               *)
LEMMA SumsType ==
  ASSUME NEW D, IsFiniteSet(D), NEW f \in [D -> Nat], NEW s \in SUBSET D
  PROVE  Sums(f, D)[s] \in Nat
  <1> DEFINE G == {t \in SUBSET D : Sums(f, D)[t] \in Nat}
  <1>1. ASSUME NEW T \in SUBSET D, \A x \in T : T \ {x} \in G
        PROVE  T \in G
    <2>1. CASE T = {}
      <3>1. Sums(f, D)[T] = Next1(f, Sums(f, D), T)
        BY SumsDef
      <3> QED
        BY <2>1, <3>1 DEF Next1
    <2>2. CASE T # {}
      <3>1. Pick(T) \in T /\ Pick(T) \in D /\ T \ {Pick(T)} \in G
        BY <1>1, <2>2, PickIn
      <3>2. Sums(f, D)[T] = f[Pick(T)] + Sums(f, D)[T \ {Pick(T)}]
        BY <2>2, SumsDef DEF Next1
      <3> QED
        BY <3>1, <3>2
    <2> QED
      BY <2>1, <2>2
  <1>2. SUBSET D \subseteq G
    <2> HIDE DEF G
    <2> QED BY <1>1, SubsetInduct
  <1> QED
    BY <1>2

(* ... any element may be taken out first,                                   *)
LEMMA SumsRemove ==
  ASSUME NEW D, IsFiniteSet(D), NEW f \in [D -> Nat], NEW s \in SUBSET D, NEW x \in s
  PROVE  Sums(f, D)[s] = f[x] + Sums(f, D)[s \ {x}]
  <1> DEFINE sum(t) == Sums(f, D)[t]
             G == {t \in SUBSET D : \A y \in t : sum(t) = f[y] + sum(t \ {y})}
  <1>0. \A t \in SUBSET D : t # {} => Pick(t) \in t /\ sum(t) = f[Pick(t)] + sum(t \ {Pick(t)})
    BY SumsDef, PickIn DEF Next1
  <1>1. ASSUME NEW T \in SUBSET D, \A y \in T : T \ {y} \in G
        PROVE  T \in G
    <2> SUFFICES ASSUME NEW y \in T PROVE sum(T) = f[y] + sum(T \ {y})
      OBVIOUS
    <2> DEFINE p == Pick(T)
    <2>1. p \in T /\ sum(T) = f[p] + sum(T \ {p})
      BY <1>0
    <2>2. CASE y = p
      BY <2>1, <2>2
    <2>3. CASE y # p
      <3>1. sum(T \ {p}) = f[y] + sum((T \ {p}) \ {y})
        BY <1>1, <2>1, <2>3
      <3>2. sum(T \ {y}) = f[p] + sum((T \ {y}) \ {p})
        BY <1>1, <2>1, <2>3
      <3>3. (T \ {p}) \ {y} = (T \ {y}) \ {p}
        OBVIOUS
      <3>4. sum((T \ {y}) \ {p}) \in Nat /\ f[y] \in Nat /\ f[p] \in Nat
        BY <2>1, SumsType
      <3>5. \A a, b, c \in Nat : a + (b + c) = b + (a + c)
        OBVIOUS
      <3> HIDE DEF sum, p
      <3>6. sum(T) = f[p] + (f[y] + sum((T \ {y}) \ {p}))
        BY <2>1, <3>1, <3>3
      <3> QED
        BY <3>2, <3>4, <3>5, <3>6
    <2> QED
      BY <2>2, <2>3
  <1>2. SUBSET D \subseteq G
    <2> HIDE DEF G
    <2> QED BY <1>1, SubsetInduct
  <1> QED
    BY <1>2

(* ... and only the values of f on the part matter.                          *)
LEMMA SumsAgree ==
  ASSUME NEW D, IsFiniteSet(D), NEW f \in [D -> Nat], NEW g \in [D -> Nat],
         NEW s \in SUBSET D, \A x \in s : f[x] = g[x]
  PROVE  Sums(f, D)[s] = Sums(g, D)[s]
  <1> DEFINE G == {t \in SUBSET D : t \subseteq s => Sums(f, D)[t] = Sums(g, D)[t]}
  <1>1. ASSUME NEW T \in SUBSET D, \A y \in T : T \ {y} \in G
        PROVE  T \in G
    <2>1. CASE T = {}
      BY <2>1, SumsDef DEF Next1
    <2>2. CASE T # {} /\ T \subseteq s
      <3>1. Pick(T) \in T /\ T \ {Pick(T)} \in G /\ T \ {Pick(T)} \subseteq s
        BY <1>1, <2>2, PickIn
      <3> QED
        BY <2>2, <3>1, SumsDef DEF Next1
    <2> QED
      BY <2>1, <2>2
  <1>2. SUBSET D \subseteq G
    <2> HIDE DEF G
    <2> QED BY <1>1, SubsetInduct
  <1> QED
    BY <1>2

(* A sum changes by what one of its terms changes by.                        *)
LEMMA SumChange ==
  ASSUME NEW D, IsFiniteSet(D), NEW f \in [D -> Nat], NEW g \in [D -> Nat], NEW x \in D,
         \A y \in D \ {x} : f[y] = g[y]
  PROVE  /\ SumFunction(f) \in Nat
         /\ SumFunction(g) \in Nat
         /\ SumFunction(g) + f[x] = SumFunction(f) + g[x]
  <1>1. DOMAIN f = D /\ DOMAIN g = D
    OBVIOUS
  <1>2. SumFunction(f) = Sums(f, D)[D] /\ SumFunction(g) = Sums(g, D)[D]
    BY <1>1, SumIsSums
  <1>3. Sums(f, D)[D] = f[x] + Sums(f, D)[D \ {x}]
    BY SumsRemove
  <1>4. Sums(g, D)[D] = g[x] + Sums(g, D)[D \ {x}]
    BY SumsRemove
  <1>5. Sums(f, D)[D \ {x}] = Sums(g, D)[D \ {x}]
    BY SumsAgree
  <1>6. Sums(f, D)[D \ {x}] \in Nat /\ f[x] \in Nat /\ g[x] \in Nat
    BY SumsType
  <1>7. \A a, b, c \in Nat : (a + b) + c = (c + b) + a
    OBVIOUS
  <1> QED
    BY <1>2, <1>3, <1>4, <1>5, <1>6, <1>7

(* A sum of numbers is one.                                                  *)
LEMMA SumTyped ==
  ASSUME NEW D, IsFiniteSet(D), NEW f \in [D -> Nat]
  PROVE  SumFunction(f) \in Nat
  <1>1. DOMAIN f = D
    OBVIOUS
  <1> QED
    BY <1>1, SumIsSums, SumsType

(* A sum of zeros is zero.                                                   *)
LEMMA SumZero ==
  ASSUME NEW D, IsFiniteSet(D), NEW f \in [D -> Nat], \A x \in D : f[x] = 0
  PROVE  SumFunction(f) = 0
  <1> DEFINE G == {t \in SUBSET D : Sums(f, D)[t] = 0}
  <1>1. ASSUME NEW T \in SUBSET D, \A x \in T : T \ {x} \in G
        PROVE  T \in G
    <2>1. CASE T = {}
      <3>1. Sums(f, D)[T] = Next1(f, Sums(f, D), T)
        BY SumsDef
      <3> QED
        BY <2>1, <3>1 DEF Next1
    <2>2. CASE T # {}
      <3>1. Pick(T) \in T /\ Pick(T) \in D /\ T \ {Pick(T)} \in G
        BY <1>1, <2>2, PickIn
      <3>2. Sums(f, D)[T] = f[Pick(T)] + Sums(f, D)[T \ {Pick(T)}]
        BY <2>2, SumsDef DEF Next1
      <3> QED
        BY <3>1, <3>2
    <2> QED
      BY <2>1, <2>2
  <1>2. SUBSET D \subseteq G
    <2> HIDE DEF G
    <2> QED BY <1>1, SubsetInduct
  <1>3. DOMAIN f = D
    OBVIOUS
  <1> QED
    BY <1>2, <1>3, SumIsSums

(* A sum of smaller terms is smaller.                                        *)
LEMMA SumAtMost ==
  ASSUME NEW D, IsFiniteSet(D), NEW f \in [D -> Nat], NEW g \in [D -> Nat],
         \A x \in D : f[x] <= g[x]
  PROVE  SumFunction(f) <= SumFunction(g)
  <1> DEFINE G == {t \in SUBSET D : Sums(f, D)[t] <= Sums(g, D)[t]}
  <1>1. ASSUME NEW T \in SUBSET D, \A x \in T : T \ {x} \in G
        PROVE  T \in G
    <2>1. CASE T = {}
      <3>1. Sums(f, D)[T] = Next1(f, Sums(f, D), T) /\ Sums(g, D)[T] = Next1(g, Sums(g, D), T)
        BY SumsDef
      <3> QED
        BY <2>1, <3>1 DEF Next1
    <2>2. CASE T # {}
      <3>1. /\ Pick(T) \in D /\ T \ {Pick(T)} \in G /\ T \ {Pick(T)} \in SUBSET D
        BY <1>1, <2>2, PickIn
      <3>2. /\ Sums(f, D)[T] = f[Pick(T)] + Sums(f, D)[T \ {Pick(T)}]
            /\ Sums(g, D)[T] = g[Pick(T)] + Sums(g, D)[T \ {Pick(T)}]
        BY <2>2, SumsDef DEF Next1
      <3>3. /\ Sums(f, D)[T \ {Pick(T)}] \in Nat /\ Sums(g, D)[T \ {Pick(T)}] \in Nat
            /\ f[Pick(T)] \in Nat /\ g[Pick(T)] \in Nat /\ f[Pick(T)] <= g[Pick(T)]
        BY <3>1, SumsType
      <3>4. \A a, b, c, d \in Nat : a <= b /\ c <= d => a + c <= b + d
        OBVIOUS
      <3>5. Sums(f, D)[T \ {Pick(T)}] <= Sums(g, D)[T \ {Pick(T)}]
        BY <3>1
      <3> QED
        BY <3>2, <3>3, <3>4, <3>5
    <2> QED
      BY <2>1, <2>2
  <1>2. SUBSET D \subseteq G
    <2> HIDE DEF G
    <2> QED BY <1>1, SubsetInduct
  <1>3. DOMAIN f = D /\ DOMAIN g = D
    OBVIOUS
  <1> QED
    BY <1>2, <1>3, SumIsSums

-----------------------------------------------------------------------------
(* The strengthening. A request works on a file only while its row still     *)
(* reserves the room for it and nobody may reclaim it; nothing is reached    *)
(* through a link, or linked, that is not usable or on its way out.          *)
WorkHolds(o) ==
  /\ work[o].step = "signing" => row[o].status = "PENDING_UPLOAD" /\ ~row[o].late
  /\ work[o].step \in {"storing", "checking", "reading", "recording", "undoing",
                       "failing"}
       => row[o].status = "PROCESSING" /\ ~row[o].late
  /\ work[o].step = "linking" \/ link[o] # "none"
       => row[o].status \in Usable \cup Leaving

(* A remover never has in hand a file that somebody is still working on.     *)
Markable(r) == Reclaimable(r) \/ r.status \in Usable \cup Leaving
RemovalHolds(m) ==
  /\ removal[m].step = "marking" => Markable(row[removal[m].object])
  /\ removal[m].step \in {"deleting", "recording", "detaching"}
       => row[removal[m].object].status \in Leaving

Inv == /\ TypeOK
       /\ \A o \in Objects : WorkHolds(o)
       /\ \A m \in Removers : RemovalHolds(m)

(* From HEAD on a file has bytes; until its client PUTs again they are those *)
(* that HEAD looked at, that are recorded, and that were reserved.           *)
FileBytes(o) ==
  /\ work[o].step = "storing" => work[o].size \in 1..row[o].limit
  /\ Checked(o) => bytes[o] # 0
  /\ "check" \notin putAfter[o] =>
       /\ work[o].step = "reading" => bytes[o] <= row[o].limit
       /\ work[o].step = "recording"
            => bytes[o] = work[o].size /\ work[o].size <= row[o].limit
       /\ row[o].status \in Usable
            => bytes[o] = row[o].size /\ row[o].size <= row[o].limit

ByteInv == Inv /\ \A o \in Objects : FileBytes(o)

(* The bytes are gone before the row says so.                                *)
Gone(o) == bytes[o] = 0 \/ "deletion" \in putAfter[o]
FileGone(o) ==
  /\ row[o].status \in {"none", "DELETED"} => Gone(o)
  /\ row[o].status = "none" => upload[o] = "none"
RemovalGone(m) ==
  removal[m].step \in {"recording", "detaching"} => Gone(removal[m].object)

GoneInv == /\ Inv
           /\ \A o \in Objects : FileGone(o)
           /\ \A m \in Removers : RemovalGone(m)

-----------------------------------------------------------------------------
(* Type correctness, with one step for each action.                          *)
LEMMA InitTyped == Init => TypeOK
  BY SizesAssumption DEF Init, TypeOK, Rows, Works, Removals, NoRow, NoWork,
     NoRemoval, Status, Sizes, Idle

(* What the actions write is a row, or the state of a request.               *)
LEMMA RowStatus ==
  ASSUME NEW r \in Rows, NEW st \in Status
  PROVE  [r EXCEPT !.status = st] \in Rows
  BY DEF Rows

LEMMA RowLate ==
  ASSUME NEW r \in Rows
  PROVE  [r EXCEPT !.late = TRUE] \in Rows
  BY DEF Rows

LEMMA RowEnds ==
  ASSUME NEW r \in Rows, NEW st \in Status
  PROVE  [r EXCEPT !.status = st, !.late = FALSE] \in Rows
  BY DEF Rows

LEMMA RowUsable ==
  ASSUME NEW r \in Rows, NEW st \in Status, NEW n \in Sizes
  PROVE  [r EXCEPT !.status = st, !.size = n, !.late = FALSE] \in Rows
  BY DEF Rows

LEMMA RowReserved ==
  ASSUME NEW st \in Status, NEW n \in Sizes
  PROVE  [NoRow EXCEPT !.status = st, !.limit = n] \in Rows
  <1>1. 0 \in Sizes
    BY SizesAssumption DEF Sizes
  <1> QED
    BY <1>1 DEF Rows, NoRow

Steps == {"idle", "signing", "storing", "checking", "reading", "recording",
          "undoing", "failing", "linking"}
LEMMA WorkStep ==
  ASSUME NEW w \in Works, NEW st \in Steps
  PROVE  [w EXCEPT !.step = st] \in Works
  BY DEF Works, Steps

LEMMA WorkSized ==
  ASSUME NEW w \in Works, NEW st \in Steps, NEW n \in Sizes
  PROVE  [w EXCEPT !.step = st, !.size = n] \in Works
  BY DEF Works, Steps

LEMMA NoWorkTyped ==
  /\ NoWork \in Works
  /\ \A st \in Steps : [NoWork EXCEPT !.step = st] \in Works
  /\ \A n \in Sizes : [step |-> "storing", size |-> n, staged |-> TRUE] \in Works
  <1>1. 0 \in Sizes
    BY SizesAssumption DEF Sizes
  <1> QED
    BY <1>1 DEF Works, Steps, NoWork

(* The steps of the requests and of the clock keep the types.                *)
LEMMA TypedObject ==
  ASSUME TypeOK, NEW o \in Objects,
         \/ \E n \in 1..MaxSize : CreateIntent(o, n) \/ Stage(o, n) \/ Put(o, n)
         \/ UrlExpires(o) \/ Claim(o) \/ FinalizeExpired(o) \/ FinalizeAgain(o)
         \/ Work(o) \/ Abandon(o) \/ TimePasses(o)
  PROVE  TypeOK'
  <1>r. row \in [Objects -> Rows] /\ row[o] \in Rows
    BY DEF TypeOK
  <1>w. /\ work \in [Objects -> Works] /\ work[o] \in Works
        /\ work[o].size \in Sizes /\ bytes[o] \in Sizes /\ 0 \in Sizes
    BY SizesAssumption DEF TypeOK, Works, Sizes
  <1>n. 1..MaxSize \subseteq Sizes
    BY SizesAssumption DEF Sizes
  <1>s. \A st \in Reserving \cup Usable \cup {"FAILED", "EXPIRED"} : st \in Status
    BY DEF Status
  <1> DEFINE RowTyped == row' \in [Objects -> Rows]
             WorkTyped == work' \in [Objects -> Works]
  <1>t. ASSUME RowTyped, WorkTyped, UNCHANGED removal, faults' \in 0..MaxFaults,
               upload' \in [Objects -> {"none", "issued", "over"}],
               puts' \in 0..MaxPuts,
               putAfter' \in [Objects -> SUBSET {"check", "deletion"}],
               bytes' \in [Objects -> Sizes],
               link' \in [Objects -> {"none", "READY", "DELETED"}]
        PROVE  TypeOK'
    BY <1>t DEF TypeOK, Idle
  <1>u. /\ faults \in 0..MaxFaults /\ bytes \in [Objects -> Sizes]
        /\ upload \in [Objects -> {"none", "issued", "over"}]
        /\ link \in [Objects -> {"none", "READY", "DELETED"}]
        /\ puts \in 0..MaxPuts
        /\ putAfter \in [Objects -> SUBSET {"check", "deletion"}]
    BY DEF TypeOK
  <1> HIDE DEF RowTyped, WorkTyped
  <1> USE DEF RowTyped, WorkTyped, Reserving, Usable
  <1>1. ASSUME NEW n \in 1..MaxSize, CreateIntent(o, n) PROVE TypeOK'
    <2>1. RowTyped
      BY <1>1, <1>r, <1>n, <1>s, RowStatus, RowLate, RowEnds, RowUsable, RowReserved DEF CreateIntent, Reserve
    <2>2. WorkTyped
      BY <1>1, <1>w, WorkStep, WorkSized, NoWorkTyped DEF CreateIntent, Steps
    <2> QED
      BY <1>1, <1>t, <1>u, <2>1, <2>2 DEF CreateIntent
  <1>2. ASSUME NEW n \in 1..MaxSize, Stage(o, n) PROVE TypeOK'
    <2>1. RowTyped
      BY <1>2, <1>r, <1>n, <1>s, RowStatus, RowLate, RowEnds, RowUsable, RowReserved DEF Stage, Reserve
    <2>2. WorkTyped
      BY <1>2, <1>w, <1>n, WorkStep, WorkSized, NoWorkTyped DEF Stage, Steps
    <2> QED
      BY <1>2, <1>t, <1>u, <2>1, <2>2 DEF Stage
  <1>3. ASSUME NEW n \in 1..MaxSize, Put(o, n) PROVE TypeOK'
    <2>1. /\ putAfter' \in [Objects -> SUBSET {"check", "deletion"}]
          /\ puts' \in 0..MaxPuts /\ bytes' \in [Objects -> Sizes]
      BY <1>3, <1>u, <1>n, SizesAssumption DEF Put
    <2> QED
      BY <1>3, <1>t, <1>u, <1>r, <1>w, <2>1 DEF Put
  <1>10. CASE UrlExpires(o)
    BY <1>10, <1>t, <1>u, <1>r, <1>w DEF UrlExpires
  <1>4. CASE Claim(o)
    <2>1. RowTyped
      BY <1>4, <1>r, <1>s, RowStatus, RowLate, RowEnds, RowUsable, RowReserved DEF Claim
    <2>2. WorkTyped
      BY <1>4, <1>w, WorkStep, WorkSized, NoWorkTyped DEF Claim, Steps
    <2> QED
      BY <1>4, <1>t, <1>u, <2>1, <2>2 DEF Claim
  <1>5. CASE FinalizeExpired(o)
    <2>1. RowTyped
      BY <1>5, <1>r, <1>s, RowStatus, RowLate, RowEnds, RowUsable, RowReserved DEF FinalizeExpired
    <2> QED
      BY <1>5, <1>t, <1>u, <1>w, <2>1 DEF FinalizeExpired
  <1>6. CASE FinalizeAgain(o)
    <2>1. WorkTyped
      BY <1>6, <1>w, WorkStep, WorkSized, NoWorkTyped DEF FinalizeAgain, Steps
    <2> QED
      BY <1>6, <1>t, <1>u, <1>r, <2>1 DEF FinalizeAgain
  <1>7. CASE Work(o)
    <2>1. CASE SignUrl(o)
      <3>0. [row EXCEPT ![o].status = "FAILED", ![o].late = FALSE] \in [Objects -> Rows]
        BY <1>r, <1>s, RowEnds
      <3>1. RowTyped
        BY <2>1, <3>0, <1>r DEF SignUrl
      <3>2. WorkTyped
        BY <2>1, <1>w, WorkStep, WorkSized, NoWorkTyped DEF SignUrl
      <3> QED
        BY <2>1, <1>t, <1>u, <3>1, <3>2 DEF SignUrl
    <2>2. CASE Head(o)
      <3>2. /\ [work EXCEPT ![o].step = "reading"] \in [Objects -> Works]
            /\ [work EXCEPT ![o].step = "failing"] \in [Objects -> Works]
        BY <1>w, WorkStep DEF Steps
      <3>1. WorkTyped
        BY <2>2, <3>2 DEF Head
      <3> QED
        BY <2>2, <1>t, <1>u, <1>r, <3>1 DEF Head
    <2>9. CASE Get(o)
      <3>2. /\ [work EXCEPT ![o].step = "recording", ![o].size = bytes[o]] \in [Objects -> Works]
            /\ [work EXCEPT ![o].step = "failing"] \in [Objects -> Works]
        BY <1>w, WorkStep, WorkSized DEF Steps
      <3>1. WorkTyped
        BY <2>9, <3>2 DEF Get
      <3> QED
        BY <2>9, <1>t, <1>u, <1>r, <3>1 DEF Get
    <2>3. CASE RecordUsable(o)
      <3>1. RowTyped
        BY <2>3, <1>r, <1>w, <1>s, RowStatus, RowLate, RowEnds, RowUsable, RowReserved DEF
           RecordUsable, FinalStatus
      <3>2. WorkTyped
        BY <2>3, <1>w, WorkStep, WorkSized, NoWorkTyped DEF RecordUsable, Steps
      <3> QED
        BY <2>3, <1>t, <1>u, <3>1, <3>2 DEF RecordUsable
    <2>4. CASE RecordRefused(o)
      <3>1. WorkTyped
        BY <2>4, <1>w, WorkStep, WorkSized, NoWorkTyped DEF RecordRefused, Steps
      <3> QED
        BY <2>4, <1>t, <1>u, <1>r, <3>1 DEF RecordRefused
    <2>5. CASE RecordFailed(o)
      <3>1. RowTyped
        BY <2>5, <1>r, <1>s, RowStatus, RowLate, RowEnds, RowUsable, RowReserved DEF RecordFailed
      <3>2. WorkTyped
        BY <2>5, <1>w, WorkStep, WorkSized, NoWorkTyped DEF RecordFailed
      <3> QED
        BY <2>5, <1>t, <1>u, <3>1, <3>2 DEF RecordFailed
    <2>6. CASE Link(o)
      <3>1. WorkTyped
        BY <2>6, <1>w, WorkStep, WorkSized, NoWorkTyped DEF Link
      <3> QED
        BY <2>6, <1>t, <1>u, <1>r, <3>1 DEF Link
    <2>7. CASE Store(o)
      <3>1. WorkTyped
        BY <2>7, <1>w, WorkStep, WorkSized, NoWorkTyped DEF Store, Steps
      <3>2. bytes' \in [Objects -> Sizes]
        BY <2>7, <1>w, <1>u DEF Store
      <3> QED
        BY <2>7, <1>t, <1>u, <1>r, <3>1, <3>2 DEF Store
    <2>8. CASE Undo(o)
      <3>1. WorkTyped
        BY <2>8, <1>w, WorkStep, WorkSized, NoWorkTyped DEF Undo, Steps
      <3>2. bytes' \in [Objects -> Sizes]
        BY <2>8, <1>w, <1>u DEF Undo
      <3> QED
        BY <2>8, <1>t, <1>u, <1>r, <3>1, <3>2 DEF Undo
    <2> QED
      BY <1>7, <2>1, <2>2, <2>3, <2>4, <2>5, <2>6, <2>7, <2>8, <2>9 DEF Work
  <1>8. CASE Abandon(o)
    <2>1. WorkTyped
      BY <1>8, <1>w, WorkStep, WorkSized, NoWorkTyped DEF Abandon
    <2> QED
      BY <1>8, <1>t, <1>u, <1>r, <2>1, SizesAssumption DEF Abandon, Fault
  <1>9. CASE TimePasses(o)
    <2>1. RowTyped
      BY <1>9, <1>r, RowStatus, RowLate, RowEnds, RowUsable, RowReserved DEF TimePasses
    <2> QED
      BY <1>9, <1>t, <1>u, <1>w, <2>1 DEF TimePasses
  <1> QED
    BY <1>1, <1>2, <1>3, <1>4, <1>5, <1>6, <1>7, <1>8, <1>9, <1>10

(* So do those of the removers.                                              *)
LEMMA TypedRemover ==
  ASSUME TypeOK, NEW m \in Removers,
         \/ Remove(m) \/ DeleteBytesFails(m) \/ RemoverDies(m)
         \/ \E o \in Objects : \/ DeleteAttachment(m, o) \/ DeleteSource(m, o)
                               \/ Cleanup(m, o)
  PROVE  TypeOK'
  <1> USE SizesAssumption DEF TypeOK, Rows, Removals, NoRemoval, Status, Sizes, Idle, Done
  <1>1. CASE MarkDeleting(m)
    <2> DEFINE o == removal[m].object
    <2>0. o \in Objects /\ row[o] \in Rows
      BY <1>1 DEF MarkDeleting
    <2>4. [row EXCEPT ![o].status = "DELETING", ![o].late = FALSE] \in [Objects -> Rows]
      <3>1. "DELETING" \in Status /\ row \in [Objects -> Rows]
        OBVIOUS
      <3> HIDE DEF TypeOK, Rows, Status, o
      <3> QED
        BY <2>0, <3>1, RowEnds
    <2>5. /\ Done(m) \in [Removers -> Removals]
          /\ [removal EXCEPT ![m].step = "deleting"] \in [Removers -> Removals]
      OBVIOUS
    <2>1. row' \in [Objects -> Rows]
      BY <1>1, <2>4 DEF MarkDeleting
    <2>2. removal' \in [Removers -> Removals]
      BY <1>1, <2>5 DEF MarkDeleting
    <2>3. \A k \in Removers : removal'[k].step # "idle" => removal'[k].object \in Objects
      <3>1. /\ removal \in [Removers -> Removals]
            /\ \A k \in Removers : ~Idle(k) => removal[k].object \in Objects
            /\ removal' \in {Done(m), [removal EXCEPT ![m].step = "deleting"]}
        BY <1>1 DEF MarkDeleting
      <3> HIDE DEF TypeOK, Rows, Status
      <3> QED
        BY <2>0, <3>1
    <2> QED
      BY <1>1, <2>1, <2>2, <2>3 DEF MarkDeleting
  <1>2. CASE DeleteBytes(m)
    BY <1>2 DEF DeleteBytes
  <1>3. CASE RecordDeleted(m)
    BY <1>3 DEF RecordDeleted
  <1>4. CASE Detach(m)
    BY <1>4 DEF Detach
  <1>5. CASE DeleteBytesFails(m)
    BY <1>5 DEF DeleteBytesFails, Fault
  <1>6. CASE RemoverDies(m)
    BY <1>6 DEF RemoverDies, Fault
  <1>7. ASSUME NEW o \in Objects, DeleteAttachment(m, o) PROVE TypeOK'
    BY <1>7 DEF DeleteAttachment
  <1>8. ASSUME NEW o \in Objects, DeleteSource(m, o) PROVE TypeOK'
    BY <1>8 DEF DeleteSource
  <1>9. ASSUME NEW o \in Objects, Cleanup(m, o) PROVE TypeOK'
    BY <1>9 DEF Cleanup
  <1> QED
    BY <1>1, <1>2, <1>3, <1>4, <1>5, <1>6, <1>7, <1>8, <1>9 DEF Remove

(* Every step keeps the types.                                               *)
LEMMA TypedStep == TypeOK /\ [Next]_vars => TypeOK'
  <1>1. ASSUME TypeOK, UNCHANGED vars PROVE TypeOK'
    BY <1>1 DEF vars, TypeOK, Idle
  <1>2. ASSUME TypeOK, Next PROVE TypeOK'
    BY <1>2, TypedObject, TypedRemover DEF Next
  <1> QED
    BY <1>1, <1>2

(* Every reachable state is well typed, whoever outlives his time.           *)
THEOREM TypeCorrect == Spec => []TypeOK
  BY InitTyped, TypedStep, PTL DEF Spec

-----------------------------------------------------------------------------
(* At first nothing is stored or under way.                                  *)
LEMMA InitInv == Init => Inv
  <1>1. Init => (\A o \in Objects : WorkHolds(o)) /\ \A m \in Removers : RemovalHolds(m)
    BY DEF Init, WorkHolds, RemovalHolds, NoWork, NoRemoval
  <1> QED
    BY <1>1, InitTyped DEF Inv

(* A step about one file keeps the strengthening if it does so for that file *)
(* and takes nothing out of a remover's hands.                               *)
LEMMA OneFile ==
  ASSUME Inv, TypeOK', NEW o \in Objects, UNCHANGED removal,
         \A p \in Objects \ {o} :
           row'[p] = row[p] /\ work'[p] = work[p] /\ link'[p] = link[p],
         Markable(row[o]) => Markable(row'[o]),
         row[o].status \in Leaving => row'[o].status \in Leaving,
         WorkHolds(o)'
  PROVE  Inv'
  <1>1. ASSUME NEW p \in Objects PROVE WorkHolds(p)'
    <2>1. CASE p = o
      BY <2>1
    <2>2. CASE p # o
      BY <2>2 DEF Inv, WorkHolds
    <2> QED
      BY <2>1, <2>2
  <1>2. ASSUME NEW m \in Removers PROVE RemovalHolds(m)'
    <2>1. removal[m].step # "idle" => removal[m].object \in Objects
      BY DEF Inv, TypeOK, Idle
    <2>2. \A p \in Objects : /\ Markable(row[p]) => Markable(row'[p])
                             /\ row[p].status \in Leaving => row'[p].status \in Leaving
      OBVIOUS
    <2> HIDE DEF Markable
    <2> QED
      BY <2>1, <2>2 DEF Inv, RemovalHolds
  <1> QED
    BY <1>1, <1>2 DEF Inv

(* A reservation makes a row of its own.                                     *)
LEMMA Reserved ==
  ASSUME Inv, NEW o \in Objects, NEW n \in Sizes, NEW st \in Reserving,
         Reserve(o, n, st)
  PROVE  /\ row[o].status = "none"
         /\ row'[o].status = st /\ row'[o].limit = n /\ ~row'[o].late
         /\ \A p \in Objects \ {o} : row'[p] = row[p]
  BY DEF Reserve, NoRow, Inv, TypeOK

(* The steps of requests and of the clock keep the strengthening.            *)
LEMMA ObjectKeeps ==
  ASSUME Inv, TypeOK', ~MayOverrun, NEW o \in Objects,
         \/ \E n \in 1..MaxSize : CreateIntent(o, n) \/ Stage(o, n) \/ Put(o, n)
         \/ UrlExpires(o) \/ Claim(o) \/ FinalizeExpired(o) \/ FinalizeAgain(o)
         \/ Work(o) \/ Abandon(o) \/ TimePasses(o)
  PROVE  Inv'
  <1>r. /\ row \in [Objects -> Rows] /\ row[o] \in Rows /\ row' \in [Objects -> Rows]
        /\ row'[o] \in Rows /\ WorkHolds(o)
    BY DEF Inv, TypeOK
  <1>w. work \in [Objects -> Works] /\ work[o] \in Works /\ link \in [Objects -> {"none", "READY", "DELETED"}]
    BY DEF Inv, TypeOK
  <1>f. /\ row[o].limit \in Nat /\ row[o].size \in Nat /\ work[o].size \in Nat
        /\ \A r \in Rows : r = [status |-> r.status, size |-> r.size, limit |-> r.limit,
                                late |-> r.late] /\ r.late \in BOOLEAN
    BY <1>r, <1>w, SizesAssumption DEF Rows, Works, Sizes
  <1>n. 1..MaxSize \subseteq Sizes
    BY SizesAssumption DEF Sizes
  <1> DEFINE Local == /\ \A p \in Objects \ {o} : row'[p] = row[p] /\ work'[p] = work[p]
                                                  /\ link'[p] = link[p]
                      /\ UNCHANGED removal
             Onward == /\ Markable(row[o]) => Markable(row'[o])
                       /\ row[o].status \in Leaving => row'[o].status \in Leaving
  <1>o. ASSUME Local, Onward, WorkHolds(o)' PROVE Inv'
    BY <1>o, OneFile
  <1>1. ASSUME NEW n \in 1..MaxSize, CreateIntent(o, n) PROVE Inv'
    <2>1. Reserve(o, n, "PENDING_UPLOAD") /\ n \in Sizes
      BY <1>1, <1>n DEF CreateIntent
    <2>2. /\ row'[o].status = "PENDING_UPLOAD" /\ row'[o].limit = n /\ ~row'[o].late
          /\ \A p \in Objects \ {o} : row'[p] = row[p]
      BY <2>1, Reserved DEF Reserving
    <2>3. row[o].status = "none"
      BY <2>1 DEF Reserve
    <2>4. WorkHolds(o)' /\ Local
      BY <1>1, <2>2, <2>3, <1>r, <1>w DEF CreateIntent, WorkHolds, Usable, Leaving
    <2>5. Onward
      BY <2>3 DEF Markable, Reclaimable, Usable, Leaving, Reserving
    <2> HIDE DEF Onward, WorkHolds
    <2> QED
      BY <2>2, <2>4, <2>5, OneFile DEF Onward
  <1>2. ASSUME NEW n \in 1..MaxSize, Stage(o, n) PROVE Inv'
    <2>1. Reserve(o, n, "PROCESSING") /\ n \in Sizes
      BY <1>2, <1>n DEF Stage
    <2>2. /\ row'[o].status = "PROCESSING" /\ row'[o].limit = n /\ ~row'[o].late
          /\ \A p \in Objects \ {o} : row'[p] = row[p]
      BY <2>1, Reserved DEF Reserving
    <2>3. row[o].status = "none"
      BY <2>1 DEF Reserve
    <2>4. WorkHolds(o)' /\ Local
      BY <1>2, <2>1, <2>2, <2>3, <1>r, <1>w DEF Stage, WorkHolds, Usable, Leaving
    <2>5. Onward
      BY <2>3 DEF Markable, Reclaimable, Usable, Leaving, Reserving
    <2> HIDE DEF Onward, WorkHolds
    <2> QED
      BY <2>2, <2>4, <2>5, OneFile DEF Onward
  <1> HIDE DEF Onward
  <1>3. ASSUME NEW n \in 1..MaxSize, Put(o, n) PROVE Inv'
    <2>1. Local /\ WorkHolds(o)'
      BY <1>3, <1>r, <1>w, <1>f DEF Put, WorkHolds, Usable, Leaving
    <2>2. Onward
      BY <1>3, <1>r, <1>w, <1>f DEF Put, WorkHolds, Onward, Markable, Reclaimable,
         Reserving, Usable, Leaving
    <2> QED
      BY <2>1, <2>2, <1>o
  <1>10. CASE UrlExpires(o)
    <2>1. Local /\ WorkHolds(o)' /\ Onward
      BY <1>10, <1>r, <1>w, <1>f DEF UrlExpires, WorkHolds, Onward
    <2> QED
      BY <2>1, <1>o
  <1>4. CASE Claim(o)
    <2>1. Local /\ WorkHolds(o)'
      BY <1>4, <1>r, <1>w, <1>f DEF Claim, InTime, WorkHolds, Usable, Leaving
    <2>2. Onward
      BY <1>4, <1>r, <1>w, <1>f DEF Claim, InTime, WorkHolds, Onward, Markable, Reclaimable,
         Reserving, Usable, Leaving
    <2> QED
      BY <2>1, <2>2, <1>o
  <1>5. CASE FinalizeExpired(o)
    <2>1. Local /\ WorkHolds(o)'
      BY <1>5, <1>r, <1>w, <1>f DEF FinalizeExpired, WorkHolds, Usable, Leaving
    <2>2. Onward
      BY <1>5, <1>r, <1>w, <1>f DEF FinalizeExpired, WorkHolds, Onward, Markable, Reclaimable,
         Reserving, Usable, Leaving
    <2> QED
      BY <2>1, <2>2, <1>o
  <1>6. CASE FinalizeAgain(o)
    <2>1. Local /\ WorkHolds(o)'
      BY <1>6, <1>r, <1>w, <1>f DEF FinalizeAgain, WorkHolds, Usable, Leaving
    <2>2. Onward
      BY <1>6, <1>r, <1>w, <1>f DEF FinalizeAgain, WorkHolds, Onward, Markable, Reclaimable,
         Reserving, Usable, Leaving
    <2> QED
      BY <2>1, <2>2, <1>o
  <1>7. CASE Work(o)
    <2>1. CASE SignUrl(o)
      <3>1. Local /\ WorkHolds(o)'
        BY <2>1, <1>r, <1>w, <1>f DEF SignUrl, NoWork, WorkHolds, Usable, Leaving
      <3>2. Onward
        BY <2>1, <1>r, <1>w, <1>f DEF SignUrl, NoWork, WorkHolds, Onward, Markable,
           Reclaimable,
           Reserving, Usable, Leaving
      <3> QED
        BY <3>1, <3>2, <1>o
    <2>2. CASE Head(o)
      <3>1. Local /\ WorkHolds(o)'
        <4>1. Local /\ row' = row /\ link' = link /\ work[o].step = "checking"
          BY <2>2, <1>w DEF Head
        <4>2. work'[o].step \in {"reading", "failing"}
          BY <2>2, <1>w DEF Head, Works
        <4> QED
          BY <4>1, <4>2, <1>r DEF WorkHolds, Usable, Leaving
      <3>2. Onward
        BY <2>2, <1>r, <1>w, <1>f DEF Head, WorkHolds, Onward, Markable, Reclaimable,
           Reserving, Usable, Leaving
      <3> QED
        BY <3>1, <3>2, <1>o
    <2>9. CASE Get(o)
      <3>1. Local /\ WorkHolds(o)'
        <4>1. Local /\ row' = row /\ link' = link /\ work[o].step = "reading"
          BY <2>9, <1>w DEF Get, Works
        <4>2. work'[o].step \in {"recording", "failing"}
          BY <2>9, <1>w DEF Get, Works
        <4> QED
          BY <4>1, <4>2, <1>r DEF WorkHolds, Usable, Leaving
      <3>2. Onward
        BY <2>9, <1>r, <1>w, <1>f DEF Get, WorkHolds, Onward, Markable, Reclaimable,
           Reserving, Usable, Leaving
      <3> QED
        BY <3>1, <3>2, <1>o
    <2>3. CASE RecordUsable(o)
      <3>1. Local /\ WorkHolds(o)'
        BY <2>3, <1>r, <1>w, <1>f DEF RecordUsable, FinalStatus, WorkHolds, Usable, Leaving
      <3>2. Onward
        BY <2>3, <1>r, <1>w, <1>f DEF RecordUsable, FinalStatus, WorkHolds, Onward,
           Markable, Reclaimable,
           Reserving, Usable, Leaving
      <3> QED
        BY <3>1, <3>2, <1>o
    <2>4. CASE RecordRefused(o)
      <3>1. Local /\ WorkHolds(o)'
        BY <2>4, <1>r, <1>w, <1>f DEF RecordRefused, WorkHolds, Usable, Leaving
      <3>2. Onward
        BY <2>4, <1>r, <1>w, <1>f DEF RecordRefused, WorkHolds, Onward, Markable, Reclaimable,
           Reserving, Usable, Leaving
      <3> QED
        BY <3>1, <3>2, <1>o
    <2>5. CASE RecordFailed(o)
      <3>1. Local /\ WorkHolds(o)'
        BY <2>5, <1>r, <1>w, <1>f DEF RecordFailed, NoWork, WorkHolds, Usable, Leaving
      <3>2. Onward
        BY <2>5, <1>r, <1>w, <1>f DEF RecordFailed, NoWork, WorkHolds, Onward,
           Markable, Reclaimable,
           Reserving, Usable, Leaving
      <3> QED
        BY <3>1, <3>2, <1>o
    <2>6. CASE Link(o)
      <3>1. Local /\ WorkHolds(o)'
        BY <2>6, <1>r, <1>w, <1>f DEF Link, NoWork, WorkHolds, Usable, Leaving
      <3>2. Onward
        BY <2>6, <1>r, <1>w, <1>f DEF Link, NoWork, WorkHolds, Onward, Markable, Reclaimable,
           Reserving, Usable, Leaving
      <3> QED
        BY <3>1, <3>2, <1>o
    <2>7. CASE Store(o)
      <3>1. Local /\ WorkHolds(o)'
        <4>1. Local
          BY <2>7, <1>w DEF Store
        <4>2. row' = row /\ link' = link /\ work[o].step = "storing"
          BY <2>7 DEF Store
        <4>3. work'[o].step \in {"recording", "undoing"} /\ work'[o].size = work[o].size
          BY <2>7, <1>w DEF Store, Works
        <4> QED
          BY <4>1, <4>2, <4>3, <1>r DEF WorkHolds, Usable, Leaving
      <3>2. Onward
        BY <2>7, <1>r, <1>w, <1>f DEF Store, WorkHolds, Onward, Markable, Reclaimable,
           Reserving, Usable, Leaving
      <3> QED
        BY <3>1, <3>2, <1>o
    <2>8. CASE Undo(o)
      <3>1. Local /\ WorkHolds(o)'
        BY <2>8, <1>r, <1>w, <1>f DEF Undo, WorkHolds, Usable, Leaving
      <3>2. Onward
        BY <2>8, <1>r, <1>w, <1>f DEF Undo, WorkHolds, Onward, Markable, Reclaimable,
           Reserving, Usable, Leaving
      <3> QED
        BY <3>1, <3>2, <1>o
    <2> QED
      BY <1>7, <2>1, <2>2, <2>3, <2>4, <2>5, <2>6, <2>7, <2>8, <2>9 DEF Work
  <1>8. CASE Abandon(o)
    <2>1. Local /\ WorkHolds(o)'
      BY <1>8, <1>r, <1>w, <1>f DEF Abandon, NoWork, WorkHolds, Usable, Leaving
    <2>2. Onward
      BY <1>8, <1>r, <1>w, <1>f DEF Abandon, NoWork, WorkHolds, Onward, Markable, Reclaimable,
         Reserving, Usable, Leaving
    <2> QED
      BY <2>1, <2>2, <1>o
  <1>9. CASE TimePasses(o)
    <2>1. Local /\ WorkHolds(o)'
      BY <1>9, <1>r, <1>w, <1>f DEF TimePasses, Reserving, WorkHolds, Usable, Leaving
    <2>2. Onward
      BY <1>9, <1>r, <1>w, <1>f DEF TimePasses, Reserving, WorkHolds, Onward,
         Markable, Reclaimable,
         Reserving, Usable, Leaving
    <2> QED
      BY <2>1, <2>2, <1>o
  <1> QED
    BY <1>1, <1>2, <1>3, <1>4, <1>5, <1>6, <1>7, <1>8, <1>9, <1>10

(* The steps of the removers keep it, whoever outlives his time.             *)
LEMMA RemoverKeeps ==
  ASSUME Inv, TypeOK', NEW m \in Removers,
         \/ Remove(m) \/ DeleteBytesFails(m) \/ RemoverDies(m)
         \/ \E o \in Objects : \/ DeleteAttachment(m, o) \/ DeleteSource(m, o)
                               \/ Cleanup(m, o)
  PROVE  Inv'
  <1>t. /\ row \in [Objects -> Rows] /\ work \in [Objects -> Works]
        /\ removal \in [Removers -> Removals] /\ link \in [Objects -> {"none", "READY", "DELETED"}]
        /\ row' \in [Objects -> Rows] /\ removal' \in [Removers -> Removals]
        /\ \A k \in Removers : ~Idle(k) => removal[k].object \in Objects
    BY DEF Inv, TypeOK
  <1>w. /\ \A o \in Objects : WorkHolds(o)
        /\ \A k \in Removers : RemovalHolds(k)
    BY DEF Inv
  (* The row is left alone. *)
  <1>a. ASSUME UNCHANGED row, \A o \in Objects : WorkHolds(o)', RemovalHolds(m)',
               \A k \in Removers \ {m} : removal'[k] = removal[k]
        PROVE  Inv'
    <2>1. ASSUME NEW k \in Removers PROVE RemovalHolds(k)'
      BY <1>a, <1>w DEF RemovalHolds
    <2> QED
      BY <1>a, <2>1 DEF Inv
  (* It goes on towards its end. *)
  <1>b. ASSUME NEW o \in Objects, Markable(row[o]), row'[o].status \in Leaving,
               \A p \in Objects \ {o} : row'[p] = row[p], UNCHANGED <<work, link>>,
               RemovalHolds(m)', \A k \in Removers \ {m} : removal'[k] = removal[k]
        PROVE  Inv'
    <2>1. ASSUME NEW p \in Objects PROVE WorkHolds(p)'
      BY <1>b, <1>w DEF WorkHolds, Markable, Reclaimable, Reserving, Usable, Leaving
    <2>2. ASSUME NEW k \in Removers PROVE RemovalHolds(k)'
      BY <1>b, <1>w, <1>t DEF RemovalHolds, Idle, Markable
    <2> QED
      BY <2>1, <2>2 DEF Inv
  <1>1. CASE MarkDeleting(m)
    <2> DEFINE o == removal[m].object
    <2>1. o \in Objects /\ Markable(row[o])
      BY <1>1, <1>t, <1>w DEF MarkDeleting, RemovalHolds, Idle
    <2>2. CASE row[o].status = "DELETED"
      BY <1>1, <2>2, <1>a, <1>w, <1>t DEF MarkDeleting, Done, NoRemoval, RemovalHolds, WorkHolds
    <2>3. CASE row[o].status # "DELETED"
      <3>1. /\ row'[o].status = "DELETING" /\ \A p \in Objects \ {o} : row'[p] = row[p]
            /\ removal'[m].step = "deleting" /\ removal'[m].object = o
            /\ \A k \in Removers \ {m} : removal'[k] = removal[k]
            /\ UNCHANGED <<work, link>>
        BY <1>1, <2>1, <2>3, <1>t DEF MarkDeleting, Rows, Removals
      <3>2. RemovalHolds(m)'
        BY <3>1 DEF RemovalHolds, Leaving
      <3> HIDE DEF o
      <3> QED
        BY <2>1, <3>1, <3>2, <1>b DEF Leaving
    <2> QED
      BY <2>2, <2>3
  <1>2. CASE DeleteBytes(m)
    <2>1. RemovalHolds(m)' /\ (\A o \in Objects : WorkHolds(o)')
      BY <1>2, <1>w, <1>t DEF DeleteBytes, RemovalHolds, WorkHolds, Removals
    <2> QED
      BY <1>2, <2>1, <1>a, <1>t DEF DeleteBytes
  <1>3. CASE RecordDeleted(m)
    <2> DEFINE o == removal[m].object
    <2>1. o \in Objects /\ Markable(row[o])
      BY <1>3, <1>t, <1>w DEF RecordDeleted, RemovalHolds, Idle, Markable
    <2>2. /\ row'[o].status = "DELETED" /\ \A p \in Objects \ {o} : row'[p] = row[p]
          /\ \A k \in Removers \ {m} : removal'[k] = removal[k]
          /\ UNCHANGED <<work, link>>
      BY <1>3, <2>1, <1>t DEF RecordDeleted, Done, Rows, Removals
    <2>3. \/ removal'[m].step = "idle"
          \/ removal'[m].step = "detaching" /\ removal'[m].object = o
      BY <1>3, <1>t DEF RecordDeleted, Done, NoRemoval, Removals
    <2>4. RemovalHolds(m)'
      BY <2>2, <2>3 DEF RemovalHolds, Leaving
    <2> HIDE DEF o
    <2> QED
      BY <2>1, <2>2, <2>4, <1>b DEF Leaving
  <1>4. CASE Detach(m)
    <2>1. RemovalHolds(m)' /\ (\A k \in Removers \ {m} : removal'[k] = removal[k])
      BY <1>4, <1>t DEF Detach, Done, NoRemoval, RemovalHolds
    <2>2. removal[m].object \in Objects /\ row[removal[m].object].status \in Leaving
      BY <1>4, <1>t, <1>w DEF Detach, RemovalHolds, Idle
    <2>3. \A o \in Objects : WorkHolds(o)'
      BY <1>4, <2>2, <1>t, <1>w DEF Detach, WorkHolds
    <2> QED
      BY <1>4, <2>1, <2>3, <1>a DEF Detach
  <1>5. CASE DeleteBytesFails(m)
    <2>1. RemovalHolds(m)' /\ (\A o \in Objects : WorkHolds(o)')
      BY <1>5, <1>w, <1>t DEF DeleteBytesFails, Done, NoRemoval, RemovalHolds, WorkHolds
    <2> QED
      BY <1>5, <2>1, <1>a, <1>t DEF DeleteBytesFails, Done
  <1>6. CASE RemoverDies(m)
    <2>1. RemovalHolds(m)' /\ (\A o \in Objects : WorkHolds(o)')
      BY <1>6, <1>w, <1>t DEF RemoverDies, Done, NoRemoval, RemovalHolds, WorkHolds
    <2> QED
      BY <1>6, <2>1, <1>a, <1>t DEF RemoverDies, Done
  <1>7. ASSUME NEW o \in Objects, DeleteAttachment(m, o) PROVE Inv'
    <2>1. row[o].status \in Usable \cup Leaving
      BY <1>7, <1>w DEF DeleteAttachment, WorkHolds
    <2>2. RemovalHolds(m)' /\ (\A p \in Objects : WorkHolds(p)')
      BY <1>7, <2>1, <1>w, <1>t DEF DeleteAttachment, RemovalHolds, WorkHolds, Markable
    <2> QED
      BY <1>7, <2>2, <1>a, <1>t DEF DeleteAttachment
  <1>8. ASSUME NEW o \in Objects, DeleteSource(m, o) PROVE Inv'
    <2>1. row[o].status \in Usable \cup Leaving
      BY <1>8, <1>w DEF DeleteSource, WorkHolds
    <2>2. RemovalHolds(m)' /\ (\A p \in Objects : WorkHolds(p)')
      BY <1>8, <2>1, <1>w, <1>t DEF DeleteSource, RemovalHolds, WorkHolds, Markable
    <2> QED
      BY <1>8, <2>2, <1>a, <1>t DEF DeleteSource
  <1>9. ASSUME NEW o \in Objects, Cleanup(m, o) PROVE Inv'
    <2>1. RemovalHolds(m)' /\ (\A p \in Objects : WorkHolds(p)')
      BY <1>9, <1>w, <1>t DEF Cleanup, RemovalHolds, WorkHolds, Markable
    <2> QED
      BY <1>9, <2>1, <1>a, <1>t DEF Cleanup
  <1> QED
    BY <1>1, <1>2, <1>3, <1>4, <1>5, <1>6, <1>7, <1>8, <1>9 DEF Remove

(* Every step keeps it.                                                      *)
LEMMA InvKept ==
  ASSUME ~MayOverrun, Inv, [Next]_vars
  PROVE  Inv'
  <1>1. TypeOK'
    BY TypedStep DEF Inv
  <1>2. CASE UNCHANGED vars
    BY <1>2 DEF vars, Inv, TypeOK, Idle, WorkHolds, RemovalHolds
  <1>3. CASE Next
    BY <1>1, <1>3, ObjectKeeps, RemoverKeeps DEF Next
  <1> QED
    BY <1>2, <1>3

-----------------------------------------------------------------------------
(* A step about one file keeps what is known of the bytes if it does so for  *)
(* that file.                                                                *)
LEMMA OneFileBytes ==
  ASSUME ByteInv, Inv', NEW o \in Objects, FileBytes(o)',
         \A p \in Objects \ {o} : /\ row'[p] = row[p] /\ work'[p] = work[p]
                                  /\ bytes'[p] = bytes[p] /\ putAfter'[p] = putAfter[p]
  PROVE  ByteInv'
  <1>1. ASSUME NEW p \in Objects PROVE FileBytes(p)'
    <2>1. CASE p = o
      BY <2>1
    <2>2. CASE p # o
      BY <2>2 DEF ByteInv, FileBytes, Checked
    <2> QED
      BY <2>1, <2>2
  <1> QED
    BY <1>1 DEF ByteInv

(* The steps of requests, clients and the clock keep what is known of the    *)
(* bytes.                                                                    *)
LEMMA ObjectKeepsBytes ==
  ASSUME ByteInv, Inv', NEW o \in Objects,
         \/ \E n \in 1..MaxSize : CreateIntent(o, n) \/ Stage(o, n) \/ Put(o, n)
         \/ UrlExpires(o) \/ Claim(o) \/ FinalizeExpired(o) \/ FinalizeAgain(o)
         \/ Work(o) \/ Abandon(o) \/ TimePasses(o)
  PROVE  ByteInv'
  <1>r. /\ row \in [Objects -> Rows] /\ work \in [Objects -> Works]
        /\ bytes \in [Objects -> Sizes]
        /\ putAfter \in [Objects -> SUBSET {"check", "deletion"}]
        /\ WorkHolds(o) /\ FileBytes(o)
    BY DEF ByteInv, Inv, TypeOK
  <1> DEFINE Local == \A p \in Objects \ {o} :
                        /\ row'[p] = row[p] /\ work'[p] = work[p]
                        /\ bytes'[p] = bytes[p] /\ putAfter'[p] = putAfter[p]
  <1>o. ASSUME Local, FileBytes(o)' PROVE ByteInv'
    BY <1>o, OneFileBytes
  <1>n. ASSUME NEW n \in 1..MaxSize, NEW st \in Reserving, Reserve(o, n, st)
        PROVE  /\ row[o].status = "none" /\ row'[o].status = st
               /\ \A p \in Objects \ {o} : row'[p] = row[p]
    BY <1>n, <1>r DEF Reserve, NoRow
  <1>1. ASSUME NEW n \in 1..MaxSize, CreateIntent(o, n) PROVE ByteInv'
    <2>1. row'[o].status = "PENDING_UPLOAD" /\ \A p \in Objects \ {o} : row'[p] = row[p]
      BY <1>1, <1>n DEF CreateIntent, Reserving
    <2>2. Local /\ FileBytes(o)'
      <3>1. /\ work'[o].step = "signing" /\ bytes' = bytes /\ putAfter' = putAfter
            /\ \A p \in Objects \ {o} : work'[p] = work[p]
        BY <1>1, <1>r DEF CreateIntent, Works
      <3> QED
        BY <2>1, <3>1, <1>r DEF FileBytes, Checked, Usable
    <2> QED
      BY <2>2, <1>o
  <1>2. ASSUME NEW n \in 1..MaxSize, Stage(o, n) PROVE ByteInv'
    <2>1. /\ row'[o].status = "PROCESSING" /\ row'[o].limit = n
          /\ \A p \in Objects \ {o} : row'[p] = row[p]
      <3>1. row' = [row EXCEPT ![o] = [NoRow EXCEPT !.status = "PROCESSING", !.limit = n]]
        BY <1>2 DEF Stage, Reserve
      <3> QED
        BY <3>1, <1>r DEF NoRow
    <2>2. /\ work'[o].step = "storing" /\ work'[o].size = n
          /\ bytes' = bytes /\ putAfter' = putAfter
          /\ \A p \in Objects \ {o} : work'[p] = work[p]
      BY <1>2, <1>r DEF Stage
    <2>3. n \in 1..n
      OBVIOUS
    <2>4. Local /\ FileBytes(o)'
      BY <2>1, <2>2, <2>3 DEF FileBytes, Checked, Usable
    <2> QED
      BY <2>4, <1>o
  <1>3. ASSUME NEW n \in 1..MaxSize, Put(o, n) PROVE ByteInv'
    <2>1. /\ UNCHANGED <<row, work>> /\ n # 0 /\ bytes'[o] = n
          /\ putAfter[o] \subseteq putAfter'[o]
          /\ Checked(o) => "check" \in putAfter'[o]
          /\ \A p \in Objects \ {o} : bytes'[p] = bytes[p] /\ putAfter'[p] = putAfter[p]
      BY <1>3, <1>r DEF Put
    <2>2. Local
      BY <2>1
    <2>3. FileBytes(o)'
      BY <2>1, <1>r DEF FileBytes, Checked
    <2> QED
      BY <2>2, <2>3, <1>o
  <1>10. CASE UrlExpires(o)
    <2>1. Local /\ FileBytes(o)'
      BY <1>10, <1>r DEF UrlExpires, FileBytes, Checked
    <2> QED
      BY <2>1, <1>o
  <1>4. CASE Claim(o)
    <2>1. Local /\ FileBytes(o)'
      BY <1>4, <1>r DEF Claim, InTime, Rows, Works, FileBytes, Checked, WorkHolds, Usable
    <2> QED
      BY <2>1, <1>o
  <1>5. CASE FinalizeExpired(o)
    <2>1. Local /\ FileBytes(o)'
      BY <1>5, <1>r DEF FinalizeExpired, Rows, FileBytes, Checked, WorkHolds, Usable
    <2> QED
      BY <2>1, <1>o
  <1>6. CASE FinalizeAgain(o)
    <2>1. Local /\ FileBytes(o)'
      BY <1>6, <1>r DEF FinalizeAgain, NoWork, FileBytes, Checked, Usable
    <2> QED
      BY <2>1, <1>o
  <1>7. CASE Work(o)
    <2>1. CASE SignUrl(o)
      <3>1. Local /\ FileBytes(o)'
        BY <2>1, <1>r DEF SignUrl, NoWork, Rows, FileBytes, Checked, WorkHolds, Usable
      <3> QED
        BY <3>1, <1>o
    <2>2. CASE Head(o)
      <3>1. /\ Local /\ row' = row /\ bytes' = bytes /\ putAfter' = putAfter
            /\ row[o].status = "PROCESSING"
            /\ \/ work'[o].step = "reading" /\ bytes[o] \in 1..row[o].limit
               \/ work'[o].step = "failing"
        BY <2>2, <1>r DEF Head, SizeAccepted, Works, WorkHolds
      <3>2. bytes[o] \in Nat /\ row[o].limit \in Nat
        BY <1>r, SizesAssumption DEF Sizes, Rows
      <3>3. FileBytes(o)'
        BY <3>1, <3>2 DEF FileBytes, Checked, Usable
      <3> QED
        BY <3>1, <3>3, <1>o
    <2>9. CASE Get(o)
      <3>1. /\ Local /\ row' = row /\ bytes' = bytes /\ putAfter' = putAfter
            /\ row[o].status = "PROCESSING" /\ work[o].step = "reading"
            /\ \/ work'[o].step = "recording" /\ work'[o].size = bytes[o]
               \/ work'[o].step = "failing"
        BY <2>9, <1>r DEF Get, Works, WorkHolds
      <3>2. FileBytes(o)'
        BY <3>1, <1>r DEF FileBytes, Checked, Usable
      <3> QED
        BY <3>1, <3>2, <1>o
    <2>3. CASE RecordUsable(o)
      <3>1. Local /\ FileBytes(o)'
        BY <2>3, <1>r DEF RecordUsable, FinalStatus, Rows, Works, FileBytes, Checked, WorkHolds, Usable
      <3> QED
        BY <3>1, <1>o
    <2>4. CASE RecordRefused(o)
      <3>1. Local /\ FileBytes(o)'
        BY <2>4, <1>r DEF RecordRefused, Works, FileBytes, Checked
      <3> QED
        BY <3>1, <1>o
    <2>5. CASE RecordFailed(o)
      <3>1. Local /\ FileBytes(o)'
        BY <2>5, <1>r DEF RecordFailed, NoWork, Rows, FileBytes, Checked, WorkHolds, Usable
      <3> QED
        BY <3>1, <1>o
    <2>6. CASE Link(o)
      <3>1. Local /\ FileBytes(o)'
        BY <2>6, <1>r DEF Link, NoWork, FileBytes, Checked
      <3> QED
        BY <3>1, <1>o
    <2>7. CASE Store(o)
      <3>1. Local /\ FileBytes(o)'
        BY <2>7, <1>r DEF Store, Works, FileBytes, Checked, WorkHolds, Usable
      <3> QED
        BY <3>1, <1>o
    <2>8. CASE Undo(o)
      <3>1. Local /\ FileBytes(o)'
        BY <2>8, <1>r DEF Undo, Works, FileBytes, Checked, WorkHolds, Usable
      <3> QED
        BY <3>1, <1>o
    <2> QED
      BY <1>7, <2>1, <2>2, <2>3, <2>4, <2>5, <2>6, <2>7, <2>8, <2>9 DEF Work
  <1>8. CASE Abandon(o)
    <2>1. Local /\ FileBytes(o)'
      BY <1>8, <1>r DEF Abandon, NoWork, FileBytes, Checked
    <2> QED
      BY <2>1, <1>o
  <1>9. CASE TimePasses(o)
    <2>1. Local /\ FileBytes(o)'
      BY <1>9, <1>r DEF TimePasses, Rows, FileBytes, Checked, WorkHolds, Reserving, Usable
    <2> QED
      BY <2>1, <1>o
  <1> QED
    BY <1>1, <1>2, <1>3, <1>4, <1>5, <1>6, <1>7, <1>8, <1>9, <1>10

(* So do the steps of the removers: they write to the row and the bytes of   *)
(* a file nobody works on or reads any more.                                 *)
LEMMA RemoverKeepsBytes ==
  ASSUME ByteInv, Inv', NEW m \in Removers,
         \/ Remove(m) \/ DeleteBytesFails(m) \/ RemoverDies(m)
         \/ \E o \in Objects : \/ DeleteAttachment(m, o) \/ DeleteSource(m, o)
                               \/ Cleanup(m, o)
  PROVE  ByteInv'
  <1>t. /\ row \in [Objects -> Rows] /\ bytes \in [Objects -> Sizes]
        /\ removal[m].step # "idle" => removal[m].object \in Objects
        /\ RemovalHolds(m)
        /\ \A o \in Objects : WorkHolds(o) /\ WorkHolds(o)' /\ FileBytes(o)
    BY DEF ByteInv, Inv, TypeOK, Idle
  <1>a. CASE UNCHANGED <<row, work, bytes, putAfter>>
    BY <1>a DEF ByteInv, FileBytes, Checked
  <1>1. CASE MarkDeleting(m) \/ RecordDeleted(m)
    <2>1. PICK o \in Objects :
            o = removal[m].object /\ UNCHANGED <<work, bytes, putAfter>>
      BY <1>1, <1>t DEF MarkDeleting, RecordDeleted
    <2>2. CASE UNCHANGED row
      BY <2>1, <2>2, <1>a
    <2>3. CASE ~UNCHANGED row
      <3>1. row'[o].status \in Leaving /\ \A p \in Objects \ {o} : row'[p] = row[p]
        BY <1>1, <2>1, <2>3, <1>t DEF MarkDeleting, RecordDeleted, Rows, Leaving
      <3>2. WorkHolds(o) /\ WorkHolds(o)' /\ FileBytes(o)
        BY <2>1, <1>t
      <3>3. FileBytes(o)'
        BY <2>1, <3>1, <3>2 DEF FileBytes, Checked, WorkHolds, Usable, Leaving
      <3> QED
        BY <2>1, <3>1, <3>3, OneFileBytes
    <2> QED
      BY <2>2, <2>3
  <1>2. CASE DeleteBytes(m) \/ DeleteBytesFails(m)
    <2>1. PICK o \in Objects :
          /\ row[o].status \in Leaving
          /\ UNCHANGED <<row, work, putAfter>>
          /\ bytes'[o] \in {bytes[o], 0}
          /\ \A p \in Objects \ {o} : bytes'[p] = bytes[p]
      BY <1>2, <1>t DEF DeleteBytes, DeleteBytesFails, RemovalHolds
    <2>2. WorkHolds(o) /\ FileBytes(o)
      BY <2>1, <1>t
    <2>3. FileBytes(o)'
      BY <2>1, <2>2 DEF FileBytes, Checked, WorkHolds, Usable, Leaving
    <2> QED
      BY <2>1, <2>3, OneFileBytes
  <1>3. CASE Detach(m) \/ RemoverDies(m)
    BY <1>3, <1>a DEF Detach, RemoverDies
  <1>4. ASSUME NEW o \in Objects,
               DeleteAttachment(m, o) \/ DeleteSource(m, o) \/ Cleanup(m, o)
        PROVE  ByteInv'
    BY <1>4, <1>a DEF DeleteAttachment, DeleteSource, Cleanup
  <1> QED
    BY <1>1, <1>2, <1>3, <1>4 DEF Remove

(* So what is known of the bytes is known from the start, and stays so.      *)
LEMMA BytesFromTheStart == Init => ByteInv
  BY InitInv DEF Init, ByteInv, FileBytes, Checked, NoRow, NoWork, Usable

LEMMA ByteInvKept ==
  ASSUME ~MayOverrun, ByteInv, [Next]_vars
  PROVE  ByteInv'
  <1>1. Inv'
    BY InvKept DEF ByteInv
  <1>2. CASE UNCHANGED vars
    BY <1>1, <1>2 DEF vars, ByteInv, FileBytes, Checked
  <1>3. CASE Next
    BY <1>1, <1>3, ObjectKeepsBytes, RemoverKeepsBytes DEF Next
  <1> QED
    BY <1>2, <1>3

(* A usable file has bytes, and until its client PUTs again those that its   *)
(* row counts, if no finalization outlives the time after which cleanup may  *)
(* take its row.                                                             *)
THEOREM UsableFilesHaveTheirBytes ==
  ASSUME ~MayOverrun
  PROVE  Spec => []UsableHasBytes
  <1>1. ByteInv /\ [Next]_vars => ByteInv'
    BY ByteInvKept
  <1>2. ByteInv => UsableHasBytes
    BY DEF ByteInv, FileBytes, Checked, UsableHasBytes
  <1> QED
    BY <1>1, <1>2, BytesFromTheStart, PTL DEF Spec

-----------------------------------------------------------------------------
(* The quota, last: what a file is counted for is known from its bytes.      *)
QuotaInv == ByteInv /\ QuotaRespected
Shares == SumFunction([o \in Objects |-> Share(o)])

(* What is counted for a file is a number, and of its share no more.         *)
LEMMA CountedTyped ==
  ASSUME TypeOK, NEW o \in Objects
  PROVE  /\ Counted(row[o]) \in Nat /\ Share(o) \in Nat
         /\ Share(o) <= Counted(row[o])
  <1>1. row[o].size \in Nat /\ row[o].limit \in Nat
    BY SizesAssumption DEF TypeOK, Rows, Sizes
  <1>2. Counted(row[o]) \in Nat
    BY <1>1 DEF Counted
  <1> QED
    BY <1>1, <1>2 DEF Share

LEMMA SharesAtMostUsed ==
  ASSUME TypeOK
  PROVE  Shares \in Nat /\ Used \in Nat /\ Shares <= Used
  <1> DEFINE f == [o \in Objects |-> Share(o)]
             g == [o \in Objects |-> Counted(row[o])]
  <1>1. f \in [Objects -> Nat] /\ g \in [Objects -> Nat] /\ \A o \in Objects : f[o] <= g[o]
    BY CountedTyped
  <1>2. Shares = SumFunction(f) /\ Used = SumFunction(g)
    BY DEF Shares, Used
  <1> HIDE DEF f, g
  <1>3. SumFunction(f) <= SumFunction(g)
    BY <1>1, SumAtMost, ObjectsAssumption
  <1>4. SumFunction(f) \in Nat /\ SumFunction(g) \in Nat
    BY <1>1, SumTyped, ObjectsAssumption
  <1> QED
    BY <1>2, <1>3, <1>4

(* The shares move by that of the one file a step is about.                  *)
LEMMA SharesMove ==
  ASSUME TypeOK, TypeOK', NEW o \in Objects,
         \A p \in Objects \ {o} : row'[p] = row[p] /\ putAfter'[p] = putAfter[p]
  PROVE  /\ Shares \in Nat /\ Shares' \in Nat /\ Share(o) \in Nat /\ Share(o)' \in Nat
         /\ Shares' + Share(o) = Shares + Share(o)'
  <1> DEFINE f == [p \in Objects |-> Share(p)]
             g == [p \in Objects |-> Share(p)']
  <1>1. ASSUME NEW p \in Objects PROVE Share(p) \in Nat /\ Share(p)' \in Nat
    <2>1. /\ row[p].size \in Nat /\ row[p].limit \in Nat
          /\ row'[p].size \in Nat /\ row'[p].limit \in Nat
      BY SizesAssumption DEF TypeOK, Rows, Sizes
    <2> QED
      BY <2>1 DEF Share, Counted
  <1>2. \A p \in Objects \ {o} : f[p] = g[p]
    BY DEF Share
  <1>3. f \in [Objects -> Nat] /\ g \in [Objects -> Nat] /\ f[o] = Share(o) /\ g[o] = Share(o)'
    BY <1>1
  <1>4. Shares = SumFunction(f) /\ Shares' = SumFunction(g)
    BY DEF Shares
  <1> HIDE DEF f, g
  <1>5. /\ SumFunction(f) \in Nat /\ SumFunction(g) \in Nat
        /\ SumFunction(g) + f[o] = SumFunction(f) + g[o]
    BY <1>2, <1>3, SumChange, ObjectsAssumption
  <1> QED
    BY <1>1, <1>3, <1>4, <1>5

(* A step keeps the quota if it counts no more for its file than before: if  *)
(* what it writes counts for nothing, if it leaves the row as it was, or if  *)
(* it takes up a reservation.                                                *)
Frees(o) ==
  /\ row'[o].limit = row[o].limit /\ putAfter[o] \subseteq putAfter'[o]
  /\ \/ row'[o].status \notin Reserving \cup Usable
     \/ row'[o].status = row[o].status /\ row'[o].size = row[o].size
     \/ row[o].status \in Reserving /\ row'[o].status \in Reserving \cup Usable
LEMMA QuotaKept ==
  ASSUME QuotaInv, ByteInv', NEW o \in Objects, Frees(o),
         \A p \in Objects \ {o} : row'[p] = row[p] /\ putAfter'[p] = putAfter[p]
  PROVE  QuotaRespected'
  <1>1. TypeOK /\ TypeOK' /\ FileBytes(o)' /\ FileBytes(o)
    BY DEF QuotaInv, ByteInv, Inv
  <1>2. /\ row[o].limit \in Nat /\ row[o].size \in Nat
        /\ row'[o].limit \in Nat /\ row'[o].size \in Nat
    BY <1>1, SizesAssumption DEF TypeOK, Rows, Sizes
  <1>3. Share(o)' <= Share(o)
    <2>1. CASE row'[o].status \notin Reserving \cup Usable
      <3>1. Share(o)' = 0
        BY <2>1, <1>2 DEF Share, Counted
      <3> QED
        BY <3>1, <1>1, CountedTyped
    <2>2. CASE row'[o].status = row[o].status /\ row'[o].size = row[o].size
      BY <2>2, <1>2 DEF Frees, Share, Counted, Reserving, Usable
    <2>3. CASE row[o].status \in Reserving /\ row'[o].status \in Reserving \cup Usable
      <3>1. Share(o) = row[o].limit
        BY <2>3, <1>2 DEF Share, Counted, Reserving, Usable
      <3>2. Share(o)' <= row'[o].limit
        BY <2>3, <1>1, <1>2 DEF Share, Counted, FileBytes, Reserving, Usable
      <3> QED
        BY <3>1, <3>2 DEF Frees
    <2> QED
      BY <2>1, <2>2, <2>3 DEF Frees
  <1>4. \A a, b, c, d \in Nat : a + c = b + d /\ d <= c => a <= b
    OBVIOUS
  <1>5. Shares' <= Shares /\ Shares \in Nat /\ Shares' \in Nat
    BY <1>1, <1>3, <1>4, SharesMove
  <1> QED
    BY <1>5, SizesAssumption DEF QuotaInv, QuotaRespected, Shares

(* A reservation looks at the usage before it adds to it.                    *)
LEMMA ReservationFits ==
  ASSUME QuotaInv, ByteInv', NEW o \in Objects, NEW n \in Sizes, NEW st \in Reserving,
         Reserve(o, n, st), UNCHANGED putAfter
  PROVE  QuotaRespected'
  <1>1. Inv /\ TypeOK /\ TypeOK' /\ n \in Nat
    BY SizesAssumption DEF QuotaInv, ByteInv, Inv, Sizes
  <1>2. /\ row[o].status = "none" /\ row'[o].status = st /\ row'[o].limit = n
        /\ \A p \in Objects \ {o} : row'[p] = row[p]
    BY <1>1, Reserved
  <1>3. Share(o) = 0 /\ Share(o)' = n
    <2>1. row[o].limit \in Nat
      BY <1>1, SizesAssumption DEF TypeOK, Rows, Sizes
    <2> QED
      BY <1>1, <1>2, <2>1 DEF Share, Counted, Reserving, Usable
  <1>4. /\ Shares' + Share(o) = Shares + Share(o)'
        /\ Shares \in Nat /\ Shares' \in Nat /\ Used \in Nat /\ Shares <= Used
    BY <1>1, <1>2, SharesMove, SharesAtMostUsed
  <1>5. Quota = 0 \/ Used + n <= Quota
    BY DEF Reserve, CanReserve
  <1> QED
    BY <1>1, <1>3, <1>4, <1>5, SizesAssumption DEF QuotaRespected, Shares

(* The steps of requests, clients and the clock keep the quota.              *)
LEMMA ObjectKeepsQuota ==
  ASSUME QuotaInv, ByteInv', NEW o \in Objects,
         \/ \E n \in 1..MaxSize : CreateIntent(o, n) \/ Stage(o, n) \/ Put(o, n)
         \/ UrlExpires(o) \/ Claim(o) \/ FinalizeExpired(o) \/ FinalizeAgain(o)
         \/ Work(o) \/ Abandon(o) \/ TimePasses(o)
  PROVE  QuotaRespected'
  <1>r. /\ row \in [Objects -> Rows] /\ row[o] \in Rows
        /\ putAfter \in [Objects -> SUBSET {"check", "deletion"}]
        /\ WorkHolds(o)
    BY DEF QuotaInv, ByteInv, Inv, TypeOK
  <1> DEFINE Local == \A p \in Objects \ {o} :
                        row'[p] = row[p] /\ putAfter'[p] = putAfter[p]
  <1>o. ASSUME Local, Frees(o) PROVE QuotaRespected'
    BY <1>o, QuotaKept
  <1>a. ASSUME UNCHANGED <<row, putAfter>> PROVE QuotaRespected'
    <2>1. row' = row /\ putAfter' = putAfter
      BY <1>a
    <2>2. Local /\ Frees(o)
      BY <2>1 DEF Frees
    <2> QED
      BY <2>2, <1>o
  <1>b. ASSUME NEW st \in {"FAILED", "EXPIRED"}, row'[o].status = st,
               row'[o].limit = row[o].limit, putAfter' = putAfter,
               \A p \in Objects \ {o} : row'[p] = row[p]
        PROVE  QuotaRespected'
    <2>1. Local /\ Frees(o)
      BY <1>b DEF Frees, Reserving, Usable
    <2> QED
      BY <2>1, <1>o
  <1>n. 1..MaxSize \subseteq Sizes
    BY SizesAssumption DEF Sizes
  <1>1. ASSUME NEW n \in 1..MaxSize, CreateIntent(o, n) PROVE QuotaRespected'
    BY <1>1, <1>n, ReservationFits DEF CreateIntent, Reserving
  <1>2. ASSUME NEW n \in 1..MaxSize, Stage(o, n) PROVE QuotaRespected'
    BY <1>2, <1>n, ReservationFits DEF Stage, Reserving
  <1>3. ASSUME NEW n \in 1..MaxSize, Put(o, n) PROVE QuotaRespected'
    <2>1. Local /\ Frees(o)
      BY <1>3, <1>r DEF Put, Frees
    <2> QED
      BY <2>1, <1>o
  <1>4. CASE Claim(o)
    <2>1. Local /\ Frees(o)
      BY <1>4, <1>r DEF Claim, InTime, Rows, Frees, Reserving
    <2> QED
      BY <2>1, <1>o
  <1>5. CASE FinalizeExpired(o)
    BY <1>5, <1>b, <1>r DEF FinalizeExpired, Rows
  <1>6. CASE FinalizeAgain(o) \/ UrlExpires(o) \/ Abandon(o)
    BY <1>6, <1>a DEF FinalizeAgain, UrlExpires, Abandon
  <1>7. CASE Work(o)
    <2>1. CASE SignUrl(o)
      BY <2>1, <1>a, <1>b, <1>r DEF SignUrl, Rows
    <2>2. CASE RecordUsable(o)
      <3>1. Local /\ Frees(o)
        BY <2>2, <1>r DEF RecordUsable, FinalStatus, Rows, WorkHolds, Frees, Reserving, Usable
      <3> QED
        BY <3>1, <1>o
    <2>3. CASE RecordFailed(o)
      BY <2>3, <1>b, <1>r DEF RecordFailed, Rows
    <2>4. CASE Head(o) \/ Get(o) \/ RecordRefused(o) \/ Link(o) \/ Store(o) \/ Undo(o)
      BY <2>4, <1>a DEF Head, Get, RecordRefused, Link, Store, Undo
    <2> QED
      BY <1>7, <2>1, <2>2, <2>3, <2>4 DEF Work
  <1>8. CASE TimePasses(o)
    <2>1. Local /\ Frees(o)
      BY <1>8, <1>r DEF TimePasses, Rows, Frees
    <2> QED
      BY <2>1, <1>o
  <1> QED
    BY <1>1, <1>2, <1>3, <1>4, <1>5, <1>6, <1>7, <1>8

(* So do those of the removers, which write to rows on their way out.        *)
LEMMA RemoverKeepsQuota ==
  ASSUME QuotaInv, ByteInv', NEW m \in Removers,
         \/ Remove(m) \/ DeleteBytesFails(m) \/ RemoverDies(m)
         \/ \E o \in Objects : \/ DeleteAttachment(m, o) \/ DeleteSource(m, o)
                               \/ Cleanup(m, o)
  PROVE  QuotaRespected'
  <1>r. /\ row \in [Objects -> Rows]
        /\ removal[m].step # "idle" => removal[m].object \in Objects
    BY DEF QuotaInv, ByteInv, Inv, TypeOK, Idle
  <1>a. ASSUME UNCHANGED <<row, putAfter>> PROVE QuotaRespected'
    BY <1>a DEF QuotaInv, QuotaRespected, Share
  <1>1. CASE MarkDeleting(m) \/ RecordDeleted(m)
    <2>1. PICK o \in Objects : o = removal[m].object
      BY <1>1, <1>r DEF MarkDeleting, RecordDeleted
    <2>2. CASE UNCHANGED row
      BY <1>1, <2>2, <1>a DEF MarkDeleting, RecordDeleted
    <2>3. CASE ~UNCHANGED row
      <3>1. /\ row'[o].status \in Leaving /\ row'[o].limit = row[o].limit
            /\ putAfter' = putAfter /\ \A p \in Objects \ {o} : row'[p] = row[p]
        BY <1>1, <2>1, <2>3, <1>r DEF MarkDeleting, RecordDeleted, Rows, Leaving
      <3>2. Frees(o)
        BY <3>1 DEF Frees, Leaving, Reserving, Usable
      <3> QED
        BY <3>1, <3>2, QuotaKept
    <2> QED
      BY <2>2, <2>3
  <1>2. CASE \/ DeleteBytes(m) \/ DeleteBytesFails(m) \/ Detach(m) \/ RemoverDies(m)
             \/ \E o \in Objects : \/ DeleteAttachment(m, o) \/ DeleteSource(m, o)
                                   \/ Cleanup(m, o)
    BY <1>2, <1>a DEF DeleteBytes, DeleteBytesFails, Detach, RemoverDies, DeleteAttachment,
       DeleteSource, Cleanup
  <1> QED
    BY <1>1, <1>2 DEF Remove

(* The organization's usable files and its unfinished ones never exceed the  *)
(* quota, but for what clients add to a file that HEAD had accepted, if no   *)
(* finalization outlives the 15 minutes after which cleanup may take its row.*)
THEOREM QuotaHolds ==
  ASSUME ~MayOverrun
  PROVE  Spec => []QuotaRespected
  <1>1. Init => QuotaInv
    <2> SUFFICES ASSUME Init PROVE QuotaInv
      OBVIOUS
    <2>1. ByteInv
      BY BytesFromTheStart
    <2> DEFINE f == [o \in Objects |-> Share(o)]
    <2>2. f \in [Objects -> Nat] /\ \A o \in Objects : f[o] = 0
      BY DEF Init, Share, Counted, NoRow, Usable, Reserving
    <2> HIDE DEF f
    <2>3. SumFunction(f) = 0
      BY <2>2, SumZero, ObjectsAssumption
    <2>4. QuotaRespected
      BY <2>3, SizesAssumption DEF QuotaRespected, f
    <2> QED
      BY <2>1, <2>4 DEF QuotaInv
  <1>2. ASSUME QuotaInv, [Next]_vars PROVE QuotaInv'
    <2>1. ByteInv'
      BY <1>2, ByteInvKept DEF QuotaInv
    <2>2. CASE UNCHANGED vars
      <3>1. QuotaRespected'
        BY <1>2, <2>2 DEF vars, QuotaInv, QuotaRespected, Share
      <3> QED
        BY <2>1, <3>1 DEF QuotaInv
    <2>3. CASE Next
      <3>1. QuotaRespected'
        BY <1>2, <2>1, <2>3, ObjectKeepsQuota, RemoverKeepsQuota DEF Next
      <3> QED
        BY <2>1, <3>1 DEF QuotaInv
    <2> QED
      BY <1>2, <2>2, <2>3
  <1>3. QuotaInv => QuotaRespected
    BY DEF QuotaInv
  <1> QED
    BY <1>1, <1>2, <1>3, PTL DEF Spec

-----------------------------------------------------------------------------
(* A step about one file keeps gone what is gone if it does so for that file *)
(* and leaves the bytes alone once the file is on its way out.               *)
LEMMA OneFileGone ==
  ASSUME GoneInv, Inv', NEW o \in Objects, UNCHANGED removal,
         \A p \in Objects \ {o} :
           /\ row'[p] = row[p] /\ work'[p] = work[p] /\ bytes'[p] = bytes[p]
           /\ upload'[p] = upload[p] /\ putAfter'[p] = putAfter[p],
         row[o].status \in Leaving => (Gone(o) => Gone(o)'),
         FileGone(o)'
  PROVE  GoneInv'
  <1>1. ASSUME NEW p \in Objects PROVE FileGone(p)'
    <2>1. CASE p = o
      BY <2>1
    <2>2. CASE p # o
      BY <2>2 DEF GoneInv, FileGone, Gone
    <2> QED
      BY <2>1, <2>2
  <1>2. ASSUME NEW m \in Removers PROVE RemovalGone(m)'
    <2>1. removal[m].step # "idle" => removal[m].object \in Objects
      BY DEF GoneInv, Inv, TypeOK, Idle
    <2>2. RemovalGone(m) /\ RemovalHolds(m)
      BY DEF GoneInv, Inv
    <2> QED
      BY <2>1, <2>2 DEF RemovalGone, RemovalHolds, Gone
  <1> QED
    BY <1>1, <1>2 DEF GoneInv

(* The steps of requests and of the clock keep gone what is gone.            *)
LEMMA ObjectKeepsGone ==
  ASSUME GoneInv, Inv', ~MayOverrun, NEW o \in Objects,
         \/ \E n \in 1..MaxSize : CreateIntent(o, n) \/ Stage(o, n) \/ Put(o, n)
         \/ UrlExpires(o) \/ Claim(o) \/ FinalizeExpired(o) \/ FinalizeAgain(o)
         \/ Work(o) \/ Abandon(o) \/ TimePasses(o)
  PROVE  GoneInv'
  <1>r. /\ row \in [Objects -> Rows] /\ work \in [Objects -> Works] /\ bytes \in [Objects -> Sizes]
        /\ upload \in [Objects -> {"none", "issued", "over"}]
        /\ putAfter \in [Objects -> SUBSET {"check", "deletion"}]
        /\ WorkHolds(o) /\ FileGone(o)
    BY DEF GoneInv, Inv, TypeOK
  <1> DEFINE Local == /\ \A p \in Objects \ {o} : row'[p] = row[p] /\ work'[p] = work[p]
                                                  /\ bytes'[p] = bytes[p]
                        /\ upload'[p] = upload[p] /\ putAfter'[p] = putAfter[p]
                      /\ UNCHANGED removal
             Safely == row[o].status \in Leaving => (Gone(o) => Gone(o)')
  <1>o. ASSUME Local, Safely, FileGone(o)' PROVE GoneInv'
    BY <1>o, OneFileGone
  <1>n. ASSUME NEW n \in 1..MaxSize, NEW st \in Reserving, Reserve(o, n, st)
        PROVE  /\ row[o].status = "none" /\ row'[o].status = st
               /\ \A p \in Objects \ {o} : row'[p] = row[p]
    BY <1>n, <1>r DEF Reserve, NoRow
  <1>1. ASSUME NEW n \in 1..MaxSize, CreateIntent(o, n) PROVE GoneInv'
    <2>1. row'[o].status = "PENDING_UPLOAD" /\ \A p \in Objects \ {o} : row'[p] = row[p]
      BY <1>1, <1>n DEF CreateIntent, Reserving
    <2>2. Local /\ Safely /\ FileGone(o)'
      BY <1>1, <2>1, <1>r DEF CreateIntent, FileGone, Gone, Usable, Works
    <2> QED
      BY <2>2, <1>o
  <1>2. ASSUME NEW n \in 1..MaxSize, Stage(o, n) PROVE GoneInv'
    <2>1. row'[o].status = "PROCESSING" /\ \A p \in Objects \ {o} : row'[p] = row[p]
      BY <1>2, <1>n DEF Stage, Reserving
    <2>2. Local /\ Safely /\ FileGone(o)'
      BY <1>2, <2>1, <1>r DEF Stage, FileGone, Gone, Usable
    <2> QED
      BY <2>2, <1>o
  <1>3. ASSUME NEW n \in 1..MaxSize, Put(o, n) PROVE GoneInv'
    <2>1. Local /\ Safely /\ FileGone(o)'
      BY <1>3, <1>r DEF Put, InTime, FileGone, Gone, WorkHolds, Reserving, Usable, Leaving
    <2> QED
      BY <2>1, <1>o
  <1>10. CASE UrlExpires(o)
    <2>1. Local /\ Safely /\ FileGone(o)'
      BY <1>10, <1>r DEF UrlExpires, FileGone, Gone, Leaving
    <2> QED
      BY <2>1, <1>o
  <1>4. CASE Claim(o)
    <2>1. Local /\ Safely /\ FileGone(o)'
      BY <1>4, <1>r DEF Claim, InTime, Rows, Works, FileGone, Gone, WorkHolds, Reserving, Usable, Leaving
    <2> QED
      BY <2>1, <1>o
  <1>5. CASE FinalizeExpired(o)
    <2>1. Local /\ Safely /\ FileGone(o)'
      BY <1>5, <1>r DEF FinalizeExpired, Rows, FileGone, Gone, WorkHolds, Reserving, Usable, Leaving
    <2> QED
      BY <2>1, <1>o
  <1>6. CASE FinalizeAgain(o)
    <2>1. Local /\ Safely /\ FileGone(o)'
      BY <1>6, <1>r DEF FinalizeAgain, NoWork, FileGone, Gone, WorkHolds, Reserving, Usable, Leaving
    <2> QED
      BY <2>1, <1>o
  <1>7. CASE Work(o)
    <2>1. CASE SignUrl(o)
      <3>1. Local /\ Safely /\ FileGone(o)'
        BY <2>1, <1>r DEF SignUrl, NoWork, Rows, FileGone, Gone, WorkHolds, Reserving, Usable, Leaving
      <3> QED
        BY <3>1, <1>o
    <2>2. CASE Head(o)
      <3>1. Local /\ Safely /\ FileGone(o)'
        BY <2>2, <1>r DEF Head, Works, FileGone, Gone, WorkHolds, Reserving, Usable, Leaving
      <3> QED
        BY <3>1, <1>o
    <2>9. CASE Get(o)
      <3>1. Local /\ Safely /\ FileGone(o)'
        BY <2>9, <1>r DEF Get, Works, FileGone, Gone, WorkHolds, Reserving, Usable, Leaving
      <3> QED
        BY <3>1, <1>o
    <2>3. CASE RecordUsable(o)
      <3>1. Local /\ Safely /\ FileGone(o)'
        BY <2>3, <1>r DEF RecordUsable, FinalStatus, Rows, Works, FileGone, Gone, WorkHolds,
           Reserving, Usable, Leaving
      <3> QED
        BY <3>1, <1>o
    <2>4. CASE RecordRefused(o)
      <3>1. Local /\ Safely /\ FileGone(o)'
        BY <2>4, <1>r DEF RecordRefused, Works, FileGone, Gone, WorkHolds, Reserving, Usable, Leaving
      <3> QED
        BY <3>1, <1>o
    <2>5. CASE RecordFailed(o)
      <3>1. Local /\ Safely /\ FileGone(o)'
        BY <2>5, <1>r DEF RecordFailed, NoWork, Rows, FileGone, Gone, WorkHolds, Reserving, Usable, Leaving
      <3> QED
        BY <3>1, <1>o
    <2>6. CASE Link(o)
      <3>1. Local /\ Safely /\ FileGone(o)'
        BY <2>6, <1>r DEF Link, NoWork, FileGone, Gone, WorkHolds, Reserving, Usable, Leaving
      <3> QED
        BY <3>1, <1>o
    <2>7. CASE Store(o)
      <3>1. Local /\ Safely /\ FileGone(o)'
        BY <2>7, <1>r DEF Store, Works, FileGone, Gone, WorkHolds, Reserving, Usable, Leaving
      <3> QED
        BY <3>1, <1>o
    <2>8. CASE Undo(o)
      <3>1. Local /\ Safely /\ FileGone(o)'
        BY <2>8, <1>r DEF Undo, Works, FileGone, Gone, WorkHolds, Reserving, Usable, Leaving
      <3> QED
        BY <3>1, <1>o
    <2> QED
      BY <1>7, <2>1, <2>2, <2>3, <2>4, <2>5, <2>6, <2>7, <2>8, <2>9 DEF Work
  <1>8. CASE Abandon(o)
    <2>1. Local /\ Safely /\ FileGone(o)'
      BY <1>8, <1>r DEF Abandon, NoWork, FileGone, Gone, WorkHolds, Reserving, Usable, Leaving
    <2> QED
      BY <2>1, <1>o
  <1>9. CASE TimePasses(o)
    <2>1. Local /\ Safely /\ FileGone(o)'
      BY <1>9, <1>r DEF TimePasses, Rows, FileGone, Gone, WorkHolds, Reserving, Usable, Leaving
    <2> QED
      BY <2>1, <1>o
  <1> QED
    BY <1>1, <1>2, <1>3, <1>4, <1>5, <1>6, <1>7, <1>8, <1>9, <1>10

(* So do the steps of the removers.                                          *)
LEMMA RemoverKeepsGone ==
  ASSUME GoneInv, Inv', NEW m \in Removers,
         \/ Remove(m) \/ DeleteBytesFails(m) \/ RemoverDies(m)
         \/ \E o \in Objects : \/ DeleteAttachment(m, o) \/ DeleteSource(m, o)
                               \/ Cleanup(m, o)
  PROVE  GoneInv'
  <1>t. /\ row \in [Objects -> Rows] /\ work \in [Objects -> Works] /\ bytes \in [Objects -> Sizes]
        /\ removal \in [Removers -> Removals]
        /\ \A k \in Removers : removal[k].step # "idle" => removal[k].object \in Objects
        /\ \A o \in Objects : WorkHolds(o) /\ FileGone(o)
        /\ \A k \in Removers : RemovalHolds(k) /\ RemovalGone(k)
    BY DEF GoneInv, Inv, TypeOK, Idle
  (* It starts, or ends early. *)
  <1>a. ASSUME UNCHANGED <<row, work, bytes, upload, putAfter>>, removal'[m].step \in {"idle", "marking"},
               \A k \in Removers \ {m} : removal'[k] = removal[k]
        PROVE  GoneInv'
    BY <1>a, <1>t DEF GoneInv, FileGone, RemovalGone, Gone
  (* It deletes the bytes of a file that is on its way out. *)
  <1>b. ASSUME removal[m].step = "deleting", UNCHANGED <<row, work, upload, putAfter>>,
               \/ bytes' = [bytes EXCEPT ![removal[m].object] = 0]
               \/ bytes' = bytes /\ removal'[m].step = "idle",
               removal'[m].step = "idle" \/ removal'[m].object = removal[m].object,
               \A k \in Removers \ {m} : removal'[k] = removal[k]
        PROVE  GoneInv'
    <2>1. removal[m].object \in Objects /\ row[removal[m].object].status \in Leaving
      BY <1>b, <1>t DEF RemovalHolds
    <2>2. ASSUME NEW o \in Objects PROVE FileGone(o)'
      BY <1>b, <2>1, <1>t DEF FileGone, Gone, WorkHolds, Usable, Leaving
    <2>3. ASSUME NEW k \in Removers PROVE RemovalGone(k)'
      BY <1>b, <2>1, <1>t DEF RemovalGone, Gone
    <2> QED
      BY <2>2, <2>3 DEF GoneInv
  (* It writes the row. *)
  <1>c. ASSUME NEW o \in Objects, row'[o].status = "DELETED" => Gone(o),
               row'[o].status \in Leaving, \A p \in Objects \ {o} : row'[p] = row[p],
               UNCHANGED <<work, bytes, upload, putAfter>>, \A k \in Removers \ {m} : removal'[k] = removal[k],
               RemovalGone(m)'
        PROVE  GoneInv'
    <2>1. ASSUME NEW p \in Objects PROVE FileGone(p)'
      BY <1>c, <1>t DEF FileGone, Gone, Usable, Leaving
    <2>2. ASSUME NEW k \in Removers PROVE RemovalGone(k)'
      BY <1>c, <1>t DEF RemovalGone, Gone
    <2> QED
      BY <2>1, <2>2 DEF GoneInv
  <1>1. CASE MarkDeleting(m)
    <2> DEFINE o == removal[m].object
    <2>1. o \in Objects
      BY <1>1, <1>t DEF MarkDeleting
    <2>2. CASE row[o].status = "DELETED"
      BY <1>1, <2>2, <1>a, <1>t DEF MarkDeleting, Done, NoRemoval
    <2>3. CASE row[o].status # "DELETED"
      <3>1. /\ row'[o].status = "DELETING" /\ \A p \in Objects \ {o} : row'[p] = row[p]
            /\ removal'[m].step = "deleting"
            /\ \A k \in Removers \ {m} : removal'[k] = removal[k]
            /\ UNCHANGED <<work, bytes, upload, putAfter>>
        BY <1>1, <2>1, <2>3, <1>t DEF MarkDeleting, Rows, Removals
      <3>2. RemovalGone(m)'
        BY <3>1 DEF RemovalGone, Gone
      <3> HIDE DEF o
      <3> QED
        BY <2>1, <3>1, <3>2, <1>c DEF Leaving
    <2> QED
      BY <2>2, <2>3
  <1>2. CASE DeleteBytes(m)
    BY <1>2, <1>b, <1>t DEF DeleteBytes, Removals
  <1>3. CASE RecordDeleted(m)
    <2> DEFINE o == removal[m].object
    <2>1. o \in Objects /\ Gone(o)
      BY <1>3, <1>t DEF RecordDeleted, RemovalGone, Gone
    <2>2. /\ row'[o].status = "DELETED" /\ \A p \in Objects \ {o} : row'[p] = row[p]
          /\ \A k \in Removers \ {m} : removal'[k] = removal[k]
          /\ UNCHANGED <<work, bytes, upload, putAfter>>
      BY <1>3, <2>1, <1>t DEF RecordDeleted, Done, Rows, Removals
    <2>3. \/ removal'[m].step = "idle"
          \/ removal'[m].step = "detaching" /\ removal'[m].object = o
      BY <1>3, <1>t DEF RecordDeleted, Done, NoRemoval, Removals
    <2>4. RemovalGone(m)'
      BY <2>1, <2>2, <2>3 DEF RemovalGone, Gone
    <2> HIDE DEF o
    <2> QED
      BY <2>1, <2>2, <2>4, <1>c DEF Leaving
  <1>4. CASE Detach(m)
    BY <1>4, <1>a, <1>t DEF Detach, Done, NoRemoval
  <1>5. CASE DeleteBytesFails(m)
    BY <1>5, <1>b, <1>t DEF DeleteBytesFails, Done, NoRemoval
  <1>6. CASE RemoverDies(m)
    BY <1>6, <1>a, <1>t DEF RemoverDies, Done, NoRemoval
  <1>7. ASSUME NEW o \in Objects, DeleteAttachment(m, o) PROVE GoneInv'
    BY <1>7, <1>a, <1>t DEF DeleteAttachment
  <1>8. ASSUME NEW o \in Objects, DeleteSource(m, o) PROVE GoneInv'
    BY <1>8, <1>a, <1>t DEF DeleteSource
  <1>9. ASSUME NEW o \in Objects, Cleanup(m, o) PROVE GoneInv'
    BY <1>9, <1>a, <1>t DEF Cleanup
  <1> QED
    BY <1>1, <1>2, <1>3, <1>4, <1>5, <1>6, <1>7, <1>8, <1>9 DEF Remove

(* What is gone is gone in every reachable state.                            *)
LEMMA GoneAlways ==
  ASSUME ~MayOverrun
  PROVE  Spec => []GoneInv
  <1>1. Init => GoneInv
    BY InitInv DEF Init, GoneInv, FileGone, RemovalGone, Gone, NoRow, NoWork, NoRemoval, Usable
  <1>2. ASSUME GoneInv, [Next]_vars PROVE GoneInv'
    <2>1. Inv'
      BY <1>2, InvKept DEF GoneInv
    <2>2. CASE UNCHANGED vars
      BY <1>2, <2>1, <2>2 DEF vars, GoneInv, FileGone, RemovalGone, Gone
    <2>3. CASE Next
      BY <1>2, <2>1, <2>3, ObjectKeepsGone, RemoverKeepsGone DEF Next
    <2> QED
      BY <1>2, <2>2, <2>3
  <1> QED
    BY <1>1, <1>2, PTL DEF Spec

(* Whatever the storage holds has a row that is usable or will be cleaned    *)
(* up, or was PUT again by its client when the row was on its way out, if no *)
(* finalization outlives its 15 minutes: no failure, crash or removal leaves *)
(* bytes that nothing leads to.                                              *)
THEOREM NoFileIsForgotten ==
  ASSUME ~MayOverrun
  PROVE  Spec => []NoOrphans
  <1>1. GoneInv => NoOrphans
    BY DEF GoneInv, FileGone, Gone, NoOrphans
  <1> QED
    BY <1>1, GoneAlways, PTL
=============================================================================
