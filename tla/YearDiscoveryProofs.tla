------------------------ MODULE YearDiscoveryProofs ------------------------
(***************************************************************************)
(* For a year of any length, any split widths, budgets and attempts, over  *)
(* any number of runs and stops: the annual cache is the whole year, no    *)
(* settled window is asked for again, and the budget of a query excludes   *)
(* its waits in the gate.                                                  *)
(***************************************************************************)
EXTENDS YearDiscovery, SequenceTheorems, TLAPS

(* The constants, one by one. *)
LEMMA Numbers ==
    /\ Year \in Nat \ {0} /\ Floor \in Nat \ {0} /\ Budget \in Nat \ {0}
    /\ \A days \in FirstSplits : days \in Nat \ {0}
    /\ Absent \notin Seq(1..Year)
  BY YearAssumption

LEMMA WindowBounds ==
    ASSUME NEW v \in Windows
    PROVE  /\ v = <<v[1], v[2]>> /\ v[1] \in 1..Year /\ v[2] \in 1..Year /\ v[1] <= v[2]
           /\ Width(v) \in Nat \ {0} /\ Width(v) = v[2] - v[1] + 1
  BY Numbers DEF Windows, Width

LEMMA WholeIsWindow == Whole \in Windows /\ Whole[1] = 1 /\ Whole[2] = Year
  BY Numbers DEF Windows, Whole

(* The days from a to b, if need be none. *)
LEMMA DaysAreDays ==
    ASSUME NEW a \in 1 .. Year + 1, NEW b \in 0 .. Year, a <= b + 1
    PROVE  /\ DaysOf(<<a, b>>) \in Seq(1..Year)
           /\ Len(DaysOf(<<a, b>>)) = b - a + 1
           /\ \A i \in 1 .. b - a + 1 : DaysOf(<<a, b>>)[i] = a + i - 1
  <1> DEFINE n == b - a + 1
  <1>1. DaysOf(<<a, b>>) = [i \in 1 .. n |-> a + i - 1]
    BY Numbers DEF DaysOf, Width
  <1>2. n \in Nat /\ \A i \in 1 .. n : a + i - 1 \in 1..Year
    BY Numbers
  <1> HIDE DEF n
  <1>3. DaysOf(<<a, b>>) \in [1 .. n -> 1..Year]
    BY <1>1, <1>2
  <1>4. DaysOf(<<a, b>>) \in Seq(1..Year)
    BY <1>2, <1>3, SeqDef
  <1>5. Len(DaysOf(<<a, b>>)) = n
    BY <1>2, <1>3, <1>4, LenProperties
  <1> QED  BY <1>1, <1>4, <1>5 DEF n

(* Days up to some day, and on from the next one. *)
LEMMA DaysOn ==
    ASSUME NEW a \in 1..Year, NEW b \in 1..Year, a <= b
    PROVE  DaysOf(<<1, a - 1>>) \o DaysOf(<<a, b>>) = DaysOf(<<1, b>>)
  <1> DEFINE front == DaysOf(<<1, a - 1>>)
             back == DaysOf(<<a, b>>)
             all == DaysOf(<<1, b>>)
  <1>1. /\ front \in Seq(1..Year) /\ Len(front) = a - 1
        /\ \A i \in 1 .. a - 1 : front[i] = i
    <2>1. 1 \in 1 .. Year + 1 /\ a - 1 \in 0 .. Year /\ 1 <= a - 1 + 1  BY Numbers
    <2> QED  BY <2>1, DaysAreDays
  <1>2. /\ back \in Seq(1..Year) /\ Len(back) = b - a + 1
        /\ \A i \in 1 .. b - a + 1 : back[i] = a + i - 1
    BY Numbers, DaysAreDays
  <1>3. /\ all \in Seq(1..Year) /\ Len(all) = b
        /\ \A i \in 1 .. b : all[i] = i
    <2>1. 1 \in 1 .. Year + 1 /\ b \in 0 .. Year /\ 1 <= b + 1  BY Numbers
    <2> QED  BY <2>1, DaysAreDays
  <1> HIDE DEF front, back, all
  <1>3a. a \in Nat /\ b \in Nat /\ Len(front) + Len(back) = b
    BY <1>1, <1>2, Numbers
  <1>4. /\ front \o back \in Seq(1..Year) /\ Len(front \o back) = b
        /\ \A i \in 1 .. b : (front \o back)[i] = IF i <= a - 1 THEN front[i] ELSE back[i - (a - 1)]
    <2>1. /\ front \o back \in Seq(1..Year) /\ Len(front \o back) = Len(front) + Len(back)
          /\ \A i \in 1 .. Len(front) + Len(back) :
                 (front \o back)[i] = IF i <= Len(front) THEN front[i] ELSE back[i - Len(front)]
      BY <1>1, <1>2, ConcatProperties
    <2> QED  BY <1>3a, <1>1, <2>1
  <1>5. ASSUME NEW i \in 1 .. b PROVE (front \o back)[i] = all[i]
    <2>1. CASE i <= a - 1  BY <1>3a, <1>1, <1>3, <1>4, <2>1
    <2>2. CASE i > a - 1
      <3>1. i - (a - 1) \in 1 .. b - a + 1  BY <1>3a, <2>2
      <3>2. (front \o back)[i] = a + (i - (a - 1)) - 1  BY SMTT(30), <1>3a, <1>2, <1>4, <2>2, <3>1
      <3> QED  BY <1>3a, <1>3, <3>2
    <2> QED  BY <1>3a, <2>1, <2>2
  <1>6. front \o back = all
    BY <1>3, <1>4, <1>5, SeqEqual
  <1> QED  BY <1>6 DEF front, back, all

----------------------------------------------------------------------------
(* Windows that follow each other up to the end of a last one. *)
Adjacent(ws, last) ==
    /\ ws # <<>> => ws[Len(ws)][2] = last
    /\ \A i \in 1 .. Len(ws) - 1 : ws[i + 1][1] = ws[i][2] + 1

(* The first day that is still to be listed. *)
Due == IF todo = <<>> THEN Year + 1 ELSE todo[1][1]

(* Slices of a window are windows that follow each other from its first to *)
(* its last day.                                                           *)
LEMMA SlicesPartition ==
    ASSUME NEW v \in Windows, NEW days \in Nat \ {0}
    PROVE  /\ Slices(v, days) \in Seq(Windows) /\ Slices(v, days) # <<>>
           /\ Slices(v, days)[1][1] = v[1]
           /\ Adjacent(Slices(v, days), v[2])
  <1> DEFINE n == (Width(v) + days - 1) \div days
             end(i) == IF v[1] + i * days - 1 < v[2] THEN v[1] + i * days - 1 ELSE v[2]
             slices == Slices(v, days)
  <1>1. /\ v[1] \in 1..Year /\ v[2] \in 1..Year /\ v[1] <= v[2]
        /\ Width(v) \in Nat \ {0} /\ Width(v) = v[2] - v[1] + 1
    BY WindowBounds
  <1>2. n \in Nat \ {0} /\ n * days >= Width(v) /\ (n - 1) * days < Width(v)
    <2>1. /\ Width(v) + days - 1 \in Nat /\ n \in Int
          /\ n * days <= Width(v) + days - 1 /\ Width(v) + days - 1 < n * days + days
      BY <1>1
    <2>2. (n - 1) * days = n * days - days
      BY <2>1
    <2>3. n * days >= Width(v) /\ (n - 1) * days < Width(v)
      BY <1>1, <2>1, <2>2
    <2>4. n > 0
      BY <1>1, <2>1, <2>3
    <2> QED  BY <2>1, <2>3, <2>4
  <1> HIDE DEF n
  <1>3. ASSUME NEW i \in 1..n
        PROVE  /\ (i - 1) * days \in Nat /\ (i - 1) * days < Width(v) /\ i * days = (i - 1) * days + days
               /\ end(i) \in v[1] .. v[2] /\ v[1] + (i - 1) * days <= end(i)
               /\ i = n => end(i) = v[2]
               /\ i < n => end(i) = v[1] + i * days - 1
    <2>1. (i - 1) * days \in Nat /\ (i - 1) * days <= (n - 1) * days
      BY <1>2
    <2>2. i * days = (i - 1) * days + days
      OBVIOUS
    <2>3. i < n => i * days <= (n - 1) * days
      BY <1>2
    <2> QED  BY <1>1, <1>2, <2>1, <2>2, <2>3
  <1>4. slices = [i \in 1..n |-> <<v[1] + (i - 1) * days, end(i)>>]
    BY DEF Slices, n
  <1> HIDE DEF slices, end
  <1>5. ASSUME NEW i \in 1..n PROVE <<v[1] + (i - 1) * days, end(i)>> \in Windows
    <2>1. v[1] + (i - 1) * days \in 1..Year /\ end(i) \in 1..Year /\ v[1] + (i - 1) * days <= end(i)
      BY SMTT(30), <1>1, <1>3, Numbers
    <2> QED  BY <2>1 DEF Windows
  <1>6. slices \in Seq(Windows) /\ Len(slices) = n
    <2>1. slices \in [1..n -> Windows]  BY <1>4, <1>5
    <2>2. slices \in Seq(Windows)  BY <1>2, <2>1, SeqDef
    <2> QED  BY <1>2, <1>4, <2>2, LenProperties
  <1>7. \A i \in 1..n : slices[i][1] = v[1] + (i - 1) * days /\ slices[i][2] = end(i)
    BY <1>4
  <1>8. slices # <<>>
    BY <1>2, <1>6, EmptySeq
  <1>9. slices[1][1] = v[1]
    BY <1>1, <1>2, <1>7
  <1>10. slices[Len(slices)][2] = v[2]
    BY <1>2, <1>3, <1>6, <1>7
  <1>11. ASSUME NEW i \in 1 .. n - 1 PROVE slices[i + 1][1] = slices[i][2] + 1
    <2>1. i \in 1..n /\ i < n /\ i + 1 \in 1..n  BY <1>2
    <2>2. slices[i + 1][1] = v[1] + ((i + 1) - 1) * days /\ (i + 1) - 1 = i
      BY <1>7, <2>1
    <2>3. slices[i][2] = v[1] + i * days - 1
      BY <1>3, <1>7, <2>1
    <2>4. i * days \in Nat  OBVIOUS
    <2> QED  BY <1>1, <2>2, <2>3, <2>4
  <1> QED  BY <1>6, <1>8, <1>9, <1>10, <1>11 DEF Adjacent, slices

----------------------------------------------------------------------------
(***************************************************************************)
(* The invariant                                                           *)
(***************************************************************************)
Busy == {"walk", "wait", "fired"}

(* What is on the disk and in memory, window by window. *)
StateInv ==
    /\ ended \in BOOLEAN /\ historical \in BOOLEAN /\ first \in FirstSplits
    /\ pc \in {"idle", "load", "close"} \cup Busy
    /\ cache \in {Absent, DaysOf(Whole)} /\ told \in {Absent, DaysOf(Whole)}
    /\ DOMAIN listing = Windows /\ \A v \in Windows : listing[v] \in {Absent, DaysOf(v)}
    /\ split \in [Windows -> Nat]
    /\ todo \in Seq(Windows)
    /\ kept \subseteq Windows

(* A run that caches is about a year that is over, and what it has listed  *)
(* and what is still to do make up the year.                               *)
WalkInv ==
    /\ historical => /\ ended
                     /\ Adjacent(todo, Year) /\ got = DaysOf(<<1, Due - 1>>)
    /\ pc = "idle" => ~historical
    /\ pc \in {"wait", "fired"} => todo # <<>>
    /\ pc = "close" => cache # Absent

(* Settled windows stay on the disk until the cache is there; and a window *)
(* is only asked for when it is not settled.                               *)
KeptInv ==
    /\ \A v \in kept : cache # Absent \/ listing[v] # Absent \/ split[v] # 0
    /\ historical /\ pc \in Busy => cache = Absent
    /\ historical /\ pc \in {"wait", "fired"} => listing[w] = Absent /\ split[w] = 0

(* The timer and the time spent outside the gate. *)
TimeInv == left \in Nat /\ worked \in Nat /\ worked + left <= Budget /\ stops \in Nat

IInv == StateInv /\ WalkInv /\ KeptInv

----------------------------------------------------------------------------
LEMMA ListedIsNotAbsent == ASSUME NEW v \in Windows PROVE DaysOf(v) # Absent
  <1>1. v = <<v[1], v[2]>> /\ v[1] \in 1 .. Year + 1 /\ v[2] \in 0 .. Year /\ v[1] <= v[2] + 1
    BY WindowBounds, Numbers
  <1>2. DaysOf(v) \in Seq(1..Year)
    BY <1>1, DaysAreDays
  <1> QED  BY <1>2, Numbers

(* The head of the stack is a window, and begins on the day that is due. *)
LEMMA HeadIsDue ==
    ASSUME StateInv, todo # <<>>
    PROVE  w \in Windows /\ w = todo[1] /\ Due = w[1] /\ Len(todo) \in Nat \ {0}
  <1>1. w \in Windows /\ Len(todo) \in Nat \ {0}
    BY HeadTailProperties, EmptySeq DEF StateInv, w
  <1>2. w = todo[1]
    BY DEF w
  <1> QED  BY <1>1, <1>2 DEF Due

(* What is left when the head is done, or replaced by its slices. *)
LEMMA TailAdjacent ==
    ASSUME NEW ws \in Seq(Windows), ws # <<>>, NEW last, Adjacent(ws, last)
    PROVE  /\ Tail(ws) \in Seq(Windows) /\ Adjacent(Tail(ws), last)
           /\ Tail(ws) = <<>> => ws[1][2] = last
           /\ Tail(ws) # <<>> => Tail(ws)[1][1] = ws[1][2] + 1
  <1> DEFINE rest == Tail(ws)
             n == Len(ws)
  <1>1. n \in Nat \ {0}
    BY EmptySeq
  <1>2. rest \in Seq(Windows) /\ Len(rest) = n - 1 /\ \A i \in 1 .. n - 1 : rest[i] = ws[i + 1]
    BY HeadTailProperties
  <1>3. ws[n][2] = last /\ \A i \in 1 .. n - 1 : ws[i + 1][1] = ws[i][2] + 1
    BY DEF Adjacent
  <1> HIDE DEF rest, n
  <1>4. CASE n = 1
    <2>1. rest = <<>>
      BY <1>2, <1>4, EmptySeq
    <2> QED  BY <1>2, <1>3, <1>4, <2>1 DEF Adjacent, rest
  <1>5. CASE n # 1
    <2>1. rest # <<>> /\ 1 \in 1 .. n - 1 /\ n - 1 \in 1 .. n - 1
      BY <1>1, <1>2, <1>5, EmptySeq
    <2>2. rest[1][1] = ws[1][2] + 1 /\ rest[Len(rest)][2] = last
      BY <1>1, <1>2, <1>3, <2>1
    <2>3. ASSUME NEW i \in 1 .. Len(rest) - 1 PROVE rest[i + 1][1] = rest[i][2] + 1
      <3>1. i \in 1 .. n - 1 /\ i + 1 \in 1 .. n - 1
        BY <1>1, <1>2
      <3> QED  BY <1>2, <1>3, <3>1
    <2> QED  BY <1>2, <2>1, <2>2, <2>3 DEF Adjacent, rest
  <1> QED  BY <1>4, <1>5

LEMMA JoinAdjacent ==
    ASSUME NEW front \in Seq(Windows), NEW back \in Seq(Windows), front # <<>>, NEW middle, NEW last,
           Adjacent(front, middle), Adjacent(back, last),
           back = <<>> => middle = last,
           back # <<>> => back[1][1] = middle + 1
    PROVE  Adjacent(front \o back, last)
  <1> DEFINE ws == front \o back
             m == Len(front)
             n == Len(back)
  <1>1. m \in Nat \ {0} /\ n \in Nat /\ (back = <<>> <=> n = 0)
    BY EmptySeq, LenProperties
  <1>2. /\ ws \in Seq(Windows) /\ Len(ws) = m + n
        /\ \A i \in 1 .. m + n : ws[i] = IF i <= m THEN front[i] ELSE back[i - m]
    BY ConcatProperties
  <1>3. front[m][2] = middle /\ \A i \in 1 .. m - 1 : front[i + 1][1] = front[i][2] + 1
    BY DEF Adjacent
  <1>4. /\ n # 0 => back[n][2] = last /\ back[1][1] = middle + 1
        /\ n = 0 => middle = last
        /\ \A i \in 1 .. n - 1 : back[i + 1][1] = back[i][2] + 1
    BY <1>1 DEF Adjacent
  <1> HIDE DEF ws, m, n
  <1>5. ws[m + n][2] = last
    <2>1. CASE n = 0
      <3>1. ws[m + n] = front[m]  BY <1>1, <1>2, <2>1
      <3> QED  BY <1>3, <1>4, <2>1, <3>1
    <2>2. CASE n # 0
      <3>1. m + n \in 1 .. m + n /\ ~(m + n <= m) /\ (m + n) - m = n  BY <1>1, <2>2
      <3>2. ws[m + n] = back[n]  BY <1>2, <3>1
      <3> QED  BY <1>4, <2>2, <3>2
    <2> QED  BY <2>1, <2>2
  <1>6. ASSUME NEW i \in 1 .. (m + n) - 1 PROVE ws[i + 1][1] = ws[i][2] + 1
    <2>1. CASE i < m
      <3>1. i \in 1 .. m - 1 /\ ws[i] = front[i] /\ ws[i + 1] = front[i + 1]
        BY <1>1, <1>2, <2>1
      <3> QED  BY <1>3, <3>1
    <2>2. CASE i = m
      <3>1. n # 0 /\ ws[i] = front[m] /\ ws[i + 1] = back[1]
        BY <1>1, <1>2, <2>2
      <3> QED  BY <1>3, <1>4, <3>1
    <2>3. CASE i > m
      <3>1. /\ i - m \in 1 .. n - 1 /\ (i + 1) - m = (i - m) + 1
            /\ ws[i] = back[i - m] /\ ws[i + 1] = back[(i + 1) - m]
        BY <1>1, <1>2, <2>3
      <3> QED  BY <1>4, <3>1
    <2> QED  BY <1>1, <2>1, <2>2, <2>3
  <1> QED  BY <1>1, <1>2, <1>5, <1>6 DEF Adjacent, ws

LEMMA HeadOfConcat ==
    ASSUME NEW front \in Seq(Windows), NEW back \in Seq(Windows), front # <<>>
    PROVE  front \o back \in Seq(Windows) /\ front \o back # <<>> /\ (front \o back)[1] = front[1]
  <1>1. Len(front) \in Nat \ {0} /\ Len(back) \in Nat
    BY EmptySeq, LenProperties
  <1>2. /\ front \o back \in Seq(Windows) /\ Len(front \o back) = Len(front) + Len(back)
        /\ \A i \in 1 .. Len(front) + Len(back) :
               (front \o back)[i] = IF i <= Len(front) THEN front[i] ELSE back[i - Len(front)]
    BY ConcatProperties
  <1>3. Len(front \o back) > 0 /\ 1 \in 1 .. Len(front) + Len(back) /\ 1 <= Len(front)
    BY <1>1, <1>2
  <1>4. front \o back # <<>>
    BY <1>3, EmptySeq
  <1> QED  BY <1>2, <1>3, <1>4

(* Settling the head with all its days. *)
LEMMA HeadDone ==
    ASSUME StateInv, WalkInv, historical, todo # <<>>, todo' = Tail(todo), got' = got \o DaysOf(w)
    PROVE  Adjacent(todo', Year) /\ got' = DaysOf(<<1, Due' - 1>>) /\ todo' \in Seq(Windows)
  <1>1. w \in Windows /\ w = todo[1] /\ Due = w[1]
    BY HeadIsDue
  <1>2. /\ Tail(todo) \in Seq(Windows) /\ Adjacent(Tail(todo), Year)
        /\ Tail(todo) = <<>> => w[2] = Year
        /\ Tail(todo) # <<>> => Tail(todo)[1][1] = w[2] + 1
    BY <1>1, TailAdjacent DEF StateInv, WalkInv
  <1>3. w = <<w[1], w[2]>> /\ w[1] \in 1..Year /\ w[2] \in 1..Year /\ w[1] <= w[2]
    BY <1>1, WindowBounds
  <1>4. Due' - 1 = w[2]
    <2>1. CASE Tail(todo) = <<>>
      <3>1. Due' = Year + 1 /\ w[2] = Year  BY <1>2, <2>1 DEF Due
      <3> QED  BY <3>1, Numbers
    <2>2. CASE Tail(todo) # <<>>
      <3>1. Due' = w[2] + 1  BY <1>2, <2>2 DEF Due
      <3>2. w[2] \in Nat  BY <1>3, Numbers
      <3> QED  BY <3>1, <3>2
    <2> QED  BY <2>1, <2>2
  <1>5. got = DaysOf(<<1, w[1] - 1>>)
    BY <1>1 DEF WalkInv
  <1>6. DaysOf(<<1, w[1] - 1>>) \o DaysOf(<<w[1], w[2]>>) = DaysOf(<<1, w[2]>>)
    BY <1>3, DaysOn
  <1>7. got' = DaysOf(<<1, w[2]>>)
    BY <1>3, <1>5, <1>6
  <1> QED  BY <1>2, <1>4, <1>7

(* Replacing the head by slices of it. *)
LEMMA HeadSplit ==
    ASSUME StateInv, todo # <<>>, NEW days \in Nat \ {0}, todo' = Slices(w, days) \o Tail(todo)
    PROVE  /\ todo' \in Seq(Windows) /\ Due' = Due
           /\ Adjacent(todo, Year) => Adjacent(todo', Year)
  <1>1. w \in Windows /\ w = todo[1] /\ Due = w[1]
    BY HeadIsDue
  <1>2. /\ Slices(w, days) \in Seq(Windows) /\ Slices(w, days) # <<>>
        /\ Slices(w, days)[1][1] = w[1] /\ Adjacent(Slices(w, days), w[2])
    BY <1>1, SlicesPartition
  <1>3. Tail(todo) \in Seq(Windows)
    BY HeadTailProperties DEF StateInv
  <1>4. todo' \in Seq(Windows) /\ todo' # <<>> /\ todo'[1] = Slices(w, days)[1]
    BY <1>2, <1>3, HeadOfConcat
  <1>5. Due' = Due
    BY <1>1, <1>2, <1>4 DEF Due
  <1>6. ASSUME Adjacent(todo, Year) PROVE Adjacent(todo', Year)
    <2>1. /\ Adjacent(Tail(todo), Year)
          /\ Tail(todo) = <<>> => w[2] = Year
          /\ Tail(todo) # <<>> => Tail(todo)[1][1] = w[2] + 1
      BY <1>1, <1>6, TailAdjacent DEF StateInv
    <2> QED  BY <1>2, <1>3, <2>1, JoinAdjacent
  <1> QED  BY <1>4, <1>5, <1>6

----------------------------------------------------------------------------
(* A split is narrower than its window, and wide enough to be one. *)
LEMMA SplitIsNumber == ASSUME first \in FirstSplits PROVE NextSplit(w) \in Nat
  BY Numbers DEF NextSplit

(* The windows listed before count as the days they hold. *)
LEMMA ListedDays ==
    ASSUME StateInv, NEW v \in Windows, listing[v] # Absent
    PROVE  listing[v] = DaysOf(v)
  BY DEF StateInv

LEMMA HeldDays ==
    ASSUME ended, NEW v PROVE Held(v) = DaysOf(v)
  BY DEF Held

(* A run starts with the whole year to do, and knows whether it is over.   *)
LEMMA StartKeeps == ASSUME IInv, Start PROVE IInv'
  <1>1. /\ pc' = "load" /\ historical' = ended /\ first' \in FirstSplits
        /\ todo' = <<Whole>> /\ got' = <<>>
        /\ UNCHANGED <<ended, cache, listing, split, kept, told>>
    BY DEF Start, disk, history
  <1>2. todo' \in Seq(Windows) /\ Due' = 1 /\ Adjacent(todo', Year)
    <2>1. /\ todo' \in Seq(Windows) /\ todo' # <<>> /\ todo'[1] = Whole /\ Len(todo') = 1
      BY <1>1, WholeIsWindow
    <2> QED  BY <2>1, WholeIsWindow DEF Due, Adjacent
  <1>3. got' = DaysOf(<<1, Due' - 1>>)
    <2>1. DaysOf(<<1, 0>>) \in Seq(1..Year) /\ Len(DaysOf(<<1, 0>>)) = 0
      BY DaysAreDays, Numbers
    <2>2. DaysOf(<<1, 0>>) = <<>>
      BY <2>1, EmptySeq
    <2> QED  BY <1>1, <1>2, <2>2
  <1>4. StateInv'
    BY <1>1, <1>2 DEF IInv, StateInv
  <1>5. WalkInv'
    BY <1>1, <1>2, <1>3 DEF IInv, StateInv, WalkInv
  <1>6. KeptInv'
    BY <1>1 DEF IInv, KeptInv, Busy
  <1> QED  BY <1>4, <1>5, <1>6 DEF IInv

(* The run looks at the cache, or not, and goes on with what there is.     *)
LEMMA LoadKeeps == ASSUME IInv, UseCache \/ NoCache PROVE IInv'
  <1>1. /\ UNCHANGED <<ended, cache, listing, split, kept, told, historical, first, todo, got>>
        /\ pc = "load" /\ pc' \in {"close", "walk"}
        /\ pc' = "close" => cache # Absent
        /\ pc' = "walk" /\ historical => cache = Absent
    BY DEF UseCache, NoCache, disk, run, history
  <1>2. StateInv'
    BY <1>1 DEF IInv, StateInv, Busy
  <1>3. WalkInv'
    BY <1>1 DEF IInv, WalkInv, Due, Adjacent
  <1>4. KeptInv'
    BY <1>1 DEF IInv, KeptInv, Busy
  <1> QED  BY <1>2, <1>3, <1>4 DEF IInv

LEMMA ReuseKeeps == ASSUME IInv, ReuseListing PROVE IInv'
  <1>1. /\ todo # <<>> /\ historical /\ listing[w] # Absent /\ pc = "walk" /\ pc' = "walk"
        /\ got' = got \o listing[w] /\ todo' = Tail(todo)
        /\ UNCHANGED <<ended, cache, listing, split, kept, told, historical, first>>
    BY DEF ReuseListing, Walking, Listed, disk, history
  <1>2. got' = got \o DaysOf(w)
    BY <1>1, HeadIsDue, ListedDays DEF IInv
  <1>3. Adjacent(todo', Year) /\ got' = DaysOf(<<1, Due' - 1>>) /\ todo' \in Seq(Windows)
    BY <1>1, <1>2, HeadDone DEF IInv
  <1>4. StateInv'
    BY <1>1, <1>3 DEF IInv, StateInv
  <1>5. WalkInv'
    BY <1>1, <1>3 DEF IInv, WalkInv
  <1>6. KeptInv'
    BY <1>1 DEF IInv, KeptInv, Busy
  <1> QED  BY <1>4, <1>5, <1>6 DEF IInv

LEMMA PlanKeeps == ASSUME IInv, FollowPlan PROVE IInv'
  <1>1. /\ todo # <<>> /\ historical /\ split[w] # 0 /\ pc = "walk" /\ pc' = "walk"
        /\ todo' = Slices(w, split[w]) \o Tail(todo)
        /\ UNCHANGED <<ended, cache, listing, split, kept, told, historical, first, got>>
    BY DEF FollowPlan, Walking, Planned, disk, history
  <1>2. split[w] \in Nat \ {0}
    BY <1>1, HeadIsDue DEF IInv, StateInv
  <1>3. todo' \in Seq(Windows) /\ Due' = Due /\ (Adjacent(todo, Year) => Adjacent(todo', Year))
    BY <1>1, <1>2, HeadSplit DEF IInv
  <1>4. StateInv'
    BY <1>1, <1>3 DEF IInv, StateInv
  <1>5. WalkInv'
    BY <1>1, <1>3 DEF IInv, WalkInv
  <1>6. KeptInv'
    BY <1>1 DEF IInv, KeptInv, Busy
  <1> QED  BY <1>4, <1>5, <1>6 DEF IInv

LEMMA AskKeeps == ASSUME IInv, Ask PROVE IInv'
  <1>1. /\ todo # <<>> /\ pc = "walk" /\ pc' = "wait"
        /\ historical => listing[w] = Absent /\ split[w] = 0
        /\ UNCHANGED <<ended, cache, listing, split, kept, told, historical, first, todo, got>>
    <2>1. split[w] \in Nat /\ w' = w
      BY HeadIsDue DEF IInv, StateInv, Ask, Walking, run, w
    <2> QED  BY <2>1 DEF Ask, Walking, Listed, Planned, disk, run, history
  <1>2. w' = w
    BY <1>1 DEF w
  <1>3. StateInv'
    BY <1>1 DEF IInv, StateInv, Busy
  <1>4. WalkInv'
    BY <1>1 DEF IInv, WalkInv, Due, Adjacent
  <1>5. KeptInv'
    BY <1>1, <1>2 DEF IInv, KeptInv, Busy
  <1> QED  BY <1>3, <1>4, <1>5 DEF IInv

(* Steps of the query, of the timer and of attempts: the run stays where   *)
(* it is in the year.                                                      *)
LEMMA WaitingKeeps ==
    ASSUME IInv, pc \in {"wait", "fired"}, pc' \in {"wait", "fired"},
           UNCHANGED <<ended, cache, listing, split, kept, told, historical, first, todo, got>>
    PROVE  IInv'
  <1>1. w' = w
    BY DEF w
  <1>2. StateInv'
    BY DEF IInv, StateInv, Busy
  <1>3. WalkInv'
    BY DEF IInv, WalkInv, Due, Adjacent
  <1>4. KeptInv'
    BY <1>1 DEF IInv, KeptInv, Busy
  <1> QED  BY <1>2, <1>3, <1>4 DEF IInv

LEMMA AnsweredKeeps == ASSUME IInv, Answered PROVE IInv'
  <1>1. /\ pc = "wait" /\ pc' = "walk" /\ todo' = Tail(todo) /\ got' = got \o Held(w)
        /\ listing' = IF historical THEN [listing EXCEPT ![w] = Held(w)] ELSE listing
        /\ kept' = IF historical THEN kept \cup {w} ELSE kept
        /\ UNCHANGED <<ended, cache, split, told, historical, first>>
    BY DEF Answered, Settle
  <1>2. todo # <<>> /\ w \in Windows
    BY <1>1, HeadIsDue DEF IInv, WalkInv
  <1>3. todo' \in Seq(Windows)
    BY <1>1, <1>2, HeadTailProperties DEF IInv, StateInv
  <1>4. CASE ~historical
    <2>1. StateInv'  BY <1>1, <1>3, <1>4 DEF IInv, StateInv, Busy
    <2>2. WalkInv'  BY <1>1, <1>4 DEF IInv, WalkInv
    <2>3. KeptInv'  BY <1>1, <1>4 DEF IInv, KeptInv, Busy
    <2> QED  BY <2>1, <2>2, <2>3 DEF IInv
  <1>5. CASE historical
    <2>1. Held(w) = DaysOf(w)
      BY <1>5, HeldDays DEF IInv, WalkInv
    <2>2. /\ DOMAIN listing' = Windows /\ listing'[w] = DaysOf(w) /\ DaysOf(w) # Absent
          /\ \A v \in Windows : v # w => listing'[v] = listing[v]
      BY <1>1, <1>2, <1>5, <2>1, ListedIsNotAbsent DEF IInv, StateInv
    <2>3. Adjacent(todo', Year) /\ got' = DaysOf(<<1, Due' - 1>>)
      BY <1>1, <1>2, <1>5, <2>1, HeadDone DEF IInv
    <2>4. StateInv'
      BY <1>1, <1>2, <1>3, <1>5, <2>2 DEF IInv, StateInv, Busy
    <2>5. WalkInv'
      BY <1>1, <1>5, <2>3 DEF IInv, WalkInv
    <2>6. KeptInv'
      <3>1. \A v \in kept' : cache' # Absent \/ listing'[v] # Absent \/ split'[v] # 0
        BY <1>1, <1>5, <2>2 DEF IInv, KeptInv, StateInv
      <3>2. cache' = Absent
        BY <1>1, <1>5 DEF IInv, KeptInv, Busy
      <3> QED  BY <1>1, <3>1, <3>2 DEF KeptInv
    <2> QED  BY <2>4, <2>5, <2>6 DEF IInv
  <1> QED  BY <1>4, <1>5

LEMMA SplitKeeps == ASSUME IInv, Split PROVE IInv'
  <1>1. /\ pc = "fired" /\ pc' = "walk" /\ NextSplit(w) # 0
        /\ todo' = Slices(w, NextSplit(w)) \o Tail(todo)
        /\ split' = IF historical THEN [split EXCEPT ![w] = NextSplit(w)] ELSE split
        /\ kept' = IF historical THEN kept \cup {w} ELSE kept
        /\ UNCHANGED <<ended, cache, listing, told, historical, first, got>>
    BY DEF Split, Expired, Settle
  <1>2. todo # <<>> /\ w \in Windows /\ NextSplit(w) \in Nat \ {0}
    BY <1>1, HeadIsDue, SplitIsNumber DEF IInv, StateInv, WalkInv
  <1>3. todo' \in Seq(Windows) /\ Due' = Due /\ (Adjacent(todo, Year) => Adjacent(todo', Year))
    BY <1>1, <1>2, HeadSplit DEF IInv
  <1>4. /\ split' \in [Windows -> Nat] /\ historical => split'[w] # 0
        /\ \A v \in Windows : v # w => split'[v] = split[v]
    BY <1>1, <1>2 DEF IInv, StateInv
  <1>5. StateInv'
    BY <1>1, <1>2, <1>3, <1>4 DEF IInv, StateInv, Busy
  <1>6. WalkInv'
    BY <1>1, <1>3 DEF IInv, WalkInv
  <1>7. KeptInv'
    <2>1. \A v \in kept' : cache' # Absent \/ listing'[v] # Absent \/ split'[v] # 0
      BY <1>1, <1>4 DEF IInv, KeptInv, StateInv
    <2>2. historical' => cache' = Absent
      BY <1>1 DEF IInv, KeptInv, Busy
    <2> QED  BY <1>1, <2>1, <2>2 DEF KeptInv
  <1> QED  BY <1>5, <1>6, <1>7 DEF IInv

(* The end of a run, wherever it comes, leaves the disk as it is.          *)
LEMMA EndKeeps ==
    ASSUME IInv, pc' = "idle", Forget, UNCHANGED <<ended, cache, listing, split, kept, told, first>>
    PROVE  IInv'
  <1>1. historical' = FALSE /\ todo' = <<>> /\ todo' \in Seq(Windows)
    BY DEF Forget
  <1>2. StateInv'
    BY <1>1 DEF IInv, StateInv
  <1>3. WalkInv'
    BY <1>1 DEF WalkInv
  <1>4. KeptInv'
    BY <1>1 DEF IInv, KeptInv
  <1> QED  BY <1>2, <1>3, <1>4 DEF IInv

LEMMA InstallKeeps == ASSUME IInv, Install PROVE IInv'
  <1>1. /\ todo = <<>> /\ historical /\ pc' = "close" /\ cache' = got
        /\ UNCHANGED <<ended, listing, split, kept, told, historical, first, todo, got>>
    BY DEF Install, history
  <1>2. got = DaysOf(Whole)
    <2>1. Due - 1 = Year
      BY <1>1, Numbers DEF Due
    <2> QED  BY <1>1, <2>1 DEF IInv, WalkInv, Whole
  <1>3. DaysOf(Whole) # Absent
    BY WholeIsWindow, ListedIsNotAbsent
  <1>4. StateInv'
    BY <1>1, <1>2 DEF IInv, StateInv
  <1>5. WalkInv'
    BY <1>1, <1>2, <1>3 DEF IInv, WalkInv, Due, Adjacent
  <1>6. KeptInv'
    BY <1>1, <1>2, <1>3 DEF KeptInv, Busy
  <1> QED  BY <1>4, <1>5, <1>6 DEF IInv

(* Window files are removed once the cache is there.                       *)
LEMMA RemoveKeeps == ASSUME IInv, RemoveWindow PROVE IInv'
  <1>1. pc = "close" /\ pc' = pc /\ UNCHANGED <<ended, cache, kept, told, historical, first, todo, got>>
    BY DEF RemoveWindow, Closing, run, history
  <1>2. PICK v \in Windows : listing' = [listing EXCEPT ![v] = Absent] /\ split' = [split EXCEPT ![v] = 0]
    BY DEF RemoveWindow
  <1>3. StateInv'
    <2>1. DOMAIN listing' = Windows /\ \A u \in Windows : listing'[u] \in {Absent, DaysOf(u)}
      BY <1>2 DEF IInv, StateInv
    <2>2. split' \in [Windows -> Nat]
      BY <1>2 DEF IInv, StateInv
    <2> QED  BY <1>1, <2>1, <2>2 DEF IInv, StateInv
  <1>4. WalkInv'
    BY <1>1 DEF IInv, WalkInv, Due, Adjacent
  <1>5. KeptInv'
    <2>1. cache' # Absent
      BY <1>1 DEF IInv, WalkInv
    <2> QED  BY <1>1, <2>1 DEF KeptInv, Busy
  <1> QED  BY <1>3, <1>4, <1>5 DEF IInv

(* Announcing the cache, finishing to clear, and the clock: nothing that   *)
(* the invariant speaks of but what is announced.                          *)
LEMMA CloseKeeps == ASSUME IInv, Cleared \/ Tell \/ NewYear \/ UNCHANGED vars PROVE IInv'
  <1>1. /\ UNCHANGED <<cache, listing, split, kept, historical, first, todo, got, pc>>
        /\ ended' \in BOOLEAN /\ (ended => ended') /\ told' \in {told, cache}
    BY DEF IInv, StateInv, Cleared, Tell, NewYear, vars, disk, run, history
  <1>2. w' = w
    BY <1>1 DEF w
  <1>3. StateInv'
    BY <1>1 DEF IInv, StateInv
  <1>4. WalkInv'
    BY <1>1 DEF IInv, WalkInv, Due, Adjacent
  <1>5. KeptInv'
    BY <1>1, <1>2 DEF IInv, KeptInv
  <1> QED  BY <1>3, <1>4, <1>5 DEF IInv

LEMMA InitIInv == Init => IInv
  <1> SUFFICES ASSUME Init PROVE IInv  OBVIOUS
  <1>1. StateInv
    <2>1. todo \in Seq(Windows) /\ split \in [Windows -> Nat]
      BY DEF Init
    <2>2. DOMAIN listing = Windows /\ \A v \in Windows : listing[v] = Absent
      BY DEF Init
    <2> QED  BY <2>1, <2>2 DEF Init, StateInv
  <1>2. WalkInv  BY DEF Init, WalkInv
  <1>3. KeptInv  BY DEF Init, KeptInv
  <1> QED  BY <1>1, <1>2, <1>3 DEF IInv

LEMMA NextKeeps == IInv /\ [Next]_vars => IInv'
  <1> SUFFICES ASSUME IInv, [Next]_vars PROVE IInv'  OBVIOUS
  <1>1. CASE Start  BY <1>1, StartKeeps
  <1>2. CASE UseCache \/ NoCache  BY <1>2, LoadKeeps
  <1>3. CASE ReuseListing  BY <1>3, ReuseKeeps
  <1>4. CASE FollowPlan  BY <1>4, PlanKeeps
  <1>5. CASE Ask  BY <1>5, AskKeeps
  <1>6. CASE Answered  BY <1>6, AnsweredKeeps
  <1>7. CASE Split  BY <1>7, SplitKeeps
  <1>8. CASE Install  BY <1>8, InstallKeeps
  <1>9. CASE RemoveWindow  BY <1>9, RemoveKeeps
  <1>10. CASE Cleared \/ Tell \/ NewYear \/ UNCHANGED vars  BY <1>10, CloseKeeps
  <1>11. CASE Retry \/ LateRetry \/ TimerFires \/ WaitOn \/ Tick
    BY <1>11, WaitingKeeps DEF Retry, LateRetry, TryAgain, TimerFires, WaitOn, Tick, disk, run, history
  <1>12. CASE Exhausted \/ LateExhausted \/ TooSlow \/ Deliver \/ Done \/ Stop
    BY <1>12, EndKeeps DEF Exhausted, LateExhausted, TooSlow, FailYear, Deliver, Done, Stop, disk, history
  <1>13. CASE PassGate \/ NextPage \/ \E r \in Replies : Reply(r)
    <2>1. UNCHANGED <<ended, disk, pc, run, history>>
      BY <1>13 DEF PassGate, NextPage, Reply
    <2>2. w' = w
      BY <2>1 DEF run, w
    <2>3. StateInv'
      BY <2>1 DEF IInv, StateInv, disk, run, history
    <2>4. WalkInv'
      BY <2>1 DEF IInv, WalkInv, Due, Adjacent, disk, run
    <2>5. KeptInv'
      BY <2>1, <2>2 DEF IInv, KeptInv, disk, run, history
    <2> QED  BY <2>3, <2>4, <2>5 DEF IInv
  <1> QED
    BY <1>1, <1>2, <1>3, <1>4, <1>5, <1>6, <1>7, <1>8, <1>9, <1>10, <1>11, <1>12, <1>13
    DEF Next, Run, Query

THEOREM Invariance == Spec => []IInv
  <1>1. Init => IInv  BY InitIInv
  <1>2. IInv /\ [Next]_vars => IInv'  BY NextKeeps
  <1> QED  BY <1>1, <1>2, PTL DEF Spec

(* The annual cache, installed or announced, holds each day of the year    *)
(* once and in order, whatever windows, splits and runs it was assembled   *)
(* from.                                                                   *)
THEOREM WholeYearForever == Spec => []WholeYear
  <1>1. IInv => WholeYear
    BY DEF IInv, StateInv, WholeYear
  <1>2. Spec => []IInv  BY Invariance
  <1> QED  BY <1>1, <1>2, PTL

(* No run asks for a window of a past year that was answered or split.     *)
THEOREM NeverAskedAgain == Spec => []AskedOnce
  <1>1. IInv => AskedOnce
    BY DEF IInv, KeptInv, Busy, AskedOnce
  <1>2. Spec => []IInv  BY Invariance
  <1> QED  BY <1>1, <1>2, PTL

----------------------------------------------------------------------------
(* What the timer has left and what was spent outside the gate never sum   *)
(* to more than the budget: time in the gate is added to neither.          *)
LEMMA PartOfBudget == ASSUME NEW x \in Nat, NEW y \in Nat, x + y <= Budget PROVE x <= Budget
  <1>1. Budget \in Nat  BY Numbers
  <1> QED  BY <1>1

LEMMA OneTick ==
    ASSUME NEW x \in Nat, NEW y \in Nat, y > 0, x + y <= Budget, NEW z \in {x, x + 1}
    PROVE  y - 1 \in Nat /\ z \in Nat /\ z + (y - 1) <= Budget
  <1>1. Budget \in Nat  BY Numbers
  <1> QED  BY <1>1

LEMMA NextKeepsTime == TimeInv /\ [Next]_vars => TimeInv'
  <1> SUFFICES ASSUME TimeInv, [Next]_vars PROVE TimeInv'  OBVIOUS
  <1>1. CASE left' = Budget /\ worked' = 0 /\ stops' = stops
    BY <1>1, Numbers DEF TimeInv
  <1>2. CASE left' = 0 /\ worked' = 0 /\ stops' \in {stops, stops + 1}
    BY <1>2, Numbers DEF TimeInv
  <1>3. CASE UNCHANGED <<left, worked, stops>>
    BY <1>3 DEF TimeInv
  <1>4. CASE Tick
    <2>1. left' = left - 1 /\ left > 0 /\ worked' \in {worked, worked + 1} /\ stops' = stops
      BY <1>4 DEF Tick, history
    <2>2. /\ left - 1 \in Nat /\ worked' \in Nat /\ worked' + (left - 1) <= Budget /\ stops \in Nat
      BY <2>1, OneTick DEF TimeInv
    <2> QED  BY <2>1, <2>2 DEF TimeInv
  <1>5. CASE WaitOn
    <2>1. worked < Budget /\ left' = Budget - worked /\ worked' = worked /\ stops' = stops
      BY <1>5 DEF WaitOn, history
    <2> QED  BY <2>1, Numbers DEF TimeInv
  <1>6. CASE Ask \/ Retry \/ LateRetry
    BY <1>1, <1>6 DEF Ask, Retry, LateRetry, TryAgain, Submit, history
  <1>7. CASE Answered \/ Exhausted \/ LateExhausted \/ Split \/ TooSlow \/ Stop
    BY <1>2, <1>7 DEF Answered, Exhausted, LateExhausted, FailYear, Split, TooSlow, Stop, NoQuery, history
  <1>8. CASE Start \/ UseCache \/ NoCache \/ ReuseListing \/ FollowPlan \/ TimerFires \/ Install
             \/ Deliver \/ RemoveWindow \/ Cleared \/ Tell \/ Done
    BY <1>3, <1>8
    DEF Start, UseCache, NoCache, ReuseListing, FollowPlan, TimerFires, Install, Deliver, RemoveWindow,
        Cleared, Tell, Done, asking, history
  <1>9. CASE PassGate \/ NextPage \/ (\E r \in Replies : Reply(r)) \/ NewYear \/ UNCHANGED vars
    BY <1>3, <1>9 DEF PassGate, NextPage, Reply, NewYear, vars, asking, history
  <1> QED
    BY <1>4, <1>5, <1>6, <1>7, <1>8, <1>9 DEF Next, Run, Query

(* A query is given up for its slowness only when it had its whole budget  *)
(* outside the gate, and no query has more.                                *)
THEOREM BudgetIsHonest == Spec => BudgetHonest
  <1>1. Init => TimeInv
    BY Numbers DEF Init, TimeInv
  <1>2. TimeInv /\ [Next]_vars => TimeInv'  BY NextKeepsTime
  <1>3. TimeInv /\ TimeInv' /\ [Next]_vars
        => [ /\ pc = "fired" /\ Running /\ pc' \in {"walk", "idle"} /\ UNCHANGED stops => worked = Budget
             /\ worked' <= Budget ]_vars
    <2> SUFFICES ASSUME TimeInv, TimeInv', Next
                 PROVE  /\ pc = "fired" /\ Running /\ pc' \in {"walk", "idle"} /\ UNCHANGED stops => worked = Budget
                        /\ worked' <= Budget
      OBVIOUS
    <2>1. worked' <= Budget
      <3>1. left' \in Nat /\ worked' \in Nat /\ worked' + left' <= Budget  BY DEF TimeInv
      <3> QED  BY <3>1, PartOfBudget
    <2>2. ASSUME pc = "fired", Running, pc' \in {"walk", "idle"}, UNCHANGED stops PROVE worked = Budget
      <3>1. ~Stop
        BY <2>2 DEF Stop, TimeInv
      <3>2. Split \/ TooSlow
        BY <2>2, <3>1
        DEF Next, Run, Query, Start, UseCache, NoCache, ReuseListing, FollowPlan, Ask, Walking, Answered, Retry,
            Exhausted, TimerFires, LateRetry, LateExhausted, WaitOn, Install, Deliver, RemoveWindow, Cleared,
            Tell, Done, Closing, PassGate, NextPage, Tick, Reply, NewYear
      <3> QED  BY <3>2, Numbers DEF Split, TooSlow, Expired, TimeInv
    <2> QED  BY <2>1, <2>2
  <1> QED  BY <1>1, <1>2, <1>3, PTL DEF Spec, BudgetHonest
=============================================================================
