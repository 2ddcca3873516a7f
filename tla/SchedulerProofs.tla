-------------------------- MODULE SchedulerProofs --------------------------
(***************************************************************************)
(* Theorems about Scheduler, for every set of ids and of writers, every    *)
(* list of defaults and every number of calls: what the file and the list  *)
(* hold, whom m.running names, how many processes a script can have and    *)
(* when a Stop finds them, what a process executes, and that an id names   *)
(* one script, which only an edit of that id changes.                      *)
(***************************************************************************)
EXTENDS Scheduler, Integers, SequenceTheorems, FiniteSetTheorems, TLAPS

-----------------------------------------------------------------------------
(* What the operations on arrays return.                                     *)

LEMMA GrownArray ==
  ASSUME NEW a \in Seq(Slots)
  PROVE  /\ Grown(a) \in Seq(Slots)
         /\ Len(Grown(a)) > Len(a)
         /\ \A k \in 1..Len(a) : Grown(a)[k] = a[k]
<1> DEFINE n == IF a = <<>> THEN 1 ELSE Len(a)
           b == [i \in 1..n |-> Unused]
<1>1. n \in Nat /\ n > 0
  BY EmptySeq
<1>2. b \in Seq(Slots) /\ Len(b) = n
  BY <1>1 DEF Slots
<1>3. /\ a \o b \in Seq(Slots)
      /\ Len(a \o b) = Len(a) + Len(b)
      /\ \A i \in 1..(Len(a) + Len(b)) :
           (a \o b)[i] = IF i <= Len(a) THEN a[i] ELSE b[i - Len(a)]
  BY <1>2, ConcatProperties
<1>4. Grown(a) = a \o b
  BY DEF Grown
<1> QED BY <1>1, <1>2, <1>3, <1>4, LenProperties

LEMMA LoadedArray ==
  ASSUME NEW l \in Seq(Scripts), NEW spare \in Nat
  PROVE  /\ Loaded(l, spare) \in Seq(Slots)
         /\ Len(l) <= Len(Loaded(l, spare))
         /\ \A k \in 1..Len(l) : Loaded(l, spare)[k] \in Scripts
        /\ \A k \in 1..Len(l) : Loaded(l, spare)[k] = l[k]
<1> DEFINE b == [i \in 1..spare |-> Unused]
<1>1. b \in Seq(Slots) /\ Len(b) = spare
  BY DEF Slots
<1>2. l \in Seq(Slots)
  BY SeqMonotonic DEF Slots
<1>3. /\ l \o b \in Seq(Slots)
      /\ Len(l \o b) = Len(l) + Len(b)
      /\ \A i \in 1..(Len(l) + Len(b)) :
           (l \o b)[i] = IF i <= Len(l) THEN l[i] ELSE b[i - Len(l)]
  BY <1>1, <1>2, ConcatProperties
<1>4. Len(l) \in Nat /\ \A k \in 1..Len(l) : l[k] \in Scripts
  BY LenProperties, ElementOfSeq
<1> QED BY <1>1, <1>3, <1>4 DEF Loaded

LEMMA WithoutArray ==
  ASSUME NEW a \in Seq(Slots), NEW n \in 1..Len(a), NEW i \in 1..n
  PROVE  /\ Without(a, i, n) \in Seq(Slots)
         /\ Len(Without(a, i, n)) = Len(a)
         /\ \A k \in 1..Len(a) :
              Without(a, i, n)[k] =
                IF i <= k /\ k < n THEN a[k + 1] ELSE a[k]
<1> DEFINE x == SubSeq(a, 1, i - 1)
           y == SubSeq(a, i + 1, n)
           z == SubSeq(a, n, Len(a))
<1>0. Len(a) \in Nat /\ n \in Nat /\ i \in Nat /\ \A k \in 1..Len(a) : a[k] \in Slots
  BY LenProperties, ElementOfSeq
<1>1. /\ x \in Seq(Slots) /\ Len(x) = i - 1
      /\ \A k \in 1..(i - 1) : x[k] = a[k]
  <2>1. \A k \in 1..(i - 1) : a[k] \in Slots
    BY <1>0
  <2>2. /\ x \in Seq(Slots)
        /\ Len(x) = IF 1 <= i - 1 THEN i - 1 - 1 + 1 ELSE 0
        /\ \A k \in 1..(i - 1 - 1 + 1) : x[k] = a[1 + k - 1]
    BY <1>0, <2>1, SubSeqProperties
  <2> QED BY <1>0, <2>2
<1>2. /\ y \in Seq(Slots) /\ Len(y) = n - i
      /\ \A k \in 1..(n - i) : y[k] = a[i + k]
  <2>1. \A k \in (i + 1)..n : a[k] \in Slots
    BY <1>0
  <2>2. /\ y \in Seq(Slots)
        /\ Len(y) = IF i + 1 <= n THEN n - (i + 1) + 1 ELSE 0
        /\ \A k \in 1..(n - (i + 1) + 1) : y[k] = a[(i + 1) + k - 1]
    BY <1>0, <2>1, SubSeqProperties
  <2> QED BY <1>0, <2>2
<1>3. /\ z \in Seq(Slots) /\ Len(z) = Len(a) - n + 1
      /\ \A k \in 1..(Len(a) - n + 1) : z[k] = a[n + k - 1]
  <2>1. \A k \in n..Len(a) : a[k] \in Slots
    BY <1>0
  <2>2. /\ z \in Seq(Slots)
        /\ Len(z) = IF n <= Len(a) THEN Len(a) - n + 1 ELSE 0
        /\ \A k \in 1..(Len(a) - n + 1) : z[k] = a[n + k - 1]
    BY <1>0, <2>1, SubSeqProperties
  <2> QED BY <1>0, <2>2
<1>4. /\ x \o y \in Seq(Slots) /\ Len(x \o y) = n - 1
      /\ \A k \in 1..(n - 1) : (x \o y)[k] = IF k < i THEN a[k] ELSE a[k + 1]
  <2>1. /\ x \o y \in Seq(Slots)
        /\ Len(x \o y) = Len(x) + Len(y)
        /\ \A k \in 1..(Len(x) + Len(y)) :
             (x \o y)[k] = IF k <= Len(x) THEN x[k] ELSE y[k - Len(x)]
    BY <1>1, <1>2, ConcatProperties
  <2> HIDE DEF x, y
  <2>2. ASSUME NEW k \in 1..(n - 1)
        PROVE  (x \o y)[k] = IF k < i THEN a[k] ELSE a[k + 1]
    <3>1. CASE k < i
      BY <1>0, <1>1, <1>2, <2>1, <3>1
    <3>2. CASE ~(k < i)
      <4>1. (x \o y)[k] = y[k - (i - 1)]
        BY <1>0, <1>1, <1>2, <2>1, <3>2
      <4>2. k - (i - 1) \in 1..(n - i) /\ i + (k - (i - 1)) = k + 1
        BY <1>0, <3>2
      <4> QED BY <1>2, <3>2, <4>1, <4>2
    <3> QED BY <3>1, <3>2
  <2> QED BY <1>0, <1>1, <1>2, <2>1, <2>2
<1> DEFINE w == x \o y
<1>5. Without(a, i, n) = w \o z
  BY DEF Without
<1> HIDE DEF w, x, y, z
<1>6. /\ w \in Seq(Slots) /\ Len(w) = n - 1
      /\ \A k \in 1..(n - 1) : w[k] = IF k < i THEN a[k] ELSE a[k + 1]
  BY <1>4 DEF w
<1>7. /\ w \o z \in Seq(Slots)
      /\ Len(w \o z) = Len(w) + Len(z)
      /\ \A k \in 1..(Len(w) + Len(z)) :
           (w \o z)[k] = IF k <= Len(w) THEN w[k] ELSE z[k - Len(w)]
  BY <1>3, <1>6, ConcatProperties
<1>8. ASSUME NEW k \in 1..Len(a)
      PROVE  (w \o z)[k] = IF i <= k /\ k < n THEN a[k + 1] ELSE a[k]
  <2>1. CASE k < n
    BY <1>0, <1>3, <1>6, <1>7, <2>1
  <2>2. CASE ~(k < n)
    <3>1. (w \o z)[k] = z[k - (n - 1)]
      BY <1>0, <1>3, <1>6, <1>7, <2>2
    <3>2. k - (n - 1) \in 1..(Len(a) - n + 1) /\ n + (k - (n - 1)) - 1 = k
      BY <1>0, <2>2
    <3> QED BY <1>3, <2>2, <3>1, <3>2
  <2> QED BY <2>1, <2>2
<1>9. w \o z \in Seq(Slots) /\ Len(w \o z) = Len(a)
  BY <1>0, <1>3, <1>6, <1>7
<1> QED BY ONLY <1>5, <1>8, <1>9

-----------------------------------------------------------------------------
(* The list, and what a change may do to it.                                 *)

LEMMA ListFacts ==
  ASSUME ListOK
  PROVE  /\ Len(heap) \in Nat \ {0} /\ DOMAIN heap = 1..Len(heap)
         /\ \A h \in 1..Len(heap) : /\ heap[h] \in Seq(Slots)
                                    /\ Len(heap[h]) \in Nat
                                    /\ DOMAIN heap[h] = 1..Len(heap[h])
         /\ Array \in Seq(Slots) /\ count \in Nat
         /\ List \in Seq(Scripts) /\ Len(List) = count
<1>1. Len(heap) \in Nat \ {0} /\ DOMAIN heap = 1..Len(heap)
  BY EmptySeq, LenProperties DEF ListOK
<1>2. \A h \in 1..Len(heap) : heap[h] \in Seq(Slots)
  BY ElementOfSeq DEF ListOK
<1>3. \A h \in 1..Len(heap) : Len(heap[h]) \in Nat /\ DOMAIN heap[h] = 1..Len(heap[h])
  BY <1>2, LenProperties
<1>4. Array \in Seq(Slots) /\ Len(Array) \in Nat /\ count \in Nat
  BY <1>1, <1>2, <1>3 DEF Array, ListOK
<1>5. List \in Seq(Scripts) /\ Len(List) = IF 1 <= count THEN count - 1 + 1 ELSE 0
  BY <1>4, SubSeqProperties DEF List, ListOK
<1> QED BY <1>1, <1>2, <1>3, <1>4, <1>5

(* What a change of the list may do to the arrays: no place that held a      *)
(* script loses it, no array that is left behind changes.                    *)
PlacesKept ==
  /\ Len(heap') >= Len(heap)
  /\ \A h \in DOMAIN heap : \A k \in DOMAIN heap[h] :
       /\ h \in DOMAIN heap' /\ k \in DOMAIN heap'[h]
       /\ heap[h][k] \in Scripts => heap'[h][k] \in Scripts
       /\ h # Len(heap) => heap'[h][k] = heap[h][k]

(* It does nothing else if it rewrites the last array, or adds one. *)
LEMMA PlacesInArray ==
  ASSUME ListOK, NEW b \in Seq(Slots), Len(b) = Len(Array),
         heap' = [heap EXCEPT ![Len(heap)] = b],
         \A k \in 1..Len(Array) : Array[k] \in Scripts => b[k] \in Scripts
  PROVE  /\ heap' \in Seq(Seq(Slots)) /\ heap' # <<>> /\ Len(heap') = Len(heap)
         /\ Array' = b /\ heap'[Len(heap)] = b
         /\ PlacesKept
<1> USE ListFacts
<1> DEFINE n == Len(heap)
<1>1. /\ n \in 1..Len(heap) /\ Array = heap[n] /\ Len(Array) \in Nat
      /\ DOMAIN b = 1..Len(Array)
  BY LenProperties DEF Array
<1>2. /\ heap' \in Seq(Seq(Slots)) /\ Len(heap') = n
      /\ \A j \in 1..n : heap'[j] = IF j = n THEN b ELSE heap[j]
  BY <1>1, ExceptSeq DEF ListOK
<1>3. Array' = b /\ heap'[n] = b /\ DOMAIN heap' = 1..n /\ heap' # <<>>
  BY <1>1, <1>2, LenProperties, EmptySeq DEF Array
<1>4. ASSUME NEW h \in DOMAIN heap, NEW k \in DOMAIN heap[h]
      PROVE  /\ h \in DOMAIN heap' /\ k \in DOMAIN heap'[h]
             /\ heap[h][k] \in Scripts => heap'[h][k] \in Scripts
             /\ h # Len(heap) => heap'[h][k] = heap[h][k]
  <2>1. CASE h = n
    BY <1>1, <1>2, <1>3, <2>1
  <2>2. CASE h # n
    BY <1>1, <1>2, <1>3, <2>2
  <2> QED BY <2>1, <2>2
<1>5. PlacesKept
  BY <1>2, <1>4 DEF PlacesKept
<1> QED BY <1>2, <1>3, <1>5

LEMMA PlacesInHeap ==
  ASSUME ListOK, NEW b \in Seq(Slots), heap' = Append(heap, b)
  PROVE  /\ heap' \in Seq(Seq(Slots)) /\ heap' # <<>> /\ Len(heap') = Len(heap) + 1
         /\ Array' = b /\ heap'[Len(heap)] = Array
         /\ PlacesKept
<1> USE ListFacts
<1> DEFINE T == Seq(Slots)
<1>0. heap \in Seq(T) /\ b \in T
  BY DEF ListOK
<1> HIDE DEF T
<1>1. /\ heap' \in Seq(T) /\ Len(heap') = Len(heap) + 1 /\ heap' # <<>>
      /\ \A j \in 1..Len(heap) : heap'[j] = heap[j]
      /\ heap'[Len(heap) + 1] = b
  BY <1>0, AppendProperties
<1>2. DOMAIN heap' = 1..(Len(heap) + 1)
  BY ONLY <1>1, LenProperties
<1>3. Array' = b /\ heap'[Len(heap)] = Array
  <2>1. Array = heap[Len(heap)] /\ Array' = heap'[Len(heap')] /\ Len(heap) \in 1..Len(heap)
    BY DEF Array
  <2> QED BY ONLY <1>1, <2>1
<1>4. \A h \in DOMAIN heap : h \in DOMAIN heap' /\ heap'[h] = heap[h]
  BY <1>1, <1>2
<1>5. PlacesKept
  BY <1>1, <1>4 DEF PlacesKept
<1> QED BY <1>1, <1>3, <1>5 DEF T

LEMMA AppendList ==
  ASSUME ListOK, NEW s \in Scripts, Append1(s)
  PROVE  /\ ListOK' /\ PlacesKept
         /\ \A k \in 1..count : heap'[Len(heap)][k] = Array[k]
         /\ count' = count + 1
         /\ Array'[count + 1] = s /\ \A k \in 1..count : Array'[k] = Array[k]
<1> USE ListFacts
<1>0. /\ s \in Slots /\ count \in 0..Len(Array) /\ Len(Array) \in Nat
      /\ \A k \in 1..count : Array[k] \in Scripts
  BY LenProperties DEF Slots, ListOK
<1>1. CASE count < Len(Array)
  <2> DEFINE b == [Array EXCEPT ![count + 1] = s]
  <2>1. /\ b \in Seq(Slots) /\ Len(b) = Len(Array)
        /\ \A j \in 1..Len(Array) : b[j] = IF j = count + 1 THEN s ELSE Array[j]
    BY <1>0, <1>1, ExceptSeq
  <2>2. heap' = [heap EXCEPT ![Len(heap)] = b] /\ count' = count + 1
    BY <1>0, <1>1 DEF Append1, Array
  <2> HIDE DEF b
  <2>3. /\ heap' \in Seq(Seq(Slots)) /\ heap' # <<>> /\ Len(heap') = Len(heap)
        /\ Array' = b /\ heap'[Len(heap)] = b
        /\ PlacesKept
    BY <2>1, <2>2, PlacesInArray
  <2>4. ListOK'
    BY <1>0, <1>1, <2>1, <2>2, <2>3 DEF ListOK
  <2>5. b[count + 1] = s /\ \A k \in 1..count : b[k] = Array[k]
    BY ONLY <1>0, <1>1, <2>1
  <2> QED BY ONLY <2>2, <2>3, <2>4, <2>5
<1>2. CASE ~(count < Len(Array))
  <2> DEFINE b == [Grown(Array) EXCEPT ![count + 1] = s]
  <2>0. /\ Grown(Array) \in Seq(Slots) /\ Len(Grown(Array)) > Len(Array)
        /\ Len(Grown(Array)) \in Nat
        /\ \A k \in 1..Len(Array) : Grown(Array)[k] = Array[k]
    BY <1>0, GrownArray, LenProperties
  <2>1. /\ b \in Seq(Slots) /\ Len(b) = Len(Grown(Array))
        /\ \A j \in 1..Len(Grown(Array)) :
             b[j] = IF j = count + 1 THEN s ELSE Grown(Array)[j]
    <3>1. count + 1 \in 1..Len(Grown(Array))
      BY <1>0, <1>2, <2>0
    <3> QED BY <1>0, <2>0, <3>1, ExceptSeq
  <2>2. heap' = Append(heap, b) /\ count' = count + 1
    BY <1>0, <1>2 DEF Append1
  <2> HIDE DEF b
  <2>3. /\ heap' \in Seq(Seq(Slots)) /\ heap' # <<>> /\ Len(heap') = Len(heap) + 1
        /\ Array' = b /\ heap'[Len(heap)] = Array
        /\ PlacesKept
    BY <2>1, <2>2, PlacesInHeap
  <2>4. /\ count' \in 0..Len(b)
        /\ \A k \in 1..count' : b[k] \in Scripts
    <3>1. count = Len(Array) /\ Len(b) \in Nat /\ count + 1 <= Len(b)
      BY <1>0, <1>2, <2>0, <2>1
    <3>2. ASSUME NEW k \in 1..(count + 1) PROVE b[k] \in Scripts
      <4>1. CASE k = count + 1
        BY <1>0, <2>1, <3>1, <4>1
      <4>2. CASE k # count + 1
        <5>1. k \in 1..count /\ k \in 1..Len(Grown(Array))
          BY <1>0, <2>0, <3>1, <4>2
        <5> QED BY <1>0, <2>0, <2>1, <3>1, <4>2, <5>1
      <4> QED BY <4>1, <4>2
    <3> QED BY <1>0, <2>2, <3>1, <3>2
  <2>5. ListOK'
    BY <2>3, <2>4 DEF ListOK
  <2>6. b[count + 1] = s /\ \A k \in 1..count : b[k] = Array[k]
    BY ONLY <1>0, <1>2, <2>0, <2>1
  <2> QED BY <1>0, <2>2, <2>3, <2>5, <2>6
<1> QED BY <1>1, <1>2

LEMMA UpdateList ==
  ASSUME ListOK, NEW s \in Scripts, NEW i \in 1..count,
         heap' = [heap EXCEPT ![Len(heap)][i] = s], count' = count
  PROVE  /\ ListOK' /\ PlacesKept
         /\ Len(heap') = Len(heap)
         /\ \A k \in DOMAIN Array :
              heap'[Len(heap)][k] = IF k = i THEN s ELSE Array[k]
<1> USE ListFacts
<1> DEFINE b == [Array EXCEPT ![i] = s]
<1>0. /\ s \in Slots /\ count \in 0..Len(Array) /\ Len(Array) \in Nat
      /\ DOMAIN Array = 1..Len(Array) /\ i \in 1..Len(Array)
      /\ \A k \in 1..count : Array[k] \in Scripts
  BY LenProperties DEF Slots, ListOK
<1>1. /\ b \in Seq(Slots) /\ Len(b) = Len(Array)
      /\ \A j \in 1..Len(Array) : b[j] = IF j = i THEN s ELSE Array[j]
  BY <1>0, ExceptSeq
<1>2. heap' = [heap EXCEPT ![Len(heap)] = b]
  BY DEF Array
<1> HIDE DEF b
<1>3. /\ heap' \in Seq(Seq(Slots)) /\ heap' # <<>> /\ Len(heap') = Len(heap)
      /\ Array' = b /\ heap'[Len(heap)] = b
      /\ PlacesKept
  BY <1>1, <1>2, PlacesInArray
<1>4. ListOK'
  BY <1>0, <1>1, <1>3 DEF ListOK
<1> QED BY <1>0, <1>1, <1>3, <1>4

LEMMA DeleteList ==
  ASSUME ListOK, NEW i \in 1..count,
         heap' = [heap EXCEPT ![Len(heap)] = Without(Array, i, count)],
         count' = count - 1
  PROVE  /\ ListOK' /\ PlacesKept
         /\ Len(heap') = Len(heap)
         /\ \A k \in DOMAIN Array : k < i => heap'[Len(heap)][k] = Array[k]
         /\ \A k \in 1..count' : Array'[k] = IF i <= k THEN Array[k + 1] ELSE Array[k]
<1> USE ListFacts
<1> DEFINE b == Without(Array, i, count)
<1>0. /\ count \in 1..Len(Array) /\ Len(Array) \in Nat /\ DOMAIN Array = 1..Len(Array)
      /\ \A k \in 1..count : Array[k] \in Scripts
  BY LenProperties DEF ListOK
<1>1. /\ b \in Seq(Slots) /\ Len(b) = Len(Array)
      /\ \A k \in 1..Len(Array) :
           b[k] = IF i <= k /\ k < count THEN Array[k + 1] ELSE Array[k]
  BY <1>0, WithoutArray
<1>2. heap' = [heap EXCEPT ![Len(heap)] = b]
  OBVIOUS
<1> HIDE DEF b
<1>3. ASSUME NEW k \in 1..Len(Array), Array[k] \in Scripts PROVE b[k] \in Scripts
  <2>1. CASE i <= k /\ k < count
    <3>1. k + 1 \in 1..count
      BY <1>0, <2>1
    <3> QED BY <1>0, <1>1, <2>1, <3>1
  <2>2. CASE ~(i <= k /\ k < count)
    BY <1>1, <1>3, <2>2
  <2> QED BY <2>1, <2>2
<1>4. /\ heap' \in Seq(Seq(Slots)) /\ heap' # <<>> /\ Len(heap') = Len(heap)
      /\ Array' = b /\ heap'[Len(heap)] = b
      /\ PlacesKept
  BY <1>1, <1>2, <1>3, PlacesInArray
<1>5. \A k \in 1..(count - 1) : b[k] \in Scripts
  BY ONLY <1>0, <1>3, i \in 1..count
<1>6. ListOK'
  BY <1>0, <1>1, <1>4, <1>5 DEF ListOK
<1>7. \A k \in DOMAIN Array : k < i => b[k] = Array[k]
  BY <1>0, <1>1
<1>8. \A k \in 1..(count - 1) : b[k] = IF i <= k THEN Array[k + 1] ELSE Array[k]
  BY <1>0, <1>1
<1> QED BY <1>4, <1>6, <1>7, <1>8

-----------------------------------------------------------------------------
(* A step of one call leaves the others alone, and points where it did.      *)
LEMMA OneRun ==
  ASSUME RunsOK, NEW r \in DOMAIN runs, NEW e \in Run,
         runs' = [runs EXCEPT ![r] = e], heap' = heap,
         e.pc \in {"found", "registered", "read"} =>
           Reads(r) /\ e.array = runs[r].array /\ e.index = runs[r].index
  PROVE  /\ runs' \in Seq(Run) /\ PointersOK'
         /\ Len(runs') = Len(runs) /\ DOMAIN runs' = DOMAIN runs
         /\ \A q \in DOMAIN runs : runs'[q] = IF q = r THEN e ELSE runs[q]
<1>1. DOMAIN runs = 1..Len(runs)
  BY LenProperties DEF RunsOK
<1>2. /\ runs' \in Seq(Run) /\ Len(runs') = Len(runs)
      /\ \A q \in 1..Len(runs) : runs'[q] = IF q = r THEN e ELSE runs[q]
  BY <1>1, ExceptSeq DEF RunsOK
<1>3. DOMAIN runs' = 1..Len(runs)
  BY <1>2, LenProperties
<1>4. PointersOK'
  BY <1>1, <1>2, <1>3 DEF RunsOK, PointersOK, Reads, Pointed
<1> QED BY <1>1, <1>2, <1>3, <1>4

LEMMA RunFacts ==
  ASSUME RunsOK
  PROVE  /\ Len(runs) \in Nat /\ DOMAIN runs = 1..Len(runs)
         /\ \A r \in DOMAIN runs : runs[r] \in Run
BY LenProperties, ElementOfSeq DEF RunsOK

(* The record of a finished call. *)
Ended(r) == [runs[r] EXCEPT !.pc = "done", !.array = 0, !.index = 0, !.command = 0,
             !.args = 0, !.may = {}, !.cancelled = FALSE, !.moved = FALSE]

LEMMA EndedRun ==
  ASSUME RunsOK, NEW r \in DOMAIN runs
  PROVE  /\ Ended(r) \in Run /\ Ended(r).pc = "done" /\ Ended(r).id = runs[r].id
         /\ Over(r) = [runs EXCEPT ![r] = Ended(r)]
<1>1. runs[r] \in Run
  BY RunFacts
<1>2. 0 \in Bodies
  BY ConstantsAssumption DEF Bodies
<1> QED BY <1>1, <1>2 DEF Ended, Over, Run

(* A change of the list keeps every pointer on a script, whatever it marks.  *)
LEMMA MarkedRuns ==
  ASSUME ListOK, RunsOK, PlacesKept, ListOK',
         runs' \in Seq(Run), DOMAIN runs' = DOMAIN runs,
         \A r \in DOMAIN runs : /\ runs'[r].pc = runs[r].pc
                                /\ runs'[r].array = runs[r].array
                                /\ runs'[r].index = runs[r].index
  PROVE  PointersOK'
<1> SUFFICES ASSUME NEW r \in DOMAIN runs, Reads(r)
             PROVE  /\ runs[r].array \in DOMAIN heap'
                    /\ runs[r].index \in DOMAIN heap'[runs[r].array]
                    /\ heap'[runs[r].array][runs[r].index] \in Scripts
  BY DEF PointersOK, Reads, Pointed
<1>1. /\ runs[r].array \in DOMAIN heap
      /\ runs[r].index \in DOMAIN heap[runs[r].array]
      /\ heap[runs[r].array][runs[r].index] \in Scripts
  BY DEF RunsOK, PointersOK, Pointed
<1> QED BY <1>1 DEF PlacesKept

(* Marking some calls keeps the sequence of calls typed. *)
LEMMA UpdateMarks ==
  ASSUME RunsOK, RestOK, NEW id, calls' \in 0..MaxCalls,
         runs' = [r \in DOMAIN runs |->
                   IF runs[r].id = id /\ Reads(r)
                   THEN [runs[r] EXCEPT !.may = @ \cup {calls'}] ELSE runs[r]]
  PROVE  /\ runs' \in Seq(Run) /\ Len(runs') = Len(runs) /\ DOMAIN runs' = DOMAIN runs
         /\ \A r \in DOMAIN runs :
              runs'[r] = IF runs[r].id = id /\ Reads(r)
                         THEN [runs[r] EXCEPT !.may = @ \cup {calls'}] ELSE runs[r]
<1>1. \A r \in 1..Len(runs) :
        [runs[r] EXCEPT !.may = @ \cup {calls'}] \in Run /\ runs[r] \in Run
  BY RunFacts DEF Run, Bodies
<1>2. \A r \in 1..Len(runs) : runs'[r] \in Run
  BY <1>1, RunFacts
<1>3. runs' \in Seq(Run) /\ Len(runs') = Len(runs)
  BY <1>1, <1>2, RunFacts
<1> QED BY <1>3, RunFacts

LEMMA DeleteMarks ==
  ASSUME RunsOK, NEW i,
         runs' = [r \in DOMAIN runs |->
                   IF Reads(r) /\ runs[r].array = Len(heap) /\ i <= runs[r].index
                   THEN [runs[r] EXCEPT !.moved = TRUE] ELSE runs[r]]
  PROVE  /\ runs' \in Seq(Run) /\ Len(runs') = Len(runs) /\ DOMAIN runs' = DOMAIN runs
         /\ \A r \in DOMAIN runs :
              runs'[r] = IF Reads(r) /\ runs[r].array = Len(heap) /\ i <= runs[r].index
                         THEN [runs[r] EXCEPT !.moved = TRUE] ELSE runs[r]
<1>1. \A r \in 1..Len(runs) :
        [runs[r] EXCEPT !.moved = TRUE] \in Run /\ runs[r] \in Run
  BY RunFacts DEF Run
<1>2. \A r \in 1..Len(runs) : runs'[r] \in Run
  BY <1>1, RunFacts
<1>3. runs' \in Seq(Run) /\ Len(runs') = Len(runs)
  BY <1>1, <1>2, RunFacts
<1> QED BY <1>3, RunFacts

-----------------------------------------------------------------------------
(* Type correctness.                                                         *)

LEMMA InitTypes == Init => TypeOK
<1> SUFFICES ASSUME Init PROVE ListOK /\ RunsOK /\ RestOK
  BY DEF TypeOK
<1>1. ListOK
  <2>1. heap = <<(<<>>)>> /\ count = 0 /\ Len(heap) = 1 /\ heap[1] = <<>>
    BY DEF Init
  <2>2. heap \in Seq(Seq(Slots)) /\ heap # <<>>
    BY <2>1
  <2> QED BY <2>1, <2>2 DEF ListOK, Array
<1>2. RunsOK
  BY DEF Init, RunsOK, PointersOK
<1>3. RestOK
  <2>1. file \in {NoFile, Bad} \/ file \in Seq(Scripts)
    <3>1. CASE file = NoFile
      BY <3>1
    <3>2. CASE file # NoFile
      <4>1. PICK i \in Ids : file = <<[id |-> i, body |-> 0]>>
        BY <3>2 DEF Init
      <4>2. [id |-> i, body |-> 0] \in Scripts
        BY ConstantsAssumption DEF Scripts, Bodies
      <4> QED BY <4>1, <4>2
    <3> QED BY <3>1, <3>2
  <2> QED BY <2>1, ConstantsAssumption DEF Init, RestOK
<1> QED BY <1>1, <1>2, <1>3

LEMMA NextTypes == TypeOK /\ [Next]_vars => TypeOK'
<1> SUFFICES ASSUME ListOK, RunsOK, RestOK, [Next]_vars
             PROVE  ListOK' /\ RunsOK' /\ RestOK'
  BY DEF TypeOK
<1> USE ListFacts, RunFacts, ConstantsAssumption
<1>1. CASE Load
  <2> DEFINE l == IF file \in {NoFile, Bad} THEN <<>> ELSE file
  <2>1. l \in Seq(Scripts)
    BY DEF RestOK
  <2>0. Len(l) \in Nat
    BY <2>1, LenProperties
  <2>2. PICK spare \in 0..Len(l) : heap' = <<Loaded(l, spare)>>
    BY <1>1 DEF Load
  <2>3. /\ count' = Len(l) /\ Loaded(l, spare) \in Seq(Slots)
        /\ Len(l) <= Len(Loaded(l, spare))
        /\ \A k \in 1..Len(l) : Loaded(l, spare)[k] \in Scripts
        /\ Len(Loaded(l, spare)) \in Nat
    <3>1. count' = Len(l)
      BY <1>1 DEF Load
    <3> HIDE DEF l
    <3>2. /\ Loaded(l, spare) \in Seq(Slots)
          /\ Len(l) <= Len(Loaded(l, spare))
          /\ \A k \in 1..Len(l) : Loaded(l, spare)[k] \in Scripts
      BY <2>0, <2>1, LoadedArray
    <3>3. Len(Loaded(l, spare)) \in Nat
      BY <3>2, LenProperties
    <3> QED BY <3>1, <3>2, <3>3
  <2> HIDE DEF l
  <2>4. ListOK'
    <3> DEFINE a == Loaded(l, spare)
    <3> HIDE DEF a
    <3>1. heap' = <<a>> /\ a \in Seq(Slots)
      BY <2>2, <2>3 DEF a
    <3>2. heap' \in Seq(Seq(Slots)) /\ heap' # <<>> /\ Len(heap') = 1 /\ heap'[1] = a
      BY <3>1
    <3> QED BY <2>0, <2>3, <3>2 DEF ListOK, Array, a
  <2>5. RunsOK'
    <3>1. runs' = <<>> /\ running' = running /\ stops' = stops /\ server' = "seeding"
      BY <1>1 DEF Load, runVars, RunsOK
    <3> QED BY <3>1, <1>1 DEF Load, runVars, RunsOK, PointersOK
  <2> QED BY <1>1, <2>4, <2>5 DEF Load, RestOK
<1>2. CASE Serve
  BY <1>2 DEF Serve, listVars, saveVars, runVars, ListOK, RunsOK, PointersOK, RestOK,
              Array, Reads, Pointed
<1>3. CASE Crash
  <2>1. heap' = <<(<<>>)>> /\ count' = 0 /\ Len(heap') = 1 /\ heap'[1] = <<>>
    BY <1>3 DEF Crash
  <2>2. heap' \in Seq(Seq(Slots)) /\ heap' # <<>>
    BY <2>1
  <2>3. ListOK'
    BY <2>1, <2>2 DEF ListOK, Array
  <2> QED BY <1>3, <2>3 DEF Crash, RunsOK, PointersOK, RestOK
<1>4. ASSUME NEW w \in Writers, NEW id \in Ids, Add(w, id) PROVE ListOK' /\ RunsOK' /\ RestOK'
  <2>1. [id |-> id, body |-> calls'] \in Scripts /\ calls' \in 0..MaxCalls
    BY <1>4 DEF Add, Scripts, Bodies, RestOK
  <2>2. ListOK' /\ PlacesKept
    BY <1>4, <2>1, AppendList DEF Add
  <2>3. PointersOK'
    BY <1>4, <2>2, MarkedRuns DEF Add, runVars, RunsOK
  <2>4. RunsOK'
    BY <1>4, <2>3 DEF Add, runVars, RunsOK
  <2>5. RestOK'
    BY <1>4, <2>1 DEF Add, BeginSave, RestOK, Threads
  <2> QED BY <2>2, <2>4, <2>5
<1>5. CASE SeedDefault
  <2>1. Head(seeds) \in Ids /\ seeds' \in Seq(Ids)
    BY <1>5, HeadTailProperties DEF SeedDefault, RestOK
  <2>2. [id |-> Head(seeds), body |-> 0] \in Scripts
    BY <2>1 DEF Scripts, Bodies
  <2>3. ListOK'
    <3>1. CASE Places(Head(seeds)) = {}
      BY <1>5, <2>2, <3>1, AppendList DEF SeedDefault
    <3>2. CASE Places(Head(seeds)) # {}
      BY <1>5, <3>2 DEF SeedDefault, listVars, ListOK, Array
    <3> QED BY <3>1, <3>2
  <2>4. RunsOK'
    <3>1. runs' = <<>> /\ running' = running /\ stops' = stops /\ server' = server
      BY <1>5 DEF SeedDefault, runVars, RunsOK
    <3> QED BY <3>1, <1>5 DEF SeedDefault, runVars, RunsOK, PointersOK
  <2>5. RestOK'
    BY <1>5, <2>1 DEF SeedDefault, BeginSave, RestOK, Threads
  <2> QED BY <2>3, <2>4, <2>5
<1>6. ASSUME NEW w \in Writers, NEW id \in Ids, Update(w, id)
      PROVE ListOK' /\ RunsOK' /\ RestOK'
  <2>1. [id |-> id, body |-> calls'] \in Scripts /\ calls' \in 0..MaxCalls
    BY <1>6 DEF Update, Scripts, Bodies, RestOK
  <2>2. PICK i \in 1..count :
          heap' = [heap EXCEPT ![Len(heap)][i] = [id |-> id, body |-> calls']]
    BY <1>6 DEF Update, Places
  <2>3. ListOK' /\ PlacesKept
    BY <1>6, <2>1, <2>2, UpdateList DEF Update
  <2>4. /\ runs' \in Seq(Run) /\ Len(runs') = Len(runs) /\ DOMAIN runs' = DOMAIN runs
        /\ \A r \in DOMAIN runs :
             runs'[r] = IF runs[r].id = id /\ Reads(r)
                        THEN [runs[r] EXCEPT !.may = @ \cup {calls'}] ELSE runs[r]
    BY <1>6, <2>1, UpdateMarks DEF Update
  <2>5. PointersOK'
    <3>1. \A r \in DOMAIN runs : /\ runs'[r].pc = runs[r].pc
                                 /\ runs'[r].array = runs[r].array
                                 /\ runs'[r].index = runs[r].index
      BY <2>4 DEF Run
    <3> QED BY <2>3, <2>4, <3>1, MarkedRuns
  <2>6. RunsOK'
    BY <1>6, <2>4, <2>5 DEF Update, RunsOK
  <2>7. RestOK'
    BY <1>6, <2>1 DEF Update, BeginSave, RestOK, Threads
  <2> QED BY <2>3, <2>6, <2>7
<1>7. ASSUME NEW w \in Writers, NEW id \in Ids, Delete(w, id)
      PROVE ListOK' /\ RunsOK' /\ RestOK'
  <2>1. PICK i \in 1..count :
          /\ heap' = [heap EXCEPT ![Len(heap)] = Without(Array, i, count)]
          /\ runs' = [r \in DOMAIN runs |->
                       IF Reads(r) /\ runs[r].array = Len(heap) /\ i <= runs[r].index
                       THEN [runs[r] EXCEPT !.moved = TRUE] ELSE runs[r]]
    BY <1>7 DEF Delete, Places
  <2>2. ListOK' /\ PlacesKept
    BY <1>7, <2>1, DeleteList DEF Delete
  <2>3. /\ runs' \in Seq(Run) /\ Len(runs') = Len(runs) /\ DOMAIN runs' = DOMAIN runs
        /\ \A r \in DOMAIN runs :
             runs'[r] = IF Reads(r) /\ runs[r].array = Len(heap) /\ i <= runs[r].index
                        THEN [runs[r] EXCEPT !.moved = TRUE] ELSE runs[r]
    BY <2>1, DeleteMarks
  <2>4. PointersOK'
    <3>1. \A r \in DOMAIN runs : /\ runs'[r].pc = runs[r].pc
                                 /\ runs'[r].array = runs[r].array
                                 /\ runs'[r].index = runs[r].index
      BY <2>3 DEF Run
    <3> QED BY <2>2, <2>3, <3>1, MarkedRuns
  <2>5. RunsOK'
    BY <1>7, <2>3, <2>4 DEF Delete, RunsOK
  <2>6. RestOK'
    BY <1>7 DEF Delete, BeginSave, RestOK, Threads
  <2> QED BY <2>2, <2>5, <2>6
<1>8. ASSUME NEW t \in Threads, Marshal(t) \/ Truncate(t) \/ Write(t) \/ SaveFails(t)
      PROVE ListOK' /\ RunsOK' /\ RestOK'
  <2>1. ListOK' /\ RunsOK'
    BY <1>8 DEF Marshal, Truncate, Write, SaveFails, listVars, runVars, ListOK, RunsOK,
                PointersOK, Array, Reads, Pointed
  <2>2. RestOK'
    <3>1. CASE Marshal(t)
      BY <3>1 DEF Marshal, RestOK
    <3>2. CASE Truncate(t)
      BY <3>2 DEF Truncate, RestOK
    <3>3. CASE Write(t)
      <4>1. data[t] \in Seq(Scripts) /\ <<>> \in Seq(Scripts)
        BY DEF RestOK
      <4>2. file' = data[t] \/ file' = Bad
        BY <3>3 DEF Write
      <4> QED BY <3>3, <4>1, <4>2 DEF Write, RestOK
    <3>4. CASE SaveFails(t)
      <4>1. <<>> \in Seq(Scripts)
        OBVIOUS
      <4> QED BY <3>4, <4>1 DEF SaveFails, RestOK
    <3> QED BY <1>8, <3>1, <3>2, <3>3, <3>4
  <2> QED BY <2>1, <2>2
<1>9. ASSUME NEW id \in Ids, Find(id) PROVE ListOK' /\ RunsOK' /\ RestOK'
  <2> DEFINE e(i) == [id |-> id, pc |-> "found", array |-> Len(heap),
                      index |-> i, command |-> 0, args |-> 0,
                      cancelled |-> FALSE, may |-> {Array[i].body}, moved |-> FALSE]
  <2>1. PICK i \in 1..count : runs' = Append(runs, e(i))
    BY <1>9 DEF Find, Places
  <2>2. Array[i] \in Scripts /\ i \in 1..Len(Array)
    BY DEF ListOK
  <2>3. e(i) \in Run
    BY <2>2 DEF Run, Scripts, Bodies
  <2>4. e(i).pc = "found" /\ e(i).array = Len(heap) /\ e(i).index = i
    OBVIOUS
  <2> HIDE DEF e
  <2>5. /\ runs' \in Seq(Run) /\ Len(runs') = Len(runs) + 1
        /\ \A r \in 1..Len(runs) : runs'[r] = runs[r]
        /\ runs'[Len(runs) + 1] = e(i)
    BY <2>1, <2>3, AppendProperties DEF RunsOK
  <2>6. DOMAIN runs' = 1..(Len(runs) + 1) /\ heap' = heap
    BY <1>9, <2>5, LenProperties DEF Find, listVars
  <2>7. PointersOK'
    <3>1. ASSUME NEW r \in 1..Len(runs), Reads(r)'
          PROVE  /\ runs'[r].array \in DOMAIN heap'
                 /\ runs'[r].index \in DOMAIN heap'[runs'[r].array]
                 /\ heap'[runs'[r].array][runs'[r].index] \in Scripts
      BY <2>5, <2>6, <3>1 DEF RunsOK, PointersOK, Reads, Pointed
    <3>2. /\ Len(heap) \in DOMAIN heap /\ i \in DOMAIN heap[Len(heap)]
          /\ heap[Len(heap)][i] \in Scripts
      BY <2>2 DEF Array
    <3> QED BY <2>4, <2>5, <2>6, <3>1, <3>2 DEF PointersOK, Pointed
  <2>8. RunsOK'
    BY <1>9, <2>5, <2>7 DEF Find, RunsOK
  <2>9. ListOK'
    BY <1>9 DEF Find, listVars, ListOK, Array
  <2> QED BY <1>9, <2>8, <2>9 DEF Find, saveVars, RestOK
<1> DEFINE Calls(r) == \/ Register(r) \/ ReadCommand(r) \/ Start(r) \/ Exit(r)
                       \/ Kill(r) \/ Timeout(r) \/ Return(r)
<1>10. ASSUME NEW r \in 1..MaxCalls, Calls(r) PROVE ListOK' /\ RunsOK' /\ RestOK'
  <2>1. r \in DOMAIN runs /\ runs[r] \in Run /\ r \in 1..Len(runs)
    BY <1>10 DEF Register, ReadCommand, Start, Exit, Kill, Timeout, Return
  <2>2. heap' = heap /\ ListOK' /\ RestOK' /\ server' = server /\ stops' = stops
    BY <1>10 DEF Register, ReadCommand, Start, Exit, Kill, Timeout, Return, listVars,
                 saveVars, ListOK, Array, RestOK
  <2>3. running' \in [Ids -> 0..Len(runs)]
    <3>1. runs[r].id \in Ids
      BY <2>1 DEF Run
    <3>2. CASE Register(r)
      <4>1. running' = running \/ running' = [running EXCEPT ![runs[r].id] = r]
        BY <3>2 DEF Register
      <4>2. running \in [Ids -> 0..Len(runs)] /\ r \in 0..Len(runs)
        BY <2>1 DEF RunsOK
      <4> QED BY ONLY <3>1, <4>1, <4>2
    <3>3. CASE Return(r)
      BY <2>1, <3>1, <3>3 DEF Return, RunsOK
    <3>4. CASE running' = running
      BY <3>4 DEF RunsOK
    <3> QED BY <1>10, <3>2, <3>3, <3>4 DEF ReadCommand, Start, Exit, Kill, Timeout
  <2>4. \E e \in Run :
          /\ runs' = [runs EXCEPT ![r] = e]
          /\ e.pc \in {"found", "registered", "read"} =>
               Reads(r) /\ e.array = runs[r].array /\ e.index = runs[r].index
    <3>1. Reads(r) => Pointed(r).body \in Bodies
      BY <2>1 DEF RunsOK, PointersOK, Scripts
    <3>2. CASE Register(r)
      <4>1. CASE running[runs[r].id] # 0
        BY <2>1, <3>2, <4>1, EndedRun DEF Register
      <4>2. CASE running[runs[r].id] = 0
        <5> DEFINE e == [runs[r] EXCEPT !.pc = "registered"]
        <5>1. /\ e \in Run /\ Reads(r)
              /\ e.array = runs[r].array /\ e.index = runs[r].index
          BY <2>1, <3>2 DEF Register, Run, Reads
        <5>2. runs' = [runs EXCEPT ![r] = e]
          BY <3>2, <4>2 DEF Register
        <5> QED BY <5>1, <5>2
      <4> QED BY <4>1, <4>2
    <3>3. CASE ReadCommand(r)
      <4> DEFINE e == [runs[r] EXCEPT !.pc = "read", !.command = Pointed(r).body]
      <4>1. /\ e \in Run /\ Reads(r)
            /\ e.array = runs[r].array /\ e.index = runs[r].index
        BY <2>1, <3>1, <3>3 DEF ReadCommand, Run, Reads
      <4>2. runs' = [runs EXCEPT ![r] = e]
        BY <3>3 DEF ReadCommand
      <4> QED BY <4>1, <4>2
    <3>4. CASE Start(r)
      <4>1. PICK next \in {"return", "process"} :
              runs' = [runs EXCEPT ![r].pc = next, ![r].args = Pointed(r).body]
        BY <3>4 DEF Start
      <4> DEFINE e == [runs[r] EXCEPT !.pc = next, !.args = Pointed(r).body]
      <4>2. e \in Run /\ e.pc \in {"return", "process"}
        BY <2>1, <3>1, <3>4, <4>1 DEF Start, Run, Reads
      <4>3. runs' = [runs EXCEPT ![r] = e]
        BY <4>1
      <4> QED BY <4>2, <4>3
    <3>5. CASE Exit(r) \/ Kill(r)
      <4> DEFINE e == [runs[r] EXCEPT !.pc = "return"]
      <4>1. e \in Run /\ e.pc = "return"
        BY <2>1 DEF Run
      <4>2. runs' = [runs EXCEPT ![r] = e]
        BY <3>5 DEF Exit, Kill
      <4> QED BY <4>1, <4>2
    <3>6. CASE Timeout(r)
      <4> DEFINE e == [runs[r] EXCEPT !.cancelled = TRUE]
      <4>1. /\ e \in Run /\ e.pc = runs[r].pc
            /\ e.array = runs[r].array /\ e.index = runs[r].index
        BY <2>1 DEF Run
      <4>2. runs' = [runs EXCEPT ![r] = e]
        BY <3>6 DEF Timeout
      <4> QED BY <4>1, <4>2 DEF Reads
    <3>7. CASE Return(r)
      BY <2>1, <3>7, EndedRun DEF Return
    <3> QED BY <1>10, <3>2, <3>3, <3>4, <3>5, <3>6, <3>7
  <2>5. /\ runs' \in Seq(Run) /\ PointersOK' /\ Len(runs') = Len(runs)
    BY <2>1, <2>2, <2>4, OneRun
  <2>6. server' # "up" => runs' = <<>>
    BY <2>1, <2>2 DEF RunsOK
  <2> QED BY <2>2, <2>3, <2>5, <2>6 DEF RunsOK
<1>11. ASSUME NEW id \in Ids, Stop(id) PROVE ListOK' /\ RunsOK' /\ RestOK'
  <2> DEFINE r == running[id]
             e == [runs[r] EXCEPT !.cancelled = TRUE]
  <2>1. r \in DOMAIN runs /\ runs[r] \in Run
    BY <1>11 DEF Stop, RunsOK
  <2>2. /\ e \in Run /\ e.pc = runs[r].pc
        /\ e.array = runs[r].array /\ e.index = runs[r].index
    BY <2>1 DEF Run
  <2>3. runs' = [runs EXCEPT ![r] = e] /\ heap' = heap
    BY <1>11 DEF Stop, listVars
  <2> HIDE DEF r, e
  <2>4. /\ runs' \in Seq(Run) /\ PointersOK' /\ Len(runs') = Len(runs)
    BY <2>1, <2>2, <2>3, OneRun DEF Reads
  <2>5. RunsOK'
    BY <1>11, <2>4 DEF Stop, RunsOK
  <2> QED BY <1>11, <2>5 DEF Stop, listVars, saveVars, ListOK, Array, RestOK
<1>12. CASE UNCHANGED vars
  BY <1>12 DEF vars, listVars, saveVars, runVars, ListOK, RunsOK, PointersOK, RestOK,
               Array, Reads, Pointed
<1> QED BY <1>1, <1>2, <1>3, <1>4, <1>5, <1>6, <1>7, <1>8, <1>9, <1>10, <1>11, <1>12 DEF Next

(* Every variable has its type; a call that is yet to read its script has a  *)
(* pointer to a script, wherever the list has moved.                         *)
THEOREM SchedulerTypes == Spec => []TypeOK
BY InitTypes, NextTypes, PTL DEF Spec

-----------------------------------------------------------------------------
(* The file: what it holds while one thread saves, and afterwards.           *)

AllIdle == \A t \in Threads : stage[t] = "idle"

(* One change at a time: a list is changed and saved before the next change. *)
OneChange == \A t, u \in Threads : stage[t] # "idle" /\ stage[u] # "idle" => t = u

(* A first start that has not added its first default. *)
Unseeded == server = "seeding" /\ file = NoFile /\ count = 0 /\ seeds = Defaults

(* A save has the list, and a truncated file; whoever is not saving, and was *)
(* not told of a failure, finds the list in the file.                        *)
SavesOK ==
  /\ server = "down" => AllIdle
  /\ \A t \in Threads : /\ stage[t] \in {"open", "write"} => data[t] = List
                        /\ stage[t] = "write" => file = Bad
  /\ saved /\ server # "down" /\ AllIdle => file = List \/ Unseeded

LEMMA LoadedList ==
  ASSUME NEW l \in Seq(Scripts), NEW spare \in Nat,
         heap' = <<Loaded(l, spare)>>, count' = Len(l)
  PROVE  List' = l
<1> DEFINE a == Loaded(l, spare)
<1>1. /\ a \in Seq(Slots) /\ Len(l) \in Nat /\ Len(l) <= Len(a) /\ Len(a) \in Nat
      /\ \A k \in 1..Len(l) : a[k] = l[k]
  BY LoadedArray, LenProperties
<1> HIDE DEF a
<1>2. Array' = a
  BY DEF Array, a
<1>3. \A k \in 1..Len(l) : a[k] \in Slots
  BY <1>1, ElementOfSeq
<1>4. /\ SubSeq(a, 1, Len(l)) \in Seq(Slots)
      /\ Len(SubSeq(a, 1, Len(l))) = Len(l)
      /\ \A k \in 1..Len(l) : SubSeq(a, 1, Len(l))[k] = l[k]
  <2>1. /\ SubSeq(a, 1, Len(l)) \in Seq(Slots)
        /\ Len(SubSeq(a, 1, Len(l))) = IF 1 <= Len(l) THEN Len(l) - 1 + 1 ELSE 0
        /\ \A k \in 1..(Len(l) - 1 + 1) : SubSeq(a, 1, Len(l))[k] = a[1 + k - 1]
    BY <1>1, <1>3, SubSeqProperties
  <2> QED BY <1>1, <2>1
<1>5. SubSeq(a, 1, Len(l)) = l
  BY <1>1, <1>4, SeqEqual, SeqMonotonic DEF Slots
<1> QED BY <1>2, <1>5 DEF List

LEMMA InitSaves == Init => SavesOK
BY DEF Init, SavesOK, AllIdle

(* The list is changed only by a thread that begins to save it, and no other *)
(* thread is saving.                                                         *)
LEMMA BegunSave ==
  ASSUME RestOK, OneChange', NEW t \in Threads, BeginSave(t), server' # "down"
  PROVE  SavesOK'
<1>1. stage'[t] = "save" /\ \A u \in Threads : u # t => stage'[u] = "idle"
  BY DEF BeginSave, OneChange, RestOK
<1> QED BY <1>1 DEF SavesOK, AllIdle

LEMMA NextSaves ==
  TypeOK /\ OneChange /\ OneChange' /\ SavesOK /\ [Next]_vars => SavesOK'
<1> SUFFICES ASSUME ListOK, RunsOK, RestOK, OneChange, OneChange', SavesOK, [Next]_vars
             PROVE  SavesOK'
  BY DEF TypeOK
<1>1. CASE Load
  <2> DEFINE l == IF file \in {NoFile, Bad} THEN <<>> ELSE file
  <2>1. l \in Seq(Scripts) /\ Len(l) \in Nat
    <3>1. l \in Seq(Scripts)
      BY DEF RestOK
    <3> QED BY <3>1, LenProperties
  <2>2. PICK spare \in 0..Len(l) : heap' = <<Loaded(l, spare)>>
    BY <1>1 DEF Load
  <2>3. /\ count' = Len(l) /\ file' = file /\ server' = "seeding" /\ stage' = stage
        /\ seeds' = (IF l = <<>> THEN Defaults ELSE <<>>)
        /\ saved' = (file # Bad)
    BY <1>1 DEF Load
  <2>4. AllIdle
    BY <1>1 DEF Load, SavesOK
  <2>5. List' = l
    <3> HIDE DEF l
    <3> QED BY <2>1, <2>2, <2>3, LoadedList
  <2>6. saved' => file' = List' \/ Unseeded'
    <3>1. CASE file = NoFile
      <4>1. l = <<>> /\ Len(l) = 0
        BY <3>1
      <4> QED BY <2>3, <3>1, <4>1 DEF Unseeded
    <3>2. CASE file # NoFile
      BY <2>3, <2>5, <3>2
    <3> QED BY <3>1, <3>2
  <2> QED BY <2>3, <2>4, <2>6 DEF SavesOK, AllIdle
<1>2. CASE Serve
  <2>1. ~Unseeded
    BY <1>2, SomeDefaults DEF Serve, Unseeded
  <2> QED BY <1>2, <2>1 DEF Serve, listVars, saveVars, SavesOK, AllIdle, List, Array
<1>3. CASE Crash
  BY <1>3 DEF Crash, SavesOK, AllIdle
<1>4. ASSUME NEW w \in Writers, NEW id \in Ids,
             Add(w, id) \/ Update(w, id) \/ Delete(w, id)
      PROVE  SavesOK'
  <2>1. server' # "down" /\ BeginSave(w) /\ w \in Threads
    BY <1>4 DEF Add, Update, Delete, Threads
  <2> QED BY <2>1, BegunSave
<1>5. CASE SeedDefault
  <2>1. CASE Places(Head(seeds)) = {}
    BY <1>5, <2>1, BegunSave DEF SeedDefault, Threads
  <2>2. CASE Places(Head(seeds)) # {}
    <3>1. count # 0
      BY <2>2 DEF Places
    <3> QED BY <1>5, <2>2, <3>1
            DEF SeedDefault, listVars, SavesOK, AllIdle, Unseeded, List, Array
  <2> QED BY <2>1, <2>2
<1>6. ASSUME NEW t \in Threads, Marshal(t) \/ Truncate(t) \/ Write(t) \/ SaveFails(t)
      PROVE  SavesOK'
  <2>1. stage[t] # "idle" /\ \A u \in Threads : u # t => stage[u] = "idle"
    BY <1>6 DEF Marshal, Truncate, Write, SaveFails, OneChange
  <2>2. List' = List /\ server' = server /\ server # "down"
    BY <1>6, <2>1
       DEF Marshal, Truncate, Write, SaveFails, listVars, List, Array, SavesOK, AllIdle
  <2>3. CASE Marshal(t)
    BY <2>1, <2>2, <2>3 DEF Marshal, SavesOK, AllIdle, RestOK
  <2>4. CASE Truncate(t)
    BY <2>1, <2>2, <2>4 DEF Truncate, SavesOK, AllIdle, RestOK
  <2>5. CASE Write(t)
    <3>1. file' = List
      BY <2>5 DEF Write, SavesOK
    <3> QED BY <2>1, <2>2, <2>5, <3>1 DEF Write, SavesOK, AllIdle, RestOK
  <2>6. CASE SaveFails(t)
    BY <2>1, <2>2, <2>6 DEF SaveFails, SavesOK, AllIdle, RestOK
  <2> QED BY <1>6, <2>3, <2>4, <2>5, <2>6
<1>7. CASE UNCHANGED <<server, file, listVars, seeds, saveVars>>
  BY <1>7 DEF listVars, saveVars, SavesOK, AllIdle, Unseeded, List, Array
<1>8. ASSUME NEW id \in Ids, Find(id) \/ Stop(id) PROVE SavesOK'
  BY <1>7, <1>8 DEF Find, Stop
<1>9. ASSUME NEW r \in 1..MaxCalls,
             \/ Register(r) \/ ReadCommand(r) \/ Start(r) \/ Exit(r)
             \/ Kill(r) \/ Timeout(r) \/ Return(r)
      PROVE  SavesOK'
  BY <1>7, <1>9 DEF Register, ReadCommand, Start, Exit, Kill, Timeout, Return
<1>10. CASE UNCHANGED vars
  BY <1>7, <1>10 DEF vars
<1> QED BY <1>1, <1>2, <1>3, <1>4, <1>5, <1>6, <1>8, <1>9, <1>10 DEF Next

LEMMA SavesAreEnough == SavesOK => SavedAtRest
BY DEF SavesOK, SavedAtRest, AllIdle, Unseeded

(* As long as one change of the list is saved before the next begins, the    *)
(* file holds the list whenever the last save was told successful, through   *)
(* failed saves before it, crashes in the middle of one, restarts and        *)
(* seeding.  The goroutines that change it may be any number.                *)
THEOREM SavedOneByOne == Spec /\ []OneChange => []SavedAtRest
BY SchedulerTypes, InitSaves, NextSaves, SavesAreEnough, PTL DEF Spec

-----------------------------------------------------------------------------
(* The table of runs: the calls a script has under way, who holds its id,    *)
(* and how often it was stopped.  A step changes the table in one of five    *)
(* ways, or not at all.                                                      *)

Busy(id) == {r \in DOMAIN runs : runs[r].id = id /\ Under(r)}

Quiet == /\ \A id \in Ids : Busy(id)' = Busy(id)
         /\ running' = running /\ stops' = stops

Cleared == /\ \A id \in Ids : Busy(id)' = {} /\ running'[id] = 0 /\ stops'[id] = 0

Registered(id, r) ==
  /\ running[id] = 0 /\ r \notin Busy(id)
  /\ \A j \in Ids : Busy(j)' = IF j = id THEN Busy(id) \cup {r} ELSE Busy(j)
  /\ running' = [running EXCEPT ![id] = r] /\ stops' = stops

Returned(id, r) ==
  /\ r \in Busy(id)
  /\ \A j \in Ids : Busy(j)' = IF j = id THEN Busy(id) \ {r} ELSE Busy(j)
  /\ running' = [running EXCEPT ![id] = 0] /\ stops' = stops

Stopped(id) ==
  /\ running[id] # 0
  /\ \A j \in Ids : Busy(j)' = Busy(j)
  /\ running' = [running EXCEPT ![id] = 0]
  /\ stops' = [stops EXCEPT ![id] = @ + 1]

TableStep ==
  \/ Quiet \/ Cleared
  \/ \E id \in Ids, r \in 1..MaxCalls : Registered(id, r) \/ Returned(id, r)
  \/ \E id \in Ids : Stopped(id)

(* The calls keep their ids, and are under way exactly if they were before.  *)
LEMMA SameBusy ==
  ASSUME DOMAIN runs' = DOMAIN runs,
         \A r \in DOMAIN runs : runs'[r].id = runs[r].id /\ (Under(r)' <=> Under(r))
  PROVE  \A id \in Ids : Busy(id)' = Busy(id)
BY DEF Busy

(* One call changes; it keeps its id. *)
LEMMA OneBusy ==
  ASSUME RunsOK, NEW r \in DOMAIN runs, NEW e \in Run, e.id = runs[r].id,
         runs' = [runs EXCEPT ![r] = e]
  PROVE  \A j \in Ids :
           Busy(j)' = IF j = runs[r].id
                      THEN IF e.pc \in {"registered", "read", "process", "return"}
                           THEN Busy(j) \cup {r} ELSE Busy(j) \ {r}
                      ELSE Busy(j)
<1>1. /\ DOMAIN runs' = DOMAIN runs /\ runs'[r] = e
      /\ \A q \in DOMAIN runs : q # r => runs'[q] = runs[q]
  BY DEF RunsOK
<1> QED BY <1>1 DEF Busy, Under

LEMMA EndedBusy ==
  ASSUME RunsOK, NEW r \in DOMAIN runs, runs' = Over(r)
  PROVE  \A j \in Ids :
           Busy(j)' = IF j = runs[r].id THEN Busy(j) \ {r} ELSE Busy(j)
<1>1. /\ Ended(r) \in Run /\ Ended(r).pc = "done" /\ Ended(r).id = runs[r].id
      /\ runs' = [runs EXCEPT ![r] = Ended(r)]
  BY EndedRun
<1> DEFINE e == Ended(r)
<1>2. /\ e \in Run /\ e.id = runs[r].id /\ runs' = [runs EXCEPT ![r] = e]
      /\ e.pc \notin {"registered", "read", "process", "return"}
  BY <1>1
<1> HIDE DEF e
<1> QED BY <1>2, OneBusy

LEMMA NextTable == TypeOK /\ [Next]_vars => TableStep
<1> SUFFICES ASSUME ListOK, RunsOK, RestOK, [Next]_vars PROVE TableStep
  BY DEF TypeOK
<1> USE RunFacts, ConstantsAssumption
<1>1. CASE UNCHANGED runVars
  BY <1>1 DEF runVars, TableStep, Quiet, Busy, Under
<1>2. CASE Load \/ Serve \/ SeedDefault
  BY <1>1, <1>2 DEF Load, Serve, SeedDefault
<1>3. CASE Crash
  <2>1. runs' = <<>> /\ DOMAIN runs' = {}
    BY <1>3 DEF Crash
  <2>2. Cleared
    BY <1>3, <2>1 DEF Crash, Cleared, Busy
  <2> QED BY <2>2 DEF TableStep
<1>4. ASSUME NEW w \in Writers, NEW id \in Ids, Add(w, id) PROVE TableStep
  BY <1>1, <1>4 DEF Add
<1>5. ASSUME NEW w \in Writers, NEW id \in Ids, Update(w, id) PROVE TableStep
  <2>1. /\ DOMAIN runs' = DOMAIN runs
        /\ \A r \in DOMAIN runs :
             runs'[r] = IF runs[r].id = id /\ Reads(r)
                        THEN [runs[r] EXCEPT !.may = @ \cup {calls'}] ELSE runs[r]
    BY <1>5 DEF Update
  <2>2. \A r \in DOMAIN runs : runs'[r].id = runs[r].id /\ runs'[r].pc = runs[r].pc
    BY <2>1 DEF Run
  <2> QED BY <1>5, <2>1, <2>2, SameBusy DEF Update, TableStep, Quiet, Under
<1>6. ASSUME NEW w \in Writers, NEW id \in Ids, Delete(w, id) PROVE TableStep
  <2>1. PICK i \in 1..count :
          runs' = [r \in DOMAIN runs |->
                     IF Reads(r) /\ runs[r].array = Len(heap) /\ i <= runs[r].index
                     THEN [runs[r] EXCEPT !.moved = TRUE] ELSE runs[r]]
    BY <1>6 DEF Delete, Places
  <2>2. DOMAIN runs' = DOMAIN runs
    BY <2>1
  <2>3. \A r \in DOMAIN runs : runs'[r].id = runs[r].id /\ runs'[r].pc = runs[r].pc
    BY <2>1 DEF Run
  <2> QED BY <1>6, <2>2, <2>3, SameBusy DEF Delete, TableStep, Quiet, Under
<1>7. ASSUME NEW t \in Threads, Marshal(t) \/ Truncate(t) \/ Write(t) \/ SaveFails(t)
      PROVE TableStep
  BY <1>1, <1>7 DEF Marshal, Truncate, Write, SaveFails
<1>8. ASSUME NEW id \in Ids, Find(id) PROVE TableStep
  <2>1. PICK e : runs' = Append(runs, e) /\ e.pc = "found"
    BY <1>8 DEF Find
  <2>2. /\ DOMAIN runs' = 1..(Len(runs) + 1)
        /\ \A r \in 1..Len(runs) : runs'[r] = runs[r]
        /\ runs'[Len(runs) + 1] = e
    BY <2>1 DEF RunsOK
  <2>3. \A j \in Ids : Busy(j)' = Busy(j)
    BY <2>1, <2>2 DEF Busy, Under
  <2> QED BY <1>8, <2>3 DEF Find, TableStep, Quiet
<1>9. ASSUME NEW r \in 1..MaxCalls,
             ReadCommand(r) \/ Start(r) \/ Exit(r) \/ Kill(r) \/ Timeout(r)
      PROVE  TableStep
  <2>1. /\ r \in DOMAIN runs /\ DOMAIN runs' = DOMAIN runs
        /\ \A q \in DOMAIN runs : q # r => runs'[q] = runs[q]
        /\ running' = running /\ stops' = stops
    BY <1>9 DEF ReadCommand, Start, Exit, Kill, Timeout
  <2>2. runs'[r].id = runs[r].id /\ (Under(r)' <=> Under(r))
    <3>1. runs[r] \in Run
      BY <2>1
    <3>2. CASE ReadCommand(r)
      BY <3>1, <3>2 DEF ReadCommand, Run, Under
    <3>3. CASE Start(r)
      <4>1. PICK next \in {"return", "process"} :
              runs' = [runs EXCEPT ![r].pc = next, ![r].args = Pointed(r).body]
        BY <3>3 DEF Start
      <4> QED BY <2>1, <3>1, <3>3, <4>1 DEF Start, Run, Under
    <3>4. CASE Exit(r) \/ Kill(r)
      BY <2>1, <3>1, <3>4 DEF Exit, Kill, Run, Under
    <3>5. CASE Timeout(r)
      BY <2>1, <3>1, <3>5 DEF Timeout, Run, Under
    <3> QED BY <1>9, <3>2, <3>3, <3>4, <3>5
  <2>3. \A q \in DOMAIN runs : runs'[q].id = runs[q].id /\ (Under(q)' <=> Under(q))
    BY <2>1, <2>2 DEF Under
  <2> QED BY <2>1, <2>3, SameBusy DEF TableStep, Quiet
<1>10. ASSUME NEW r \in 1..MaxCalls, Register(r) PROVE TableStep
  <2>1. r \in DOMAIN runs /\ runs[r] \in Run /\ runs[r].id \in Ids /\ runs[r].pc = "found"
    BY <1>10 DEF Register, Run
  <2>2. r \notin Busy(runs[r].id)
    BY <2>1 DEF Busy, Under
  <2>3. CASE running[runs[r].id] # 0
    <3>1. runs' = Over(r) /\ running' = running /\ stops' = stops
      BY <1>10, <2>3 DEF Register
    <3>2. \A j \in Ids : Busy(j)' = Busy(j)
      BY <2>1, <2>2, <3>1, EndedBusy
    <3> QED BY <3>1, <3>2 DEF TableStep, Quiet
  <2>4. CASE running[runs[r].id] = 0
    <3> DEFINE e == [runs[r] EXCEPT !.pc = "registered"]
    <3>1. e \in Run /\ e.id = runs[r].id /\ e.pc = "registered"
      BY <2>1 DEF Run
    <3>2. runs' = [runs EXCEPT ![r] = e]
      BY <1>10, <2>4 DEF Register
    <3> HIDE DEF e
    <3>3. Registered(runs[r].id, r)
      BY <1>10, <2>1, <2>2, <2>4, <3>1, <3>2, OneBusy DEF Register, Registered
    <3> QED BY <2>1, <3>3 DEF TableStep
  <2> QED BY <2>3, <2>4
<1>11. ASSUME NEW r \in 1..MaxCalls, Return(r) PROVE TableStep
  <2>1. r \in DOMAIN runs /\ runs[r] \in Run /\ runs[r].id \in Ids /\ runs[r].pc = "return"
    BY <1>11 DEF Return, Run
  <2>2. r \in Busy(runs[r].id)
    BY <2>1 DEF Busy, Under
  <2>3. \A j \in Ids : Busy(j)' = IF j = runs[r].id THEN Busy(j) \ {r} ELSE Busy(j)
    BY <1>11, <2>1, EndedBusy DEF Return
  <2>4. Returned(runs[r].id, r)
    BY <1>11, <2>2, <2>3 DEF Return, Returned
  <2> QED BY <2>1, <2>4 DEF TableStep
<1>12. ASSUME NEW id \in Ids, Stop(id) PROVE TableStep
  <2>1. running[id] \in DOMAIN runs
    BY <1>12 DEF Stop, RunsOK
  <2>2. /\ DOMAIN runs' = DOMAIN runs
        /\ \A r \in DOMAIN runs : runs'[r].id = runs[r].id /\ runs'[r].pc = runs[r].pc
    BY <1>12, <2>1 DEF Stop, Run
  <2>3. Stopped(id)
    BY <1>12, <2>2, SameBusy DEF Stop, Stopped, Under
  <2> QED BY <2>3 DEF TableStep
<1>13. CASE UNCHANGED vars
  BY <1>1, <1>13 DEF vars
<1> QED BY <1>2, <1>3, <1>4, <1>5, <1>6, <1>7, <1>8, <1>9, <1>10, <1>11, <1>12, <1>13
        DEF Next

-----------------------------------------------------------------------------
(* The holder of an id.                                                      *)

HolderIsBusy == \A id \in Ids : running[id] # 0 => running[id] \in Busy(id)

LEMMA InitHolder == Init => HolderIsBusy
BY DEF Init, HolderIsBusy

LEMMA NextHolder == TypeOK /\ HolderIsBusy /\ [Next]_vars => HolderIsBusy'
<1> SUFFICES ASSUME TypeOK, HolderIsBusy, TableStep,
                    NEW j \in Ids, running'[j] # 0
             PROVE  running'[j] \in Busy(j)'
  BY NextTable DEF HolderIsBusy
<1>0. running \in [Ids -> 0..Len(runs)]
  BY DEF TypeOK, RunsOK
<1>1. CASE Quiet
  BY <1>1 DEF Quiet, HolderIsBusy
<1>2. CASE Cleared
  BY <1>2 DEF Cleared
<1>3. ASSUME NEW id \in Ids, NEW r \in 1..MaxCalls, Registered(id, r)
      PROVE  running'[j] \in Busy(j)'
  BY <1>0, <1>3 DEF Registered, HolderIsBusy
<1>4. ASSUME NEW id \in Ids, NEW r \in 1..MaxCalls, Returned(id, r)
      PROVE  running'[j] \in Busy(j)'
  BY <1>0, <1>4 DEF Returned, HolderIsBusy
<1>5. ASSUME NEW id \in Ids, Stopped(id) PROVE running'[j] \in Busy(j)'
  BY <1>0, <1>5 DEF Stopped, HolderIsBusy
<1> QED BY <1>1, <1>2, <1>3, <1>4, <1>5 DEF TableStep

LEMMA HolderLives == HolderIsBusy => RunningIsLive
BY DEF HolderIsBusy, RunningIsLive, Busy

(* Whatever Stop, time-outs and returns race, an entry of m.running is that  *)
(* of a call that is under way and runs that script.                         *)
THEOREM EntriesAreLive == Spec => []RunningIsLive
BY SchedulerTypes, InitHolder, NextHolder, HolderLives, PTL DEF Spec

-----------------------------------------------------------------------------
(* Processes of one script.  Only a Stop detaches a call from its entry      *)
(* and leaves it under way; a return may detach another, but is itself gone. *)

Detached(id) == Busy(id) \ {running[id]}

LEMMA OneMore ==
  ASSUME NEW S, NEW x, IsFiniteSet(S)
  PROVE  /\ IsFiniteSet(S \cup {x})
         /\ Cardinality(S) \in Nat /\ Cardinality(S \cup {x}) \in Nat
         /\ Cardinality(S \cup {x}) <= Cardinality(S) + 1
<1>1. IsFiniteSet(S \cup {x}) /\ Cardinality(S) \in Nat
  BY FS_AddElement, FS_CardinalityType
<1>2. Cardinality(S \cup {x}) = Cardinality(S) \/ Cardinality(S \cup {x}) = Cardinality(S) + 1
  BY FS_AddElement
<1> QED BY <1>1, <1>2

StopsBoundDetached ==
  \A id \in Ids : IsFiniteSet(Busy(id)) /\ Cardinality(Detached(id)) <= stops[id]

LEMMA InitDetached == Init => StopsBoundDetached
BY FS_EmptySet DEF Init, StopsBoundDetached, Detached, Busy

LEMMA NextDetached ==
  TypeOK /\ HolderIsBusy /\ StopsBoundDetached /\ [Next]_vars => StopsBoundDetached'
<1> SUFFICES ASSUME TypeOK, HolderIsBusy, StopsBoundDetached, TableStep, NEW j \in Ids
             PROVE  IsFiniteSet(Busy(j)') /\ Cardinality(Detached(j)') <= stops'[j]
  BY NextTable DEF StopsBoundDetached
<1>0. /\ running \in [Ids -> 0..Len(runs)] /\ stops \in [Ids -> Nat]
      /\ IsFiniteSet(Busy(j)) /\ IsFiniteSet(Detached(j))
      /\ Cardinality(Detached(j)) \in Nat /\ Cardinality(Detached(j)) <= stops[j]
      /\ 0 \notin Busy(j)
  <2>1. IsFiniteSet(Detached(j))
    BY FS_Subset DEF StopsBoundDetached, Detached
  <2>2. 0 \notin Busy(j)
    BY RunFacts DEF Busy, TypeOK
  <2> QED BY <2>1, <2>2, FS_CardinalityType DEF TypeOK, RunsOK, StopsBoundDetached
<1>1. CASE Quiet
  BY <1>0, <1>1 DEF Quiet, Detached
<1>2. CASE Cleared
  <2>1. Busy(j)' = {} /\ Detached(j)' = {} /\ stops'[j] = 0
    BY <1>2 DEF Cleared, Detached
  <2> QED BY <2>1, FS_EmptySet
<1>3. ASSUME NEW id \in Ids, NEW r \in 1..MaxCalls, Registered(id, r)
      PROVE  IsFiniteSet(Busy(j)') /\ Cardinality(Detached(j)') <= stops'[j]
  <2>1. Detached(j)' = Detached(j) /\ stops'[j] = stops[j]
    BY <1>0, <1>3 DEF Registered, Detached
  <2>2. IsFiniteSet(Busy(j)')
    BY <1>0, <1>3, FS_AddElement DEF Registered
  <2> QED BY <1>0, <2>1, <2>2
<1>4. ASSUME NEW id \in Ids, NEW r \in 1..MaxCalls, Returned(id, r)
      PROVE  IsFiniteSet(Busy(j)') /\ Cardinality(Detached(j)') <= stops'[j]
  <2>1. CASE j # id
    BY <1>0, <1>4, <2>1 DEF Returned, Detached
  <2>2. CASE j = id
    <3>0. /\ Busy(j)' = Busy(j) \ {r} /\ running'[j] = 0 /\ stops'[j] = stops[j]
          /\ r \in Busy(j)
      BY <1>0, <1>4, <2>2 DEF Returned
    <3>1. IsFiniteSet(Busy(j)')
      BY <1>0, <3>0, FS_Subset
    <3>2. CASE running[j] = r
      BY <1>0, <3>0, <3>1, <3>2 DEF Detached
    <3>3. CASE running[j] # r
      <4> DEFINE others == Detached(j) \ {r}
      <4>1. /\ IsFiniteSet(others)
            /\ Cardinality(others) = Cardinality(Detached(j)) - 1
        BY <1>0, <3>0, <3>3, FS_RemoveElement DEF Detached
      <4>2. Detached(j)' = others \/ Detached(j)' = others \cup {running[j]}
        BY <1>0, <3>0, <3>3 DEF Detached
      <4>3. Cardinality(others \cup {running[j]}) <= Cardinality(others) + 1
        BY <4>1, OneMore
      <4>4. /\ Cardinality(others) \in Nat
            /\ Cardinality(others \cup {running[j]}) \in Nat
        BY <4>1, OneMore
      <4> HIDE DEF others
      <4>5. Cardinality(Detached(j)') <= stops[j]
        <5>1. CASE Detached(j)' = others
          BY <1>0, <4>1, <4>4, <5>1
        <5>2. CASE Detached(j)' = others \cup {running[j]}
          BY <1>0, <4>1, <4>3, <4>4, <5>2
        <5> QED BY <4>2, <5>1, <5>2
      <4> QED BY <3>0, <3>1, <4>5
    <3> QED BY <3>2, <3>3
  <2> QED BY <2>1, <2>2
<1>5. ASSUME NEW id \in Ids, Stopped(id)
      PROVE  IsFiniteSet(Busy(j)') /\ Cardinality(Detached(j)') <= stops'[j]
  <2>1. CASE j # id
    BY <1>0, <1>5, <2>1 DEF Stopped, Detached
  <2>2. CASE j = id
    <3>1. /\ Busy(j)' = Busy(j) /\ stops'[j] = stops[j] + 1
          /\ running[j] \in Busy(j) /\ running'[j] = 0
      BY <1>0, <1>5, <2>2 DEF Stopped, HolderIsBusy
    <3>2. Detached(j)' = Detached(j) \cup {running[j]}
      BY <1>0, <3>1 DEF Detached
    <3>3. Cardinality(Detached(j) \cup {running[j]}) <= Cardinality(Detached(j)) + 1
      BY <1>0, OneMore
    <3>4. Cardinality(Detached(j) \cup {running[j]}) \in Nat
      BY <1>0, OneMore
    <3> QED BY <1>0, <3>1, <3>2, <3>3, <3>4
  <2> QED BY <2>1, <2>2
<1> QED BY <1>1, <1>2, <1>3, <1>4, <1>5 DEF TableStep

LEMMA DetachedBoundsProcesses == TypeOK /\ StopsBoundDetached => StopsBoundRuns
<1> SUFFICES ASSUME TypeOK, StopsBoundDetached, NEW id \in Ids
             PROVE  Cardinality(Unstopped(id)) <= 1 + stops[id]
  BY DEF StopsBoundRuns
<1>1. /\ IsFiniteSet(Detached(id)) /\ Cardinality(Detached(id)) <= stops[id]
      /\ stops[id] \in Nat
  BY FS_Subset DEF TypeOK, RunsOK, StopsBoundDetached, Detached
<1> DEFINE all == Detached(id) \cup {running[id]}
<1>2. /\ IsFiniteSet(all) /\ Cardinality(all) <= Cardinality(Detached(id)) + 1
      /\ Cardinality(all) \in Nat /\ Cardinality(Detached(id)) \in Nat
  BY <1>1, OneMore
<1>3. Unstopped(id) \subseteq all
  BY DEF Unstopped, Detached, Busy
<1>4. Cardinality(Unstopped(id)) <= Cardinality(all) /\ Cardinality(Unstopped(id)) \in Nat
  BY <1>2, <1>3, FS_Subset, FS_CardinalityType
<1> QED BY <1>1, <1>2, <1>4

(* As long as no run of a script was stopped, none is detached. *)
LEMMA DetachedAreStopped == TypeOK /\ StopsBoundDetached => StoppableUntilStopped
<1> SUFFICES ASSUME TypeOK, StopsBoundDetached, NEW r \in DOMAIN runs,
                    runs[r].pc = "process", stops[runs[r].id] = 0
             PROVE  running[runs[r].id] = r
  BY DEF StoppableUntilStopped
<1> DEFINE id == runs[r].id
<1>1. id \in Ids /\ r \in Busy(id)
  BY RunFacts DEF TypeOK, Busy, Under, Run
<1>2. IsFiniteSet(Detached(id)) /\ Cardinality(Detached(id)) <= 0
  BY <1>1, FS_Subset DEF StopsBoundDetached, Detached
<1>3. Detached(id) = {}
  BY <1>2, FS_CardinalityType, FS_EmptySet
<1> QED BY <1>1, <1>3 DEF Detached

(* Until somebody stops a script, whatever else happens to its runs, a       *)
(* process of it is the holder of its id, which a Stop will find.            *)
THEOREM UnstoppedCanBeStopped == Spec => []StoppableUntilStopped
BY SchedulerTypes, InitHolder, NextHolder, InitDetached, NextDetached,
   DetachedAreStopped, PTL DEF Spec

(* Stop frees an id before its process is gone, and a return frees it for    *)
(* whoever holds it by then; still a script has at most one process that     *)
(* nobody stopped, besides one for every Stop.                               *)
THEOREM StopsBoundProcesses == Spec => []StopsBoundRuns
BY SchedulerTypes, InitHolder, NextHolder, InitDetached, NextDetached,
   DetachedBoundsProcesses, PTL DEF Spec

-----------------------------------------------------------------------------
(* What a process executes.  A call that was found and not moved points at   *)
(* its script, below the end of the list if in the array that is in use, so  *)
(* that no append can overwrite it; what it has read so far is its script's. *)

Own(e) ==
  ~e.moved =>
    /\ e.pc \in {"found", "registered", "read"} =>
         /\ heap[e.array][e.index].id = e.id
         /\ heap[e.array][e.index].body \in e.may
         /\ e.array = Len(heap) => e.index <= count
    /\ e.pc \in {"read", "process"} => e.command \in e.may
    /\ e.pc = "process" => e.args \in e.may

EachItsOwn == \A r \in DOMAIN runs : Own(runs[r])

LEMMA OwnIsEnough == EachItsOwn => RunsItsOwnScript
BY DEF EachItsOwn, Own, RunsItsOwnScript

LEMMA InitOwn == Init => EachItsOwn
BY DEF Init, EachItsOwn

LEMMA PointerFacts ==
  ASSUME ListOK, RunsOK, NEW r \in DOMAIN runs, Reads(r)
  PROVE  /\ runs[r].array \in 1..Len(heap) /\ runs[r].index \in Nat \ {0}
         /\ runs[r].array \in DOMAIN heap
         /\ runs[r].index \in DOMAIN heap[runs[r].array]
BY ListFacts DEF RunsOK, PointersOK

(* One call changes, and stays its own. *)
LEMMA OneOwn ==
  ASSUME RunsOK, EachItsOwn, heap' = heap, count' = count,
         NEW r \in DOMAIN runs, DOMAIN runs' = DOMAIN runs,
         \A q \in DOMAIN runs : q # r => runs'[q] = runs[q],
         Own(runs'[r])
  PROVE  EachItsOwn'
BY DEF EachItsOwn, Own

LEMMA AppendOwn ==
  ASSUME ListOK, RunsOK, EachItsOwn, NEW s \in Scripts, Append1(s), runs' = runs
  PROVE  EachItsOwn'
<1> USE ListFacts
<1>0. /\ PlacesKept
      /\ \A k \in 1..count : heap'[Len(heap)][k] = Array[k]
      /\ Len(heap') = Len(heap) => count' = count + 1
  BY AppendList
<1> SUFFICES ASSUME NEW r \in DOMAIN runs, ~runs[r].moved, Reads(r)
             PROVE  /\ heap'[runs[r].array][runs[r].index] =
                         heap[runs[r].array][runs[r].index]
                    /\ runs[r].array = Len(heap') => runs[r].index <= count'
  BY DEF EachItsOwn, Own, Reads
<1>1. /\ runs[r].array \in 1..Len(heap) /\ runs[r].index \in Nat \ {0}
      /\ runs[r].array \in DOMAIN heap
      /\ runs[r].index \in DOMAIN heap[runs[r].array]
  BY PointerFacts
<1>2. runs[r].array = Len(heap) => runs[r].index <= count
  BY DEF EachItsOwn, Own, Reads
<1>3. CASE runs[r].array = Len(heap)
  BY <1>0, <1>1, <1>2, <1>3 DEF Array, PlacesKept
<1>4. CASE runs[r].array # Len(heap)
  BY <1>0, <1>1, <1>4 DEF PlacesKept
<1> QED BY <1>3, <1>4

LEMMA UpdateOwn ==
  ASSUME ListOK, RunsOK, RestOK, EachItsOwn,
         NEW w \in Writers, NEW id \in Ids, Update(w, id)
  PROVE  EachItsOwn'
<1> USE ListFacts, RunFacts, ConstantsAssumption
<1> DEFINE s == [id |-> id, body |-> calls']
<1>0. s \in Scripts /\ calls' \in 0..MaxCalls /\ s.id = id /\ s.body = calls'
  BY DEF Update, Scripts, Bodies, RestOK
<1>1. PICK i \in 1..count : Array[i].id = id /\ heap' = [heap EXCEPT ![Len(heap)][i] = s]
  BY DEF Update, Places
<1>2. count' = count
  BY DEF Update
<1> HIDE DEF s
<1>3. /\ PlacesKept /\ Len(heap') = Len(heap)
      /\ \A k \in DOMAIN Array : heap'[Len(heap)][k] = IF k = i THEN s ELSE Array[k]
  BY <1>0, <1>1, <1>2, UpdateList
<1>4. /\ DOMAIN runs' = DOMAIN runs
      /\ \A r \in DOMAIN runs :
           runs'[r] = IF runs[r].id = id /\ Reads(r)
                      THEN [runs[r] EXCEPT !.may = @ \cup {calls'}] ELSE runs[r]
  BY <1>0, UpdateMarks DEF Update
<1>5. ASSUME NEW r \in DOMAIN runs, ~runs[r].moved, Reads(r)
      PROVE  \/ heap'[runs[r].array][runs[r].index] = heap[runs[r].array][runs[r].index]
             \/ heap'[runs[r].array][runs[r].index] = s /\ runs[r].id = id
  <2>1. /\ runs[r].array \in DOMAIN heap /\ runs[r].index \in DOMAIN heap[runs[r].array]
        /\ heap[runs[r].array][runs[r].index].id = runs[r].id
    BY <1>5, PointerFacts DEF EachItsOwn, Own, Reads
  <2>2. CASE runs[r].array = Len(heap)
    BY <1>1, <1>3, <2>1, <2>2 DEF Array
  <2>3. CASE runs[r].array # Len(heap)
    BY <1>3, <2>1, <2>3 DEF PlacesKept
  <2> QED BY <2>2, <2>3
<1>6. ASSUME NEW r \in DOMAIN runs PROVE Own(runs[r])'
  <2>2. /\ runs'[r].id = runs[r].id /\ runs'[r].pc = runs[r].pc
        /\ runs'[r].array = runs[r].array /\ runs'[r].index = runs[r].index
        /\ runs'[r].command = runs[r].command /\ runs'[r].args = runs[r].args
        /\ runs'[r].moved = runs[r].moved
        /\ runs[r].may \subseteq runs'[r].may
        /\ runs[r].id = id /\ Reads(r) => calls' \in runs'[r].may
    <3>1. runs[r] \in Run
      OBVIOUS
    <3>2. CASE runs[r].id = id /\ Reads(r)
      BY <1>4, <3>1, <3>2 DEF Run
    <3>3. CASE ~(runs[r].id = id /\ Reads(r))
      BY <1>4, <3>3
    <3> QED BY <3>2, <3>3
  <2>3. CASE ~runs[r].moved
    <3>1. Own(runs[r])
      BY DEF EachItsOwn
    <3>2. Reads(r) =>
            /\ heap'[runs[r].array][runs[r].index].id = runs[r].id
            /\ heap'[runs[r].array][runs[r].index].body \in runs'[r].may
      BY <1>0, <1>5, <2>2, <2>3, <3>1 DEF Own, Reads
    <3> QED BY <1>2, <1>3, <2>2, <2>3, <3>1, <3>2 DEF Own, Reads
  <2>4. CASE runs[r].moved
    BY <2>2, <2>4 DEF Own
  <2> QED BY <2>3, <2>4
<1> QED BY <1>4, <1>6 DEF EachItsOwn

LEMMA DeleteOwn ==
  ASSUME ListOK, RunsOK, EachItsOwn, NEW w \in Writers, NEW id \in Ids, Delete(w, id)
  PROVE  EachItsOwn'
<1> USE ListFacts, RunFacts
<1>1. PICK i \in 1..count :
        /\ heap' = [heap EXCEPT ![Len(heap)] = Without(Array, i, count)]
        /\ runs' = [r \in DOMAIN runs |->
                     IF Reads(r) /\ runs[r].array = Len(heap) /\ i <= runs[r].index
                     THEN [runs[r] EXCEPT !.moved = TRUE] ELSE runs[r]]
  BY DEF Delete, Places
<1>2. count' = count - 1
  BY DEF Delete
<1>3. /\ PlacesKept /\ Len(heap') = Len(heap)
      /\ \A k \in DOMAIN Array : k < i => heap'[Len(heap)][k] = Array[k]
  BY <1>1, <1>2, DeleteList
<1>4. /\ DOMAIN runs' = DOMAIN runs
      /\ \A r \in DOMAIN runs :
           runs'[r] = IF Reads(r) /\ runs[r].array = Len(heap) /\ i <= runs[r].index
                      THEN [runs[r] EXCEPT !.moved = TRUE] ELSE runs[r]
  BY <1>1, DeleteMarks
<1>5. ASSUME NEW r \in DOMAIN runs PROVE Own(runs[r])'
  <2>1. CASE Reads(r) /\ runs[r].array = Len(heap) /\ i <= runs[r].index
    <3>1. runs'[r].moved
      BY <1>4, <2>1 DEF Run
    <3> QED BY <3>1 DEF Own
  <2>2. CASE ~(Reads(r) /\ runs[r].array = Len(heap) /\ i <= runs[r].index)
    <3>1. runs'[r] = runs[r] /\ Own(runs[r])
      BY <1>4, <2>2 DEF EachItsOwn
    <3>2. ASSUME Reads(r)
          PROVE  /\ heap'[runs[r].array][runs[r].index] =
                      heap[runs[r].array][runs[r].index]
                 /\ runs[r].array = Len(heap') => runs[r].index <= count'
      <4>1. /\ runs[r].array \in 1..Len(heap) /\ runs[r].index \in Nat \ {0}
            /\ runs[r].array \in DOMAIN heap
            /\ runs[r].index \in DOMAIN heap[runs[r].array]
        BY <3>2, PointerFacts
      <4>2. CASE runs[r].array = Len(heap)
        BY <1>2, <1>3, <2>2, <3>2, <4>1, <4>2 DEF Array
      <4>3. CASE runs[r].array # Len(heap)
        BY <1>3, <4>1, <4>3 DEF PlacesKept
      <4> QED BY <4>2, <4>3
    <3> QED BY <3>1, <3>2 DEF Own, Reads
  <2> QED BY <2>1, <2>2
<1> QED BY <1>4, <1>5 DEF EachItsOwn

LEMMA CallOwn ==
  ASSUME ListOK, RunsOK, EachItsOwn, NEW r \in 1..MaxCalls,
         \/ Register(r) \/ ReadCommand(r) \/ Start(r) \/ Exit(r) \/ Kill(r)
         \/ Timeout(r) \/ Return(r)
  PROVE  EachItsOwn'
<1>1. /\ r \in DOMAIN runs /\ runs[r] \in Run /\ DOMAIN runs' = DOMAIN runs
      /\ \A q \in DOMAIN runs : q # r => runs'[q] = runs[q]
      /\ heap' = heap /\ count' = count /\ Own(runs[r])
  BY RunFacts DEF Register, ReadCommand, Start, Exit, Kill, Timeout, Return, Over,
                  listVars, EachItsOwn
<1>2. CASE runs'[r].pc \in {"done", "return"}
  BY <1>1, <1>2, OneOwn DEF Own
<1>3. CASE Register(r) /\ runs'[r].pc \notin {"done", "return"}
  <2>1. runs' = [runs EXCEPT ![r].pc = "registered"] \/ runs' = Over(r)
    BY <1>3 DEF Register
  <2>2. runs' = [runs EXCEPT ![r].pc = "registered"]
    BY <1>1, <1>3, <2>1, EndedRun
  <2>3. runs'[r] = [runs[r] EXCEPT !.pc = "registered"] /\ runs[r].pc = "found"
    BY <1>1, <1>3, <2>2 DEF Register
  <2>4. Own(runs'[r])
    BY <1>1, <2>3 DEF Own, Run
  <2> QED BY <1>1, <2>4, OneOwn
<1>4. CASE ReadCommand(r)
  <2>1. /\ runs'[r] = [runs[r] EXCEPT !.pc = "read", !.command = Pointed(r).body]
        /\ runs[r].pc = "registered"
    BY <1>1, <1>4 DEF ReadCommand
  <2>2. Own(runs'[r])
    BY <1>1, <2>1 DEF Own, Run, Pointed
  <2> QED BY <1>1, <2>2, OneOwn
<1>5. CASE Start(r) /\ runs'[r].pc \notin {"done", "return"}
  <2>1. /\ runs'[r] = [runs[r] EXCEPT !.pc = "process", !.args = Pointed(r).body]
        /\ runs[r].pc = "read"
    <3>1. PICK next \in {"return", "process"} :
            runs' = [runs EXCEPT ![r].pc = next, ![r].args = Pointed(r).body]
      BY <1>5 DEF Start
    <3>2. runs'[r] = [runs[r] EXCEPT !.pc = next, !.args = Pointed(r).body]
      BY <1>1, <3>1
    <3>3. next = "process"
      BY <1>1, <1>5, <3>2 DEF Run
    <3> QED BY <1>5, <3>2, <3>3 DEF Start
  <2>2. Own(runs'[r])
    BY <1>1, <2>1 DEF Own, Run, Pointed
  <2> QED BY <1>1, <2>2, OneOwn
<1>6. CASE Exit(r) \/ Kill(r)
  <2>1. runs'[r].pc = "return"
    BY <1>1, <1>6 DEF Exit, Kill, Run
  <2> QED BY <1>2, <2>1
<1>7. CASE Timeout(r)
  <2>1. runs'[r] = [runs[r] EXCEPT !.cancelled = TRUE]
    BY <1>1, <1>7 DEF Timeout
  <2>2. Own(runs'[r])
    BY <1>1, <2>1 DEF Own, Run
  <2> QED BY <1>1, <2>2, OneOwn
<1>8. CASE Return(r)
  <2>1. runs'[r].pc = "done"
    BY <1>1, <1>8, EndedRun DEF Return
  <2> QED BY <1>2, <2>1
<1> QED BY <1>2, <1>3, <1>4, <1>5, <1>6, <1>7, <1>8

LEMMA NextOwn == TypeOK /\ EachItsOwn /\ [Next]_vars => EachItsOwn'
<1> SUFFICES ASSUME ListOK, RunsOK, RestOK, EachItsOwn, [Next]_vars PROVE EachItsOwn'
  BY DEF TypeOK
<1> USE ListFacts, RunFacts, ConstantsAssumption
<1>1. CASE runs' = <<>>
  BY <1>1 DEF EachItsOwn
<1>2. CASE runs' = runs /\ heap' = heap /\ count' = count
  BY <1>2 DEF EachItsOwn, Own
<1>3. CASE Load \/ Crash \/ SeedDefault
  BY <1>1, <1>3 DEF Load, Crash, SeedDefault, runVars, RunsOK
<1>4. CASE Serve
  BY <1>2, <1>4 DEF Serve, runVars, listVars
<1>5. ASSUME NEW w \in Writers, NEW id \in Ids, Add(w, id) PROVE EachItsOwn'
  <2> DEFINE s == [id |-> id, body |-> calls']
  <2>1. s \in Scripts
    BY <1>5 DEF Add, Scripts, Bodies, RestOK
  <2>2. Append1(s) /\ runs' = runs
    BY <1>5 DEF Add, runVars
  <2> HIDE DEF s
  <2> QED BY <2>1, <2>2, AppendOwn
<1>6. ASSUME NEW w \in Writers, NEW id \in Ids, Update(w, id) \/ Delete(w, id)
      PROVE EachItsOwn'
  BY <1>6, UpdateOwn, DeleteOwn
<1>7. ASSUME NEW t \in Threads, Marshal(t) \/ Truncate(t) \/ Write(t) \/ SaveFails(t)
      PROVE EachItsOwn'
  BY <1>2, <1>7 DEF Marshal, Truncate, Write, SaveFails, runVars, listVars
<1>8. ASSUME NEW id \in Ids, Find(id) PROVE EachItsOwn'
  <2> DEFINE found(i) == [id |-> id, pc |-> "found", array |-> Len(heap), index |-> i,
                          command |-> 0, args |-> 0, cancelled |-> FALSE,
                          may |-> {Array[i].body}, moved |-> FALSE]
  <2>1. PICK i \in 1..count : Array[i].id = id /\ runs' = Append(runs, found(i))
    BY <1>8 DEF Find, Places
  <2> DEFINE e == found(i)
  <2>2. heap' = heap /\ count' = count
    BY <1>8 DEF Find, listVars
  <2>3. Own(e)
    BY <2>1 DEF Own, Array
  <2> HIDE DEF e
  <2>4. /\ DOMAIN runs' = 1..(Len(runs) + 1)
        /\ \A r \in 1..Len(runs) : runs'[r] = runs[r]
        /\ runs'[Len(runs) + 1] = e
    BY <2>1 DEF RunsOK, e
  <2>5. \A r \in DOMAIN runs' : Own(runs'[r])
    BY <2>3, <2>4 DEF EachItsOwn
  <2> QED BY <2>2, <2>5 DEF EachItsOwn, Own
<1>9. ASSUME NEW r \in 1..MaxCalls,
             \/ Register(r) \/ ReadCommand(r) \/ Start(r) \/ Exit(r) \/ Kill(r)
             \/ Timeout(r) \/ Return(r)
      PROVE  EachItsOwn'
  BY <1>9, CallOwn
<1>10. ASSUME NEW id \in Ids, Stop(id) PROVE EachItsOwn'
  <2>1. running[id] \in DOMAIN runs
    BY <1>10 DEF Stop, RunsOK
  <2>2. /\ DOMAIN runs' = DOMAIN runs /\ heap' = heap /\ count' = count
        /\ \A q \in DOMAIN runs : q # running[id] => runs'[q] = runs[q]
        /\ runs'[running[id]] = [runs[running[id]] EXCEPT !.cancelled = TRUE]
    BY <1>10, <2>1 DEF Stop, listVars
  <2>3. Own(runs'[running[id]])
    BY <2>1, <2>2 DEF EachItsOwn, Own, Run
  <2> QED BY <2>1, <2>2, <2>3, OneOwn
<1>11. CASE UNCHANGED vars
  BY <1>2, <1>11 DEF vars, runVars, listVars
<1> QED BY <1>3, <1>4, <1>5, <1>6, <1>7, <1>8, <1>9, <1>10, <1>11 DEF Next

(* A run executes a command and arguments its script has had since the run   *)
(* was asked for, through appends that reallocate and updates in place,      *)
(* unless a deletion moved the elements under its pointer.                   *)
THEOREM RunsExecuteTheirScript == Spec => []RunsItsOwnScript
BY SchedulerTypes, InitOwn, NextOwn, OwnIsEnough, PTL DEF Spec

-----------------------------------------------------------------------------
(* An id names one script.                                                   *)

(* The elements of a slice are those of its array. *)
LEMMA SliceIs ==
  ASSUME NEW a \in Seq(Slots), NEW n \in 0..Len(a)
  PROVE  /\ DOMAIN SubSeq(a, 1, n) = 1..n
         /\ \A k \in 1..n : SubSeq(a, 1, n)[k] = a[k]
<1>1. Len(a) \in Nat /\ n \in Nat /\ \A k \in 1..n : a[k] \in Slots
  BY LenProperties, ElementOfSeq
<1>2. /\ Len(SubSeq(a, 1, n)) = IF 1 <= n THEN n - 1 + 1 ELSE 0
      /\ SubSeq(a, 1, n) \in Seq(Slots)
      /\ \A k \in 1..(n - 1 + 1) : SubSeq(a, 1, n)[k] = a[1 + k - 1]
  BY <1>1, SubSeqProperties
<1> QED BY <1>1, <1>2, LenProperties

LEMMA UniqueSlice ==
  ASSUME NEW a \in Seq(Slots), NEW n \in 0..Len(a)
  PROVE  OneEach(SubSeq(a, 1, n)) <=> \A i, j \in 1..n : a[i].id = a[j].id => i = j
<1> DEFINE l == SubSeq(a, 1, n)
<1>1. DOMAIN l = 1..n /\ \A k \in 1..n : l[k] = a[k]
  BY SliceIs
<1> HIDE DEF l
<1>2. OneEach(l) <=> \A i, j \in 1..n : a[i].id = a[j].id => i = j
  BY <1>1 DEF OneEach
<1> QED BY <1>2 DEF l

LEMMA LastArray ==
  ASSUME NEW h \in Seq(Seq(Slots)), h # <<>>
  PROVE  h[Len(h)] \in Seq(Slots)
<1>1. Len(h) \in 1..Len(h)
  BY EmptySeq, LenProperties
<1> QED BY <1>1, ElementOfSeq

LEMMA UniqueList ==
  ASSUME ListOK
  PROVE  OneEach(List) <=> \A i, j \in 1..count : Array[i].id = Array[j].id => i = j
BY LastArray, UniqueSlice DEF ListOK, List, Array

(* The same of the list after a step. *)
LEMMA UniqueNext ==
  ASSUME ListOK', \A i, j \in 1..count' : Array'[i].id = Array'[j].id => i = j
  PROVE  OneEach(List)'
<1> DEFINE a == Array'
           n == count'
<1>1. a \in Seq(Slots) /\ n \in 0..Len(a)
  BY LastArray DEF ListOK, Array
<1>2. OneEach(List)' <=> OneEach(SubSeq(a, 1, n))
  BY DEF List, OneEach
<1> HIDE DEF a, n
<1>3. OneEach(SubSeq(a, 1, n)) <=> \A i, j \in 1..n : a[i].id = a[j].id => i = j
  BY <1>1, UniqueSlice
<1> QED BY <1>2, <1>3 DEF a, n

LEMMA NoneTwice == OneEach(<<>>)
BY DEF OneEach

LEMMA InitUnique == Init => IdsAreUnique
<1> SUFFICES ASSUME Init PROVE IdsAreUnique
  OBVIOUS
<1>1. OneEach(List)
  <2>1. count = 0 /\ ListOK
    BY InitTypes DEF Init, TypeOK
  <2> QED BY <2>1, UniqueList
<1>2. ASSUME file \notin {NoFile, Bad} PROVE OneEach(file)
  <2>1. PICK i \in Ids : file = <<[id |-> i, body |-> 0]>>
    BY <1>2 DEF Init
  <2> QED BY <2>1 DEF OneEach
<1>3. \A t \in Threads : OneEach(data[t])
  BY NoneTwice DEF Init
<1> QED BY <1>1, <1>2, <1>3 DEF IdsAreUnique

(* The changes of the list: an id that is added was looked for first; one    *)
(* that is updated keeps its place; the places that move down stay apart.    *)
LEMMA AddedOnce ==
  ASSUME ListOK, NEW s \in Scripts, Append1(s), Places(s.id) = {}, OneEach(List)
  PROVE  OneEach(List)'
<1>1. /\ ListOK' /\ count' = count + 1 /\ count \in Nat
      /\ Array'[count + 1] = s /\ \A k \in 1..count : Array'[k] = Array[k]
  BY AppendList, ListFacts
<1>2. \A i, j \in 1..count : Array[i].id = Array[j].id => i = j
  BY UniqueList
<1>3. \A i \in 1..count : Array[i].id # s.id
  BY DEF Places
<1>4. \A i, j \in 1..(count + 1) : Array'[i].id = Array'[j].id => i = j
  <2>1. \A i \in 1..(count + 1) : i \in 1..count \/ i = count + 1
    BY <1>1
  <2> QED BY <1>1, <1>2, <1>3, <2>1
<1> QED BY <1>1, <1>4, UniqueNext

LEMMA UpdatedOnce ==
  ASSUME ListOK, NEW s \in Scripts, NEW i \in Places(s.id),
         heap' = [heap EXCEPT ![Len(heap)][i] = s], count' = count, OneEach(List)
  PROVE  OneEach(List)'
<1>1. i \in 1..count /\ Array[i].id = s.id
  BY DEF Places
<1>2. /\ ListOK' /\ Len(heap') = Len(heap)
      /\ \A k \in DOMAIN Array : heap'[Len(heap)][k] = IF k = i THEN s ELSE Array[k]
  BY <1>1, UpdateList
<1>3. count \in 0..Len(Array) /\ DOMAIN Array = 1..Len(Array) /\ Len(Array) \in Nat
  BY ListFacts, LenProperties DEF ListOK
<1>4. \A k \in 1..count : Array'[k] = IF k = i THEN s ELSE Array[k]
  BY <1>2, <1>3 DEF Array
<1>5. \A k, j \in 1..count : Array[k].id = Array[j].id => k = j
  BY UniqueList
<1>6. \A k \in 1..count : Array'[k].id = Array[k].id
  BY <1>1, <1>4
<1> QED BY <1>2, <1>5, <1>6, UniqueNext

LEMMA DeletedOnce ==
  ASSUME ListOK, NEW i \in 1..count,
         heap' = [heap EXCEPT ![Len(heap)] = Without(Array, i, count)],
         count' = count - 1, OneEach(List)
  PROVE  OneEach(List)'
<1>1. /\ ListOK' /\ count \in Nat
      /\ \A k \in 1..count' : Array'[k] = IF i <= k THEN Array[k + 1] ELSE Array[k]
  BY DeleteList, ListFacts
<1>2. \A k, j \in 1..count : Array[k].id = Array[j].id => k = j
  BY UniqueList
<1> DEFINE old(k) == IF i <= k THEN k + 1 ELSE k
<1>3. ASSUME NEW k \in 1..count' PROVE old(k) \in 1..count /\ Array'[k] = Array[old(k)]
  BY <1>1
<1>4. \A k, j \in 1..count' : old(k) = old(j) => k = j
  BY <1>1
<1> HIDE DEF old
<1>5. \A k, j \in 1..count' : Array'[k].id = Array'[j].id => k = j
  BY <1>2, <1>3, <1>4
<1> QED BY <1>1, <1>5, UniqueNext

LEMMA NextUnique == TypeOK /\ IdsAreUnique /\ [Next]_vars => IdsAreUnique'
<1> SUFFICES ASSUME ListOK, RunsOK, RestOK, IdsAreUnique, ListOK', [Next]_vars
             PROVE  IdsAreUnique'
  BY NextTypes DEF TypeOK
<1>0. /\ OneEach(List) /\ \A t \in Threads : OneEach(data[t])
      /\ file \notin {NoFile, Bad} => OneEach(file)
  BY DEF IdsAreUnique
<1>1. ASSUME UNCHANGED listVars PROVE OneEach(List)'
  BY <1>0, <1>1 DEF listVars, List, Array, OneEach
<1>2. CASE Load
  <2> DEFINE l == IF file \in {NoFile, Bad} THEN <<>> ELSE file
  <2>1. l \in Seq(Scripts) /\ OneEach(l)
    BY <1>0, NoneTwice DEF RestOK
  <2>2. PICK spare \in 0..Len(l) : heap' = <<Loaded(l, spare)>>
    BY <1>2 DEF Load
  <2>3. count' = Len(l)
    BY <1>2 DEF Load
  <2> HIDE DEF l
  <2>4. List' = l
    BY <2>1, <2>2, <2>3, LoadedList, LenProperties
  <2>5. OneEach(List)'
    BY <2>1, <2>4 DEF OneEach
  <2> QED BY <1>0, <1>2, <2>5 DEF Load, IdsAreUnique
<1>3. CASE Crash
  <2>1. count' = 0 /\ \A t \in Threads : data'[t] = <<>>
    BY <1>3 DEF Crash
  <2>2. OneEach(List)'
    BY <2>1, UniqueNext
  <2> QED BY <1>0, <1>3, <2>1, <2>2, NoneTwice DEF Crash, IdsAreUnique
<1>4. ASSUME NEW w \in Writers, NEW id \in Ids, Add(w, id) PROVE IdsAreUnique'
  <2> DEFINE s == [id |-> id, body |-> calls']
  <2>1. s \in Scripts /\ s.id = id
    BY <1>4, ConstantsAssumption DEF Add, Scripts, Bodies, RestOK
  <2>2. Append1(s) /\ Places(id) = {} /\ data' = data /\ file' = file
    BY <1>4 DEF Add
  <2> HIDE DEF s
  <2>3. OneEach(List)'
    BY <1>0, <2>1, <2>2, AddedOnce
  <2> QED BY <1>0, <2>2, <2>3 DEF IdsAreUnique
<1>5. CASE SeedDefault
  <2>1. data' = data /\ file' = file /\ Head(seeds) \in Ids
    BY <1>5, HeadTailProperties DEF SeedDefault, RestOK
  <2>2. CASE Places(Head(seeds)) = {}
    <3> DEFINE s == [id |-> Head(seeds), body |-> 0]
    <3>1. s \in Scripts /\ s.id = Head(seeds)
      BY <2>1, ConstantsAssumption DEF Scripts, Bodies
    <3>2. Append1(s)
      BY <1>5, <2>2 DEF SeedDefault
    <3> HIDE DEF s
    <3>3. OneEach(List)'
      BY <1>0, <2>2, <3>1, <3>2, AddedOnce
    <3> QED BY <1>0, <2>1, <3>3 DEF IdsAreUnique
  <2>3. CASE Places(Head(seeds)) # {}
    <3>1. UNCHANGED listVars
      BY <1>5, <2>3 DEF SeedDefault
    <3> QED BY <1>0, <1>1, <2>1, <3>1 DEF IdsAreUnique
  <2> QED BY <2>2, <2>3
<1>6. ASSUME NEW w \in Writers, NEW id \in Ids, Update(w, id) PROVE IdsAreUnique'
  <2> DEFINE s == [id |-> id, body |-> calls']
  <2>1. s \in Scripts /\ s.id = id
    BY <1>6, ConstantsAssumption DEF Update, Scripts, Bodies, RestOK
  <2>2. PICK i \in Places(id) : heap' = [heap EXCEPT ![Len(heap)][i] = s]
    BY <1>6 DEF Update
  <2>3. count' = count /\ data' = data /\ file' = file
    BY <1>6 DEF Update
  <2> HIDE DEF s
  <2>4. OneEach(List)'
    BY <1>0, <2>1, <2>2, <2>3, UpdatedOnce
  <2> QED BY <1>0, <2>3, <2>4 DEF IdsAreUnique
<1>7. ASSUME NEW w \in Writers, NEW id \in Ids, Delete(w, id) PROVE IdsAreUnique'
  <2>1. PICK i \in 1..count : heap' = [heap EXCEPT ![Len(heap)] = Without(Array, i, count)]
    BY <1>7 DEF Delete, Places
  <2>2. count' = count - 1 /\ data' = data /\ file' = file
    BY <1>7 DEF Delete
  <2>3. OneEach(List)'
    BY <1>0, <2>1, <2>2, DeletedOnce
  <2> QED BY <1>0, <2>2, <2>3 DEF IdsAreUnique
<1>8. ASSUME NEW t \in Threads, Marshal(t) \/ Truncate(t) \/ Write(t) \/ SaveFails(t)
      PROVE  IdsAreUnique'
  <2>1. UNCHANGED listVars /\ OneEach(List)'
    BY <1>1, <1>8 DEF Marshal, Truncate, Write, SaveFails
  <2>2. data \in [Threads -> Seq(Scripts)]
    BY DEF RestOK
  <2>3. \A u \in Threads : data'[u] = data[u] \/ data'[u] = List \/ data'[u] = <<>>
    BY <1>8, <2>2 DEF Marshal, Truncate, Write, SaveFails
  <2>4. file' = file \/ file' = Bad \/ file' = data[t]
    BY <1>8 DEF Marshal, Truncate, Write, SaveFails
  <2>5. \A u \in Threads : OneEach(data'[u])
    BY <1>0, <2>3, NoneTwice
  <2>6. file' \notin {NoFile, Bad} => OneEach(file')
    BY <1>0, <2>4
  <2> QED BY <2>1, <2>5, <2>6 DEF IdsAreUnique
<1>9. CASE UNCHANGED <<listVars, data, file>>
  BY <1>0, <1>1, <1>9 DEF IdsAreUnique
<1>10. ASSUME NEW id \in Ids, Find(id) \/ Stop(id) PROVE IdsAreUnique'
  BY <1>9, <1>10 DEF Find, Stop, saveVars
<1>11. ASSUME NEW r \in 1..MaxCalls,
              \/ Register(r) \/ ReadCommand(r) \/ Start(r) \/ Exit(r)
              \/ Kill(r) \/ Timeout(r) \/ Return(r)
       PROVE  IdsAreUnique'
  BY <1>9, <1>11 DEF Register, ReadCommand, Start, Exit, Kill, Timeout, Return, saveVars
<1>12. CASE Serve \/ UNCHANGED vars
  BY <1>9, <1>12 DEF Serve, vars, saveVars
<1> QED BY <1>2, <1>3, <1>4, <1>5, <1>6, <1>7, <1>8, <1>10, <1>11, <1>12 DEF Next

(* An id names one script, in the list, in what is being saved and in the    *)
(* file, whatever is appended, deleted in place, saved by overlapping        *)
(* writers, lost in a crash and seeded again.                                *)
THEOREM IdsNameOneScript == Spec => []IdsAreUnique
BY SchedulerTypes, InitUnique, NextUnique, PTL DEF Spec

-----------------------------------------------------------------------------
(* The slice is a map from ids to scripts: what each change of it does to    *)
(* the scripts held, given that an id is in one place.                       *)
LEMMA AppendedIsHeld ==
  ASSUME ListOK, NEW s \in Scripts, Append1(s)
  PROVE  Held' = Held \cup {s}
<1>1. /\ count' = count + 1 /\ count \in Nat
      /\ Array'[count + 1] = s /\ \A k \in 1..count : Array'[k] = Array[k]
  BY AppendList, ListFacts
<1>2. \A k : k \in 1..count' <=> k \in 1..count \/ k = count + 1
  BY <1>1
<1>3. ASSUME NEW x PROVE x \in Held' <=> x \in Held \cup {s}
  <2>1. x \in Held' <=> \E k \in 1..count' : x = Array'[k]
    BY DEF Held
  <2>2. x \in Held <=> \E k \in 1..count : x = Array[k]
    BY DEF Held
  <2> QED BY <1>1, <1>2, <2>1, <2>2
<1> QED BY <1>3

LEMMA UpdatedIsHeld ==
  ASSUME ListOK, NEW s \in Scripts, NEW i \in Places(s.id), OneEach(List),
         heap' = [heap EXCEPT ![Len(heap)][i] = s], count' = count
  PROVE  Held' = Others(s.id) \cup {s}
<1>1. i \in 1..count /\ Array[i].id = s.id
  BY DEF Places
<1>2. /\ Len(heap') = Len(heap)
      /\ \A k \in DOMAIN Array : heap'[Len(heap)][k] = IF k = i THEN s ELSE Array[k]
  BY <1>1, UpdateList
<1>3. count \in 0..Len(Array) /\ DOMAIN Array = 1..Len(Array) /\ Len(Array) \in Nat
  BY ListFacts, LenProperties DEF ListOK
<1>4. \A k \in 1..count : Array'[k] = IF k = i THEN s ELSE Array[k]
  BY <1>2, <1>3 DEF Array
<1>5. \A k \in 1..count : Array[k].id = s.id => k = i
  BY <1>1, UniqueList
<1>6. ASSUME NEW x PROVE x \in Held' <=> x \in Others(s.id) \cup {s}
  <2>1. x \in Held' <=> \E k \in 1..count : x = Array'[k]
    BY DEF Held
  <2>2. x \in Others(s.id) <=> x.id # s.id /\ \E k \in 1..count : x = Array[k]
    BY DEF Held, Others
  <2> QED BY <1>1, <1>4, <1>5, <2>1, <2>2
<1> QED BY <1>6

LEMMA DeletedIsNotHeld ==
  ASSUME ListOK, NEW id \in Ids, NEW i \in Places(id), OneEach(List),
         heap' = [heap EXCEPT ![Len(heap)] = Without(Array, i, count)],
         count' = count - 1
  PROVE  Held' = Others(id)
<1>0. i \in 1..count /\ Array[i].id = id
  BY DEF Places
<1>1. /\ count \in Nat
      /\ \A k \in 1..count' : Array'[k] = IF i <= k THEN Array[k + 1] ELSE Array[k]
  BY <1>0, DeleteList, ListFacts
<1>2. \A k \in 1..count : Array[k].id = id => k = i
  BY <1>0, UniqueList
<1> DEFINE old(k) == IF i <= k THEN k + 1 ELSE k
<1>3. ASSUME NEW k \in 1..count'
      PROVE  old(k) \in 1..count /\ old(k) # i /\ Array'[k] = Array[old(k)]
  BY <1>0, <1>1
<1>4. ASSUME NEW k \in 1..count, k # i PROVE \E j \in 1..count' : old(j) = k
  <2>1. CASE k < i
    <3>1. k \in 1..count' /\ old(k) = k
      BY <1>0, <1>1, <2>1
    <3> QED BY <3>1
  <2>2. CASE ~(k < i)
    <3>1. k - 1 \in 1..count' /\ old(k - 1) = k
      BY <1>0, <1>1, <1>4, <2>2
    <3> QED BY <3>1
  <2> QED BY <2>1, <2>2
<1> HIDE DEF old
<1>5. ASSUME NEW x PROVE x \in Held' <=> x \in Others(id)
  <2>1. x \in Held' <=> \E k \in 1..count' : x = Array'[k]
    BY DEF Held
  <2>2. x \in Others(id) <=> x.id # id /\ \E k \in 1..count : x = Array[k]
    BY DEF Held, Others
  <2>3. ASSUME x \in Held' PROVE x \in Others(id)
    BY <1>2, <1>3, <2>1, <2>2, <2>3
  <2>4. ASSUME x \in Others(id) PROVE x \in Held'
    <3>1. PICK k \in 1..count : x = Array[k] /\ x.id # id
      BY <2>2, <2>4
    <3>2. PICK j \in 1..count' : old(j) = k
      BY <1>0, <1>4, <3>1
    <3> QED BY <1>3, <2>1, <3>1, <3>2
  <2> QED BY <2>3, <2>4
<1> QED BY <1>5

(* Nothing but a change of the list, a load or a crash touches the slice. *)
LEMMA HeldByChanges ==
  [Next]_vars =>
    \/ Load \/ Crash \/ SeedDefault \/ Held' = Held
    \/ \E w \in Writers, id \in Ids : Add(w, id) \/ Update(w, id) \/ Delete(w, id)
<1> SUFFICES ASSUME [Next]_vars PROVE
      \/ Load \/ Crash \/ SeedDefault \/ UNCHANGED listVars
      \/ \E w \in Writers, id \in Ids : Add(w, id) \/ Update(w, id) \/ Delete(w, id)
  BY DEF listVars, Held, Array
<1>1. ASSUME NEW t \in Threads, Marshal(t) \/ Truncate(t) \/ Write(t) \/ SaveFails(t)
      PROVE  UNCHANGED listVars
  BY <1>1 DEF Marshal, Truncate, Write, SaveFails
<1>2. ASSUME NEW id \in Ids, Find(id) \/ Stop(id) PROVE UNCHANGED listVars
  BY <1>2 DEF Find, Stop
<1>3. ASSUME NEW r \in 1..MaxCalls,
             \/ Register(r) \/ ReadCommand(r) \/ Start(r) \/ Exit(r)
             \/ Kill(r) \/ Timeout(r) \/ Return(r)
      PROVE  UNCHANGED listVars
  BY <1>3 DEF Register, ReadCommand, Start, Exit, Kill, Timeout, Return
<1>4. CASE Serve \/ UNCHANGED vars
  BY <1>4 DEF Serve, vars
<1> QED BY <1>1, <1>2, <1>3, <1>4 DEF Next

LEMMA NextExact == TypeOK /\ IdsAreUnique /\ [Next]_vars => ExactEdit
<1> SUFFICES ASSUME ListOK, RestOK, OneEach(List), [Next]_vars PROVE ExactEdit
  BY DEF TypeOK, IdsAreUnique
<1>1. ASSUME NEW w \in Writers, NEW id \in Ids, NEW s, s = [id |-> id, body |-> calls']
      PROVE  /\ Add(w, id) => Held' = Held \cup {s}
             /\ Update(w, id) => Held' = Others(id) \cup {s}
             /\ Delete(w, id) => Held' = Others(id)
  <2>1. ASSUME Add(w, id) \/ Update(w, id) PROVE s \in Scripts /\ s.id = id
    BY <1>1, <2>1, ConstantsAssumption DEF Add, Update, Scripts, Bodies, RestOK
  <2>2. ASSUME Add(w, id) PROVE Held' = Held \cup {s}
    <3>1. Append1(s)
      BY <1>1, <2>2 DEF Add
    <3> QED BY <2>1, <2>2, <3>1, AppendedIsHeld
  <2>3. ASSUME Update(w, id) PROVE Held' = Others(id) \cup {s}
    <3>1. /\ count' = count
          /\ \E i \in Places(id) : heap' = [heap EXCEPT ![Len(heap)][i] = s]
      BY <1>1, <2>3 DEF Update
    <3> QED BY <2>1, <2>3, <3>1, UpdatedIsHeld
  <2>4. ASSUME Delete(w, id) PROVE Held' = Others(id)
    <3>1. /\ count' = count - 1
          /\ \E i \in Places(id) :
               heap' = [heap EXCEPT ![Len(heap)] = Without(Array, i, count)]
      BY <2>4 DEF Delete
    <3> QED BY <3>1, DeletedIsNotHeld
  <2> QED BY <2>2, <2>3, <2>4
<1>2. ASSUME SeedDefault PROVE Held \subseteq Held'
  <2>1. CASE Places(Head(seeds)) = {}
    <3> DEFINE s == [id |-> Head(seeds), body |-> 0]
    <3>1. s \in Scripts
      BY <1>2, HeadTailProperties, ConstantsAssumption DEF SeedDefault, RestOK, Scripts, Bodies
    <3>2. Append1(s)
      BY <1>2, <2>1 DEF SeedDefault
    <3> HIDE DEF s
    <3> QED BY <3>1, <3>2, AppendedIsHeld
  <2>2. CASE Places(Head(seeds)) # {}
    BY <1>2, <2>2 DEF SeedDefault, listVars, Held, Array
  <2> QED BY <2>1, <2>2
<1>3. ASSUME server = "up", server' = "up", Held' # Held
      PROVE  \E w \in Writers, id \in Ids : Add(w, id) \/ Update(w, id) \/ Delete(w, id)
  BY <1>3, HeldByChanges DEF Load, Crash, SeedDefault
<1> QED BY <1>1, <1>2, <1>3, Zenon DEF ExactEdit

(* An edit changes the script of its id and no other, wherever the others    *)
(* are in the array or to whichever it moves; while the server is up nothing *)
(* else changes one.                                                         *)
THEOREM EditsChangeOneScript == Spec => EditsAreExact
BY SchedulerTypes, IdsNameOneScript, NextExact, PTL DEF Spec, EditsAreExact

=============================================================================
