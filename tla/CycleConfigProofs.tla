------------------------- MODULE CycleConfigProofs -------------------------
(***************************************************************************)
(* What the three edits of a document return, for every document, limit    *)
(* and schedule: the facts the proofs about the request server rest on.    *)
(***************************************************************************)
EXTENDS CycleConfig, SequenceTheorems, TLAPS

\* In a well-formed document at most one cycle has a given id.
LEMMA IdsDistinct ==
  ASSUME NEW doc \in Documents, WellFormed(doc),
         NEW i \in DOMAIN doc.cycles, NEW j \in DOMAIN doc.cycles,
         doc.cycles[i].id = doc.cycles[j].id
  PROVE  i = j
<1>1. doc.cycles \in Seq(Cycle)
  BY DEF Documents
<1>2. i \in Nat /\ j \in Nat
  BY <1>1
<1>3. doc.cycles[i] \in Cycle /\ doc.cycles[j] \in Cycle
  BY <1>1
<1>4. doc.cycles[i].id \in Nat /\ doc.cycles[j].id \in Nat
  BY <1>3 DEF Cycle
<1> QED
  BY <1>2, <1>4 DEF WellFormed

\* The search of the handlers finds the cycle that has the id.
LEMMA IndexOfFinds ==
  ASSUME NEW doc \in Documents, WellFormed(doc), NEW id \in IdsOf(doc)
  PROVE  /\ IndexOf(doc, id) \in DOMAIN doc.cycles
         /\ doc.cycles[IndexOf(doc, id)].id = id
<1> DEFINE Matches == {i \in 1 .. Len(doc.cycles) : doc.cycles[i].id = id}
<1>1. doc.cycles \in Seq(Cycle)
  BY DEF Documents
<1>2. DOMAIN doc.cycles = 1 .. Len(doc.cycles)
  BY <1>1
<1>3. PICK k \in DOMAIN doc.cycles : doc.cycles[k].id = id
  BY DEF IdsOf
<1>4. Matches = {k}
  BY <1>2, <1>3, IdsDistinct
<1>5. Min(Matches) = k
  BY <1>2, <1>3, <1>4 DEF Min
<1>6. IndexOf(doc, id) = k
  BY <1>4, <1>5 DEF IndexOf, SelectInSeq
<1> QED
  BY <1>3, <1>6

\* POST: a new last cycle with an id above all the others.
LEMMA AddedSound ==
  ASSUME NEW doc \in Documents, WellFormed(doc), HasRoom(doc), NEW body \in Bodies
  PROVE  /\ Added(doc, body) \in Documents
         /\ WellFormed(Added(doc, body))
         /\ Added(doc, body).counter = doc.counter + 1
         /\ IdsOf(Added(doc, body)) = IdsOf(doc) \cup {doc.counter + 1}
<1> DEFINE new    == [id |-> doc.counter + 1, body |-> body]
           cycles == Append(doc.cycles, new)
<1>1. doc.counter \in Nat /\ doc.cycles \in Seq(Cycle)
  BY DEF Documents
<1>2. new \in Cycle
  BY <1>1 DEF Cycle
<1>3. /\ cycles \in Seq(Cycle)
      /\ Len(cycles) = Len(doc.cycles) + 1
      /\ \A i \in 1 .. Len(doc.cycles) : cycles[i] = doc.cycles[i]
      /\ cycles[Len(doc.cycles) + 1] = new
  BY <1>1, <1>2, AppendProperties
<1>4. DOMAIN cycles = 1 .. Len(doc.cycles) + 1 /\ DOMAIN doc.cycles = 1 .. Len(doc.cycles)
  BY <1>1, <1>3
<1>5. Len(doc.cycles) \in Nat
  BY <1>1
<1>6. Added(doc, body) = [counter |-> doc.counter + 1, cycles |-> cycles]
  BY DEF Added
<1>7. Added(doc, body) \in Documents
  BY <1>1, <1>3, <1>6 DEF Documents
<1>8. Added(doc, body).counter = doc.counter + 1 /\ Added(doc, body).cycles = cycles
  BY <1>6
<1> HIDE DEF cycles
<1>9. \A i \in DOMAIN doc.cycles : doc.cycles[i].id \in 1 .. doc.counter
  BY DEF WellFormed
<1>10. WellFormed(Added(doc, body))
  <2>1. Len(cycles) <= MaxCycles
    BY <1>3, <1>5, MaxCyclesAssumption DEF HasRoom
  <2>2. \A i \in DOMAIN cycles : cycles[i].id \in 1 .. doc.counter + 1
    BY <1>1, <1>3, <1>4, <1>5, <1>9
  <2>3. ASSUME NEW i \in DOMAIN cycles, NEW j \in DOMAIN cycles, i < j
        PROVE  cycles[i].id < cycles[j].id
    <3>1. i \in 1 .. Len(doc.cycles) /\ cycles[i] = doc.cycles[i]
      BY <1>3, <1>4, <1>5, <2>3
    <3>2. CASE j \in 1 .. Len(doc.cycles)
      BY <1>3, <1>4, <2>3, <3>1, <3>2 DEF WellFormed
    <3>3. CASE j = Len(doc.cycles) + 1
      BY <1>1, <1>3, <1>4, <1>9, <3>1, <3>3
    <3> QED
      BY <1>4, <1>5, <3>2, <3>3
  <2> QED
    BY <1>8, <2>1, <2>2, <2>3 DEF WellFormed
<1>11. IdsOf(Added(doc, body)) = IdsOf(doc) \cup {doc.counter + 1}
  <2>1. IdsOf(doc) = {doc.cycles[i].id : i \in 1 .. Len(doc.cycles)}
    BY <1>4 DEF IdsOf
  <2>2. IdsOf(Added(doc, body)) = {cycles[i].id : i \in 1 .. Len(doc.cycles) + 1}
    BY <1>4, <1>8 DEF IdsOf
  <2>3. 1 .. Len(doc.cycles) + 1 = (1 .. Len(doc.cycles)) \cup {Len(doc.cycles) + 1}
    BY <1>5
  <2>4. cycles[Len(doc.cycles) + 1].id = doc.counter + 1
    BY <1>3
  <2> HIDE DEF new
  <2> QED
    BY <1>3, <2>1, <2>2, <2>3, <2>4
<1> QED
  BY <1>7, <1>8, <1>10, <1>11

\* PUT: the same ids in the same places, under the same counter.
LEMMA UpdatedSound ==
  ASSUME NEW doc \in Documents, WellFormed(doc),
         NEW id \in IdsOf(doc), NEW body \in Bodies
  PROVE  /\ Updated(doc, id, body) \in Documents
         /\ WellFormed(Updated(doc, id, body))
         /\ Updated(doc, id, body).counter = doc.counter
         /\ IdsOf(Updated(doc, id, body)) = IdsOf(doc)
<1> DEFINE k      == IndexOf(doc, id)
           new    == [id |-> id, body |-> body]
           cycles == [doc.cycles EXCEPT ![k] = new]
<1>1. doc.counter \in Nat /\ doc.cycles \in Seq(Cycle)
  BY DEF Documents
<1>2. k \in DOMAIN doc.cycles /\ doc.cycles[k].id = id
  BY IndexOfFinds
<1>3. doc.cycles[k] \in Cycle
  BY <1>1, <1>2
<1>4. new \in Cycle
  BY <1>2, <1>3 DEF Cycle
<1>5. Updated(doc, id, body) = [doc EXCEPT !.cycles = cycles]
  BY DEF Updated, ReplaceAt
<1> HIDE DEF k
<1>6. /\ cycles \in Seq(Cycle)
      /\ Len(cycles) = Len(doc.cycles)
      /\ DOMAIN cycles = DOMAIN doc.cycles
      /\ \A i \in DOMAIN doc.cycles : cycles[i] = IF i = k THEN new ELSE doc.cycles[i]
  BY <1>1, <1>2, <1>4
<1>7. \A i \in DOMAIN cycles : cycles[i].id = doc.cycles[i].id
  BY <1>2, <1>6
<1> HIDE DEF cycles
<1>8. /\ Updated(doc, id, body) \in Documents
      /\ Updated(doc, id, body).counter = doc.counter
      /\ Updated(doc, id, body).cycles = cycles
  BY <1>1, <1>5, <1>6 DEF Documents
<1>9. WellFormed(Updated(doc, id, body))
  BY <1>6, <1>7, <1>8 DEF WellFormed
<1>10. IdsOf(Updated(doc, id, body)) = IdsOf(doc)
  BY <1>6, <1>7, <1>8 DEF IdsOf
<1> QED
  BY <1>8, <1>9, <1>10

\* DELETE: the other cycles keep their ids and their order, and the counter
\* does not go back.
LEMMA RemovedSound ==
  ASSUME NEW doc \in Documents, WellFormed(doc), NEW id \in IdsOf(doc)
  PROVE  /\ Removed(doc, id) \in Documents
         /\ WellFormed(Removed(doc, id))
         /\ Removed(doc, id).counter = doc.counter
         /\ IdsOf(Removed(doc, id)) = IdsOf(doc) \ {id}
<1> DEFINE k      == IndexOf(doc, id)
           n      == Len(doc.cycles)
           cycles == SubSeq(doc.cycles, 1, k - 1) \o SubSeq(doc.cycles, k + 1, n)
           old(i) == IF i < k THEN i ELSE i + 1
<1>1. doc.counter \in Nat /\ doc.cycles \in Seq(Cycle)
  BY DEF Documents
<1>2. k \in DOMAIN doc.cycles /\ doc.cycles[k].id = id
  BY IndexOfFinds
<1>3. n \in Nat /\ DOMAIN doc.cycles = 1 .. n /\ k \in 1 .. n
  BY <1>1, <1>2
<1>4. Removed(doc, id) = [doc EXCEPT !.cycles = cycles]
  BY DEF Removed, RemoveAt
<1> HIDE DEF k
<1>5. /\ SubSeq(doc.cycles, 1, k - 1) \in Seq(Cycle)
      /\ Len(SubSeq(doc.cycles, 1, k - 1)) = k - 1
      /\ \A i \in 1 .. k - 1 : SubSeq(doc.cycles, 1, k - 1)[i] = doc.cycles[i]
  BY <1>1, <1>3
<1>6. /\ SubSeq(doc.cycles, k + 1, n) \in Seq(Cycle)
      /\ Len(SubSeq(doc.cycles, k + 1, n)) = n - k
      /\ \A i \in 1 .. n - k : SubSeq(doc.cycles, k + 1, n)[i] = doc.cycles[k + i]
  BY <1>1, <1>3
<1>7. /\ cycles \in Seq(Cycle)
      /\ Len(cycles) = n - 1
      /\ \A i \in 1 .. n - 1 : cycles[i] = doc.cycles[old(i)]
  <2> DEFINE front == SubSeq(doc.cycles, 1, k - 1)
             back  == SubSeq(doc.cycles, k + 1, n)
  <2> HIDE DEF front, back
  <2>1. front \in Seq(Cycle) /\ back \in Seq(Cycle)
    BY <1>5, <1>6 DEF front, back
  <2>2. Len(front) = k - 1 /\ Len(back) = n - k
    BY <1>5, <1>6 DEF front, back
  <2>3. cycles = front \o back
    BY DEF front, back
  <2> HIDE DEF cycles, n
  <2>4. /\ cycles \in Seq(Cycle)
        /\ Len(cycles) = n - 1
        /\ \A i \in 1 .. n - 1 :
             cycles[i] = IF i <= k - 1 THEN front[i] ELSE back[i - (k - 1)]
    BY <1>3, <2>1, <2>2, <2>3, ConcatProperties
  <2>5. ASSUME NEW i \in 1 .. n - 1
        PROVE  cycles[i] = doc.cycles[old(i)]
    <3>1. CASE i < k
      <4>1. i <= k - 1 /\ i \in 1 .. k - 1
        BY <1>3, <3>1
      <4> QED
        BY <1>5, <2>4, <3>1, <4>1 DEF front
    <3>2. CASE ~ (i < k)
      <4>1. ~ (i <= k - 1) /\ i - (k - 1) \in 1 .. n - k /\ k + (i - (k - 1)) = i + 1
        BY <1>3, <3>2
      <4>2. back[i - (k - 1)] = doc.cycles[i + 1]
        BY <1>6, <4>1 DEF back
      <4> QED
        BY <2>4, <3>2, <4>1, <4>2
    <3> QED
      BY <3>1, <3>2
  <2> QED
    BY <2>4, <2>5
<1> HIDE DEF cycles
<1>8. /\ Removed(doc, id) \in Documents
      /\ Removed(doc, id).counter = doc.counter
      /\ Removed(doc, id).cycles = cycles
  BY <1>1, <1>4, <1>7 DEF Documents
<1>9. DOMAIN cycles = 1 .. n - 1
  BY <1>3, <1>7
<1>10. \A i \in 1 .. n - 1 : old(i) \in 1 .. n /\ old(i) # k
  BY <1>3
<1>11. WellFormed(Removed(doc, id))
  <2>1. Len(cycles) <= MaxCycles
    BY <1>3, <1>7, MaxCyclesAssumption DEF WellFormed
  <2>2. \A i \in DOMAIN cycles : cycles[i].id \in 1 .. doc.counter
    BY <1>3, <1>7, <1>9, <1>10 DEF WellFormed
  <2>3. \A i, j \in DOMAIN cycles : i < j => old(i) < old(j)
    BY <1>3, <1>9
  <2>4. ASSUME NEW i \in DOMAIN cycles, NEW j \in DOMAIN cycles, i < j
        PROVE  cycles[i].id < cycles[j].id
    <3>1. /\ old(i) \in DOMAIN doc.cycles /\ old(j) \in DOMAIN doc.cycles
          /\ old(i) < old(j)
      BY <1>3, <1>9, <1>10, <2>3, <2>4
    <3>2. cycles[i] = doc.cycles[old(i)] /\ cycles[j] = doc.cycles[old(j)]
      BY <1>7, <1>9
    <3> HIDE DEF old
    <3> QED
      BY <3>1, <3>2 DEF WellFormed
  <2> QED
    BY <1>8, <2>1, <2>2, <2>4 DEF WellFormed
<1>12. IdsOf(Removed(doc, id)) = IdsOf(doc) \ {id}
  <2>1. ASSUME NEW i \in 1 .. n - 1
        PROVE  cycles[i].id \in IdsOf(doc) \ {id}
    <3>1. old(i) \in DOMAIN doc.cycles /\ old(i) # k /\ cycles[i] = doc.cycles[old(i)]
      BY <1>3, <1>7, <1>10
    <3> HIDE DEF old
    <3>2. cycles[i].id # id
      BY <1>2, <3>1, IdsDistinct
    <3> QED
      BY <3>1, <3>2 DEF IdsOf
  <2>2. ASSUME NEW i \in 1 .. n, i # k
        PROVE  \E j \in 1 .. n - 1 : old(j) = i
    <3>1. CASE i < k
      <4>1. i \in 1 .. n - 1 /\ old(i) = i
        BY <1>3, <3>1
      <4> QED
        BY <4>1
    <3>2. CASE i > k
      <4>1. i - 1 \in 1 .. n - 1 /\ old(i - 1) = i
        BY <1>3, <3>2
      <4> QED
        BY <4>1
    <3> QED
      BY <1>3, <2>2, <3>1, <3>2
  <2>3. IdsOf(Removed(doc, id)) = {cycles[i].id : i \in 1 .. n - 1}
    BY <1>8, <1>9 DEF IdsOf
  <2>4. IdsOf(doc) = {doc.cycles[i].id : i \in 1 .. n}
    BY <1>3 DEF IdsOf
  <2>5. ASSUME NEW x \in IdsOf(doc) \ {id}
        PROVE  x \in IdsOf(Removed(doc, id))
    <3>1. PICK i \in 1 .. n : doc.cycles[i].id = x
      BY <2>4
    <3>2. i # k
      BY <1>2, <3>1
    <3>3. PICK j \in 1 .. n - 1 : old(j) = i
      BY <2>2, <3>2
    <3> QED
      BY <1>7, <2>3, <3>1, <3>3
  <2> QED
    BY <2>1, <2>3, <2>5
<1> QED
  BY <1>8, <1>11, <1>12
=============================================================================
