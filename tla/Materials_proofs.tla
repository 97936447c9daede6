---------------------------- MODULE Materials_proofs ----------------------------
(***************************************************************************)
(* What holds of module Materials while requests do not overlap.           *)
(***************************************************************************)
EXTENDS Materials, Requests_proofs

-----------------------------------------------------------------------------
(* The stock of a material *)

\* The tables of the stock of a material.
BalanceTables == {"item", "layer", "transfer", "reserv", "count", "settings", "waste"}

ItemRows == [qty : Nat, priced : BOOLEAN]

LayerRows == [at : Warehouses, qty : Nat, priced : BOOLEAN]

TransferRows ==
    [status : {"in_transit", "received"}, from : Warehouses, to : Warehouses, qty : Nat]

ReservRows == [status : {"active", "released"}, at : Warehouses, qty : Nat]

CountRows == [adjusted : BOOLEAN, at : Warehouses, counted : Nat \cup {NotCounted}]

\* The rows a handler may find.
StockTyped(s) ==
    /\ BalanceTables \subseteq DOMAIN s
    /\ s.item \in [Warehouses -> ItemRows]
    /\ s.layer \in Seq(LayerRows)
    /\ s.transfer \in Seq(TransferRows)
    /\ s.reserv \in Seq(ReservRows)
    /\ s.count \in Seq(CountRows)
    /\ s.settings \in [{1} -> [method : Methods]]

Held(s) == SumOf(s.item, "qty", Warehouses)

OnTheRoad(s) == {k \in DOMAIN s.transfer : s.transfer[k].status = "in_transit"}

Moving(s) == SumOf(s.transfer, "qty", OnTheRoad(s))

-----------------------------------------------------------------------------
(* What the operators on the tables do *)

\* A balance that is changed changes what is held by as much.
LEMMA HeldAfterAddTo ==
    ASSUME NEW s, StockTyped(s), NEW w \in Warehouses, NEW q \in Int, s.item[w].qty + q \in Nat
    PROVE  /\ StockTyped(AddTo(s, w, q))
           /\ DOMAIN AddTo(s, w, q) = DOMAIN s
           /\ \A t \in DOMAIN s \ {"item"} : AddTo(s, w, q)[t] = s[t]
           /\ \A v \in Warehouses : AddTo(s, w, q).item[v] =
                IF v = w THEN [s.item[v] EXCEPT !.qty = @ + q] ELSE s.item[v]
           /\ Held(AddTo(s, w, q)) = Held(s) + q
<1> DEFINE n == AddTo(s, w, q)
<1>1. /\ DOMAIN n = DOMAIN s
      /\ n.item = [s.item EXCEPT ![w].qty = @ + q]
      /\ \A t \in DOMAIN s \ {"item"} : n[t] = s[t]
  BY DEF AddTo, StockTyped, BalanceTables
<1>2. n.item \in [Warehouses -> ItemRows]
  BY <1>1 DEF StockTyped, ItemRows
<1>3. StockTyped(n)
  BY <1>1, <1>2 DEF StockTyped, BalanceTables
<1>4. \A v \in Warehouses : n.item[v] = IF v = w THEN [s.item[v] EXCEPT !.qty = @ + q] ELSE s.item[v]
  BY <1>1 DEF StockTyped
<1>5. Held(n) = Held(s) + q
  <2>1. /\ DOMAIN s.item = Warehouses /\ DOMAIN n.item = Warehouses
        /\ \A v \in Warehouses : s.item[v]["qty"] \in Int /\ n.item[v]["qty"] \in Int
    BY <1>2 DEF StockTyped, ItemRows
  <2>2. \A v \in Warehouses \ {w} : n.item[v]["qty"] = s.item[v]["qty"]
    BY <1>4
  <2>3. n.item[w]["qty"] = s.item[w]["qty"] + q
    BY <1>4 DEF StockTyped, ItemRows
  <2>4. IsFiniteSet(Warehouses)
    BY StockAssumption
  <2>5. SumOf(n.item, "qty", Warehouses) =
            SumOf(s.item, "qty", Warehouses) + n.item[w]["qty"] - s.item[w]["qty"]
    BY <2>1, <2>2, <2>4, SumOfChangedRow
  <2>6. SumOf(s.item, "qty", Warehouses) \in Int
    BY <2>1, <2>4, SumOfIsInteger
  <2>7. s.item[w]["qty"] \in Int
    BY <2>1
  <2>8. Held(s) \in Int /\ Held(n) = Held(s) + n.item[w]["qty"] - s.item[w]["qty"]
    BY <2>5, <2>6 DEF Held
  <2>9. QED
    BY <2>3, <2>7, <2>8
<1>6. QED
  BY <1>1, <1>3, <1>4, <1>5

\* The layers of a warehouse, as rows of the table of layers.
LEMMA LayersOfWarehouse ==
    ASSUME NEW s, StockTyped(s), NEW w
    PROVE  /\ DOMAIN s.layer = 1..Len(s.layer) /\ Len(s.layer) \in Nat
           /\ LayersAt(s, w) \subseteq DOMAIN s.layer
           /\ \A S \in SUBSET LayersAt(s, w) : IsFiniteSet(S)
           /\ \A k \in DOMAIN s.layer : s.layer[k] \in LayerRows /\ s.layer[k]["qty"] \in Nat
<1>1. s.layer \in Seq(LayerRows)
  BY DEF StockTyped
<1>2. /\ DOMAIN s.layer = 1..Len(s.layer) /\ Len(s.layer) \in Nat
      /\ IsFiniteSet(DOMAIN s.layer)
      /\ \A k \in DOMAIN s.layer : s.layer[k] \in LayerRows
  BY <1>1, TableRows
<1>3. LayersAt(s, w) \subseteq DOMAIN s.layer
  BY DEF LayersAt
<1>4. ASSUME NEW S \in SUBSET LayersAt(s, w) PROVE IsFiniteSet(S)
  BY <1>2, <1>3, FS_Subset
<1>5. \A k \in DOMAIN s.layer : s.layer[k]["qty"] \in Nat
  BY <1>2 DEF LayerRows
<1>6. QED
  BY <1>2, <1>3, <1>4, <1>5

\* Balances, layers and what they hold together are whole numbers.
LEMMA QuantitiesAreWhole ==
    ASSUME NEW s, StockTyped(s), NEW w \in Warehouses
    PROVE  Layered(s, w) \in Int /\ s.item[w].qty \in Nat
<1>1. LayersAt(s, w) \subseteq DOMAIN s.layer /\ IsFiniteSet(LayersAt(s, w))
      /\ \A k \in LayersAt(s, w) : s.layer[k]["qty"] \in Int
  BY LayersOfWarehouse
<1>2. Layered(s, w) \in Int
  BY <1>1, SumOfIsInteger DEF Layered
<1>3. s.item[w].qty \in Nat
  BY DEF StockTyped, ItemRows
<1>4. QED
  BY <1>2, <1>3

\* What one layer gives is no more than it has.
LEMMA TakenIsThere ==
    ASSUME NEW s, StockTyped(s), NEW w, NEW q \in Nat, NEW k \in LayersAt(s, w)
    PROVE  Older(s, w, k) \in Int /\ Taken(s, w, q, k) \in 0..s.layer[k].qty
<1> DEFINE S == {j \in LayersAt(s, w) : j < k}
<1>1. /\ S \subseteq DOMAIN s.layer /\ IsFiniteSet(S) /\ \A j \in S : s.layer[j]["qty"] \in Int
  BY LayersOfWarehouse
<1>2. Older(s, w, k) \in Int
  BY <1>1, SumOfIsInteger DEF Older
<1>3. s.layer[k].qty \in Nat
  BY LayersOfWarehouse
<1>4. QED
  BY <1>2, <1>3 DEF Taken

\* Consuming changes no more of a layer than its quantity.
LEMMA LayersAfterConsume ==
    ASSUME NEW s, StockTyped(s), NEW w \in Warehouses, NEW q \in Nat
    PROVE  /\ StockTyped(ConsumeFifo(s, w, q))
           /\ DOMAIN ConsumeFifo(s, w, q) = DOMAIN s
           /\ \A t \in DOMAIN s \ {"layer"} : ConsumeFifo(s, w, q)[t] = s[t]
           /\ \A v : LayersAt(ConsumeFifo(s, w, q), v) = LayersAt(s, v)
           /\ DOMAIN ConsumeFifo(s, w, q).layer = DOMAIN s.layer
           /\ \A k \in DOMAIN s.layer : ConsumeFifo(s, w, q).layer[k]["qty"] =
                IF k \in LayersAt(s, w) THEN s.layer[k]["qty"] - Taken(s, w, q, k) ELSE s.layer[k]["qty"]
<1> DEFINE n == ConsumeFifo(s, w, q)
<1>1. /\ DOMAIN n = DOMAIN s
      /\ n.layer = [k \in DOMAIN s.layer |->
            IF k \in LayersAt(s, w) THEN [s.layer[k] EXCEPT !.qty = @ - Taken(s, w, q, k)] ELSE s.layer[k]]
      /\ \A t \in DOMAIN s \ {"layer"} : n[t] = s[t]
  BY DEF ConsumeFifo, StockTyped, BalanceTables
<1>2. \A k \in DOMAIN s.layer : s.layer[k] \in LayerRows
  BY LayersOfWarehouse
<1>3. ASSUME NEW k \in DOMAIN s.layer
      PROVE  /\ n.layer[k] \in LayerRows /\ n.layer[k].at = s.layer[k].at
             /\ n.layer[k]["qty"] =
                  IF k \in LayersAt(s, w) THEN s.layer[k]["qty"] - Taken(s, w, q, k) ELSE s.layer[k]["qty"]
  <2>1. CASE k \in LayersAt(s, w)
    <3>1. Taken(s, w, q, k) \in 0..s.layer[k].qty
      BY <2>1, TakenIsThere
    <3>2. n.layer[k] = [s.layer[k] EXCEPT !.qty = @ - Taken(s, w, q, k)]
      BY <1>1, <2>1
    <3>3. QED
      BY <1>2, <2>1, <3>1, <3>2 DEF LayerRows
  <2>2. CASE k \notin LayersAt(s, w)
    <3>1. n.layer[k] = s.layer[k]
      BY <1>1, <2>2
    <3>2. QED
      BY <1>2, <2>2, <3>1
  <2>3. QED
    BY <2>1, <2>2
<1>4. n.layer \in Seq(LayerRows)
  <2>1. DOMAIN s.layer = 1..Len(s.layer) /\ Len(s.layer) \in Nat
    BY LayersOfWarehouse
  <2>2. n.layer \in [1..Len(s.layer) -> LayerRows]
    BY <1>1, <1>3, <2>1
  <2>3. QED
    BY <2>1, <2>2
<1>5. StockTyped(n)
  BY <1>1, <1>4 DEF StockTyped, BalanceTables
<1>6. ASSUME NEW v PROVE LayersAt(n, v) = LayersAt(s, v)
  BY <1>1, <1>3 DEF LayersAt
<1>7. QED
  BY <1>1, <1>3, <1>5, <1>6

\* Oldest first, the layers of a warehouse give exactly what is asked for when
\* together they hold it; those of other warehouses give nothing.
LEMMA FifoTakesAll ==
    ASSUME NEW s, StockTyped(s), NEW w \in Warehouses, NEW q \in Nat, Layered(s, w) >= q
    PROVE  /\ Layered(ConsumeFifo(s, w, q), w) = Layered(s, w) - q
           /\ \A v \in Warehouses \ {w} : Layered(ConsumeFifo(s, w, q), v) = Layered(s, v)
<1> DEFINE n == ConsumeFifo(s, w, q)
           L == LayersAt(s, w)
           Upto(m) == {k \in L : k <= m}
           Had(m) == SumOf(s.layer, "qty", Upto(m))
           Left(m) == SumOf(n.layer, "qty", Upto(m))
           N == {m \in Nat : Left(m) = IF Had(m) <= q THEN 0 ELSE Had(m) - q}
<1>1. /\ DOMAIN s.layer = 1..Len(s.layer) /\ Len(s.layer) \in Nat
      /\ L \subseteq DOMAIN s.layer
      /\ \A S \in SUBSET L : IsFiniteSet(S)
      /\ \A k \in DOMAIN s.layer : s.layer[k]["qty"] \in Nat
  BY LayersOfWarehouse
<1>2. /\ DOMAIN n.layer = DOMAIN s.layer
      /\ \A v : LayersAt(n, v) = LayersAt(s, v)
      /\ \A k \in DOMAIN s.layer :
            n.layer[k]["qty"] = IF k \in L THEN s.layer[k]["qty"] - Taken(s, w, q, k) ELSE s.layer[k]["qty"]
  BY LayersAfterConsume
<1>3. \A k \in L : n.layer[k]["qty"] = s.layer[k]["qty"] - Taken(s, w, q, k) /\ n.layer[k]["qty"] \in Int
  <2> SUFFICES ASSUME NEW k \in L
               PROVE  n.layer[k]["qty"] = s.layer[k]["qty"] - Taken(s, w, q, k) /\ n.layer[k]["qty"] \in Int
    OBVIOUS
  <2>1. Taken(s, w, q, k) \in 0..s.layer[k].qty
    BY TakenIsThere
  <2>2. s.layer[k]["qty"] \in Nat
    BY <1>1
  <2> HIDE DEF n
  <2>3. QED
    BY <1>1, <1>2, <2>1, <2>2
<1>4. 0 \in N
  <2>1. Upto(0) = {}
    BY <1>1
  <2>2. Had(0) = 0 /\ Left(0) = 0
    BY <2>1, SumOfNoRows
  <2>3. QED
    BY <2>2
<1>5. ASSUME NEW m \in Nat, m \in N PROVE m + 1 \in N
  <2>1. CASE m + 1 \notin L
    <3>1. Upto(m + 1) = Upto(m)
      BY <1>1, <2>1
    <3>2. QED
      BY <1>5, <3>1
  <2>2. CASE m + 1 \in L
    <3> DEFINE x == s.layer[m + 1]["qty"]
    <3>1. /\ Upto(m + 1) = Upto(m) \cup {m + 1} /\ m + 1 \notin Upto(m)
          /\ IsFiniteSet(Upto(m))
          /\ Upto(m) \subseteq DOMAIN s.layer /\ Upto(m + 1) \subseteq DOMAIN s.layer
      BY <1>1, <2>2
    <3>2. /\ \A k \in Upto(m) : s.layer[k]["qty"] \in Int
          /\ \A k \in Upto(m) : n.layer[k]["qty"] \in Int
          /\ x \in Nat
          /\ n.layer[m + 1]["qty"] \in Int
      BY <1>1, <1>3, <2>2
    <3>3. Had(m + 1) = Had(m) + x
      BY <3>1, <3>2, SumOfOneMore
    <3>4. Left(m + 1) = Left(m) + n.layer[m + 1]["qty"]
      BY <1>2, <3>1, <3>2, SumOfOneMore
    <3>5. Older(s, w, m + 1) = Had(m)
      <4>1. {j \in LayersAt(s, w) : j < m + 1} = Upto(m)
        BY <1>1
      <4>2. QED
        BY <4>1 DEF Older
    <3>6. n.layer[m + 1]["qty"] = x - Taken(s, w, q, m + 1)
      BY <1>3, <2>2
    <3>7. Had(m) \in Int
      BY <3>1, <3>2, SumOfIsInteger
    <3>8. Taken(s, w, q, m + 1) =
            IF q - Had(m) <= 0 THEN 0 ELSE IF q - Had(m) < x THEN q - Had(m) ELSE x
      BY <3>5 DEF Taken
    <3>9. Left(m) = IF Had(m) <= q THEN 0 ELSE Had(m) - q
      BY <1>5
    <3> HIDE DEF Had, Left, x, n, Upto, L
    <3>10. Left(m + 1) = IF Had(m + 1) <= q THEN 0 ELSE Had(m + 1) - q
      BY <3>2, <3>3, <3>4, <3>6, <3>7, <3>8, <3>9
    <3>11. QED
      BY <3>10
  <2>3. QED
    BY <2>1, <2>2
<1>6. Len(s.layer) \in N
  <2> HIDE DEF N
  <2>1. Nat \subseteq N
    BY <1>4, <1>5, NatSetInduction
  <2>2. QED
    BY <1>1, <2>1
<1>7. Layered(n, w) = Layered(s, w) - q
  <2>1. Upto(Len(s.layer)) = L
    BY <1>1
  <2>2. Had(Len(s.layer)) = Layered(s, w) /\ Left(Len(s.layer)) = Layered(n, w)
    BY <1>2, <2>1 DEF Layered
  <2>3. Layered(s, w) \in Int
    BY <1>1, SumOfIsInteger DEF Layered
  <2>4. Layered(n, w) = IF Layered(s, w) <= q THEN 0 ELSE Layered(s, w) - q
    BY <1>6, <2>2
  <2> HIDE DEF n
  <2>5. QED
    BY <2>3, <2>4
<1>8. ASSUME NEW v \in Warehouses \ {w} PROVE Layered(n, v) = Layered(s, v)
  <2>1. LayersAt(s, v) \cap L = {}
    BY DEF LayersAt
  <2>2. LayersAt(s, v) \subseteq DOMAIN s.layer /\ IsFiniteSet(LayersAt(s, v))
    BY LayersOfWarehouse
  <2>3. \A k \in LayersAt(s, v) : n.layer[k]["qty"] = s.layer[k]["qty"]
    BY <1>2, <2>1, <2>2
  <2>4. SumOf(n.layer, "qty", LayersAt(s, v)) = SumOf(s.layer, "qty", LayersAt(s, v))
    BY <1>2, <2>2, <2>3, SumOfSameRows
  <2>5. QED
    BY <1>2, <2>4 DEF Layered
<1>9. QED
  BY <1>7, <1>8

\* The layers of a warehouse change only as its balance does.
LayersFollow(s, n) ==
    \A v \in Warehouses :
        Layered(n, v) # Layered(s, v) =>
            Layered(n, v) - Layered(s, v) = n.item[v].qty - s.item[v].qty

\* n is s after q more, or fewer, of the goods in w; neither transfers,
\* reservations nor counts are concerned.
Moved(s, n, w, q) ==
    /\ StockTyped(n)
    /\ DOMAIN n = DOMAIN s
    /\ \A t \in DOMAIN s \ {"item", "layer"} : n[t] = s[t]
    /\ \A v \in Warehouses : n.item[v].qty = IF v = w THEN s.item[v].qty + q ELSE s.item[v].qty
    /\ Held(n) = Held(s) + q
    /\ LayersFollow(s, n)

\* Landing adds what arrived to the balance and, under FIFO, to the layers.
LEMMA LandMoves ==
    ASSUME NEW s, StockTyped(s), NEW w \in Warehouses, NEW q \in Nat, NEW priced \in BOOLEAN
    PROVE  Moved(s, Land(s, w, q, priced), w, q)
<1> DEFINE a == AddTo(s, w, q)
           n == Land(s, w, q, priced)
<1>1. s.item[w].qty + q \in Nat
  BY DEF StockTyped, ItemRows
<1>2. /\ StockTyped(a)
      /\ DOMAIN a = DOMAIN s
      /\ \A t \in DOMAIN s \ {"item"} : a[t] = s[t]
      /\ \A v \in Warehouses : a.item[v] = IF v = w THEN [s.item[v] EXCEPT !.qty = @ + q] ELSE s.item[v]
      /\ Held(a) = Held(s) + q
  BY <1>1, HeldAfterAddTo
<1>3. \A v \in Warehouses : a.item[v].qty = IF v = w THEN s.item[v].qty + q ELSE s.item[v].qty
  BY <1>2 DEF StockTyped, ItemRows
<1>4. {"item", "layer"} \subseteq DOMAIN s
  BY DEF StockTyped, BalanceTables
<1>5. CASE Method(s) = "fifo"
  <2> DEFINE row == StockLayer(w, q, priced)
  <2>1. /\ DOMAIN n = DOMAIN s
        /\ n.item = a.item
        /\ n.layer = Append(s.layer, row)
        /\ \A t \in DOMAIN s \ {"item", "layer"} : n[t] = s[t]
    <3>1. n = [a EXCEPT !.layer = Append(@, row)]
      BY <1>5 DEF Land
    <3> HIDE DEF n, a, row
    <3>2. QED
      BY <1>2, <1>4, <3>1
  <2>2. s.layer \in Seq(LayerRows) /\ row \in LayerRows
    BY DEF StockTyped, StockLayer, LayerRows
  <2>3. /\ n.layer \in Seq(LayerRows)
        /\ DOMAIN n.layer = DOMAIN s.layer \cup {Len(s.layer) + 1}
        /\ n.layer[Len(s.layer) + 1] = row
        /\ \A k \in DOMAIN s.layer : n.layer[k] = s.layer[k]
        /\ Len(s.layer) + 1 \notin DOMAIN s.layer
    BY <2>1, <2>2, TableInsert, TableRows
  <2>4. StockTyped(n)
    BY <1>2, <2>1, <2>3 DEF StockTyped, BalanceTables
  <2>5. Held(n) = Held(s) + q
    BY <1>2, <2>1 DEF Held
  <2>6. ASSUME NEW v \in Warehouses, v # w PROVE Layered(n, v) = Layered(s, v)
    <3>1. LayersAt(n, v) = LayersAt(s, v)
      BY <2>3, <2>6 DEF LayersAt, StockLayer
    <3>2. /\ LayersAt(s, v) \subseteq DOMAIN s.layer /\ IsFiniteSet(LayersAt(s, v))
          /\ LayersAt(s, v) \subseteq DOMAIN n.layer
      BY <2>3, LayersOfWarehouse
    <3>3. \A k \in LayersAt(s, v) : n.layer[k]["qty"] = s.layer[k]["qty"]
      BY <2>3, <3>2
    <3>4. QED
      BY <3>1, <3>2, <3>3, SumOfSameRows DEF Layered
  <2>7. Layered(n, w) = Layered(s, w) + q
    <3> DEFINE y == Len(s.layer) + 1
    <3>1. LayersAt(n, w) = LayersAt(s, w) \cup {y} /\ y \notin LayersAt(s, w)
      BY <2>3 DEF LayersAt, StockLayer
    <3>2. /\ LayersAt(s, w) \subseteq DOMAIN s.layer /\ IsFiniteSet(LayersAt(s, w))
          /\ LayersAt(n, w) \subseteq DOMAIN n.layer
          /\ \A k \in LayersAt(s, w) : s.layer[k]["qty"] \in Int
      BY <2>4, LayersOfWarehouse
    <3>3. \A k \in LayersAt(s, w) : n.layer[k]["qty"] = s.layer[k]["qty"]
      BY <2>3, <3>2
    <3>4. n.layer[y]["qty"] = q
      BY <2>3 DEF StockLayer
    <3>5. n.layer[y]["qty"] \in Int
      BY <3>4
    <3> HIDE DEF n, y
    <3>6. SumOf(n.layer, "qty", LayersAt(n, w)) = SumOf(s.layer, "qty", LayersAt(s, w)) + n.layer[y]["qty"]
      BY <3>1, <3>2, <3>3, <3>5, SumOfOneMore
    <3>7. QED
      BY <3>4, <3>6 DEF Layered
  <2>8. Layered(s, w) \in Int /\ s.item[w].qty \in Int
    BY QuantitiesAreWhole
  <2>9. LayersFollow(s, n)
    <3> HIDE DEF n, a
    <3>1. QED
      BY <1>3, <2>1, <2>6, <2>7, <2>8 DEF LayersFollow
  <2>10. QED
    BY <1>3, <2>1, <2>4, <2>5, <2>9 DEF Moved
<1>6. CASE Method(s) # "fifo"
  <2> DEFINE average == priced \/ (s.item[w].qty > 0 /\ a.item[w].priced)
  <2>1. n = [a EXCEPT !.item[w].priced = average]
    BY <1>6 DEF Land
  <2>2. /\ DOMAIN n = DOMAIN s
        /\ n.item = [a.item EXCEPT ![w].priced = average]
        /\ \A t \in DOMAIN s \ {"item"} : n[t] = s[t]
    <3> HIDE DEF n, a
    <3>1. QED
      BY <1>2, <1>4, <2>1
  <2>3. average \in BOOLEAN
    BY DEF StockTyped, ItemRows
  <2>4. /\ n.item \in [Warehouses -> ItemRows]
        /\ \A v \in Warehouses : n.item[v].qty = a.item[v].qty
    <3>1. a.item \in [Warehouses -> ItemRows]
      BY <1>2 DEF StockTyped
    <3> HIDE DEF n, a, average
    <3>2. QED
      BY <2>2, <2>3, <3>1 DEF ItemRows
  <2>5. StockTyped(n)
    <3> HIDE DEF n, a
    <3>1. QED
      BY <2>2, <2>4 DEF StockTyped, BalanceTables
  <2>6. Held(n) = Held(a)
    <3>1. /\ DOMAIN n.item = Warehouses /\ DOMAIN a.item = Warehouses /\ IsFiniteSet(Warehouses)
      BY <1>2, <2>4, StockAssumption DEF StockTyped
    <3>2. \A v \in Warehouses : n.item[v]["qty"] = a.item[v]["qty"]
      BY <2>4
    <3> HIDE DEF n, a
    <3>3. QED
      BY <3>1, <3>2, SumOfSameRows DEF Held
  <2>7. n.layer = s.layer
    BY <1>4, <2>2
  <2>8. LayersFollow(s, n)
    BY <2>7 DEF LayersFollow, Layered, LayersAt
  <2>9. Held(n) = Held(s) + q
    BY <1>2, <2>6
  <2>10. \A v \in Warehouses : n.item[v].qty = IF v = w THEN s.item[v].qty + q ELSE s.item[v].qty
    BY <1>3, <2>4
  <2> HIDE DEF n, a
  <2>11. QED
    BY <2>2, <2>5, <2>8, <2>9, <2>10 DEF Moved, n
<1>7. QED
  BY <1>5, <1>6

\* Issuing takes as much off the balance and, under FIFO, off the layers.
LEMMA IssueMoves ==
    ASSUME NEW s, StockTyped(s), NEW w \in Warehouses, NEW q \in Nat, CanIssue(s, w, q)
    PROVE  Moved(s, IssueFrom(s, w, q), w, -q)
<1> DEFINE c == IF Method(s) = "fifo" THEN ConsumeFifo(s, w, q) ELSE s
           n == IssueFrom(s, w, q)
<1>1. n = AddTo(c, w, -q)
  BY DEF IssueFrom
<1>2. {"item", "layer"} \subseteq DOMAIN s
  BY DEF StockTyped, BalanceTables
<1>3. /\ StockTyped(c) /\ DOMAIN c = DOMAIN s
      /\ \A t \in DOMAIN s \ {"layer"} : c[t] = s[t]
  BY LayersAfterConsume
<1>4. c.item = s.item
  BY <1>2, <1>3
<1>5. c.item[w].qty + (-q) \in Nat
  BY <1>4 DEF CanIssue, OnHandCovers, StockTyped, ItemRows
<1>6. /\ StockTyped(n)
      /\ DOMAIN n = DOMAIN c
      /\ \A t \in DOMAIN c \ {"item"} : n[t] = c[t]
      /\ \A v \in Warehouses : n.item[v] = IF v = w THEN [c.item[v] EXCEPT !.qty = @ + (-q)] ELSE c.item[v]
      /\ Held(n) = Held(c) + (-q)
  <2> HIDE DEF n, c
  <2>1. QED
    BY <1>1, <1>3, <1>5, HeldAfterAddTo
<1>7. \A v \in Warehouses : n.item[v].qty = IF v = w THEN s.item[v].qty + (-q) ELSE s.item[v].qty
  <2> SUFFICES ASSUME NEW v \in Warehouses
               PROVE  n.item[v].qty = IF v = w THEN s.item[v].qty + (-q) ELSE s.item[v].qty
    OBVIOUS
  <2> HIDE DEF n, c
  <2>1. s.item[v] \in ItemRows
    BY DEF StockTyped
  <2>2. n.item[v] = IF v = w THEN [s.item[v] EXCEPT !.qty = @ + (-q)] ELSE s.item[v]
    BY <1>4, <1>6
  <2>3. QED
    BY <2>1, <2>2 DEF ItemRows
<1>8. Held(c) = Held(s)
  <2> HIDE DEF c
  <2>1. QED
    BY <1>4 DEF Held
<1>9. LayersFollow(s, n)
  <2>1. n.layer = c.layer
    <3> HIDE DEF n, c
    <3>1. QED
      BY <1>2, <1>3, <1>6
  <2>2. \A v : Layered(n, v) = Layered(c, v)
    BY <2>1 DEF Layered, LayersAt
  <2>3. CASE Method(s) = "fifo"
    <3>1. Layered(s, w) >= q
      BY <2>3 DEF CanIssue
    <3>2. /\ Layered(c, w) = Layered(s, w) - q
          /\ \A v \in Warehouses \ {w} : Layered(c, v) = Layered(s, v)
      BY <2>3, <3>1, FifoTakesAll
    <3>3. Layered(s, w) \in Int /\ s.item[w].qty \in Int
      BY QuantitiesAreWhole
    <3> HIDE DEF n, c
    <3>4. QED
      BY <1>7, <2>2, <3>2, <3>3 DEF LayersFollow
  <2>4. CASE Method(s) # "fifo"
    <3>1. c = s
      BY <2>4
    <3> HIDE DEF n, c
    <3>2. QED
      BY <2>2, <3>1 DEF LayersFollow
  <2>5. QED
    BY <2>3, <2>4
<1> HIDE DEF n, c
<1>10. QED
  BY <1>3, <1>6, <1>7, <1>8, <1>9 DEF Moved, n

-----------------------------------------------------------------------------
(* What a handler does to the books *)

\* A reservation that is made is covered.
ReservesCovered(s, n) ==
    \A v \in Warehouses : Reserved(n, v) > Reserved(s, v) => Reserved(n, v) <= n.item[v].qty

\* n is s after goods of this quantity came in.
Books(s, n, entry) ==
    /\ StockTyped(n)
    /\ Held(n) + Moving(n) = Held(s) + Moving(s) + entry
    /\ LayersFollow(s, n)
    /\ ReservesCovered(s, n)

ActiveAt(s, w) == {k \in DOMAIN s.reserv : s.reserv[k].at = w /\ s.reserv[k].status = "active"}

\* What is held, on the road or reserved is a whole number.
LEMMA TotalsAreWhole ==
    ASSUME NEW s, StockTyped(s)
    PROVE  /\ Held(s) \in Int /\ Moving(s) \in Int
           /\ \A w : Reserved(s, w) \in Int
<1>1. Held(s) \in Int
  <2>1. /\ DOMAIN s.item = Warehouses /\ IsFiniteSet(Warehouses)
        /\ \A w \in Warehouses : s.item[w]["qty"] \in Int
    BY StockAssumption DEF StockTyped, ItemRows
  <2>2. QED
    BY <2>1, SumOfIsInteger DEF Held
<1>2. Moving(s) \in Int
  <2>1. /\ IsFiniteSet(DOMAIN s.transfer)
        /\ \A k \in DOMAIN s.transfer : s.transfer[k] \in TransferRows
    BY TableRows DEF StockTyped
  <2>2. OnTheRoad(s) \subseteq DOMAIN s.transfer /\ IsFiniteSet(OnTheRoad(s))
    BY <2>1, FS_Subset DEF OnTheRoad
  <2>3. \A k \in OnTheRoad(s) : s.transfer[k]["qty"] \in Int
    BY <2>1, <2>2 DEF TransferRows
  <2>4. QED
    BY <2>2, <2>3, SumOfIsInteger DEF Moving
<1>3. ASSUME NEW w PROVE Reserved(s, w) \in Int
  <2>1. /\ IsFiniteSet(DOMAIN s.reserv)
        /\ \A k \in DOMAIN s.reserv : s.reserv[k] \in ReservRows
    BY TableRows DEF StockTyped
  <2>2. ActiveAt(s, w) \subseteq DOMAIN s.reserv /\ IsFiniteSet(ActiveAt(s, w))
    BY <2>1, FS_Subset DEF ActiveAt
  <2>3. \A k \in ActiveAt(s, w) : s.reserv[k]["qty"] \in Int
    BY <2>1, <2>2 DEF ReservRows
  <2>4. QED
    BY <2>2, <2>3, SumOfIsInteger DEF Reserved, ActiveAt
<1>4. QED
  BY <1>1, <1>2, <1>3

\* Balances and layers moved, the rest of the stock as it was.
LEMMA MovedIsBooked ==
    ASSUME NEW s, StockTyped(s), NEW m, NEW n, NEW w, NEW q \in Int, Moved(s, m, w, q),
           BalanceTables \subseteq DOMAIN n, \A t \in BalanceTables : n[t] = m[t]
    PROVE  Books(s, n, q)
<1>1. /\ n.item = m.item /\ n.layer = m.layer
      /\ m.transfer = s.transfer /\ n.transfer = s.transfer
      /\ n.reserv = s.reserv /\ n.count = m.count /\ n.settings = m.settings
  BY DEF Moved, StockTyped, BalanceTables
<1>2. StockTyped(n)
  BY <1>1 DEF Moved, StockTyped
<1>3. Held(n) = Held(s) + q
  BY <1>1 DEF Moved, Held
<1>4. Moving(n) = Moving(s)
  BY <1>1 DEF Moving, OnTheRoad
<1>5. LayersFollow(s, n)
  BY <1>1 DEF Moved, LayersFollow, Layered, LayersAt
<1>6. \A v : Reserved(n, v) = Reserved(s, v)
  BY <1>1 DEF Reserved
<1>7. ReservesCovered(s, n)
  BY <1>6, TotalsAreWhole DEF ReservesCovered
<1>8. Held(s) \in Int /\ Moving(s) \in Int
  BY TotalsAreWhole
<1>9. Held(n) + Moving(n) = Held(s) + Moving(s) + q
  BY <1>3, <1>4, <1>8
<1>10. QED
  BY <1>2, <1>5, <1>7, <1>9 DEF Books

\* Rows of other tables, of the stock counts or of the settings are changed.
LEMMA OtherwiseNothingIsBooked ==
    ASSUME NEW s, StockTyped(s), NEW n, StockTyped(n),
           n.item = s.item, n.layer = s.layer, n.transfer = s.transfer, n.reserv = s.reserv
    PROVE  Books(s, n, 0)
<1>1. Held(n) = Held(s) /\ Moving(n) = Moving(s)
  BY DEF Held, Moving, OnTheRoad
<1>2. LayersFollow(s, n)
  BY DEF LayersFollow, Layered, LayersAt
<1>3. \A v : Reserved(n, v) = Reserved(s, v)
  BY DEF Reserved
<1>4. ReservesCovered(s, n)
  BY <1>3, TotalsAreWhole DEF ReservesCovered
<1>5. Held(s) \in Int /\ Moving(s) \in Int
  BY TotalsAreWhole
<1>6. QED
  BY <1>1, <1>2, <1>4, <1>5 DEF Books

\* A reservation of what is available.
LEMMA ReserveBooks ==
    ASSUME NEW s, StockTyped(s), NEW w \in Warehouses, NEW q \in Nat, q <= Available(s, w)
    PROVE  Books(s, [s EXCEPT !.reserv = Append(@, StockReservation(w, q))], 0)
<1> DEFINE row == StockReservation(w, q)
           n == [s EXCEPT !.reserv = Append(@, row)]
           y == Len(s.reserv) + 1
<1>1. /\ n.reserv = Append(s.reserv, row)
      /\ \A t \in BalanceTables \ {"reserv"} : n[t] = s[t]
      /\ BalanceTables \subseteq DOMAIN n
  BY DEF StockTyped, BalanceTables
<1>2. s.reserv \in Seq(ReservRows) /\ row \in ReservRows
  BY DEF StockTyped, StockReservation, ReservRows
<1>3. /\ n.reserv \in Seq(ReservRows)
      /\ DOMAIN n.reserv = DOMAIN s.reserv \cup {y} /\ y \notin DOMAIN s.reserv
      /\ n.reserv[y] = row
      /\ \A k \in DOMAIN s.reserv : n.reserv[k] = s.reserv[k]
      /\ \A k \in DOMAIN s.reserv : s.reserv[k] \in ReservRows
      /\ IsFiniteSet(DOMAIN s.reserv)
  BY <1>1, <1>2, TableInsert, TableRows
<1>4. /\ n.item = s.item /\ n.layer = s.layer /\ n.transfer = s.transfer
      /\ n.count = s.count /\ n.settings = s.settings
  BY <1>1 DEF BalanceTables
<1>5. StockTyped(n)
  BY <1>1, <1>3, <1>4 DEF StockTyped
<1>6. ASSUME NEW v \in Warehouses, v # w PROVE Reserved(n, v) = Reserved(s, v)
  <2>1. ActiveAt(n, v) = ActiveAt(s, v)
    BY <1>3, <1>6 DEF ActiveAt, StockReservation
  <2>2. /\ ActiveAt(s, v) \subseteq DOMAIN s.reserv /\ ActiveAt(s, v) \subseteq DOMAIN n.reserv
        /\ IsFiniteSet(ActiveAt(s, v))
    BY <1>3, FS_Subset DEF ActiveAt
  <2>3. \A k \in ActiveAt(s, v) : n.reserv[k]["qty"] = s.reserv[k]["qty"]
    BY <1>3, <2>2
  <2> HIDE DEF n, y
  <2>4. SumOf(n.reserv, "qty", ActiveAt(s, v)) = SumOf(s.reserv, "qty", ActiveAt(s, v))
    BY <2>2, <2>3, SumOfSameRows
  <2>5. QED
    BY <2>1, <2>4 DEF Reserved, ActiveAt
<1>7. Reserved(n, w) = Reserved(s, w) + q
  <2>1. ActiveAt(n, w) = ActiveAt(s, w) \cup {y} /\ y \notin ActiveAt(s, w)
    BY <1>3 DEF ActiveAt, StockReservation
  <2>2. /\ ActiveAt(s, w) \subseteq DOMAIN s.reserv /\ ActiveAt(n, w) \subseteq DOMAIN n.reserv
        /\ IsFiniteSet(ActiveAt(s, w))
    BY <1>3, FS_Subset DEF ActiveAt
  <2>3. \A k \in ActiveAt(s, w) : n.reserv[k]["qty"] = s.reserv[k]["qty"] /\ s.reserv[k]["qty"] \in Int
    BY <1>3, <2>2 DEF ReservRows
  <2>4. n.reserv[y]["qty"] = q /\ n.reserv[y]["qty"] \in Int
    BY <1>3 DEF StockReservation
  <2> HIDE DEF n, y
  <2>5. SumOf(n.reserv, "qty", ActiveAt(n, w)) = SumOf(s.reserv, "qty", ActiveAt(s, w)) + n.reserv[y]["qty"]
    BY <2>1, <2>2, <2>3, <2>4, SumOfOneMore
  <2>6. QED
    BY <2>4, <2>5 DEF Reserved, ActiveAt
<1>8. ReservesCovered(s, n)
  <2>1. \A v : Reserved(s, v) \in Int
    BY TotalsAreWhole
  <2>2. s.item[w].qty \in Nat /\ q <= s.item[w].qty - Reserved(s, w)
    BY QuantitiesAreWhole DEF Available
  <2> HIDE DEF n
  <2>3. QED
    BY <1>4, <1>6, <1>7, <2>1, <2>2 DEF ReservesCovered
<1>9. LayersFollow(s, n)
  <2> HIDE DEF n
  <2>1. QED
    BY <1>4 DEF LayersFollow, Layered, LayersAt
<1>10. Held(n) = Held(s) /\ Moving(n) = Moving(s)
  <2> HIDE DEF n
  <2>1. QED
    BY <1>4 DEF Held, Moving, OnTheRoad
<1>11. Held(s) \in Int /\ Moving(s) \in Int
  BY TotalsAreWhole
<1> HIDE DEF n
<1>12. QED
  BY <1>5, <1>8, <1>9, <1>10, <1>11 DEF Books, n

\* The rest of the tables may change as they like.
LEMMA BooksCarryOver ==
    ASSUME NEW s, StockTyped(s), NEW m, NEW n, StockTyped(n), NEW q \in Int, Books(s, m, q),
           n.item = m.item, n.layer = m.layer, n.transfer = m.transfer, n.reserv = m.reserv
    PROVE  Books(s, n, q)
<1>1. Held(n) = Held(m) /\ Moving(n) = Moving(m)
  BY DEF Held, Moving, OnTheRoad
<1>2. \A v : Layered(n, v) = Layered(m, v) /\ Reserved(n, v) = Reserved(m, v)
  BY DEF Layered, LayersAt, Reserved
<1>3. QED
  BY <1>1, <1>2 DEF Books, LayersFollow, ReservesCovered

\* One balance moves, nothing else does.
LEMMA BalanceMoves ==
    ASSUME NEW s, StockTyped(s), NEW w \in Warehouses, NEW q \in Int, s.item[w].qty + q \in Nat
    PROVE  Moved(s, AddTo(s, w, q), w, q)
<1> DEFINE n == AddTo(s, w, q)
<1>1. /\ StockTyped(n)
      /\ DOMAIN n = DOMAIN s
      /\ \A t \in DOMAIN s \ {"item"} : n[t] = s[t]
      /\ \A v \in Warehouses : n.item[v] = IF v = w THEN [s.item[v] EXCEPT !.qty = @ + q] ELSE s.item[v]
      /\ Held(n) = Held(s) + q
  BY HeldAfterAddTo
<1>2. \A v \in Warehouses : n.item[v].qty = IF v = w THEN s.item[v].qty + q ELSE s.item[v].qty
  BY <1>1 DEF StockTyped, ItemRows
<1>3. n.layer = s.layer
  BY <1>1 DEF StockTyped, BalanceTables
<1>4. LayersFollow(s, n)
  BY <1>3 DEF LayersFollow, Layered, LayersAt
<1> HIDE DEF n
<1>5. QED
  BY <1>1, <1>2, <1>4 DEF Moved, n

\* What is moved is as it was but for the balances and the layers.
LEMMA MovedKeepsTheRest ==
    ASSUME NEW s, StockTyped(s), NEW n, NEW w, NEW q, Moved(s, n, w, q)
    PROVE  /\ n.transfer = s.transfer /\ n.reserv = s.reserv
           /\ n.count = s.count /\ n.settings = s.settings
  BY DEF Moved, StockTyped, BalanceTables

\* A reservation is released.
LEMMA ReleaseBooks ==
    ASSUME NEW s, StockTyped(s), NEW k \in DOMAIN s.reserv, s.reserv[k].status = "active"
    PROVE  Books(s, [s EXCEPT !.reserv[k].status = "released"], 0)
<1> DEFINE row == [s.reserv[k] EXCEPT !.status = "released"]
           n == [s EXCEPT !.reserv[k].status = "released"]
<1>1. /\ n.reserv = [s.reserv EXCEPT ![k] = row]
      /\ \A t \in BalanceTables \ {"reserv"} : n[t] = s[t]
      /\ BalanceTables \subseteq DOMAIN n
  BY DEF StockTyped, BalanceTables
<1>2. /\ s.reserv \in Seq(ReservRows) /\ s.reserv[k] \in ReservRows
      /\ IsFiniteSet(DOMAIN s.reserv)
      /\ \A j \in DOMAIN s.reserv : s.reserv[j] \in ReservRows
  BY TableRows DEF StockTyped
<1>3. row \in ReservRows /\ row.at = s.reserv[k].at /\ row.status = "released"
  BY <1>2 DEF ReservRows
<1> HIDE DEF row, n
<1>4. /\ n.reserv \in Seq(ReservRows)
      /\ DOMAIN n.reserv = DOMAIN s.reserv
      /\ n.reserv[k] = row
      /\ \A j \in DOMAIN s.reserv \ {k} : n.reserv[j] = s.reserv[j]
  BY <1>1, <1>2, <1>3, TableUpdate
<1>5. /\ n.item = s.item /\ n.layer = s.layer /\ n.transfer = s.transfer
      /\ n.count = s.count /\ n.settings = s.settings
  BY <1>1 DEF BalanceTables
<1>6. StockTyped(n)
  BY <1>1, <1>4, <1>5 DEF StockTyped
<1>7. ASSUME NEW v PROVE /\ ActiveAt(n, v) = ActiveAt(s, v) \ {k}
                         /\ ActiveAt(s, v) \subseteq DOMAIN s.reserv
                         /\ ActiveAt(n, v) \subseteq DOMAIN n.reserv
                         /\ IsFiniteSet(ActiveAt(s, v))
  <2>1. /\ ActiveAt(s, v) \subseteq DOMAIN s.reserv
        /\ ActiveAt(n, v) \subseteq DOMAIN n.reserv
        /\ IsFiniteSet(ActiveAt(s, v))
    BY <1>2, FS_Subset DEF ActiveAt
  <2>2. ActiveAt(n, v) = ActiveAt(s, v) \ {k}
    BY <1>3, <1>4 DEF ActiveAt
  <2>3. QED
    BY <2>1, <2>2
<1>8. ASSUME NEW v PROVE ~ Reserved(n, v) > Reserved(s, v)
  <2>1. CASE k \in ActiveAt(s, v)
    <3>1. \A j \in ActiveAt(s, v) : s.reserv[j]["qty"] \in Int
      BY <1>2, <1>7 DEF ReservRows
    <3>2. \A j \in ActiveAt(n, v) : n.reserv[j]["qty"] = s.reserv[j]["qty"]
      BY <1>4, <1>7
    <3>3. SumOf(n.reserv, "qty", ActiveAt(n, v)) = SumOf(s.reserv, "qty", ActiveAt(s, v)) - s.reserv[k]["qty"]
      BY <1>7, <2>1, <3>1, <3>2, SumOfOneLess
    <3>4. s.reserv[k]["qty"] \in Nat
      BY <1>2 DEF ReservRows
    <3>5. Reserved(s, v) \in Int /\ Reserved(n, v) = Reserved(s, v) - s.reserv[k]["qty"]
      BY <3>3, TotalsAreWhole DEF Reserved, ActiveAt
    <3>6. QED
      BY <3>4, <3>5
  <2>2. CASE k \notin ActiveAt(s, v)
    <3>1. ActiveAt(n, v) = ActiveAt(s, v)
      BY <1>7, <2>2
    <3>2. \A j \in ActiveAt(s, v) : n.reserv[j]["qty"] = s.reserv[j]["qty"]
      BY <1>4, <1>7, <2>2
    <3>3. SumOf(n.reserv, "qty", ActiveAt(s, v)) = SumOf(s.reserv, "qty", ActiveAt(s, v))
      BY <1>7, <3>1, <3>2, SumOfSameRows
    <3>4. Reserved(s, v) \in Int /\ Reserved(n, v) = Reserved(s, v)
      BY <3>1, <3>3, TotalsAreWhole DEF Reserved, ActiveAt
    <3>5. QED
      BY <3>4
  <2>3. QED
    BY <2>1, <2>2
<1>9. LayersFollow(s, n)
  BY <1>5 DEF LayersFollow, Layered, LayersAt
<1>10. Held(n) = Held(s) /\ Moving(n) = Moving(s)
  BY <1>5 DEF Held, Moving, OnTheRoad
<1>11. Held(s) \in Int /\ Moving(s) \in Int
  BY TotalsAreWhole
<1>12. QED
  BY <1>6, <1>8, <1>9, <1>10, <1>11 DEF Books, ReservesCovered, n

\* Goods set out.
LEMMA TransferBooks ==
    ASSUME NEW s, StockTyped(s), NEW w \in Warehouses, NEW to \in Warehouses, NEW q \in Nat,
           OnHandCovers(s, w, q)
    PROVE  Books(s, [AddTo(s, w, -q) EXCEPT !.transfer = Append(@, StockTransfer(w, to, q))], 0)
<1> DEFINE row == StockTransfer(w, to, q)
           m == AddTo(s, w, -q)
           n == [m EXCEPT !.transfer = Append(@, row)]
           y == Len(s.transfer) + 1
<1>1. s.item[w].qty + (-q) \in Nat
  BY DEF OnHandCovers, StockTyped, ItemRows
<1>2. Moved(s, m, w, -q)
  BY <1>1, BalanceMoves
<1> HIDE DEF m
<1>3. m.transfer = s.transfer /\ m.reserv = s.reserv /\ m.count = s.count /\ m.settings = s.settings
  BY <1>2, MovedKeepsTheRest
<1>4. StockTyped(m)
  BY <1>2 DEF Moved
<1>5. /\ n.transfer = Append(s.transfer, row)
      /\ n.item = m.item /\ n.layer = m.layer /\ n.reserv = s.reserv
      /\ n.count = s.count /\ n.settings = s.settings
      /\ BalanceTables \subseteq DOMAIN n
  BY <1>3, <1>4 DEF StockTyped, BalanceTables
<1>6. s.transfer \in Seq(TransferRows) /\ row \in TransferRows
  BY DEF StockTyped, StockTransfer, TransferRows
<1> HIDE DEF n
<1>7. /\ n.transfer \in Seq(TransferRows)
      /\ DOMAIN n.transfer = DOMAIN s.transfer \cup {y} /\ y \notin DOMAIN s.transfer
      /\ n.transfer[y] = row
      /\ \A k \in DOMAIN s.transfer : n.transfer[k] = s.transfer[k]
      /\ \A k \in DOMAIN s.transfer : s.transfer[k] \in TransferRows
      /\ IsFiniteSet(DOMAIN s.transfer)
  BY <1>5, <1>6, TableInsert, TableRows
<1> HIDE DEF y
<1>8. StockTyped(n)
  BY <1>4, <1>5, <1>7 DEF StockTyped
<1>9. Moving(n) = Moving(s) + q
  <2>1. OnTheRoad(n) = OnTheRoad(s) \cup {y} /\ y \notin OnTheRoad(s)
    BY <1>7 DEF OnTheRoad, StockTransfer
  <2>2. /\ OnTheRoad(s) \subseteq DOMAIN s.transfer /\ OnTheRoad(n) \subseteq DOMAIN n.transfer
        /\ IsFiniteSet(OnTheRoad(s))
    BY <1>7, FS_Subset DEF OnTheRoad
  <2>3. \A k \in OnTheRoad(s) : n.transfer[k]["qty"] = s.transfer[k]["qty"] /\ s.transfer[k]["qty"] \in Int
    BY <1>7, <2>2 DEF TransferRows
  <2>4. n.transfer[y]["qty"] = q /\ n.transfer[y]["qty"] \in Int
    BY <1>7 DEF StockTransfer
  <2>5. SumOf(n.transfer, "qty", OnTheRoad(n)) = SumOf(s.transfer, "qty", OnTheRoad(s)) + n.transfer[y]["qty"]
    BY <2>1, <2>2, <2>3, <2>4, SumOfOneMore
  <2>6. QED
    BY <2>4, <2>5 DEF Moving
<1>10. Held(n) = Held(s) + (-q)
  BY <1>2, <1>5 DEF Moved, Held
<1>11. Held(s) \in Int /\ Moving(s) \in Int
  BY TotalsAreWhole
<1>12. LayersFollow(s, n)
  BY <1>2, <1>5 DEF Moved, LayersFollow, Layered, LayersAt
<1>13. \A v : Reserved(n, v) = Reserved(s, v)
  BY <1>5 DEF Reserved
<1>14. ReservesCovered(s, n)
  BY <1>13, TotalsAreWhole DEF ReservesCovered
<1>15. Held(n) + Moving(n) = Held(s) + Moving(s) + 0
  BY <1>9, <1>10, <1>11
<1>16. QED
  BY <1>8, <1>12, <1>14, <1>15 DEF Books, n, m

\* Goods arrive.
LEMMA ArrivalBooks ==
    ASSUME NEW s, StockTyped(s), NEW k \in DOMAIN s.transfer, s.transfer[k].status # "received"
    PROVE  Books(s, [Land(s, s.transfer[k].to, s.transfer[k].qty, s.item[s.transfer[k].from].priced)
                        EXCEPT !.transfer[k].status = "received"], 0)
<1> DEFINE t == s.transfer[k]
           m == Land(s, t.to, t.qty, s.item[t.from].priced)
           row == [t EXCEPT !.status = "received"]
           n == [m EXCEPT !.transfer[k].status = "received"]
<1>1. /\ s.transfer \in Seq(TransferRows) /\ t \in TransferRows
      /\ IsFiniteSet(DOMAIN s.transfer)
      /\ \A j \in DOMAIN s.transfer : s.transfer[j] \in TransferRows
  BY TableRows DEF StockTyped
<1>2. /\ t.to \in Warehouses /\ t.from \in Warehouses /\ t.qty \in Nat
      /\ t.status = "in_transit"
  BY <1>1 DEF TransferRows
<1>3. s.item[t.from].priced \in BOOLEAN
  BY <1>2 DEF StockTyped, ItemRows
<1>4. Moved(s, m, t.to, t.qty)
  BY <1>2, <1>3, LandMoves
<1>5. m.transfer = s.transfer /\ m.reserv = s.reserv /\ m.count = s.count /\ m.settings = s.settings
  BY <1>4, MovedKeepsTheRest
<1> HIDE DEF m
<1>6. StockTyped(m)
  BY <1>4 DEF Moved
<1>7. /\ n.transfer = [s.transfer EXCEPT ![k] = row]
      /\ n.item = m.item /\ n.layer = m.layer /\ n.reserv = s.reserv
      /\ n.count = s.count /\ n.settings = s.settings
      /\ BalanceTables \subseteq DOMAIN n
  BY <1>5, <1>6 DEF StockTyped, BalanceTables
<1>8. row \in TransferRows /\ row.status = "received"
  BY <1>1 DEF TransferRows
<1> HIDE DEF n, row
<1>9. /\ n.transfer \in Seq(TransferRows)
      /\ DOMAIN n.transfer = DOMAIN s.transfer
      /\ n.transfer[k] = row
      /\ \A j \in DOMAIN s.transfer \ {k} : n.transfer[j] = s.transfer[j]
  BY <1>1, <1>7, <1>8, TableUpdate
<1>10. StockTyped(n)
  BY <1>6, <1>7, <1>9 DEF StockTyped
<1>11. Moving(n) = Moving(s) - t.qty
  <2>1. OnTheRoad(n) = OnTheRoad(s) \ {k} /\ k \in OnTheRoad(s)
    BY <1>2, <1>8, <1>9 DEF OnTheRoad
  <2>2. /\ OnTheRoad(s) \subseteq DOMAIN s.transfer /\ OnTheRoad(n) \subseteq DOMAIN n.transfer
        /\ IsFiniteSet(OnTheRoad(s))
    BY <1>1, FS_Subset DEF OnTheRoad
  <2>3. \A j \in OnTheRoad(s) : s.transfer[j]["qty"] \in Int
    BY <1>1, <2>2 DEF TransferRows
  <2>4. \A j \in OnTheRoad(n) : n.transfer[j]["qty"] = s.transfer[j]["qty"]
    BY <1>9, <2>1, <2>2
  <2>5. SumOf(n.transfer, "qty", OnTheRoad(n)) = SumOf(s.transfer, "qty", OnTheRoad(s)) - s.transfer[k]["qty"]
    BY <2>1, <2>2, <2>3, <2>4, SumOfOneLess
  <2>6. QED
    BY <2>5 DEF Moving
<1>12. Held(n) = Held(s) + t.qty
  BY <1>4, <1>7 DEF Moved, Held
<1>13. Held(s) \in Int /\ Moving(s) \in Int
  BY TotalsAreWhole
<1>14. LayersFollow(s, n)
  BY <1>4, <1>7 DEF Moved, LayersFollow, Layered, LayersAt
<1>15. \A v : Reserved(n, v) = Reserved(s, v)
  BY <1>7 DEF Reserved
<1>16. ReservesCovered(s, n)
  BY <1>15, TotalsAreWhole DEF ReservesCovered
<1>17. Held(n) + Moving(n) = Held(s) + Moving(s) + 0
  <2> HIDE DEF t
  <2>1. QED
    BY <1>2, <1>11, <1>12, <1>13
<1>18. QED
  BY <1>10, <1>14, <1>16, <1>17 DEF Books, n, m

\* Goods go back to the yard: one balance gives what the other gets.
LEMMA YardBooks ==
    ASSUME NEW s, StockTyped(s), NEW w \in Warehouses, NEW to \in Warehouses, NEW q \in Nat,
           OnHandCovers(s, w, q)
    PROVE  Books(s, AddTo(AddTo(s, w, -q), to, q), 0)
<1> DEFINE m == AddTo(s, w, -q)
           n == AddTo(m, to, q)
<1>1. s.item[w].qty + (-q) \in Nat
  BY DEF OnHandCovers, StockTyped, ItemRows
<1>2. Moved(s, m, w, -q)
  BY <1>1, BalanceMoves
<1>3. m.layer = s.layer
  BY DEF AddTo, StockTyped, BalanceTables
<1> HIDE DEF m
<1>4. StockTyped(m)
  BY <1>2 DEF Moved
<1>5. m.item[to].qty + q \in Nat
  BY <1>4 DEF StockTyped, ItemRows
<1>6. Moved(m, n, to, q)
  BY <1>4, <1>5, BalanceMoves
<1>7. n.layer = m.layer
  BY <1>4 DEF AddTo, StockTyped, BalanceTables
<1> HIDE DEF n
<1>8. /\ n.transfer = s.transfer /\ n.reserv = s.reserv
  BY <1>2, <1>4, <1>6, MovedKeepsTheRest
<1>9. StockTyped(n)
  BY <1>6 DEF Moved
<1>10. Held(m) = Held(s) + (-q) /\ Held(n) = Held(m) + q
  BY <1>2, <1>6 DEF Moved
<1>11. Held(s) \in Int /\ Moving(s) \in Int
  BY TotalsAreWhole
<1>12. Moving(n) = Moving(s)
  BY <1>8 DEF Moving, OnTheRoad
<1>13. Held(n) + Moving(n) = Held(s) + Moving(s) + 0
  BY <1>10, <1>11, <1>12
<1>14. LayersFollow(s, n)
  BY <1>3, <1>7 DEF LayersFollow, Layered, LayersAt
<1>15. \A v : Reserved(n, v) = Reserved(s, v)
  BY <1>8 DEF Reserved
<1>16. ReservesCovered(s, n)
  BY <1>15, TotalsAreWhole DEF ReservesCovered
<1>17. QED
  BY <1>9, <1>13, <1>14, <1>16 DEF Books, n, m

\* Goods go back to the vendor.
LEMMA VendorReturnBooks ==
    ASSUME NEW s, StockTyped(s), NEW w \in Warehouses, NEW q \in Nat, OnHandCovers(s, w, q)
    PROVE  Books(s, AddTo(s, w, -q), -q)
<1>1. s.item[w].qty + (-q) \in Nat
  BY DEF OnHandCovers, StockTyped, ItemRows
<1>2. Moved(s, AddTo(s, w, -q), w, -q)
  BY <1>1, BalanceMoves
<1>3. StockTyped(AddTo(s, w, -q))
  BY <1>2 DEF Moved
<1>4. BalanceTables \subseteq DOMAIN AddTo(s, w, -q)
  BY <1>3 DEF StockTyped
<1>5. QED
  BY <1>2, <1>4, MovedIsBooked

\* A count is opened, or a row of a count is changed.
LEMMA CountBooks ==
    ASSUME NEW s, StockTyped(s), NEW c \in Seq(CountRows)
    PROVE  Books(s, [s EXCEPT !.count = c], 0)
<1> DEFINE n == [s EXCEPT !.count = c]
<1>1. /\ n.count = c
      /\ n.item = s.item /\ n.layer = s.layer /\ n.transfer = s.transfer
      /\ n.reserv = s.reserv /\ n.settings = s.settings
      /\ BalanceTables \subseteq DOMAIN n
  BY DEF StockTyped, BalanceTables
<1> HIDE DEF n
<1>2. StockTyped(n)
  BY <1>1 DEF StockTyped
<1>3. Books(s, n, 0)
  BY <1>1, <1>2, OtherwiseNothingIsBooked
<1>4. QED
  BY <1>3 DEF n

\* The tenant values its stock otherwise.
LEMMA MethodBooks ==
    ASSUME NEW s, StockTyped(s), NEW m \in Methods
    PROVE  Books(s, [s EXCEPT !.settings[1].method = m], 0)
<1> DEFINE n == [s EXCEPT !.settings[1].method = m]
<1>1. /\ n.settings = [s.settings EXCEPT ![1].method = m]
      /\ n.item = s.item /\ n.layer = s.layer /\ n.transfer = s.transfer
      /\ n.reserv = s.reserv /\ n.count = s.count
      /\ BalanceTables \subseteq DOMAIN n
  BY DEF StockTyped, BalanceTables
<1> HIDE DEF n
<1>2. n.settings \in [{1} -> [method : Methods]]
  BY <1>1 DEF StockTyped
<1>3. StockTyped(n)
  BY <1>1, <1>2 DEF StockTyped
<1>4. Books(s, n, 0)
  BY <1>1, <1>3, OtherwiseNothingIsBooked
<1>5. QED
  BY <1>4 DEF n

\* The balance becomes what was counted, and the difference is booked.
LEMMA AdjustmentBooks ==
    ASSUME NEW s, StockTyped(s), NEW k \in DOMAIN s.count, s.count[k].counted # NotCounted
    PROVE  /\ s.count[k].counted - s.item[s.count[k].at].qty \in Int
           /\ Books(s, [s EXCEPT !.item[s.count[k].at].qty = s.count[k].counted,
                                 !.count[k].adjusted = TRUE],
                    s.count[k].counted - s.item[s.count[k].at].qty)
<1> DEFINE w == s.count[k].at
           c == s.count[k].counted
           q == c - s.item[w].qty
           m == AddTo(s, w, q)
           row == [s.count[k] EXCEPT !.adjusted = TRUE]
           n == [s EXCEPT !.item[w].qty = c, !.count[k].adjusted = TRUE]
<1>1. /\ s.count \in Seq(CountRows) /\ s.count[k] \in CountRows
      /\ w \in Warehouses /\ c \in Nat
  <2>1. s.count \in Seq(CountRows)
    BY DEF StockTyped
  <2>2. s.count[k] \in CountRows
    BY <2>1, TableRows
  <2>3. QED
    BY <2>1, <2>2 DEF CountRows
<1>2. s.item \in [Warehouses -> ItemRows] /\ s.item[w] \in ItemRows /\ s.item[w].qty \in Nat
  BY <1>1 DEF StockTyped, ItemRows
<1>3. q \in Int /\ s.item[w].qty + q = c
  <2> HIDE DEF w, c
  <2>1. QED
    BY <1>1, <1>2
<1>4. Moved(s, m, w, q)
  <2> HIDE DEF q
  <2>1. QED
    BY <1>1, <1>3, BalanceMoves
<1>5. [s.item EXCEPT ![w].qty = @ + q] = [s.item EXCEPT ![w].qty = c]
  <2> HIDE DEF w, c, q
  <2>1. QED
    BY <1>1, <1>2, <1>3 DEF ItemRows
<1>6. /\ m.item = [s.item EXCEPT ![w].qty = c]
      /\ m.layer = s.layer /\ m.transfer = s.transfer /\ m.reserv = s.reserv
      /\ m.settings = s.settings /\ BalanceTables \subseteq DOMAIN m
  <2> HIDE DEF w, c, q
  <2>1. QED
    BY <1>5 DEF AddTo, StockTyped, BalanceTables
<1>7. Books(s, m, q)
  <2> HIDE DEF q, m
  <2>1. QED
    BY <1>3, <1>4, <1>6, MovedIsBooked
<1>8. row \in CountRows
  BY <1>1 DEF CountRows
<1>9. /\ n.item = [s.item EXCEPT ![w].qty = c]
      /\ n.count = [s.count EXCEPT ![k] = row]
      /\ n.layer = s.layer /\ n.transfer = s.transfer /\ n.reserv = s.reserv
      /\ n.settings = s.settings /\ BalanceTables \subseteq DOMAIN n
  <2> HIDE DEF w, c
  <2>1. QED
    BY DEF StockTyped, BalanceTables
<1>10. n.count \in Seq(CountRows)
  <2> HIDE DEF row, n
  <2>1. QED
    BY <1>1, <1>8, <1>9, TableUpdate
<1>11. n.item = m.item /\ n.layer = m.layer /\ n.transfer = m.transfer /\ n.reserv = m.reserv
       /\ n.settings = m.settings
  <2> HIDE DEF n, m
  <2>1. QED
    BY <1>6, <1>9
<1>12. StockTyped(n)
  <2> HIDE DEF n, m
  <2>1. StockTyped(m)
    BY <1>7 DEF Books
  <2>2. QED
    BY <1>9, <1>10, <1>11, <2>1 DEF StockTyped
<1> HIDE DEF n, m, q
<1>13. Books(s, n, q)
  BY <1>3, <1>7, <1>11, <1>12, BooksCarryOver
<1>14. QED
  BY <1>3, <1>13 DEF n, q

-----------------------------------------------------------------------------
(* The invariant and the steps of the stock *)

\* What the books say and what is there.
StockSound ==
    /\ StockTyped(db)
    /\ {"booked", "wasted", "lost"} \subseteq DOMAIN past /\ past.booked \in Int
    /\ Held(db) + Moving(db) = past.booked

\* What a step may do to the stock.
StockMoves == StockSound' /\ LayersFollow(db, db') /\ ReservesCovered(db, db')

WasteRows == [qty : Nat]

NobodyWastes == \A p \in Workers : ~ Resuming(p, "wasting")

\* What was wasted is recorded, or still to record by the one request in between,
\* or was lost with a request that died there.
WasteSound ==
    /\ {"booked", "wasted", "lost"} \subseteq DOMAIN past /\ past.lost \in Nat
    /\ db.waste \in Seq(WasteRows)
    /\ NobodyWastes \/ part = "stock"
    /\ NobodyWastes => Recorded + past.lost = past.wasted
    /\ \A p \in Workers : Resuming(p, "wasting") =>
         /\ req[p].todo \in Nat
         /\ Recorded + req[p].todo + past.lost = past.wasted

\* A step that wastes nothing and records no waste.
WasteRests ==
    /\ db'["waste"] = db["waste"]
    /\ {"booked", "wasted", "lost"} \subseteq DOMAIN past'
    /\ past'.wasted = past.wasted /\ past'.lost = past.lost

\* The committed tables change as Books says and the entry is made.
LEMMA BookedStep ==
    ASSUME StockSound, NEW entry \in Int, Books(db, db', entry),
           {"booked", "wasted", "lost"} \subseteq DOMAIN past', past'.booked = past.booked + entry
    PROVE  StockMoves
<1>1. Held(db) \in Int /\ Moving(db) \in Int
  BY TotalsAreWhole DEF StockSound
<1>2. Held(db') + Moving(db') = Held(db) + Moving(db) + entry
  BY DEF Books
<1>3. Held(db') + Moving(db') = past'.booked /\ past'.booked \in Int
  BY <1>1, <1>2 DEF StockSound
<1>4. Held(db)' = Held(db') /\ Moving(db)' = Moving(db')
  BY DEF Held, Moving, OnTheRoad
<1>5. StockTyped(db)' <=> StockTyped(db')
  BY DEF StockTyped
<1>6. QED
  BY <1>3, <1>4, <1>5 DEF Books, StockMoves, StockSound

\* A handler that books what it writes.
LEMMA BookStep ==
    ASSUME ~ Concurrent, StockSound, NEW p, NEW new, NEW entry \in Int,
           Book(p, new, entry), Books(db, new, entry)
    PROVE  StockMoves
<1>1. db' = new /\ past' = [past EXCEPT !.booked = @ + entry]
  BY SerialRows DEF Book
<1>2. past'.booked = past.booked + entry /\ DOMAIN past' = DOMAIN past
  BY <1>1 DEF StockSound
<1>3. QED
  BY <1>1, <1>2, BookedStep DEF StockSound

\* Rows of other tables change.
LEMMA OtherStep ==
    ASSUME StockSound, StockTyped(db'), db'.item = db.item, db'.layer = db.layer,
           db'.transfer = db.transfer, db'.reserv = db.reserv,
           {"booked", "wasted", "lost"} \subseteq DOMAIN past', past'.booked = past.booked
    PROVE  StockMoves
<1>1. Books(db, db', 0)
  BY OtherwiseNothingIsBooked DEF StockSound
<1>2. past'.booked = past.booked + 0
  BY DEF StockSound
<1>3. QED
  BY <1>1, <1>2, BookedStep

\* Goods that land are booked.
LEMMA LandBooks ==
    ASSUME NEW s, StockTyped(s), NEW w \in Warehouses, NEW q \in Nat, NEW priced \in BOOLEAN
    PROVE  Books(s, Land(s, w, q, priced), q)
<1>1. Moved(s, Land(s, w, q, priced), w, q)
  BY LandMoves
<1>2. BalanceTables \subseteq DOMAIN Land(s, w, q, priced)
  BY <1>1 DEF Moved, StockTyped
<1>3. QED
  BY <1>1, <1>2, MovedIsBooked

\* Goods that are issued are booked.
LEMMA IssueBooks ==
    ASSUME NEW s, StockTyped(s), NEW w \in Warehouses, NEW q \in Nat, CanIssue(s, w, q)
    PROVE  Books(s, IssueFrom(s, w, q), -q)
<1>1. Moved(s, IssueFrom(s, w, q), w, -q)
  BY IssueMoves
<1>2. BalanceTables \subseteq DOMAIN IssueFrom(s, w, q)
  BY <1>1 DEF Moved, StockTyped
<1>3. QED
  BY <1>1, <1>2, MovedIsBooked

\* receive_stock keeps the books.
LEMMA ReceiveStep ==
    ASSUME ~ Concurrent, StockSound, NEW p, NEW w \in Warehouses, NEW q \in Nat, Receive(p, w, q)
    PROVE  StockMoves
<1> DEFINE n == Land(db, w, q, TRUE)
<1>1. Book(p, n, q)
  BY SerialRows DEF Receive
<1>2. Books(db, n, q)
  BY LandBooks DEF StockSound
<1> HIDE DEF n
<1>3. QED
  BY <1>1, <1>2, BookStep

\* issue_stock keeps the books.
LEMMA IssueStep ==
    ASSUME ~ Concurrent, StockSound, NEW p, NEW w \in Warehouses, NEW q \in Nat, Issue(p, w, q)
    PROVE  StockMoves
<1>1. Book(p, IssueFrom(db, w, q), -q) /\ CanIssue(db, w, q)
  BY SerialRows DEF Issue
<1>2. Books(db, IssueFrom(db, w, q), -q)
  BY <1>1, IssueBooks DEF StockSound
<1>3. QED
  BY <1>1, <1>2, BookStep

\* The first commit of record_waste.
LEMMA WasteStep ==
    ASSUME ~ Concurrent, StockSound, NEW p, NEW w \in Warehouses, NEW q \in Nat, Waste(p, w, q)
    PROVE  StockMoves
<1>1. /\ db' = IssueFrom(db, w, q) /\ CanIssue(db, w, q)
      /\ past' = [past EXCEPT !.booked = @ - q, !.wasted = @ + q]
  BY SerialRows DEF Waste
<1>2. Books(db, db', -q)
  BY <1>1, IssueBooks DEF StockSound
<1>3. {"booked", "wasted", "lost"} \subseteq DOMAIN past' /\ past'.booked = past.booked + (-q)
  BY <1>1 DEF StockSound
<1>4. QED
  BY <1>2, <1>3, BookedStep

\* The stock, the reservations and the transfers after a request.
LEMMA ReceiptRoutesStep ==
    ASSUME ~ Concurrent, StockSound, NEW p \in Workers,
           ReceiptRoutes(p) \/ ReservationRoutes(p) \/ TransferRoutes(p)
    PROVE  StockMoves
<1>1. Quantities \subseteq Nat
  BY StockAssumption
<1>2. ASSUME NEW w \in Warehouses, NEW q \in Quantities, Receive(p, w, q) PROVE StockMoves
  BY <1>1, <1>2, ReceiveStep
<1>3. ASSUME NEW w \in Warehouses, NEW q \in Quantities, Issue(p, w, q) PROVE StockMoves
  BY <1>1, <1>3, IssueStep
<1>4. ASSUME NEW w \in Warehouses, NEW q \in Quantities, Reserve(p, w, q) PROVE StockMoves
  <2>1. /\ q \in Nat /\ q <= Available(db, w)
        /\ Book(p, [db EXCEPT !.reserv = Append(@, StockReservation(w, q))], 0)
    BY <1>1, <1>4, SerialRows DEF Reserve
  <2>2. Books(db, [db EXCEPT !.reserv = Append(@, StockReservation(w, q))], 0)
    BY <2>1, ReserveBooks DEF StockSound
  <2>3. QED
    BY <2>1, <2>2, BookStep
<1>5. ASSUME NEW k, Release(p, k) PROVE StockMoves
  <2>1. /\ k \in DOMAIN db.reserv /\ db.reserv[k].status = "active"
        /\ Book(p, [db EXCEPT !.reserv[k].status = "released"], 0)
    BY <1>5, SerialRows DEF Release
  <2>2. Books(db, [db EXCEPT !.reserv[k].status = "released"], 0)
    BY <2>1, ReleaseBooks DEF StockSound
  <2>3. QED
    BY <2>1, <2>2, BookStep
<1>6. ASSUME NEW w \in Warehouses, NEW to \in Warehouses, NEW q \in Quantities, InitiateTransfer(p, w, to, q)
      PROVE StockMoves
  <2>1. /\ q \in Nat /\ OnHandCovers(db, w, q)
        /\ Book(p, [AddTo(db, w, -q) EXCEPT !.transfer = Append(@, StockTransfer(w, to, q))], 0)
    BY <1>1, <1>6, SerialRows DEF InitiateTransfer
  <2>2. Books(db, [AddTo(db, w, -q) EXCEPT !.transfer = Append(@, StockTransfer(w, to, q))], 0)
    BY <2>1, TransferBooks DEF StockSound
  <2>3. QED
    BY <2>1, <2>2, BookStep
<1>7. ASSUME NEW k, ConfirmTransferReceipt(p, k) PROVE StockMoves
  <2> DEFINE n == [Land(db, db.transfer[k].to, db.transfer[k].qty, db.item[db.transfer[k].from].priced)
                        EXCEPT !.transfer[k].status = "received"]
  <2>1. k \in DOMAIN db.transfer /\ db.transfer[k].status # "received" /\ Book(p, n, 0)
    BY <1>7, SerialRows DEF ConfirmTransferReceipt
  <2>2. Books(db, n, 0)
    BY <2>1, ArrivalBooks DEF StockSound
  <2> HIDE DEF n
  <2>3. QED
    BY <2>1, <2>2, BookStep
<1>8. QED
  BY <1>2, <1>3, <1>4, <1>5, <1>6, <1>7 DEF ReceiptRoutes, ReservationRoutes, TransferRoutes

\* The stock after waste, a return, a count or a change of valuation.
LEMMA OtherStockRoutesStep ==
    ASSUME ~ Concurrent, StockSound, NEW p \in Workers,
           WasteAndReturnRoutes(p) \/ CountRoutes(p) \/ (\E m \in Methods : SetValuationMethod(p, m))
    PROVE  StockMoves
<1>1. Quantities \subseteq Nat /\ MaxOwned \in Nat
  BY StockAssumption
<1>2. CASE RecordWaste(p) \/ LoseWaste(p)
  <2>1. /\ db' = db \/ db' = [db EXCEPT !["waste"] = Append(@, WasteRecord(req[p].todo))]
        /\ past' = past \/ past' = [past EXCEPT !.lost = @ + req[p].todo]
    BY <1>2, SerialRows DEF RecordWaste, LoseWaste, Commit, Insert
  <2>2. past'.booked = past.booked /\ {"booked", "wasted", "lost"} \subseteq DOMAIN past'
    BY <2>1 DEF StockSound
  <2>3. /\ DOMAIN db' = DOMAIN db
        /\ \A t \in BalanceTables \ {"waste"} : t \in DOMAIN db /\ db'[t] = db[t]
    BY <2>1 DEF StockSound, StockTyped
  <2>4. /\ db'.item = db.item /\ db'.layer = db.layer /\ db'.transfer = db.transfer
        /\ db'.reserv = db.reserv /\ db'.count = db.count /\ db'.settings = db.settings
    BY <2>3 DEF BalanceTables
  <2>5. StockTyped(db')
    BY <2>3, <2>4 DEF StockSound, StockTyped
  <2>6. QED
    BY <2>2, <2>4, <2>5, OtherStep
<1>3. ASSUME NEW w \in Warehouses, NEW q \in Quantities, Waste(p, w, q) PROVE StockMoves
  BY <1>1, <1>3, WasteStep
<1>4. ASSUME NEW w \in Warehouses, NEW q \in Quantities, ReturnToVendor(p, w, q) PROVE StockMoves
  <2>1. q \in Nat /\ OnHandCovers(db, w, q) /\ Book(p, AddTo(db, w, -q), -q)
    BY <1>1, <1>4, SerialRows DEF ReturnToVendor
  <2>2. Books(db, AddTo(db, w, -q), -q)
    BY <2>1, VendorReturnBooks DEF StockSound
  <2>3. QED
    BY <2>1, <2>2, BookStep
<1>5. ASSUME NEW w \in Warehouses, NEW to \in Warehouses, NEW q \in Quantities, ReturnToYard(p, w, to, q)
      PROVE StockMoves
  <2>1. q \in Nat /\ OnHandCovers(db, w, q) /\ Book(p, AddTo(AddTo(db, w, -q), to, q), 0)
    BY <1>1, <1>5, SerialRows DEF ReturnToYard
  <2>2. Books(db, AddTo(AddTo(db, w, -q), to, q), 0)
    BY <2>1, YardBooks DEF StockSound
  <2>3. QED
    BY <2>1, <2>2, BookStep
<1>6. ASSUME NEW c \in Seq(CountRows), Book(p, [db EXCEPT !.count = c], 0) PROVE StockMoves
  <2>1. Books(db, [db EXCEPT !.count = c], 0)
    BY CountBooks DEF StockSound
  <2>2. QED
    BY <1>6, <2>1, BookStep
<1>7. "count" \in DOMAIN db /\ db.count \in Seq(CountRows)
  BY DEF StockSound, StockTyped, BalanceTables
<1>8. ASSUME NEW w \in Warehouses, StartCount(p, w) PROVE StockMoves
  <2>1. Book(p, [db EXCEPT !.count = Append(db.count, StockCount(w))], 0)
    BY <1>8, SerialRows DEF StartCount
  <2>2. StockCount(w) \in CountRows
    BY DEF StockCount, CountRows
  <2>3. Append(db.count, StockCount(w)) \in Seq(CountRows)
    BY <1>7, <2>2, TableInsert
  <2>4. QED
    BY <1>6, <2>1, <2>3
<1>9. ASSUME NEW k, NEW n \in 0..MaxOwned, RecordCountLine(p, k, n) PROVE StockMoves
  <2> DEFINE row == [db.count[k] EXCEPT !.counted = n]
  <2>1. k \in DOMAIN db.count /\ Book(p, [db EXCEPT !.count = [db.count EXCEPT ![k] = row]], 0)
    BY <1>9, SerialRows DEF RecordCountLine
  <2>2. db.count[k] \in CountRows /\ n \in Nat
    BY <1>1, <1>7, <2>1, TableRows
  <2>3. row \in CountRows
    BY <2>2 DEF CountRows
  <2> HIDE DEF row
  <2>4. [db.count EXCEPT ![k] = row] \in Seq(CountRows)
    BY <1>7, <2>1, <2>3, TableUpdate
  <2>5. QED
    BY <1>6, <2>1, <2>4
<1>10. ASSUME NEW k, CompleteCount(p, k) PROVE StockMoves
  <2> DEFINE row == [db.count[k] EXCEPT !.adjusted = FALSE]
  <2>1. k \in DOMAIN db.count /\ Book(p, [db EXCEPT !.count = [db.count EXCEPT ![k] = row]], 0)
    BY <1>10, SerialRows DEF CompleteCount
  <2>2. db.count[k] \in CountRows
    BY <1>7, <2>1, TableRows
  <2>3. row \in CountRows
    BY <2>2 DEF CountRows
  <2> HIDE DEF row
  <2>4. [db.count EXCEPT ![k] = row] \in Seq(CountRows)
    BY <1>7, <2>1, <2>3, TableUpdate
  <2>5. QED
    BY <1>6, <2>1, <2>4
<1>11. ASSUME NEW k, ApplyCount(p, k) PROVE StockMoves
  <2> DEFINE q == db.count[k].counted - db.item[db.count[k].at].qty
             n == [db EXCEPT !.item[db.count[k].at].qty = db.count[k].counted, !.count[k].adjusted = TRUE]
  <2>1. k \in DOMAIN db.count /\ db.count[k].counted # NotCounted /\ Book(p, n, q)
    BY <1>11, SerialRows DEF ApplyCount
  <2>2. q \in Int /\ Books(db, n, q)
    BY <2>1, AdjustmentBooks DEF StockSound
  <2> HIDE DEF q, n
  <2>3. QED
    BY <2>1, <2>2, BookStep
<1>12. ASSUME NEW m \in Methods, SetValuationMethod(p, m) PROVE StockMoves
  <2>1. Book(p, [db EXCEPT !.settings[1].method = m], 0)
    BY <1>12, SerialRows DEF SetValuationMethod
  <2>2. Books(db, [db EXCEPT !.settings[1].method = m], 0)
    BY MethodBooks DEF StockSound
  <2>3. QED
    BY <2>1, <2>2, BookStep
<1>13. QED
  BY <1>2, <1>3, <1>4, <1>5, <1>8, <1>9, <1>10, <1>11, <1>12 DEF WasteAndReturnRoutes, CountRoutes

\* Every request of the stock keeps the books.
LEMMA StockStep ==
    ASSUME ~ Concurrent, StockSound, NEW p \in Workers, StockNext(p)
    PROVE  StockMoves
  BY ReceiptRoutesStep, OtherStockRoutesStep DEF StockNext

-----------------------------------------------------------------------------
(* What else a request of the stock does *)

\* The handler of a request, but for waste: one booked commit.
LEMMA StockIsBooked ==
    ASSUME ~ Concurrent, NEW p, StockNext(p)
    PROVE  \/ Serving(p) /\ \E new, entry : Book(p, new, entry)
           \/ RecordWaste(p) \/ LoseWaste(p)
           \/ \E w \in Warehouses, q \in Quantities : Waste(p, w, q)
<1>1. ASSUME ReceiptRoutes(p) PROVE Serving(p) /\ \E new, entry : Book(p, new, entry)
  BY <1>1 DEF ReceiptRoutes, Receive, Issue
<1>2. ASSUME ReservationRoutes(p) PROVE Serving(p) /\ \E new, entry : Book(p, new, entry)
  BY <1>2 DEF ReservationRoutes, Reserve, Release
<1>3. ASSUME TransferRoutes(p) PROVE Serving(p) /\ \E new, entry : Book(p, new, entry)
  BY <1>3 DEF TransferRoutes, InitiateTransfer, ConfirmTransferReceipt
<1>4. ASSUME NEW w, NEW q, NEW to, ReturnToVendor(p, w, q) \/ ReturnToYard(p, w, to, q)
      PROVE Serving(p) /\ \E new, entry : Book(p, new, entry)
  BY <1>4 DEF ReturnToVendor, ReturnToYard
<1>5. ASSUME CountRoutes(p) PROVE Serving(p) /\ \E new, entry : Book(p, new, entry)
  BY <1>5 DEF CountRoutes, StartCount, RecordCountLine, CompleteCount, ApplyCount
<1>6. ASSUME NEW m, SetValuationMethod(p, m) PROVE Serving(p) /\ \E new, entry : Book(p, new, entry)
  BY <1>6 DEF SetValuationMethod
<1>7. QED
  BY <1>1, <1>2, <1>3, <1>4, <1>5, <1>6 DEF StockNext, WasteAndReturnRoutes

\* What is recorded is a whole number.
LEMMA RecordedIsWhole ==
    ASSUME db.waste \in Seq(WasteRows)
    PROVE  Recorded \in Int
<1>1. IsFiniteSet(DOMAIN db.waste) /\ \A k \in DOMAIN db.waste : db.waste[k] \in WasteRows
  BY TableRows
<1>2. \A k \in DOMAIN db.waste : db.waste[k]["qty"] \in Int
  BY <1>1 DEF WasteRows
<1>3. QED
  BY <1>1, <1>2, SumOfIsInteger DEF Recorded

\* One more record adds its quantity to what is recorded.
LEMMA RecordedOneMore ==
    ASSUME db.waste \in Seq(WasteRows), NEW q \in Nat, db'["waste"] = Append(db["waste"], WasteRecord(q))
    PROVE  db'.waste \in Seq(WasteRows) /\ Recorded' = Recorded + q
<1> DEFINE t == db["waste"]
           u == db'["waste"]
           k == Len(t) + 1
<1>1. WasteRecord(q) \in WasteRows /\ WasteRecord(q)["qty"] = q
  BY DEF WasteRecord, WasteRows
<1>2. /\ u \in Seq(WasteRows) /\ DOMAIN u = DOMAIN t \cup {k} /\ k \notin DOMAIN t
      /\ u[k] = WasteRecord(q)
      /\ \A i \in DOMAIN t : u[i] = t[i]
  BY <1>1, TableInsert
<1>3. IsFiniteSet(DOMAIN t) /\ \A i \in DOMAIN t : t[i] \in WasteRows
  BY TableRows
<1> HIDE DEF t, u, k
<1>4. /\ \A i \in DOMAIN t : t[i]["qty"] \in Int
      /\ \A i \in DOMAIN t : u[i]["qty"] = t[i]["qty"]
      /\ u[k]["qty"] \in Int
  BY <1>1, <1>2, <1>3 DEF WasteRows
<1>5. SumOf(u, "qty", DOMAIN u) = SumOf(t, "qty", DOMAIN t) + u[k]["qty"]
  BY ONLY <1>2, <1>3, <1>4, SumOfOneMore, Z3
<1>6. QED
  BY <1>1, <1>2, <1>5 DEF Recorded, t, u

\* The tables that a move of goods may write.
GoodsTables == {"item", "layer", "transfer", "reserv", "count", "settings"}

\* What a move of goods keeps.
LEMMA MovedKeeps ==
    ASSUME ~ Concurrent, NEW m, NEW w, NEW q, Moved(db, m, w, q), NEW n, DOMAIN n = DOMAIN m,
           \A t \in DOMAIN m \ GoodsTables : n[t] = m[t], db' = n
    PROVE  Keeps(GoodsTables)
  BY DEF Moved, Keeps, GoodsTables

\* Requests of the stock write no other table, and but for record_waste not the
\* records of waste.
LEMMA StockKeeps ==
    ASSUME ~ Concurrent, StockTyped(db), NEW p, StockNext(p)
    PROVE  Keeps(BalanceTables) /\ (RecordWaste(p) \/ Keeps(GoodsTables))
<1>1. Quantities \subseteq Nat
  BY StockAssumption
<1>2. ASSUME NEW w \in Warehouses, NEW q \in Nat, NEW priced \in BOOLEAN
      PROVE  Moved(db, Land(db, w, q, priced), w, q)
  BY LandMoves
<1>3. ASSUME NEW w \in Warehouses, NEW q \in Nat, CanIssue(db, w, q)
      PROVE  Moved(db, IssueFrom(db, w, q), w, -q)
  BY <1>3, IssueMoves
<1>4. ASSUME NEW n, db' = n, DOMAIN n = DOMAIN db, \A t \in DOMAIN db \ GoodsTables : n[t] = db[t]
      PROVE  Keeps(GoodsTables)
  BY <1>4 DEF Keeps
<1>5. ASSUME NEW w \in Warehouses, NEW q \in Nat, Receive(p, w, q) PROVE Keeps(GoodsTables)
  <2>1. db' = Land(db, w, q, TRUE) /\ Moved(db, Land(db, w, q, TRUE), w, q)
    BY <1>2, <1>5, SerialRows DEF Receive, Book
  <2>2. QED
    BY <2>1, MovedKeeps
<1>6. ASSUME NEW w \in Warehouses, NEW q \in Nat, Issue(p, w, q) \/ Waste(p, w, q) PROVE Keeps(GoodsTables)
  <2>1. db' = IssueFrom(db, w, q) /\ Moved(db, IssueFrom(db, w, q), w, -q)
    BY <1>3, <1>6, SerialRows DEF Issue, Waste, Book
  <2>2. QED
    BY <2>1, MovedKeeps
<1>7. ASSUME ReservationRoutes(p) PROVE Keeps(GoodsTables)
  <2>1. ASSUME NEW w, NEW q, Reserve(p, w, q) PROVE Keeps(GoodsTables)
    BY <2>1, SerialRows DEF Reserve, Book, Keeps, GoodsTables
  <2>2. ASSUME NEW k, Release(p, k) PROVE Keeps(GoodsTables)
    BY <2>2, SerialRows DEF Release, Book, Keeps, GoodsTables
  <2>3. QED
    BY <1>7, <2>1, <2>2 DEF ReservationRoutes
<1>8. ASSUME NEW w, NEW to, NEW q, InitiateTransfer(p, w, to, q) PROVE Keeps(GoodsTables)
  BY <1>8, SerialRows DEF InitiateTransfer, AddTo, Book, Keeps, GoodsTables
<1>9. ASSUME NEW k, ConfirmTransferReceipt(p, k) PROVE Keeps(GoodsTables)
  <2> DEFINE t == db.transfer[k]
             priced == db.item[t.from].priced
             m == Land(db, t.to, t.qty, priced)
  <2>1. db' = [m EXCEPT !.transfer[k].status = "received"] /\ k \in DOMAIN db.transfer
    BY <1>9, SerialRows DEF ConfirmTransferReceipt, Book
  <2>2. t \in TransferRows
    BY <2>1, TableRows DEF StockTyped
  <2>3. priced \in BOOLEAN
    <3>1. t.from \in Warehouses /\ db.item \in [Warehouses -> ItemRows]
      BY <2>2 DEF TransferRows, StockTyped
    <3> HIDE DEF t
    <3>2. QED
      BY <3>1 DEF ItemRows
  <2> HIDE DEF priced
  <2>4. Moved(db, m, t.to, t.qty)
    <3>1. t.to \in Warehouses /\ t.qty \in Nat
      BY <2>2 DEF TransferRows
    <3> HIDE DEF t
    <3>2. QED
      BY <1>2, <2>3, <3>1
  <2> HIDE DEF m
  <2>5. QED
    BY <2>1, <2>4 DEF Moved, Keeps, GoodsTables
<1>10. ASSUME NEW w, NEW to, NEW q, ReturnToVendor(p, w, q) \/ ReturnToYard(p, w, to, q)
       PROVE  Keeps(GoodsTables)
  <2>1. ASSUME NEW s, NEW v, NEW n
        PROVE  DOMAIN AddTo(s, v, n) = DOMAIN s /\ \A t \in DOMAIN s \ GoodsTables : AddTo(s, v, n)[t] = s[t]
    BY DEF AddTo, GoodsTables
  <2>2. db' = AddTo(db, w, -q) \/ db' = AddTo(AddTo(db, w, -q), to, q)
    BY <1>10, SerialRows DEF ReturnToVendor, ReturnToYard, Book
  <2>3. QED
    BY <2>1, <2>2 DEF Keeps
<1>11. ASSUME LoseWaste(p) PROVE Keeps(GoodsTables)
  BY <1>11 DEF LoseWaste, Keeps
<1>12. ASSUME RecordWaste(p) PROVE Keeps(BalanceTables)
  BY <1>12, SerialRows DEF RecordWaste, Commit, Insert, Keeps, BalanceTables
<1>13. ASSUME Keeps(GoodsTables) PROVE Keeps(BalanceTables)
  BY <1>13 DEF Keeps, GoodsTables, BalanceTables
<1>14. ASSUME CountRoutes(p) PROVE Keeps(GoodsTables)
  <2>1. ASSUME NEW w, StartCount(p, w) PROVE Keeps(GoodsTables)
    BY <2>1, SerialRows DEF StartCount, Book, Keeps, GoodsTables
  <2>2. ASSUME NEW k, NEW n, RecordCountLine(p, k, n) PROVE Keeps(GoodsTables)
    BY <2>2, SerialRows DEF RecordCountLine, Book, Keeps, GoodsTables
  <2>3. ASSUME NEW k, CompleteCount(p, k) PROVE Keeps(GoodsTables)
    BY <2>3, SerialRows DEF CompleteCount, Book, Keeps, GoodsTables
  <2>4. ASSUME NEW k, ApplyCount(p, k) PROVE Keeps(GoodsTables)
    <3>1. db' = [db EXCEPT !.item[db.count[k].at].qty = db.count[k].counted, !.count[k].adjusted = TRUE]
      BY <2>4, SerialRows DEF ApplyCount, Book
    <3>2. QED
      BY <3>1 DEF Keeps, GoodsTables
  <2>5. QED
    BY <1>14, <2>1, <2>2, <2>3, <2>4 DEF CountRoutes
<1>15. ASSUME NEW m, SetValuationMethod(p, m) PROVE Keeps(GoodsTables)
  BY <1>15, SerialRows DEF SetValuationMethod, Book, Keeps, GoodsTables
<1>16. QED
  BY <1>1, <1>5, <1>6, <1>7, <1>8, <1>9, <1>10, <1>11, <1>12, <1>13, <1>14, <1>15
     DEF StockNext, ReceiptRoutes, TransferRoutes, WasteAndReturnRoutes

\* The waste is as it was.
LEMMA WasteStays ==
    ASSUME WasteSound, NobodyWastes, NobodyWastes', WasteRests
    PROVE  WasteSound'
<1>1. Recorded' = Recorded /\ db'.waste = db.waste
  BY DEF WasteRests, Recorded
<1>2. QED
  BY <1>1 DEF WasteSound, WasteRests, NobodyWastes

\* A request that ends leaves the waste as it was.
LEMMA QuietRequests ==
    ASSUME Alone, WasteSound, NobodyWastes, NEW p \in Workers, Ends(p), WasteRests
    PROVE  Alone' /\ WasteSound'
<1>1. Alone' /\ \A q \in Workers : req'[q] = req[q] \/ req'[q] = Idle
  BY FinishedOrNot DEF Ends
<1>2. NobodyWastes'
  BY <1>1 DEF NobodyWastes, Resuming, Idle
<1>3. QED
  BY <1>1, <1>2, WasteStays

\* If nobody was at work, nobody wastes.
LEMMA AtRest ==
    ASSUME \A q \in Workers : req[q] = Idle
    PROVE  NobodyWastes
  BY DEF NobodyWastes, Resuming, Idle

\* Waste is to be recorded from the first commit of its request to the second.
LEMMA StockRequests ==
    ASSUME ~ Concurrent, Alone, StockSound, WasteSound, NEW p \in Workers, StockNext(p), part' = "stock"
    PROVE  Alone' /\ WasteSound'
<1>1. ASSUME NEW new, NEW entry, Book(p, new, entry), db'["waste"] = db["waste"], NobodyWastes
      PROVE  Alone' /\ WasteSound'
  <2>1. /\ req' = [req EXCEPT ![p] = Idle]
        /\ past' = [past EXCEPT !.booked = @ + entry]
    BY <1>1 DEF Book, Finish
  <2>2. WasteRests
    BY <1>1, <2>1 DEF WasteSound, WasteRests
  <2>3. QED
    BY <1>1, <2>1, <2>2, QuietRequests DEF Ends
<1>2. ASSUME RecordWaste(p) \/ LoseWaste(p) PROVE Alone' /\ WasteSound'
  <2>1. req' = [req EXCEPT ![p] = Idle] /\ Resuming(p, "wasting")
    BY <1>2 DEF RecordWaste, LoseWaste, Commit, Finish, Resuming
  <2>2. Alone'
    BY <2>1, FinishedOrNot
  <2>3. NobodyWastes'
    BY <2>1 DEF Alone, NobodyWastes, Resuming, Idle
  <2>4. /\ req[p].todo \in Nat /\ past.lost \in Nat /\ Recorded \in Int
        /\ Recorded + req[p].todo + past.lost = past.wasted
    BY <2>1, RecordedIsWhole DEF WasteSound
  <2>5. CASE RecordWaste(p)
    <3>1. db'["waste"] = Append(db["waste"], WasteRecord(req[p].todo)) /\ past' = past
      BY <2>5, SerialRows DEF RecordWaste, Commit, Insert, StockSound, StockTyped, BalanceTables
    <3>2. db'.waste \in Seq(WasteRows) /\ Recorded' = Recorded + req[p].todo
      BY <2>4, <3>1, RecordedOneMore DEF WasteSound
    <3>3. Recorded' + past'.lost = past'.wasted
      BY <2>4, <3>1, <3>2
    <3>4. QED
      BY <2>2, <2>3, <3>1, <3>2, <3>3 DEF WasteSound, NobodyWastes
  <2>6. CASE LoseWaste(p)
    <3>1. db' = db /\ past' = [past EXCEPT !.lost = @ + req[p].todo]
      BY <2>6 DEF LoseWaste
    <3>2. /\ Recorded' = Recorded /\ past'.lost = past.lost + req[p].todo /\ past'.wasted = past.wasted
          /\ {"booked", "wasted", "lost"} \subseteq DOMAIN past'
      BY <3>1 DEF WasteSound, Recorded
    <3>3. Recorded' + past'.lost = past'.wasted /\ past'.lost \in Nat
      BY <2>4, <3>2
    <3>4. QED
      BY <2>2, <2>3, <3>1, <3>2, <3>3 DEF WasteSound, NobodyWastes
  <2>7. QED
    BY <1>2, <2>5, <2>6
<1>3. ASSUME NEW w \in Warehouses, NEW q \in Nat, Waste(p, w, q) PROVE Alone' /\ WasteSound'
  <2> DEFINE r == [at |-> "wasting", todo |-> q, seen |-> <<>>]
  <2>1. /\ \A o \in Workers : req[o] = Idle
        /\ req' = [req EXCEPT ![p] = r]
        /\ past' = [past EXCEPT !.booked = @ - q, !.wasted = @ + q]
        /\ db' = IssueFrom(db, w, q) /\ CanIssue(db, w, q)
    BY <1>3, SerialRows DEF Waste, GoOn
  <2>2. Alone'
    BY <2>1, AloneStaysAlone
  <2>3. req'[p].todo = q /\ req'[p].at = "wasting" /\ \A o \in Workers \ {p} : req'[o] = Idle
    BY <2>1 DEF Alone
  <2>4. /\ past'.wasted = past.wasted + q /\ past'.lost = past.lost
        /\ {"booked", "wasted", "lost"} \subseteq DOMAIN past'
    BY <2>1 DEF WasteSound
  <2>5. Moved(db, IssueFrom(db, w, q), w, -q)
    BY <2>1, IssueMoves DEF StockSound
  <2>6. db'["waste"] = db["waste"]
    BY <2>1, <2>5 DEF Moved, StockSound, StockTyped, BalanceTables
  <2>7. Recorded' = Recorded
    BY <2>6 DEF Recorded
  <2>8. past.lost \in Nat /\ Recorded \in Int /\ Recorded + past.lost = past.wasted
    BY <2>1, AtRest, RecordedIsWhole DEF WasteSound
  <2>9. Recorded' + q + past'.lost = past'.wasted
    BY <2>4, <2>7, <2>8
  <2>10. \A o \in Workers : Resuming(o, "wasting")' => o = p
    BY <2>3 DEF Resuming, Idle
  <2>11. ~ NobodyWastes'
    BY <2>3 DEF NobodyWastes, Resuming
  <2> HIDE DEF r
  <2>12. QED
    BY <2>2, <2>3, <2>4, <2>6, <2>8, <2>9, <2>10, <2>11 DEF WasteSound
<1>4. Quantities \subseteq Nat
  BY StockAssumption
<1>5. RecordWaste(p) \/ db'["waste"] = db["waste"]
  BY StockKeeps DEF StockSound, StockTyped, Keeps, GoodsTables, BalanceTables
<1>6. ASSUME Serving(p) PROVE NobodyWastes
  BY <1>6, AtRest DEF Serving
<1>7. QED
  BY <1>1, <1>2, <1>3, <1>4, <1>5, <1>6, StockIsBooked

\* Of one worker at most, what waits to be recorded is accounted for.
LEMMA WasteIsAccounted ==
    ASSUME Alone, WasteSound
    PROVE  WasteIsRecordedOnce
<1> DEFINE W == {q \in Workers : Resuming(q, "wasting")}
           f == [p \in W |-> req[p].todo]
<1>1. Unwritten = SumFunctionOnSet(f, W)
  BY DEF Unwritten, SumFunction
<1>2. Recorded \in Int /\ past.lost \in Nat
  BY RecordedIsWhole DEF WasteSound
<1>3. CASE W = {}
  <2>1. SumFunctionOnSet(f, W) = 0
    <3> HIDE DEF f
    <3>1. SumFunctionOnSet(f, {}) = 0
      BY SumOfNothing
    <3>2. QED
      BY <1>3, <3>1
  <2>2. NobodyWastes
    BY <1>3 DEF NobodyWastes
  <2> HIDE DEF f, W
  <2>3. QED
    BY <1>1, <1>2, <2>1, <2>2 DEF WasteIsRecordedOnce, WasteSound
<1>4. ASSUME NEW p \in W PROVE WasteIsRecordedOnce
  <2>1. W = {p}
    BY <1>4 DEF Alone, Resuming, Idle
  <2>2. /\ f[p] = req[p].todo /\ req[p].todo \in Nat
        /\ Recorded + req[p].todo + past.lost = past.wasted
    BY <1>4 DEF WasteSound
  <2>3. SumFunctionOnSet(f, W) = f[p]
    <3> HIDE DEF f, W
    <3>1. IsFiniteSet({p}) /\ {p} \ {p} = {} /\ p \in {p}
      BY FS_Singleton
    <3>2. \A x \in {p} : f[x] \in Int
      BY <2>2
    <3>3. SumFunctionOnSet(f, {p}) = f[p] + SumFunctionOnSet(f, {p} \ {p})
      BY <3>1, <3>2, SumWithout
    <3>4. SumFunctionOnSet(f, {}) = 0
      BY SumOfNothing
    <3>5. QED
      BY <2>1, <2>2, <3>1, <3>3, <3>4
  <2> HIDE DEF f, W
  <2>4. QED
    BY <1>1, <1>2, <2>2, <2>3 DEF WasteIsRecordedOnce
<1>5. QED
  BY <1>3, <1>4

-----------------------------------------------------------------------------
(* Which tables a request writes *)

SourcingTables == {"doc", "performance", "rating", "rfq", "invitation", "quotation", "pr"}

\* Vendors' papers, requests for quotation and purchase requests.
LEMMA SourcingTouches ==
    ASSUME ~ Concurrent, NEW p,
           \/ VendorRoutes(p) \/ RatingRoutes(p) \/ RfqRoutes(p) \/ RequestRoutes(p)
           \/ \E k : DocumentExpires(k)
           \/ \E k, o : InstanceEnds(k, o)
    PROVE  CreateVendor(p) \/ Touches(p, SourcingTables)
<1> SUFFICES ASSUME ~ CreateVendor(p) PROVE Touches(p, SourcingTables)
  OBVIOUS
<1>1. ASSUME NEW t \in SourcingTables, Touches(p, {t}) PROVE Touches(p, SourcingTables)
  BY <1>1, TouchesMore
<1>2. ASSUME NEW t \in SourcingTables, NEW row, Create(p, t, row) PROVE Touches(p, SourcingTables)
  BY <1>1, <1>2, CreateTouches
<1>3. {"doc", "performance", "rating", "rfq", "invitation", "quotation", "pr"} = SourcingTables
  BY DEF SourcingTables
<1>4. CASE VendorRoutes(p)
  BY <1>2, <1>3, <1>4 DEF VendorRoutes, AddComplianceDocument
<1>5. CASE RatingRoutes(p)
  BY <1>2, <1>3, <1>5 DEF RatingRoutes, AddPerformanceRecord, AddSupplierRating
<1>6. CASE RfqRoutes(p)
  BY <1>2, <1>3, <1>6 DEF RfqRoutes, CreateRfq, InviteVendor, SubmitQuotation
<1>7. CASE RequestRoutes(p)
  <2>1. ASSUME NEW k, NEW override, NEW governed, SubmitPurchaseRequest(p, k, override, governed)
        PROVE  Touches(p, {"pr"})
    <3> DEFINE breaches == db.pr[k].total > Remaining(db)
               instance == IF governed THEN "pending" ELSE None
    <3>1. Commit(p, [db EXCEPT !.pr[k].status = "submitted", !.pr[k].override = breaches,
                               !.pr[k].instance = instance])
      BY <2>1, SerialRows DEF SubmitPurchaseRequest, Row
    <3> HIDE DEF breaches, instance
    <3>2. QED
      BY <3>1, SerialRows DEF Commit, Finish, Touches
  <2>2. ASSUME NEW k, ApprovePurchaseRequest(p, k) PROVE Touches(p, {"pr"})
    BY <2>2, TurnTouches DEF ApprovePurchaseRequest
  <2>3. QED
    BY <1>1, <1>2, <1>3, <1>7, <2>1, <2>2 DEF RequestRoutes, CreatePurchaseRequest
<1>8. ASSUME NEW k, DocumentExpires(k) PROVE Touches(p, {"doc"})
  BY <1>8 DEF DocumentExpires, Touches
<1>9. ASSUME NEW k, NEW o, InstanceEnds(k, o) PROVE Touches(p, {"pr"})
  BY <1>9 DEF InstanceEnds, Touches
<1>10. QED
  BY <1>1, <1>3, <1>4, <1>5, <1>6, <1>7, <1>8, <1>9

\* Orders and the decisions on them.
LEMMA OrderTouches ==
    ASSUME ~ Concurrent, NEW p, OrderRoutes(p) \/ \E v, n, lines : CreatePurchaseOrder(p, v, n, lines)
    PROVE  Touches(p, {"po", "poline", "postep"})
<1>1. ASSUME NEW v, NEW n, NEW lines, CreatePurchaseOrder(p, v, n, lines)
      PROVE  Touches(p, {"po", "poline", "postep"})
  BY <1>1, SerialRows DEF CreatePurchaseOrder, Commit, Finish, Touches
<1>2. ASSUME NEW o, NEW n, InitiatePoApproval(p, o, n) PROVE Touches(p, {"po", "poline", "postep"})
  BY <1>2, SerialRows DEF InitiatePoApproval, Commit, Finish, Touches
<1>3. ASSUME NEW o, NEW waiver, IssuePurchaseOrder(p, o, waiver) PROVE Touches(p, {"po", "poline", "postep"})
  BY <1>3, SerialRows DEF IssuePurchaseOrder, Commit, Finish, Touches
<1>4. ASSUME NEW k, NEW d, DecidePoApprovalStep(p, k, d) PROVE Touches(p, {"po", "poline", "postep"})
  BY <1>4, SerialRows DEF DecidePoApprovalStep, Commit, Finish, Touches
<1>5. QED
  BY <1>1, <1>2, <1>3, <1>4 DEF OrderRoutes

\* Receipt notes are written.
LEMMA NoteTouches ==
    ASSUME ~ Concurrent, NEW p, NEW o, NEW w, NEW q, CreateGrn(p, o, w, q)
    PROVE  Touches(p, {"grn", "grnline"})
  BY SerialRows DEF CreateGrn, Commit, Finish, Touches

\* Invoices are matched.
LEMMA MatchTouches ==
    ASSUME ~ Concurrent, NEW p, MatchRoutes(p)
    PROVE  Touches(p, {"match"})
<1>1. ASSUME NEW o, NEW g, NEW n, PerformInvoiceMatch(p, o, g, n) PROVE Touches(p, {"match"})
  BY <1>1, CreateTouches DEF PerformInvoiceMatch
<1>2. ASSUME NEW k, ApproveMatchException(p, k) PROVE Touches(p, {"match"})
  BY <1>2, SerialRows DEF ApproveMatchException, Amend, Commit, Finish, Touches
<1>3. QED
  BY <1>1, <1>2 DEF MatchRoutes

\* Quotes, by the company or by vendors on their portal.
LEMMA QuoteTouches ==
    ASSUME ~ Concurrent, NEW p, RfqRoutes(p) \/ QuoteRoutes(p) \/ \E r : DeadlinePasses(r)
    PROVE  Touches(p, {"rfq", "invitation", "quotation"})
<1> DEFINE T == {"rfq", "invitation", "quotation"}
<1>1. ASSUME NEW t \in T, NEW row, Create(p, t, row) PROVE Touches(p, T)
  <2>1. Touches(p, {t}) /\ {t} \subseteq T
    BY <1>1, CreateTouches
  <2> HIDE DEF T
  <2>2. QED
    BY <2>1, TouchesMore
<1>2. ASSUME NEW r, DeadlinePasses(r) PROVE Touches(p, T)
  BY <1>2 DEF DeadlinePasses, Touches
<1>3. ASSUME NEW v, NEW k, NEW price, SubmitQuoteAsVendor(p, v, k, price) PROVE Touches(p, T)
  BY <1>3, SerialRows DEF SubmitQuoteAsVendor, Insert, Commit, Finish, Touches
<1>4. ASSUME NEW v, NEW k, NEW price, ReviseQuoteAsVendor(p, v, k, price) PROVE Touches(p, T)
  BY <1>4, SerialRows DEF ReviseQuoteAsVendor, Commit, Finish, Touches
<1>5. ASSUME NEW v, NEW k, DeclineRfqAsVendor(p, v, k) PROVE Touches(p, T)
  BY <1>5, SerialRows DEF DeclineRfqAsVendor, Commit, Finish, Touches
<1>6. CASE QuoteRoutes(p)
  BY <1>3, <1>4, <1>5, <1>6 DEF QuoteRoutes
<1>7. CASE RfqRoutes(p)
  BY <1>1, <1>7 DEF RfqRoutes, CreateRfq, InviteVendor, SubmitQuotation
<1>8. QED
  BY <1>2, <1>6, <1>7

BankingChange(p) ==
    \/ \E v \in DOMAIN db.vendor, n \in BankDetails : SubmitBankingChange(p, v, n)
    \/ \E k : ApproveBankingChange(p, k) \/ RejectBankingChange(p, k)

\* Vendors on their portal.
LEMMA PortalTouches ==
    ASSUME ~ Concurrent, NEW p, VendorPortalRoutes(p)
    PROVE  BankingChange(p) \/ Touches(p, {"acknowledgment", "upload"})
<1> DEFINE T == {"acknowledgment", "upload"}
<1> SUFFICES ASSUME ~ BankingChange(p) PROVE Touches(p, T)
  OBVIOUS
<1>1. ASSUME NEW t \in T, NEW row, Create(p, t, row) PROVE Touches(p, T)
  <2>1. Touches(p, {t}) /\ {t} \subseteq T
    BY <1>1, CreateTouches
  <2> HIDE DEF T
  <2>2. QED
    BY <2>1, TouchesMore
<1>2. ASSUME NEW v, NEW o, AcknowledgeOrder(p, v, o) \/ UploadVendorInvoice(p, v, o) PROVE Touches(p, T)
  BY <1>1, <1>2 DEF AcknowledgeOrder, UploadVendorInvoice
<1>3. QED
  BY <1>2, SerialRows DEF VendorPortalRoutes, BankingChange, Rows

\* Codes, batches, serial numbers and reorder levels.
LEMMA TraceabilityTouches ==
    ASSUME ~ Concurrent, NEW p, TraceabilityRoutes(p) \/ ReorderRoutes(p)
    PROVE  Touches(p, {"itemcode", "batch", "serial", "reorder"})
<1> DEFINE T == {"itemcode", "batch", "serial", "reorder"}
<1>1. ASSUME NEW t \in T, NEW row, Create(p, t, row) PROVE Touches(p, T)
  <2>1. Touches(p, {t}) /\ {t} \subseteq T
    BY <1>1, CreateTouches
  <2> HIDE DEF T
  <2>2. QED
    BY <2>1, TouchesMore
<1>2. CASE ReorderRoutes(p)
  BY <1>1, <1>2 DEF ReorderRoutes
<1>3. CASE TraceabilityRoutes(p)
  <2>1. ASSUME NEW k, NEW status, Serving(p), Commit(p, [db EXCEPT !.batch[k] = [@ EXCEPT !.status = status]])
        PROVE  Touches(p, T)
    BY <2>1, SerialRows DEF Commit, Finish, Touches
  <2>2. QED
    BY <1>1, <1>3, <2>1, SerialRows DEF TraceabilityRoutes, Amend
<1>4. QED
  BY <1>2, <1>3

LedgerTableNames == {"company", "policy", "entry", "ap", "ar", "bank", "forecast", "statement"}

\* Postings that are committed at once, statements and the bank.
LEMMA LedgerTouches ==
    ASSUME ~ Concurrent, NEW p,
           \/ \E d, n : PostArInvoice(p, d, n)
           \/ RecordApInvoice(p) \/ LedgerRoutes(p) \/ BankRoutes(p) \/ StatementRoutes(p)
    PROVE  Touches(p, LedgerTableNames)
<1>1. ASSUME NEW t \in LedgerTableNames, NEW row, Create(p, t, row) PROVE Touches(p, LedgerTableNames)
  <2>1. Touches(p, {t}) /\ {t} \subseteq LedgerTableNames
    BY <1>1, CreateTouches
  <2>2. QED
    BY <2>1, TouchesMore
<1>2. {"company", "policy", "entry", "ap", "ar", "bank", "forecast", "statement"} = LedgerTableNames
  BY DEF LedgerTableNames
<1>3. ASSUME NEW d, NEW n, PostArInvoice(p, d, n) PROVE Touches(p, LedgerTableNames)
  <2>1. Touches(p, {"entry", "ar"})
    BY <1>3, SerialRows DEF PostArInvoice, PostReceivable, Post, Insert, Commit, Finish, Touches
  <2>2. QED
    BY <1>2, <2>1, TouchesMore
<1>4. CASE RecordApInvoice(p)
  <2>1. Touches(p, {"ap"})
    BY <1>4, SerialRows DEF RecordApInvoice, Insert, Commit, Finish, Touches
  <2>2. QED
    BY <1>2, <2>1, TouchesMore
<1>5. ASSUME NEW d, NEW lines, PostManualException(p, d, lines) PROVE Touches(p, LedgerTableNames)
  <2>1. Touches(p, {"entry"})
    BY <1>5, SerialRows DEF PostManualException, Post, Insert, Commit, Finish, Touches
  <2>2. QED
    BY <1>2, <2>1, TouchesMore
<1>6. CASE LedgerRoutes(p)
  BY <1>1, <1>2, <1>5, <1>6 DEF LedgerRoutes, CreateCompany, CreateBudgetPolicy
<1>7. ASSUME NEW k, AutoMatch(p, k) PROVE Touches(p, LedgerTableNames)
  <2>1. Touches(p, {"bank"})
    BY <1>7, SerialRows DEF AutoMatch, Commit, Finish, Touches
  <2>2. QED
    BY <1>2, <2>1, TouchesMore
<1>8. CASE BankRoutes(p)
  BY <1>1, <1>2, <1>7, <1>8 DEF BankRoutes, ImportBankLine
<1>9. CASE StatementRoutes(p)
  BY <1>1, <1>2, <1>9 DEF StatementRoutes, GenerateCashFlowForecast, GenerateIncomeStatement
<1>10. QED
  BY <1>3, <1>4, <1>6, <1>8, <1>9

SalesDocuments == {"salesconf", "so", "invoice", "payment", "ar", "entry"}

\* Sales but for the deliveries.
LEMMA SalesTouches ==
    ASSUME ~ Concurrent, NEW p,
           \/ SettingsRoutes(p) \/ SalesOrderRoutes(p) \/ PaymentRoutes(p)
           \/ \E o : InvoiceDelivered(p, o)
    PROVE  Touches(p, SalesDocuments)
<1>1. {"salesconf", "so", "invoice", "payment", "ar", "entry"} = SalesDocuments
  BY DEF SalesDocuments
<1>2. ASSUME NEW a, NEW v, NEW c, SaveSettings(p, a, v, c) PROVE Touches(p, SalesDocuments)
  <2>1. Touches(p, {"salesconf"})
    BY <1>2, SerialRows DEF SaveSettings, Commit, Finish, Touches
  <2>2. QED
    BY <1>1, <2>1, TouchesMore
<1>3. ASSUME Touches(p, {"so"}) PROVE Touches(p, SalesDocuments)
  BY <1>1, <1>3, TouchesMore
<1>4. ASSUME NEW w, NEW q, NEW price, CreateOrder(p, w, q, price) PROVE Touches(p, SalesDocuments)
  BY <1>3, <1>4, CreateTouches DEF CreateOrder
<1>5. ASSUME NEW o, NEW w, NEW q, NEW price, EditOrder(p, o, w, q, price) PROVE Touches(p, SalesDocuments)
  <2>1. Touches(p, {"so"})
    BY <1>5, SerialRows DEF EditOrder, Amend, Commit, Finish, Touches
  <2>2. QED
    BY <1>3, <2>1
<1>6. ASSUME NEW o, ConfirmOrder(p, o) \/ CancelOrder(p, o) PROVE Touches(p, SalesDocuments)
  BY <1>3, <1>6, TurnTouches DEF ConfirmOrder, CancelOrder
<1>7. ASSUME NEW o, InvoiceDelivered(p, o) PROVE Touches(p, SalesDocuments)
  <2>1. Touches(p, {"so", "invoice", "ar", "entry"})
    <3> DEFINE q == db.so[o].delivered - db.so[o].invoiced
               net == q * db.so[o].price
               vat == VatOn(net, db.so[o].vat)
               posted == PostSalesInvoice(db, o, q, net, vat)
    <3>1. Commit(p, [posted EXCEPT !.so[o].invoiced = @ + q])
      BY <1>7, SerialRows DEF InvoiceDelivered
    <3>2. /\ DOMAIN posted = DOMAIN db
          /\ \A t \in DOMAIN db \ {"so", "invoice", "ar", "entry"} : posted[t] = db[t]
      <4> HIDE DEF q, net, vat
      <4>1. QED
        BY DEF PostSalesInvoice, PostReceivable, Post, Insert
    <3> HIDE DEF q, posted
    <3>3. QED
      BY <3>1, <3>2, SerialRows DEF Commit, Finish, Touches
  <2>2. QED
    BY <1>1, <2>1, TouchesMore
<1>8. ASSUME NEW i, NEW n, RecordPayment(p, i, n) PROVE Touches(p, SalesDocuments)
  <2>1. Touches(p, {"invoice", "payment", "ar", "entry"})
    BY <1>8, SerialRows DEF RecordPayment, Settle, Post, Insert, Commit, Finish, Touches
  <2>2. QED
    BY <1>1, <2>1, TouchesMore
<1>9. QED
  BY <1>2, <1>4, <1>5, <1>6, <1>7, <1>8 DEF SettingsRoutes, SalesOrderRoutes, PaymentRoutes

FuelTableNames == {"tank", "fuelbuy", "fuelissue", "burnrate", "variance", "flag"}

\* Fuel but for the dip readings.
LEMMA FuelTouches ==
    ASSUME ~ Concurrent, NEW p,
           \/ CreateTank(p) \/ FuelPurchaseRoutes(p) \/ FuelIssueRoutes(p) \/ FuelVarianceRoutes(p)
           \/ \E t, n : RecordPurchase(p, t, n, TRUE)
           \/ \E k : FlagAges(k)
    PROVE  Touches(p, FuelTableNames)
<1>1. {"tank", "fuelbuy", "fuelissue", "burnrate", "variance", "flag"} = FuelTableNames
  BY DEF FuelTableNames
<1>2. ASSUME NEW t \in FuelTableNames, Touches(p, {t}) PROVE Touches(p, FuelTableNames)
  BY <1>2, TouchesMore
<1>3. ASSUME NEW t \in FuelTableNames, NEW row, Create(p, t, row) PROVE Touches(p, FuelTableNames)
  BY <1>2, <1>3, CreateTouches
<1>4. ASSUME NEW t, NEW n, NEW c, RecordPurchase(p, t, n, c) PROVE Touches(p, FuelTableNames)
  <2>1. Touches(p, {"tank", "fuelbuy"})
    BY <1>4, SerialRows DEF RecordPurchase, Fill, Insert, Commit, Finish, Touches
  <2>2. QED
    BY <1>1, <2>1, TouchesMore
<1>5. ASSUME NEW k, ConfirmFuelDelivery(p, k) PROVE Touches(p, FuelTableNames)
  <2>1. Touches(p, {"tank", "fuelbuy"})
    BY <1>5, SerialRows DEF ConfirmFuelDelivery, FillTank, Fill, Finish, Touches
  <2>2. QED
    BY <1>1, <2>1, TouchesMore
<1>6. ASSUME NEW t, NEW n, RecordFuelIssue(p, t, n) PROVE Touches(p, FuelTableNames)
  <2>1. Touches(p, {"tank", "fuelissue"})
    BY <1>6, SerialRows DEF RecordFuelIssue, Draw, Insert, Commit, Finish, Touches
  <2>2. QED
    BY <1>1, <2>1, TouchesMore
<1>7. ASSUME NEW k, CountersignIssue(p, k) PROVE Touches(p, FuelTableNames)
  <2>1. Touches(p, {"fuelissue"})
    BY <1>7, SerialRows DEF CountersignIssue, Amend, Commit, Finish, Touches
  <2>2. QED
    BY <1>1, <1>2, <2>1
<1>8. CASE FuelIssueRoutes(p)
  BY <1>1, <1>3, <1>6, <1>7, <1>8 DEF FuelIssueRoutes, FlagIssueWithoutUsageLog
<1>9. ASSUME NEW n, SetBurnRateProfile(p, n) PROVE Touches(p, {"burnrate"})
  BY <1>9, SerialRows DEF SetBurnRateProfile, Commit, Finish, Touches
<1>10. ASSUME CalculateFuelVariance(p) PROVE Touches(p, {"variance"})
  BY <1>10, SerialRows DEF CalculateFuelVariance, Commit, Finish, Touches
<1>11. ASSUME EscalateUnresolvedTheftFlags(p) PROVE Touches(p, {"flag"})
  BY <1>11, SerialRows DEF EscalateUnresolvedTheftFlags, Commit, Finish, Touches
<1>12. CASE FuelVarianceRoutes(p)
  BY <1>1, <1>2, <1>3, <1>9, <1>10, <1>11, <1>12 DEF FuelVarianceRoutes, CheckVarianceTheftFlag
<1>13. ASSUME NEW k, FlagAges(k) PROVE Touches(p, {"flag"})
  BY <1>13 DEF FlagAges, Touches
<1>14. QED
  BY <1>1, <1>2, <1>3, <1>4, <1>5, <1>8, <1>12, <1>13 DEF FuelPurchaseRoutes, CreateTank

\* A dip reading is the one request that changes what the past says of fuel.
LEMMA DipTouches ==
    ASSUME ~ Concurrent, NEW p, NEW t, NEW n, ReconcileTank(p, t, n)
    PROVE  /\ DOMAIN db' = DOMAIN db
           /\ \A u \in DOMAIN db \ {"tank", "flag"} : db'[u] = db[u]
           /\ req' = [req EXCEPT ![p] = Idle]
           /\ past' = [past EXCEPT !.dipped = @ + n - db.tank[t].level]
  BY SerialRows DEF ReconcileTank, Flagged, Insert, Finish

\* Production but for the runs.
LEMMA ProductionTouches ==
    ASSUME ~ Concurrent, NEW p,
           \/ CenterRoutes(p) \/ BomRoutes(p)
           \/ \E b, n, c : CreateProductionOrder(p, b, n, c)
           \/ \E o : ReleaseOrder(p, o) \/ StartOrder(p, o) \/ CancelProduction(p, o)
    PROVE  Touches(p, {"center", "bom", "prodorder"})
<1> DEFINE T == {"center", "bom", "prodorder"}
<1>1. ASSUME NEW t \in T, Touches(p, {t}) PROVE Touches(p, T)
  <2>1. {t} \subseteq T
    OBVIOUS
  <2> HIDE DEF T
  <2>2. QED
    BY <1>1, <2>1, TouchesMore
<1>2. CASE CenterRoutes(p)
  <2>1. ASSUME NEW k, NEW a, UpdateWorkCenter(p, k, a) PROVE Touches(p, {"center"})
    BY <2>1, SerialRows DEF UpdateWorkCenter, Amend, Commit, Finish, Touches
  <2>2. QED
    BY <1>1, <1>2, <2>1, CreateTouches DEF CenterRoutes, CreateWorkCenter
<1>3. CASE BomRoutes(p)
  <2>1. ASSUME NEW b, NEW n, NEW a, ReplaceBom(p, b, n, a) PROVE Touches(p, {"bom"})
    BY <2>1, SerialRows DEF ReplaceBom, Amend, Commit, Finish, Touches
  <2>2. QED
    BY <1>1, <1>3, <2>1, CreateTouches DEF BomRoutes, CreateBom
<1>4. ASSUME NEW b, NEW n, NEW c, CreateProductionOrder(p, b, n, c) PROVE Touches(p, {"prodorder"})
  BY <1>4, CreateTouches DEF CreateProductionOrder
<1>5. ASSUME NEW o, ReleaseOrder(p, o) \/ StartOrder(p, o) \/ CancelProduction(p, o) PROVE Touches(p, {"prodorder"})
  BY <1>5, TurnTouches DEF ReleaseOrder, StartOrder, CancelProduction
<1>6. QED
  BY <1>1, <1>2, <1>3, <1>4, <1>5

-----------------------------------------------------------------------------
(* The rows of purchasing *)

PurchaseTables == {"vendor", "bankchange", "po", "poline", "postep", "grn", "grnline"}

VendorRows == [status : {"active"}, bank : Nat]

BankChangeRows ==
    [status : {"pending", "approved", "rejected"}, vendor : Nat, proposed : Nat, previous : Nat]

PoRows ==
    [status : {"draft", "pending_approval", "approved", "issued", "cancelled"},
     vendor : Nat, value : Nat, waiver : BOOLEAN]

PoLineRows == [po : Nat, tracked : BOOLEAN, qty : Nat, received : Int]

PoStepRows == [status : {"pending", "approved", "rejected"}, po : Nat, order : Nat]

NoteRows == [status : {"draft", "confirmed"}, po : Nat, at : Warehouses \cup {None}]

NoteLineRows == [grn : Nat, line : Nat, qty : Nat]

\* Every row refers to a row that is there.
PurchasesTyped(s) ==
    /\ PurchaseTables \subseteq DOMAIN s
    /\ s.vendor \in Seq(VendorRows)
    /\ s.bankchange \in Seq(BankChangeRows)
    /\ s.po \in Seq(PoRows)
    /\ s.poline \in Seq(PoLineRows)
    /\ s.postep \in Seq(PoStepRows)
    /\ s.grn \in Seq(NoteRows)
    /\ s.grnline \in Seq(NoteLineRows)
    /\ \A k \in DOMAIN s.bankchange : s.bankchange[k].vendor \in DOMAIN s.vendor
    /\ \A k \in DOMAIN s.poline : s.poline[k].po \in DOMAIN s.po
    /\ \A k \in DOMAIN s.postep : s.postep[k].po \in DOMAIN s.po
    /\ \A k \in DOMAIN s.grnline : s.grnline[k].grn \in DOMAIN s.grn /\ s.grnline[k].line \in DOMAIN s.poline

\* Requests on other tables.
LEMMA PurchasesUntouched ==
    ASSUME PurchasesTyped(db), NEW n, DOMAIN n = DOMAIN db, \A t \in PurchaseTables : n[t] = db[t]
    PROVE  PurchasesTyped(n)
<1>1. /\ n.vendor = db.vendor /\ n.bankchange = db.bankchange /\ n.po = db.po /\ n.poline = db.poline
      /\ n.postep = db.postep /\ n.grn = db.grn /\ n.grnline = db.grnline
  BY DEF PurchaseTables
<1>2. QED
  BY <1>1 DEF PurchasesTyped

\* A vendor is registered.
LEMMA VendorTyped ==
    ASSUME ~ Concurrent, PurchasesTyped(db), NEW p, CreateVendor(p)
    PROVE  PurchasesTyped(db')
<1>1. /\ DOMAIN db' = DOMAIN db
      /\ db'.vendor = Append(db.vendor, Vendor)
      /\ db'.bankchange = db.bankchange /\ db'.po = db.po /\ db'.poline = db.poline
      /\ db'.postep = db.postep /\ db'.grn = db.grn /\ db'.grnline = db.grnline
  <2>1. db' = [db EXCEPT !.vendor = Append(@, Vendor)]
    BY CreateTouches DEF CreateVendor
  <2>2. QED
    BY <2>1 DEF PurchasesTyped, PurchaseTables
<1>2. Vendor \in VendorRows
  BY DEF Vendor, VendorRows
<1>3. db'.vendor \in Seq(VendorRows) /\ DOMAIN db.vendor \subseteq DOMAIN db'.vendor
  BY <1>1, <1>2, TableInsert DEF PurchasesTyped
<1>4. QED
  BY <1>1, <1>3 DEF PurchasesTyped

\* An order is written with its lines.
LEMMA OrderTyped ==
    ASSUME ~ Concurrent, PurchasesTyped(db), NEW p, NEW v, NEW n \in Quantities, NEW lines \in OrderLines,
           CreatePurchaseOrder(p, v, n, lines)
    PROVE  /\ PurchasesTyped(db')
           /\ db'.po = Append(db.po, PurchaseOrder(v, n))
           /\ db'.poline = db.poline \o [i \in DOMAIN lines |-> PurchaseOrderLine(Len(db.po) + 1, lines[i], 1)]
           /\ \A t \in DOMAIN db \ {"po", "poline"} : db'[t] = db[t]
<1> DEFINE o == Len(db.po) + 1
           row == PurchaseOrder(v, n)
           more == [i \in DOMAIN lines |-> PurchaseOrderLine(o, lines[i], 1)]
<1>1. /\ DOMAIN db' = DOMAIN db
      /\ db'.po = Append(db.po, row)
      /\ db'.poline = db.poline \o more
      /\ \A t \in DOMAIN db \ {"po", "poline"} : db'[t] = db[t]
      /\ v \in DOMAIN db.vendor
  BY SerialRows DEF CreatePurchaseOrder, Commit, PurchasesTyped, PurchaseTables
<1>2. /\ db'.vendor = db.vendor /\ db'.bankchange = db.bankchange
      /\ db'.postep = db.postep /\ db'.grn = db.grn /\ db'.grnline = db.grnline
  BY <1>1 DEF PurchasesTyped, PurchaseTables
<1>3. /\ db.po \in Seq(PoRows) /\ Len(db.po) \in Nat /\ DOMAIN db.po = 1..Len(db.po)
      /\ db.poline \in Seq(PoLineRows)
  BY TableRows DEF PurchasesTyped
<1>4. v \in Nat /\ n \in Nat /\ lines \in Seq(BOOLEAN)
  <2>1. v \in Nat
    <3>1. DOMAIN db.vendor = 1..Len(db.vendor)
      BY TableRows DEF PurchasesTyped
    <3>2. QED
      BY <1>1, <3>1
  <2>2. n \in Nat
    BY StockAssumption
  <2>3. lines \in Seq(BOOLEAN)
    BY ProcurementAssumption
  <2>4. QED
    BY <2>1, <2>2, <2>3
<1>5. row \in PoRows
  BY <1>4 DEF PurchaseOrder, PoRows
<1>6. /\ db'.po \in Seq(PoRows) /\ DOMAIN db'.po = DOMAIN db.po \cup {o}
  BY <1>1, <1>3, <1>5, TableInsert
<1>7. /\ DOMAIN more = 1..Len(lines) /\ Len(lines) \in Nat
      /\ \A i \in 1..Len(lines) : more[i] \in PoLineRows /\ more[i].po = o
  BY <1>3, <1>4 DEF PurchaseOrderLine, PoLineRows
<1>8. more \in Seq(PoLineRows) /\ Len(more) = Len(lines)
  <2>1. more = [i \in 1..Len(lines) |-> more[i]]
    BY <1>7
  <2> HIDE DEF more
  <2>2. QED
    BY <1>7, <2>1, TableByNumber
<1> HIDE DEF more, o, row
<1>9. /\ db'.poline \in Seq(PoLineRows)
      /\ DOMAIN db'.poline = 1..(Len(db.poline) + Len(more))
      /\ DOMAIN db.poline \subseteq DOMAIN db'.poline
      /\ \A k \in DOMAIN db.poline : db'.poline[k] = db.poline[k]
      /\ \A k \in 1..Len(more) : db'.poline[Len(db.poline) + k] = more[k]
  <2>1. db'.poline = db.poline \o more /\ db.poline \in Seq(PoLineRows) /\ more \in Seq(PoLineRows)
    BY <1>1, <1>3, <1>8
  <2>2. QED
    BY <2>1, TableInserts
<1>10. ASSUME NEW k \in DOMAIN db'.poline PROVE db'.poline[k].po \in DOMAIN db'.po
  <2>1. CASE k \in DOMAIN db.poline
    BY <1>6, <1>9, <2>1 DEF PurchasesTyped
  <2>2. CASE k \notin DOMAIN db.poline
    <3>1. Len(db.poline) \in Nat /\ DOMAIN db.poline = 1..Len(db.poline)
      BY <1>3
    <3>2. k - Len(db.poline) \in 1..Len(more) /\ k = Len(db.poline) + (k - Len(db.poline))
      BY <1>7, <1>8, <1>9, <2>2, <3>1
    <3>3. db'.poline[k] = more[k - Len(db.poline)]
      BY <1>9, <3>2
    <3>4. QED
      BY <1>6, <1>7, <1>8, <3>2, <3>3
  <2>3. QED
    BY <2>1, <2>2
<1>11. PurchasesTyped(db')
  BY <1>1, <1>2, <1>6, <1>9, <1>10 DEF PurchasesTyped
<1>12. QED
  BY <1>1, <1>11 DEF row, more, o

\* Approval of an order is initiated.
LEMMA ApprovalInitiated ==
    ASSUME ~ Concurrent, PurchasesTyped(db), NEW p, NEW o, NEW n \in Nat, InitiatePoApproval(p, o, n)
    PROVE  /\ PurchasesTyped(db')
           /\ o \in DOMAIN db.po /\ n > 0 /\ StepsOf(db, o) = {}
           /\ db'.po = [db.po EXCEPT ![o] = [db.po[o] EXCEPT !.status = "pending_approval"]]
           /\ db'.postep = db.postep \o [i \in 1..n |-> POApprovalStep(o, i)]
           /\ \A t \in DOMAIN db \ {"po", "postep"} : db'[t] = db[t]
<1> DEFINE row == [db.po[o] EXCEPT !.status = "pending_approval"]
           more == [i \in 1..n |-> POApprovalStep(o, i)]
           all == db.postep \o more
<1>1. /\ DOMAIN db' = DOMAIN db
      /\ db'.po = [db.po EXCEPT ![o] = row]
      /\ db'.postep = all
      /\ \A t \in DOMAIN db \ {"po", "postep"} : db'[t] = db[t]
      /\ o \in DOMAIN db.po /\ n > 0 /\ StepsOf(db, o) = {}
  BY SerialRows DEF InitiatePoApproval, Commit, PurchasesTyped, PurchaseTables
<1>2. /\ db'.vendor = db.vendor /\ db'.bankchange = db.bankchange /\ db'.poline = db.poline
      /\ db'.grn = db.grn /\ db'.grnline = db.grnline
  BY <1>1 DEF PurchasesTyped, PurchaseTables
<1>3. /\ db.po \in Seq(PoRows) /\ DOMAIN db.po = 1..Len(db.po)
      /\ db.postep \in Seq(PoStepRows) /\ Len(db.postep) \in Nat /\ DOMAIN db.postep = 1..Len(db.postep)
  BY TableRows DEF PurchasesTyped
<1>4. o \in Nat /\ db.po[o] \in PoRows
  BY <1>1, <1>3
<1>5. row \in PoRows
  BY <1>4 DEF PoRows
<1> HIDE DEF row
<1>6. db'.po \in Seq(PoRows) /\ DOMAIN db'.po = DOMAIN db.po
  BY <1>1, <1>3, <1>5, TableUpdate
<1>7. \A i \in 1..n : more[i] \in PoStepRows /\ more[i].po = o
  BY <1>4 DEF POApprovalStep, PoStepRows
<1>8. more \in Seq(PoStepRows) /\ Len(more) = n
  <2>1. more = [i \in 1..n |-> more[i]] /\ DOMAIN more = 1..n
    OBVIOUS
  <2> HIDE DEF more
  <2>2. QED
    BY <1>7, <2>1, TableByNumber
<1> HIDE DEF more
<1>9. /\ all \in Seq(PoStepRows)
      /\ DOMAIN all = 1..(Len(db.postep) + Len(more))
      /\ \A k \in DOMAIN db.postep : all[k] = db.postep[k]
      /\ \A k \in 1..Len(more) : all[Len(db.postep) + k] = more[k]
  <2>1. all = db.postep \o more
    OBVIOUS
  <2>2. db.postep \in Seq(PoStepRows) /\ more \in Seq(PoStepRows)
    BY <1>3, <1>8
  <2> HIDE DEF all
  <2>3. QED
    BY <2>1, <2>2, TableInserts
<1> HIDE DEF all
<1>10. ASSUME NEW k \in DOMAIN all PROVE all[k].po \in DOMAIN db'.po
  <2>1. CASE k \in DOMAIN db.postep
    BY <1>6, <1>9, <2>1 DEF PurchasesTyped
  <2>2. CASE k \notin DOMAIN db.postep
    <3>1. k - Len(db.postep) \in 1..n /\ k = Len(db.postep) + (k - Len(db.postep))
      BY <1>3, <1>8, <1>9, <2>2
    <3>2. all[k] = more[k - Len(db.postep)]
      BY <1>8, <1>9, <3>1
    <3>3. QED
      BY <1>1, <1>6, <1>7, <3>1, <3>2
  <2>3. QED
    BY <2>1, <2>2
<1>11. PurchasesTyped(db')
  BY <1>1, <1>2, <1>6, <1>9, <1>10 DEF PurchasesTyped
<1>12. QED
  BY <1>1, <1>11 DEF row, more, all

\* A step is decided.
LEMMA StepDecided ==
    ASSUME ~ Concurrent, PurchasesTyped(db), NEW p, NEW k, NEW d \in {"approved", "rejected"},
           DecidePoApprovalStep(p, k, d)
    PROVE  /\ PurchasesTyped(db')
           /\ k \in DOMAIN db.postep /\ db.postep[k].status = "pending" /\ db.postep[k].po \in DOMAIN db.po
           /\ db'.postep = [db.postep EXCEPT ![k] = [db.postep[k] EXCEPT !.status = d]]
           /\ db'.po = [db.po EXCEPT ![db.postep[k].po] =
                [db.po[db.postep[k].po] EXCEPT !.status =
                    IF d = "rejected" THEN "cancelled"
                    ELSE IF \E j \in StepsOf(db, db.postep[k].po) \ {k} : db.postep[j].status = "pending" THEN @
                    ELSE "approved"]]
           /\ \A t \in DOMAIN db \ {"po", "postep"} : db'[t] = db[t]
<1> DEFINE o == db.postep[k].po
           status == IF d = "rejected" THEN "cancelled"
                     ELSE IF \E j \in StepsOf(db, o) \ {k} : db.postep[j].status = "pending" THEN db.po[o].status
                     ELSE "approved"
           row == [db.po[o] EXCEPT !.status = status]
           step == [db.postep[k] EXCEPT !.status = d]
<1>1. /\ db' = [db EXCEPT
            !.postep[k].status = d,
            !.po[o].status = IF d = "rejected" THEN "cancelled"
                ELSE IF \E j \in StepsOf(db, o) \ {k} : db.postep[j].status = "pending" THEN @
                ELSE "approved"]
      /\ k \in DOMAIN db.postep /\ db.postep[k].status = "pending"
  BY SerialRows DEF DecidePoApprovalStep, Commit
<1>2. /\ db.po \in Seq(PoRows) /\ db.postep \in Seq(PoStepRows)
      /\ db.postep[k] \in PoStepRows /\ o \in DOMAIN db.po
  BY <1>1, TableRows DEF PurchasesTyped
<1>3. db.po[o] \in PoRows
  BY <1>2, TableRows
<1>4. /\ DOMAIN db' = DOMAIN db
      /\ db'.po = [db.po EXCEPT ![o] = row]
      /\ db'.postep = [db.postep EXCEPT ![k] = step]
      /\ \A t \in DOMAIN db \ {"po", "postep"} : db'[t] = db[t]
  BY <1>1 DEF PurchasesTyped, PurchaseTables
<1>5. /\ db'.vendor = db.vendor /\ db'.bankchange = db.bankchange /\ db'.poline = db.poline
      /\ db'.grn = db.grn /\ db'.grnline = db.grnline
  BY <1>4 DEF PurchasesTyped, PurchaseTables
<1>6. row \in PoRows
  <2>1. status \in {"draft", "pending_approval", "approved", "issued", "cancelled"}
    BY <1>3 DEF PoRows
  <2> HIDE DEF status
  <2>2. QED
    BY <1>3, <2>1 DEF PoRows
<1>7. step \in PoStepRows /\ step.po = o
  BY <1>2 DEF PoStepRows
<1> HIDE DEF row, step, status
<1>8. db'.po \in Seq(PoRows) /\ DOMAIN db'.po = DOMAIN db.po
  BY <1>2, <1>4, <1>6, TableUpdate
<1>9. /\ db'.postep \in Seq(PoStepRows) /\ DOMAIN db'.postep = DOMAIN db.postep
      /\ db'.postep[k] = step /\ \A j \in DOMAIN db.postep \ {k} : db'.postep[j] = db.postep[j]
  <2>1. db.postep \in Seq(PoStepRows) /\ step \in PoStepRows /\ k \in DOMAIN db.postep
        /\ db'.postep = [db.postep EXCEPT ![k] = step]
    BY <1>1, <1>2, <1>4, <1>7
  <2>2. QED
    BY <2>1, TableUpdate
<1>10. \A j \in DOMAIN db'.postep : db'.postep[j].po \in DOMAIN db'.po
  BY <1>2, <1>7, <1>8, <1>9 DEF PurchasesTyped
<1>11. PurchasesTyped(db')
  BY <1>4, <1>5, <1>8, <1>9, <1>10 DEF PurchasesTyped
<1>12. QED
  BY <1>1, <1>2, <1>4, <1>11 DEF row, step, status

\* An order is issued.
LEMMA OrderIssued ==
    ASSUME ~ Concurrent, PurchasesTyped(db), NEW p, NEW o, NEW waiver \in BOOLEAN,
           IssuePurchaseOrder(p, o, waiver)
    PROVE  /\ PurchasesTyped(db')
           /\ o \in DOMAIN db.po /\ db.po[o].status = "approved"
           /\ \E row \in PoRows : row.status = "issued" /\ db'.po = [db.po EXCEPT ![o] = row]
           /\ \A t \in DOMAIN db \ {"po"} : db'[t] = db[t]
<1> DEFINE expired == Expired(db, db.po[o].vendor)
           row == [db.po[o] EXCEPT !.status = "issued", !.waiver = @ \/ expired]
<1>1. /\ db' = [db EXCEPT !.po[o].status = "issued", !.po[o].waiver = @ \/ expired]
      /\ o \in DOMAIN db.po /\ db.po[o].status = "approved"
  BY SerialRows DEF IssuePurchaseOrder, Commit
<1>2. db.po \in Seq(PoRows) /\ db.po[o] \in PoRows
  BY <1>1, TableRows DEF PurchasesTyped
<1>3. expired \in BOOLEAN
  BY DEF Expired
<1> HIDE DEF expired
<1>4. /\ DOMAIN db' = DOMAIN db
      /\ db'.po = [db.po EXCEPT ![o] = row]
      /\ \A t \in DOMAIN db \ {"po"} : db'[t] = db[t]
  BY <1>1 DEF PurchasesTyped, PurchaseTables
<1>5. /\ db'.vendor = db.vendor /\ db'.bankchange = db.bankchange /\ db'.poline = db.poline
      /\ db'.postep = db.postep /\ db'.grn = db.grn /\ db'.grnline = db.grnline
  BY <1>4 DEF PurchasesTyped, PurchaseTables
<1>6. row \in PoRows /\ row.status = "issued"
  BY <1>2, <1>3 DEF PoRows
<1> HIDE DEF row
<1>7. db'.po \in Seq(PoRows) /\ DOMAIN db'.po = DOMAIN db.po
  BY <1>1, <1>2, <1>4, <1>6, TableUpdate
<1>8. PurchasesTyped(db')
  BY <1>4, <1>5, <1>7 DEF PurchasesTyped
<1>9. QED
  BY <1>1, <1>4, <1>6, <1>8

\* A receipt note is written, with a row for every line of its order.
LEMMA NoteWritten ==
    ASSUME ~ Concurrent, PurchasesTyped(db), NEW p, NEW o, NEW w \in Warehouses \cup {None}, NEW q \in Quantities,
           CreateGrn(p, o, w, q)
    PROVE  /\ PurchasesTyped(db')
           /\ db'.grn = Append(db.grn, GoodsReceiptNote(o, w))
           /\ DOMAIN db.grnline \subseteq DOMAIN db'.grnline
           /\ \A k \in DOMAIN db.grnline : db'.grnline[k] = db.grnline[k]
           /\ \A k \in DOMAIN db'.grnline \ DOMAIN db.grnline : db'.grnline[k].grn = Len(db.grn) + 1
           /\ \A t \in DOMAIN db \ {"grn", "grnline"} : db'[t] = db[t]
<1> DEFINE g == Len(db.grn) + 1
           row == GoodsReceiptNote(o, w)
           L == LinesOf(db, o)
           more == [i \in 1..Cardinality(L) |->
                        GoodsReceiptLine(g, OrderLine(db, o, i), q)]
<1>1. /\ DOMAIN db' = DOMAIN db
      /\ db'.grn = Append(db.grn, row)
      /\ db'.grnline = db.grnline \o more
      /\ \A t \in DOMAIN db \ {"grn", "grnline"} : db'[t] = db[t]
      /\ o \in DOMAIN db.po
  <2>1. /\ db' = [db EXCEPT !.grn = Append(@, row), !.grnline = @ \o more]
        /\ o \in DOMAIN db.po
    BY SerialRows DEF CreateGrn, Commit
  <2> HIDE DEF more, row
  <2>2. QED
    BY <2>1 DEF PurchasesTyped, PurchaseTables
<1>2. /\ db'.vendor = db.vendor /\ db'.bankchange = db.bankchange
      /\ db'.po = db.po /\ db'.poline = db.poline /\ db'.postep = db.postep
  BY <1>1 DEF PurchasesTyped, PurchaseTables
<1>3. /\ db.grn \in Seq(NoteRows) /\ Len(db.grn) \in Nat /\ DOMAIN db.grn = 1..Len(db.grn)
      /\ DOMAIN db.po = 1..Len(db.po)
      /\ db.grnline \in Seq(NoteLineRows)
      /\ DOMAIN db.grnline = 1..Len(db.grnline) /\ Len(db.grnline) \in Nat
      /\ Len(db.poline) \in Nat /\ DOMAIN db.poline = 1..Len(db.poline)
  BY TableRows DEF PurchasesTyped
<1>4. o \in Nat /\ q \in Nat
  BY <1>1, <1>3, StockAssumption
<1>5. row \in NoteRows
  BY <1>4 DEF GoodsReceiptNote, NoteRows
<1>6. db'.grn \in Seq(NoteRows) /\ DOMAIN db'.grn = DOMAIN db.grn \cup {g}
  BY <1>1, <1>3, <1>5, TableInsert
<1>7. L \in SUBSET (1..Len(db.poline))
  BY <1>3 DEF LinesOf
<1>8. /\ Cardinality(L) \in Nat
      /\ \A i \in 1..Cardinality(L) : \E l \in L : Cardinality({m \in L : m < l}) = i - 1
  <2> HIDE DEF L
  <2>1. QED
    BY <1>3, <1>7, EveryPlaceIsTaken
<1>9. \A i \in 1..Cardinality(L) :
        more[i] \in NoteLineRows /\ more[i].grn = g /\ more[i].line \in DOMAIN db.poline
  <2> SUFFICES ASSUME NEW i \in 1..Cardinality(L)
               PROVE  more[i] \in NoteLineRows /\ more[i].grn = g /\ more[i].line \in DOMAIN db.poline
    OBVIOUS
  <2> DEFINE line == OrderLine(db, o, i)
  <2>1. line \in L
    BY <1>8 DEF OrderLine
  <2> HIDE DEF L
  <2> HIDE DEF line
  <2>2. line \in DOMAIN db.poline /\ line \in Nat
    BY <1>3, <1>7, <2>1
  <2>3. more[i] = GoodsReceiptLine(g, line, q)
    BY DEF line
  <2> HIDE DEF more
  <2>4. QED
    BY <1>3, <1>4, <2>2, <2>3 DEF GoodsReceiptLine, NoteLineRows
<1>10. more \in Seq(NoteLineRows) /\ Len(more) = Cardinality(L)
  <2>1. more = [i \in 1..Cardinality(L) |-> more[i]] /\ DOMAIN more = 1..Cardinality(L)
    OBVIOUS
  <2> HIDE DEF more, L
  <2>2. QED
    BY <1>8, <1>9, <2>1, TableByNumber
<1> HIDE DEF more, L, g, row
<1>11. /\ db'.grnline \in Seq(NoteLineRows)
       /\ DOMAIN db'.grnline = 1..(Len(db.grnline) + Len(more))
       /\ DOMAIN db.grnline \subseteq DOMAIN db'.grnline
       /\ \A k \in DOMAIN db.grnline : db'.grnline[k] = db.grnline[k]
       /\ \A k \in 1..Len(more) : db'.grnline[Len(db.grnline) + k] = more[k]
  <2>1. db'.grnline = db.grnline \o more /\ db.grnline \in Seq(NoteLineRows) /\ more \in Seq(NoteLineRows)
    BY <1>1, <1>3, <1>10
  <2>2. QED
    BY <2>1, TableInserts
<1>12. ASSUME NEW k \in DOMAIN db'.grnline \ DOMAIN db.grnline
       PROVE  db'.grnline[k].grn = g /\ db'.grnline[k].line \in DOMAIN db.poline
  <2>1. k - Len(db.grnline) \in 1..Len(more) /\ k = Len(db.grnline) + (k - Len(db.grnline))
    BY <1>3, <1>8, <1>10, <1>11
  <2>2. db'.grnline[k] = more[k - Len(db.grnline)]
    BY <1>11, <2>1
  <2>3. QED
    BY <1>9, <1>10, <2>1, <2>2
<1>13. ASSUME NEW k \in DOMAIN db'.grnline
       PROVE  db'.grnline[k].grn \in DOMAIN db'.grn /\ db'.grnline[k].line \in DOMAIN db'.poline
  <2>1. CASE k \in DOMAIN db.grnline
    BY <1>2, <1>6, <1>11, <2>1 DEF PurchasesTyped
  <2>2. CASE k \notin DOMAIN db.grnline
    BY <1>2, <1>6, <1>12, <2>2
  <2>3. QED
    BY <2>1, <2>2
<1>14. PurchasesTyped(db')
  BY <1>1, <1>2, <1>6, <1>11, <1>13 DEF PurchasesTyped
<1>15. QED
  BY <1>1, <1>11, <1>12, <1>14 DEF g, row

\* A receipt note is confirmed and its order lines are drawn down.
LEMMA NoteConfirmed ==
    ASSUME ~ Concurrent, PurchasesTyped(db), NEW p \in Workers, p \in DOMAIN req, NEW g, ConfirmGoodsReceipt(p, g)
    PROVE  /\ PurchasesTyped(db')
           /\ g \in DOMAIN db.grn /\ db.grn[g].status # "confirmed"
           /\ db'.grn = [db.grn EXCEPT ![g] = [db.grn[g] EXCEPT !.status = "confirmed"]]
           /\ DOMAIN db'.poline = DOMAIN db.poline
           /\ \A l \in DOMAIN db.poline : db'.poline[l] = [db.poline[l] EXCEPT !.received =
                    @ + SumOf(db.grnline, "qty", {k \in NoteLines(db, g) : db.grnline[k].line = l})]
           /\ \A t \in DOMAIN db \ {"grn", "poline"} : db'[t] = db[t]
           /\ DOMAIN db' = DOMAIN db
           /\ past' = past
           /\ \A q \in Workers : req[q] = Idle
           /\ TrackedLines(db, g) # {} => db.grn[g].at # None
           /\ req' = [req EXCEPT ![p] = [at |-> "receiving",
                        todo |-> [at |-> db.grn[g].at, lines |-> TrackedLines(db, g)], seen |-> <<>>]]
<1> DEFINE Noted(l) == SumOf(db.grnline, "qty", {k \in NoteLines(db, g) : db.grnline[k].line = l})
           row == [db.grn[g] EXCEPT !.status = "confirmed"]
           n == [DrawDown(db, g) EXCEPT !.grn[g].status = "confirmed"]
<1>1. /\ db' = n
      /\ g \in DOMAIN db.grn /\ db.grn[g].status # "confirmed"
      /\ \A q \in Workers : req[q] = Idle
      /\ TrackedLines(db, g) # {} => db.grn[g].at # None
      /\ past' = past
      /\ req' = [req EXCEPT ![p] = [at |-> "receiving",
                    todo |-> [at |-> db.grn[g].at, lines |-> TrackedLines(db, g)], seen |-> <<>>]]
  <2> HIDE DEF n
  <2>1. Serving(p) /\ CommitThen(p, n, "receiving", [at |-> db.grn[g].at, lines |-> TrackedLines(db, g)])
    BY SerialRows DEF ConfirmGoodsReceipt, n
  <2>2. QED
    BY <2>1, SerialRows DEF ConfirmGoodsReceipt, CommitThen, GoOn
<1>2. /\ DOMAIN n = DOMAIN db
      /\ n.grn = [db.grn EXCEPT ![g] = row]
      /\ n.poline = [l \in DOMAIN db.poline |-> [db.poline[l] EXCEPT !.received = @ + Noted(l)]]
      /\ \A t \in DOMAIN db \ {"grn", "poline"} : n[t] = db[t]
  <2> HIDE DEF Noted
  <2>1. DrawDown(db, g) = [db EXCEPT !.poline =
            [l \in DOMAIN db.poline |-> [db.poline[l] EXCEPT !.received = @ + Noted(l)]]]
    BY DEF DrawDown, Noted
  <2>2. QED
    BY <2>1 DEF PurchasesTyped, PurchaseTables
<1> HIDE DEF n
<1>3. /\ db'.vendor = db.vendor /\ db'.bankchange = db.bankchange
      /\ db'.po = db.po /\ db'.postep = db.postep /\ db'.grnline = db.grnline
  BY <1>1, <1>2 DEF PurchasesTyped, PurchaseTables
<1>4. /\ db.grn \in Seq(NoteRows) /\ db.grn[g] \in NoteRows
      /\ db.poline \in Seq(PoLineRows) /\ Len(db.poline) \in Nat /\ DOMAIN db.poline = 1..Len(db.poline)
      /\ \A l \in DOMAIN db.poline : db.poline[l] \in PoLineRows
      /\ IsFiniteSet(DOMAIN db.grnline) /\ \A k \in DOMAIN db.grnline : db.grnline[k] \in NoteLineRows
  BY <1>1, TableRows DEF PurchasesTyped
<1>5. row \in NoteRows
  BY <1>4 DEF NoteRows
<1>6. db'.grn \in Seq(NoteRows) /\ DOMAIN db'.grn = DOMAIN db.grn
  <2>1. db.grn \in Seq(NoteRows) /\ g \in DOMAIN db.grn /\ row \in NoteRows /\ db'.grn = [db.grn EXCEPT ![g] = row]
    BY <1>1, <1>2, <1>4, <1>5
  <2> HIDE DEF row
  <2>2. QED
    BY <2>1, TableUpdate
<1>7. ASSUME NEW l PROVE Noted(l) \in Int
  <2> DEFINE S == {k \in NoteLines(db, g) : db.grnline[k].line = l}
  <2>1. S \subseteq DOMAIN db.grnline /\ IsFiniteSet(S)
    BY <1>4, FS_Subset DEF NoteLines
  <2>2. \A k \in S : db.grnline[k]["qty"] \in Int
    BY <1>4, <2>1 DEF NoteLineRows
  <2> HIDE DEF S
  <2>3. SumOf(db.grnline, "qty", S) \in Int
    BY <2>1, <2>2, SumOfIsInteger
  <2>4. QED
    BY <2>3 DEF S
<1> HIDE DEF Noted
<1>8. /\ DOMAIN db'.poline = 1..Len(db.poline)
      /\ \A l \in 1..Len(db.poline) : db'.poline[l] = [db.poline[l] EXCEPT !.received = @ + Noted(l)]
  BY <1>1, <1>2, <1>4
<1>9. \A l \in 1..Len(db.poline) : db'.poline[l] \in PoLineRows /\ db'.poline[l].po = db.poline[l].po
  <2> SUFFICES ASSUME NEW l \in 1..Len(db.poline)
               PROVE  db'.poline[l] \in PoLineRows /\ db'.poline[l].po = db.poline[l].po
    OBVIOUS
  <2>1. db.poline[l] \in PoLineRows /\ Noted(l) \in Int
    BY <1>4, <1>7
  <2>2. db'.poline[l] = [db.poline[l] EXCEPT !.received = @ + Noted(l)]
    BY <1>8
  <2>3. QED
    BY <2>1, <2>2 DEF PoLineRows
<1>10. db'.poline \in Seq(PoLineRows)
  <2>1. db'.poline = [l \in 1..Len(db.poline) |-> db'.poline[l]]
    BY <1>1, <1>2, <1>8
  <2>2. QED
    BY <1>4, <1>8, <1>9, <2>1, TableByNumber
<1>11. \A l \in DOMAIN db'.poline : db'.poline[l].po \in DOMAIN db'.po
  BY <1>3, <1>4, <1>8, <1>9 DEF PurchasesTyped
<1>12. DOMAIN db'.poline = DOMAIN db.poline
  BY <1>4, <1>8
<1>13. PurchasesTyped(db')
  BY <1>1, <1>2, <1>3, <1>6, <1>10, <1>11, <1>12 DEF PurchasesTyped
<1>14. QED
  BY <1>1, <1>2, <1>4, <1>8, <1>12, <1>13 DEF row, Noted

\* A vendor asks for other banking details.
LEMMA ChangeAsked ==
    ASSUME ~ Concurrent, PurchasesTyped(db), NEW p, NEW v \in DOMAIN db.vendor, NEW n \in BankDetails,
           SubmitBankingChange(p, v, n)
    PROVE  /\ PurchasesTyped(db')
           /\ db'.bankchange = Append(db.bankchange, VendorBankingChangeRequest(v, n))
           /\ \A t \in DOMAIN db \ {"bankchange"} : db'[t] = db[t]
<1> DEFINE row == VendorBankingChangeRequest(v, n)
<1>1. db' = [db EXCEPT !.bankchange = Append(@, row)]
  BY CreateTouches DEF SubmitBankingChange
<1>2. /\ DOMAIN db' = DOMAIN db /\ db'.bankchange = Append(db.bankchange, row)
      /\ \A t \in DOMAIN db \ {"bankchange"} : db'[t] = db[t]
      /\ db'.vendor = db.vendor /\ db'.po = db.po /\ db'.poline = db.poline
      /\ db'.postep = db.postep /\ db'.grn = db.grn /\ db'.grnline = db.grnline
  BY <1>1 DEF PurchasesTyped, PurchaseTables
<1>3. DOMAIN db.vendor = 1..Len(db.vendor) /\ db.bankchange \in Seq(BankChangeRows)
  BY TableRows DEF PurchasesTyped
<1>4. row \in BankChangeRows /\ row.vendor = v
  BY <1>3, VendorPortalAssumption DEF VendorBankingChangeRequest, BankChangeRows
<1> HIDE DEF row
<1>5. /\ db'.bankchange \in Seq(BankChangeRows)
      /\ DOMAIN db'.bankchange = DOMAIN db.bankchange \cup {Len(db.bankchange) + 1}
      /\ db'.bankchange[Len(db.bankchange) + 1] = row
      /\ \A k \in DOMAIN db.bankchange : db'.bankchange[k] = db.bankchange[k]
  BY <1>2, <1>3, <1>4, TableInsert
<1>6. \A k \in DOMAIN db'.bankchange : db'.bankchange[k].vendor \in DOMAIN db'.vendor
  BY <1>2, <1>4, <1>5 DEF PurchasesTyped
<1>7. PurchasesTyped(db')
  BY <1>2, <1>5, <1>6 DEF PurchasesTyped
<1>8. QED
  BY <1>2, <1>7 DEF row

\* The change is rejected.
LEMMA ChangeRejected ==
    ASSUME ~ Concurrent, PurchasesTyped(db), NEW p, NEW k, RejectBankingChange(p, k)
    PROVE  /\ PurchasesTyped(db')
           /\ k \in DOMAIN db.bankchange /\ db.bankchange[k].status = "pending"
           /\ db'.bankchange = [db.bankchange EXCEPT ![k] = [db.bankchange[k] EXCEPT !.status = "rejected"]]
           /\ \A t \in DOMAIN db \ {"bankchange"} : db'[t] = db[t]
<1> DEFINE row == [db.bankchange[k] EXCEPT !.status = "rejected"]
<1>1. /\ db' = [db EXCEPT !.bankchange[k].status = "rejected"]
      /\ k \in DOMAIN db.bankchange /\ db.bankchange[k].status = "pending"
  BY SerialRows DEF RejectBankingChange, Turn, Commit, Rows, Row
<1>2. /\ DOMAIN db' = DOMAIN db /\ db'.bankchange = [db.bankchange EXCEPT ![k] = row]
      /\ \A t \in DOMAIN db \ {"bankchange"} : db'[t] = db[t]
      /\ db'.vendor = db.vendor /\ db'.po = db.po /\ db'.poline = db.poline
      /\ db'.postep = db.postep /\ db'.grn = db.grn /\ db'.grnline = db.grnline
  BY <1>1 DEF PurchasesTyped, PurchaseTables
<1>3. db.bankchange \in Seq(BankChangeRows) /\ db.bankchange[k] \in BankChangeRows
  BY <1>1, TableRows DEF PurchasesTyped
<1>4. row \in BankChangeRows /\ row.vendor = db.bankchange[k].vendor
  BY <1>3 DEF BankChangeRows
<1> HIDE DEF row
<1>5. /\ db'.bankchange \in Seq(BankChangeRows)
      /\ DOMAIN db'.bankchange = DOMAIN db.bankchange
      /\ db'.bankchange[k] = row
      /\ \A j \in DOMAIN db.bankchange \ {k} : db'.bankchange[j] = db.bankchange[j]
  <2>1. /\ db'.bankchange = [db.bankchange EXCEPT ![k] = row] /\ db.bankchange \in Seq(BankChangeRows)
        /\ row \in BankChangeRows /\ k \in DOMAIN db.bankchange
    BY <1>1, <1>2, <1>3, <1>4
  <2>2. QED
    BY <2>1, TableUpdate
<1>6. \A j \in DOMAIN db'.bankchange : db'.bankchange[j].vendor \in DOMAIN db'.vendor
  BY <1>1, <1>2, <1>4, <1>5 DEF PurchasesTyped
<1>7. PurchasesTyped(db')
  BY <1>2, <1>5, <1>6 DEF PurchasesTyped
<1>8. QED
  BY <1>1, <1>2, <1>7 DEF row

\* The change is approved: what is replaced is kept with it.
LEMMA ChangeApproved ==
    ASSUME ~ Concurrent, PurchasesTyped(db), NEW p, NEW k, ApproveBankingChange(p, k)
    PROVE  LET c == db.bankchange[k]
           IN /\ PurchasesTyped(db')
              /\ k \in DOMAIN db.bankchange /\ c.status = "pending"
              /\ db'.bankchange = [db.bankchange EXCEPT ![k] =
                    [c EXCEPT !.status = "approved", !.previous = db.vendor[c.vendor].bank]]
              /\ db'.vendor = [db.vendor EXCEPT ![c.vendor] = [db.vendor[c.vendor] EXCEPT !.bank = c.proposed]]
              /\ \A t \in DOMAIN db \ {"bankchange", "vendor"} : db'[t] = db[t]
<1> DEFINE c == db.bankchange[k]
           v == c.vendor
           row == [c EXCEPT !.status = "approved", !.previous = db.vendor[v].bank]
           vendor == [db.vendor[v] EXCEPT !.bank = c.proposed]
<1>1. /\ db' = [db EXCEPT !.bankchange[k] = [@ EXCEPT !.status = "approved", !.previous = db.vendor[v].bank],
                          !.vendor[v].bank = c.proposed]
      /\ k \in DOMAIN db.bankchange /\ c.status = "pending"
  BY SerialRows DEF ApproveBankingChange, Commit
<1>2. /\ DOMAIN db' = DOMAIN db /\ db'.bankchange = [db.bankchange EXCEPT ![k] = row]
      /\ db'.vendor = [db.vendor EXCEPT ![v] = vendor]
      /\ \A t \in DOMAIN db \ {"bankchange", "vendor"} : db'[t] = db[t]
      /\ db'.po = db.po /\ db'.poline = db.poline
      /\ db'.postep = db.postep /\ db'.grn = db.grn /\ db'.grnline = db.grnline
  BY <1>1 DEF PurchasesTyped, PurchaseTables
<1>3. /\ db.bankchange \in Seq(BankChangeRows) /\ c \in BankChangeRows
      /\ v \in DOMAIN db.vendor /\ db.vendor \in Seq(VendorRows)
  BY <1>1, TableRows DEF PurchasesTyped
<1>4. db.vendor[v] \in VendorRows
  BY <1>3, TableRows
<1>5. row \in BankChangeRows /\ row.vendor = v
  BY <1>3, <1>4 DEF BankChangeRows, VendorRows
<1>6. vendor \in VendorRows
  BY <1>3, <1>4 DEF BankChangeRows, VendorRows
<1> HIDE DEF row, vendor, c
<1>7. /\ db'.bankchange \in Seq(BankChangeRows)
      /\ DOMAIN db'.bankchange = DOMAIN db.bankchange
      /\ db'.bankchange[k] = row
      /\ \A j \in DOMAIN db.bankchange \ {k} : db'.bankchange[j] = db.bankchange[j]
  BY <1>1, <1>2, <1>3, <1>5, TableUpdate
<1>8. db'.vendor \in Seq(VendorRows) /\ DOMAIN db'.vendor = DOMAIN db.vendor
  <2>1. db'.vendor = [db.vendor EXCEPT ![v] = vendor] /\ db.vendor \in Seq(VendorRows)
        /\ vendor \in VendorRows /\ v \in DOMAIN db.vendor
    BY <1>2, <1>3, <1>6
  <2>2. QED
    BY <2>1, TableUpdate
<1>9. \A j \in DOMAIN db'.bankchange : db'.bankchange[j].vendor \in DOMAIN db'.vendor
  BY <1>1, <1>3, <1>5, <1>7, <1>8 DEF PurchasesTyped
<1>10. PurchasesTyped(db')
  BY <1>2, <1>7, <1>8, <1>9 DEF PurchasesTyped
<1>11. QED
  BY <1>1, <1>2, <1>10 DEF row, vendor, c

-----------------------------------------------------------------------------
(* What sales, production and receipts do to the stock *)

\* A step that leaves the tables of the stock alone.
LEMMA QuietStep ==
    ASSUME StockSound, NEW p, NEW names, Touches(p, names), names \cap BalanceTables = {}
    PROVE  StockMoves
<1>1. /\ DOMAIN db' = DOMAIN db /\ past' = past
      /\ \A t \in BalanceTables : t \in DOMAIN db /\ db'[t] = db[t]
  BY DEF Touches, StockSound, StockTyped
<1>2. /\ db'.item = db.item /\ db'.layer = db.layer /\ db'.transfer = db.transfer
      /\ db'.reserv = db.reserv /\ db'.count = db.count /\ db'.settings = db.settings
  BY <1>1 DEF BalanceTables
<1>3. StockTyped(db')
  BY <1>1, <1>2 DEF StockSound, StockTyped
<1>4. {"booked", "wasted", "lost"} \subseteq DOMAIN past' /\ past'.booked = past.booked
  BY <1>1 DEF StockSound
<1>5. QED
  BY <1>2, <1>3, <1>4, OtherStep

\* Of the tables of the stock, n has those of m.
SameBalances(m, n) ==
    /\ BalanceTables \subseteq DOMAIN n
    /\ \A t \in BalanceTables : n[t] = m[t]

\* The balances are the same, whatever else is written.
LEMMA SameBalancesTyped ==
    ASSUME NEW m, StockTyped(m), NEW n, SameBalances(m, n)
    PROVE  /\ StockTyped(n)
           /\ n.item = m.item /\ n.layer = m.layer /\ n.transfer = m.transfer
           /\ n.reserv = m.reserv /\ n.settings = m.settings
<1>1. /\ n.item = m.item /\ n.layer = m.layer /\ n.transfer = m.transfer
      /\ n.reserv = m.reserv /\ n.count = m.count /\ n.settings = m.settings
      /\ BalanceTables \subseteq DOMAIN n
  BY DEF SameBalances, BalanceTables
<1>2. QED
  BY <1>1 DEF StockTyped

\* Goods move in one warehouse, then in another.
LEMMA TwoMoves ==
    ASSUME NEW s, StockTyped(s), NEW w \in Warehouses, NEW v \in Warehouses, w # v,
           NEW q \in Int, NEW r \in Int, NEW m, Moved(s, m, w, q),
           NEW b, SameBalances(m, b), NEW n, Moved(b, n, v, r)
    PROVE  Books(s, n, q + r)
<1>1. StockTyped(m) /\ StockTyped(b) /\ StockTyped(n)
  BY SameBalancesTyped DEF Moved
<1>2. /\ b.item = m.item /\ b.layer = m.layer /\ b.transfer = m.transfer /\ b.reserv = m.reserv
  BY <1>1, SameBalancesTyped
<1>3. m.transfer = s.transfer /\ m.reserv = s.reserv /\ n.transfer = b.transfer /\ n.reserv = b.reserv
  BY <1>1, MovedKeepsTheRest
<1>4. n.transfer = s.transfer /\ n.reserv = s.reserv
  BY <1>2, <1>3
<1>5. Moving(n) = Moving(s)
  BY <1>4 DEF Moving, OnTheRoad
<1>6. Held(n) = Held(s) + q + r
  <2>1. Held(m) = Held(s) + q /\ Held(n) = Held(b) + r
    BY DEF Moved
  <2>2. Held(b) = Held(m)
    BY <1>2 DEF Held
  <2>3. QED
    BY <2>1, <2>2
<1>7. Held(n) + Moving(n) = Held(s) + Moving(s) + (q + r)
  <2>1. Held(s) \in Int /\ Moving(s) \in Int
    BY TotalsAreWhole
  <2>2. QED
    BY <1>5, <1>6, <2>1
<1>8. ReservesCovered(s, n)
  <2>1. \A x : Reserved(n, x) = Reserved(s, x)
    BY <1>4 DEF Reserved
  <2>2. \A x : Reserved(s, x) \in Int
    BY TotalsAreWhole
  <2>3. QED
    BY <2>1, <2>2 DEF ReservesCovered
<1>9. LayersFollow(s, n)
  <2> SUFFICES ASSUME NEW x \in Warehouses, Layered(n, x) # Layered(s, x)
               PROVE  Layered(n, x) - Layered(s, x) = n.item[x].qty - s.item[x].qty
    BY DEF LayersFollow
  <2>1. Layered(b, x) = Layered(m, x)
    BY <1>2 DEF Layered, LayersAt
  <2>2. /\ Layered(s, x) \in Int /\ Layered(m, x) \in Int /\ Layered(n, x) \in Int
        /\ s.item[x].qty \in Int /\ m.item[x].qty \in Int /\ n.item[x].qty \in Int
    BY <1>1, QuantitiesAreWhole
  <2>3. /\ Layered(m, x) # Layered(s, x) => Layered(m, x) - Layered(s, x) = m.item[x].qty - s.item[x].qty
        /\ Layered(n, x) # Layered(m, x) => Layered(n, x) - Layered(m, x) = n.item[x].qty - m.item[x].qty
    BY <1>2, <2>1 DEF Moved, LayersFollow
  <2>4. /\ x # w => m.item[x].qty = s.item[x].qty
        /\ x # v => n.item[x].qty = m.item[x].qty
    BY <1>2 DEF Moved
  <2>5. QED
    BY <2>2, <2>3, <2>4
<1>10. QED
  BY <1>1, <1>7, <1>8, <1>9 DEF Books

\* Where nothing is taken, nothing moves.
LEMMA NothingMoves ==
    ASSUME NEW s, StockTyped(s), NEW w \in Warehouses
    PROVE  Moved(s, s, w, -0)
<1>1. Held(s) \in Int /\ \A v \in Warehouses : s.item[v].qty \in Int
  BY TotalsAreWhole, QuantitiesAreWhole
<1>2. Held(s) = Held(s) + (-0)
  BY <1>1
<1>3. \A v \in Warehouses : s.item[v].qty = IF v = w THEN s.item[v].qty + (-0) ELSE s.item[v].qty
  BY <1>1
<1>4. QED
  BY <1>2, <1>3 DEF Moved, LayersFollow

-----------------------------------------------------------------------------
(* The rows of sales *)

SoRows ==
    [status : {"draft", "confirmed", "partially_delivered", "delivered", "cancelled"},
     at : Warehouses, vat : Nat, qty : Nat, price : Nat, delivered : Nat, invoiced : Nat]

SettingsRows == [receivable : DOMAIN ChartOfAccounts, vat : Nat, costed : BOOLEAN]

SalesTyped(s) ==
    /\ {"so", "salesconf", "delivery", "invoice", "payment", "entry", "ar"} \subseteq DOMAIN s
    /\ s.so \in Seq(SoRows)
    /\ s.salesconf \in Seq(SettingsRows)

\* The order and its lines are written.
LEMMA SalesOrderCreated ==
    ASSUME ~ Concurrent, SalesTyped(db), NEW p, NEW w \in Warehouses, NEW q \in Nat, NEW price \in Prices,
           CreateOrder(p, w, q, price)
    PROVE  /\ SalesTyped(db') /\ Touches(p, {"so"})
           /\ \E vat \in Nat : db'.so = Append(db.so, SalesOrder(w, q, price, vat))
<1> DEFINE vat == OrderVat(db)
           row == SalesOrder(w, q, price, vat)
<1>1. db' = [db EXCEPT !.so = Append(@, row)] /\ Touches(p, {"so"})
  BY CreateTouches, SerialRows DEF CreateOrder
<1>2. vat \in Nat
  <2>1. CASE db.salesconf = <<>>
    BY <2>1 DEF OrderVat, DefaultVat
  <2>2. CASE db.salesconf # <<>>
    <3>1. db.salesconf \in Seq(SettingsRows)
      BY DEF SalesTyped
    <3>2. 1 \in DOMAIN db.salesconf
      BY <2>2, <3>1, EmptySeq
    <3>3. db.salesconf[1] \in SettingsRows
      BY <3>1, <3>2, TableRows
    <3>4. QED
      BY <2>2, <3>3 DEF OrderVat, SettingsRows
  <2>3. QED
    BY <2>1, <2>2
<1> HIDE DEF vat
<1>3. row \in SoRows
  BY <1>2, SalesAssumption DEF SalesOrder, SoRows
<1>4. /\ db'.so = Append(db.so, row) /\ db'.salesconf = db.salesconf
      /\ DOMAIN db' = DOMAIN db
  <2> HIDE DEF row
  <2>1. QED
    BY <1>1 DEF SalesTyped
<1>5. db'.so \in Seq(SoRows)
  <2>1. db.so \in Seq(SoRows)
    BY DEF SalesTyped
  <2> HIDE DEF row
  <2>2. QED
    BY <1>3, <1>4, <2>1, TableInsert
<1>6. QED
  BY <1>1, <1>2, <1>4, <1>5 DEF SalesTyped

\* One order has another row, and nothing else changes but documents.
LEMMA SalesOrderChanged ==
    ASSUME SalesTyped(db), NEW n, DOMAIN n = DOMAIN db, NEW o \in DOMAIN db.so, NEW row \in SoRows,
           n.so = [db.so EXCEPT ![o] = row], n.salesconf = db.salesconf
    PROVE  SalesTyped(n)
<1>1. db.so \in Seq(SoRows)
  BY DEF SalesTyped
<1>2. n.so \in Seq(SoRows)
  BY <1>1, TableUpdate
<1>3. QED
  BY <1>2 DEF SalesTyped

\* A draft is rewritten.
LEMMA SalesOrderEdited ==
    ASSUME ~ Concurrent, SalesTyped(db), NEW p, NEW o, NEW w \in Warehouses, NEW q \in Nat, NEW price \in Prices,
           EditOrder(p, o, w, q, price)
    PROVE  /\ SalesTyped(db') /\ Touches(p, {"so"})
           /\ o \in DOMAIN db.so /\ db.so[o].status = "draft"
           /\ \E vat \in Nat : db'.so = [db.so EXCEPT ![o] = SalesOrder(w, q, price, vat)]
<1> DEFINE row == SalesOrder(w, q, price, db.so[o].vat)
<1>1. /\ db' = [db EXCEPT !.so = [db.so EXCEPT ![o] = row]]
      /\ o \in DOMAIN db.so /\ db.so[o].status = "draft"
  BY SerialRows DEF EditOrder, Amend, Commit, Rows, Row, SalesTyped
<1>2. Touches(p, {"so"})
  BY SerialRows DEF EditOrder, Amend, Commit, Finish, Touches
<1>3. row \in SoRows /\ db.so[o].vat \in Nat
  <2>1. db.so[o] \in SoRows
    BY <1>1, TableRows DEF SalesTyped
  <2>2. QED
    BY <2>1, SalesAssumption DEF SoRows, SalesOrder
<1> HIDE DEF row
<1>4. DOMAIN db' = DOMAIN db /\ db'.so = [db.so EXCEPT ![o] = row] /\ db'.salesconf = db.salesconf
  BY <1>1 DEF SalesTyped
<1>5. SalesTyped(db')
  BY <1>1, <1>3, <1>4, SalesOrderChanged
<1>6. QED
  BY <1>1, <1>2, <1>3, <1>4, <1>5 DEF row

\* An order is confirmed or cancelled.
LEMMA SalesOrderTurned ==
    ASSUME ~ Concurrent, SalesTyped(db), NEW p, NEW o, ConfirmOrder(p, o) \/ CancelOrder(p, o)
    PROVE  /\ SalesTyped(db') /\ Touches(p, {"so"})
           /\ o \in DOMAIN db.so /\ db.so[o].status \in {"draft", "confirmed"}
           /\ \E status \in {"confirmed", "cancelled"} :
                db'.so = [db.so EXCEPT ![o] = [db.so[o] EXCEPT !.status = status]]
<1> SUFFICES ASSUME NEW from \in SUBSET {"draft", "confirmed"}, NEW status \in {"confirmed", "cancelled"},
                    Turn(p, "so", o, from, status)
             PROVE  /\ SalesTyped(db') /\ Touches(p, {"so"})
                    /\ o \in DOMAIN db.so /\ db.so[o].status \in {"draft", "confirmed"}
                    /\ db'.so = [db.so EXCEPT ![o] = [db.so[o] EXCEPT !.status = status]]
  BY DEF ConfirmOrder, CancelOrder
<1> DEFINE row == [db.so[o] EXCEPT !.status = status]
<1>1. /\ db' = [db EXCEPT !.so[o].status = status] /\ Touches(p, {"so"})
      /\ o \in DOMAIN db.so /\ db.so[o].status \in {"draft", "confirmed"}
  <2>1. /\ Touches(p, {"so"}) /\ db' = [db EXCEPT !["so"][o].status = status]
        /\ o \in DOMAIN db["so"] /\ db["so"][o].status \in from
    BY TurnTouches
  <2>2. QED
    BY <2>1
<1>2. DOMAIN db' = DOMAIN db /\ db'.so = [db.so EXCEPT ![o] = row] /\ db'.salesconf = db.salesconf
  BY <1>1 DEF SalesTyped
<1>3. row \in SoRows
  <2>1. db.so[o] \in SoRows
    BY <1>1, TableRows DEF SalesTyped
  <2>2. QED
    BY <2>1 DEF SoRows
<1> HIDE DEF row
<1>4. SalesTyped(db')
  BY <1>1, <1>2, <1>3, SalesOrderChanged
<1>5. QED
  BY <1>1, <1>2, <1>4 DEF row

\* The settings are saved.
LEMMA SettingsSaved ==
    ASSUME ~ Concurrent, SalesTyped(db), NEW p, SettingsRoutes(p)
    PROVE  SalesTyped(db') /\ Touches(p, {"salesconf"})
<1>1. PICK c \in SettingsChoices : SaveSettings(p, c.receivable, c.vat, c.costed)
  BY DEF SettingsRoutes
<1> DEFINE row == SalesSettings(c.receivable, c.vat, c.costed)
<1>2. db' = [db EXCEPT !.salesconf = <<row>>] /\ Touches(p, {"salesconf"})
  BY <1>1, SerialRows DEF SaveSettings, Commit, Finish, Touches
<1>3. row \in SettingsRows
  BY SalesAssumption DEF SalesSettings, SettingsRows
<1> HIDE DEF row
<1>4. <<row>> \in Seq(SettingsRows)
  BY <1>3
<1>5. QED
  BY <1>2, <1>4 DEF SalesTyped

\* Goods are delivered: stock, note, ledger and order in one transaction.
LEMMA SalesDelivered ==
    ASSUME ~ Concurrent, StockSound, SalesTyped(db), NEW p, NEW o, NEW q \in Nat, Deliver(p, o, q)
    PROVE  /\ StockMoves /\ SalesTyped(db')
           /\ o \in DOMAIN db.so /\ db.so[o].status \in {"confirmed", "partially_delivered"}
           /\ q <= db.so[o].qty - db.so[o].delivered
           /\ CanIssue(db, db.so[o].at, q)
           /\ db'.delivery = Append(db.delivery, Delivery(o, q, CostOf(db, db.so[o].at, q)))
           /\ db'.so = [db.so EXCEPT ![o] = [db.so[o] EXCEPT
                !.delivered = @ + q,
                !.status = IF db.so[o].delivered + q >= db.so[o].qty THEN "delivered" ELSE "partially_delivered"]]
           /\ \A t \in DOMAIN db \ ({"so", "delivery", "entry"} \cup BalanceTables) : db'[t] = db[t]
           /\ DOMAIN db' = DOMAIN db /\ db'["waste"] = db["waste"]
           /\ req' = [req EXCEPT ![p] = Idle]
           /\ past' = [past EXCEPT !.booked = @ + -q]
<1> DEFINE w == db.so[o].at
           cost == CostOf(db, w, q)
           m == IssueFrom(db, w, q)
           note == Delivery(o, q, cost)
           c == PostCogs(Insert(m, "delivery", note), cost)
           status == IF db.so[o].delivered + q >= db.so[o].qty THEN "delivered" ELSE "partially_delivered"
           row == [db.so[o] EXCEPT !.delivered = @ + q, !.status = status]
           n == [c EXCEPT !.so[o].delivered = @ + q, !.so[o].status = status]
<1>1. /\ Book(p, n, -q) /\ CanIssue(db, w, q)
      /\ o \in DOMAIN db.so /\ db.so[o].status \in {"confirmed", "partially_delivered"}
      /\ q <= db.so[o].qty - db.so[o].delivered
  BY SerialRows DEF Deliver, Shipped
<1>2. db.so[o] \in SoRows
  BY <1>1, TableRows DEF SalesTyped
<1>3. w \in Warehouses /\ StockTyped(db)
  BY <1>2 DEF SoRows, StockSound
<1>4. Moved(db, m, w, -q)
  <2> HIDE DEF w
  <2>1. QED
    BY <1>1, <1>3, IssueMoves
<1>5. /\ DOMAIN m = DOMAIN db /\ BalanceTables \subseteq DOMAIN db
      /\ \A t \in DOMAIN db \ BalanceTables : m[t] = db[t]
      /\ "waste" \in DOMAIN db /\ m["waste"] = db["waste"]
  BY <1>3, <1>4 DEF Moved, BalanceTables, StockTyped
<1> HIDE DEF m, cost, note, w
<1>6. /\ DOMAIN c = DOMAIN db
      /\ \A t \in DOMAIN db \ {"delivery", "entry"} : c[t] = m[t]
      /\ c.delivery = Append(m.delivery, note)
  BY <1>5 DEF PostCogs, Post, Insert, SalesTyped
<1> HIDE DEF c
<1>7. c.so = db.so /\ c.salesconf = db.salesconf /\ m.delivery = db.delivery
  BY <1>5, <1>6 DEF SalesTyped, BalanceTables
<1>8. /\ DOMAIN n = DOMAIN db
      /\ n.so = [db.so EXCEPT ![o] = row]
      /\ \A t \in DOMAIN db \ {"so"} : n[t] = c[t]
  <2> HIDE DEF status
  <2>1. QED
    BY <1>6, <1>7 DEF SalesTyped
<1>9. row \in SoRows
  <2>1. status \in {"draft", "confirmed", "partially_delivered", "delivered", "cancelled"}
    OBVIOUS
  <2> HIDE DEF status
  <2>2. db.so[o].delivered + q \in Nat
    BY <1>2 DEF SoRows
  <2>3. row = [[db.so[o] EXCEPT !.delivered = db.so[o].delivered + q] EXCEPT !.status = status]
    BY <1>2 DEF SoRows
  <2>4. [db.so[o] EXCEPT !.delivered = db.so[o].delivered + q] \in SoRows
    BY <1>2, <2>2 DEF SoRows
  <2>5. QED
    BY <2>1, <2>3, <2>4 DEF SoRows
<1> HIDE DEF n, row, status
<1>10. SameBalances(m, n)
  BY <1>5, <1>6, <1>8 DEF SameBalances, BalanceTables
<1>11. Books(db, n, -q)
  BY <1>3, <1>4, <1>10, MovedIsBooked DEF SameBalances
<1>12. StockMoves
  BY <1>1, <1>11, BookStep
<1>13. db' = n /\ req' = [req EXCEPT ![p] = Idle] /\ past' = [past EXCEPT !.booked = @ + -q]
  BY <1>1, SerialRows DEF Book, Finish
<1>14. /\ db'.delivery = Append(db.delivery, note) /\ db'.salesconf = db.salesconf
       /\ \A t \in DOMAIN db \ ({"so", "delivery", "entry"} \cup BalanceTables) : db'[t] = db[t]
  BY <1>5, <1>6, <1>7, <1>8, <1>13 DEF SalesTyped
<1>15. SalesTyped(db')
  BY <1>1, <1>8, <1>9, <1>13, <1>14, SalesOrderChanged
<1>16. db'["waste"] = db["waste"]
  BY <1>5, <1>6, <1>8, <1>13
<1>17. QED
  BY <1>1, <1>8, <1>12, <1>13, <1>14, <1>15, <1>16 DEF row, status, note, cost, w

\* What was delivered is invoiced.
LEMMA SalesInvoiced ==
    ASSUME ~ Concurrent, SalesTyped(db), NEW p, NEW o, InvoiceDelivered(p, o)
    PROVE  LET q == db.so[o].delivered - db.so[o].invoiced
               net == q * db.so[o].price
               vat == VatOn(net, db.so[o].vat)
           IN /\ SalesTyped(db') /\ Touches(p, {"so", "invoice", "ar", "entry"})
              /\ o \in DOMAIN db.so /\ q \in Nat /\ q > 0 /\ net + vat > 0
              /\ db'.so = [db.so EXCEPT ![o] = [db.so[o] EXCEPT !.invoiced = db.so[o].delivered]]
              /\ db'.ar = Append(db.ar, AccountsReceivableInvoice(Len(db.entry) + 1, net + vat))
              /\ db'.invoice = Append(db.invoice, SalesInvoice(o, Len(db'.ar), q, net, vat))
<1> DEFINE q == db.so[o].delivered - db.so[o].invoiced
           net == q * db.so[o].price
           vat == VatOn(net, db.so[o].vat)
           posted == PostSalesInvoice(db, o, q, net, vat)
           row == [db.so[o] EXCEPT !.invoiced = db.so[o].delivered]
<1>1. /\ Commit(p, [posted EXCEPT !.so[o].invoiced = @ + q])
      /\ o \in DOMAIN db.so /\ q > 0 /\ net + vat > 0
  BY SerialRows DEF InvoiceDelivered
<1>2. db.so[o] \in SoRows
  BY <1>1, TableRows DEF SalesTyped
<1>3. q \in Nat /\ db.so[o].invoiced + q = db.so[o].delivered
  <2>1. db.so[o].delivered \in Nat /\ db.so[o].invoiced \in Nat /\ q > 0
    BY <1>1, <1>2 DEF SoRows
  <2>2. QED
    BY <2>1
<1> DEFINE due == AccountsReceivableInvoice(Len(db.entry) + 1, net + vat)
           bill == SalesInvoice(o, Len(Append(db.ar, due)), q, net, vat)
<1>4. /\ DOMAIN posted = DOMAIN db
      /\ posted.ar = Append(db.ar, due)
      /\ posted.invoice = Append(db.invoice, bill)
      /\ posted.so = db.so
      /\ \A t \in DOMAIN db \ {"so", "invoice", "ar", "entry"} : posted[t] = db[t]
  <2> HIDE DEF q, net, vat
  <2>1. QED
    BY DEF PostSalesInvoice, PostReceivable, Post, Insert, SalesTyped
<1> HIDE DEF posted, due, bill
<1>5. /\ DOMAIN db' = DOMAIN db
      /\ db'.so = [db.so EXCEPT ![o] = [db.so[o] EXCEPT !.invoiced = @ + q]]
      /\ db'.ar = posted.ar /\ db'.invoice = posted.invoice
      /\ \A t \in DOMAIN db \ {"so"} : db'[t] = posted[t]
  <2> HIDE DEF q
  <2>1. db' = [posted EXCEPT !.so[o].invoiced = @ + q]
    BY <1>1, SerialRows DEF Commit
  <2>2. QED
    BY <1>4, <2>1 DEF SalesTyped
<1>6. [db.so[o] EXCEPT !.invoiced = @ + q] = row
  <2> HIDE DEF q
  <2>1. QED
    BY <1>2, <1>3 DEF SoRows
<1>7. Touches(p, {"so", "invoice", "ar", "entry"})
  BY <1>1, <1>4, <1>5, SerialRows DEF Commit, Finish, Touches
<1>8. row \in SoRows
  BY <1>2 DEF SoRows
<1> HIDE DEF row, q
<1>9. db'.so = [db.so EXCEPT ![o] = row] /\ db'.salesconf = db.salesconf
  BY <1>4, <1>5, <1>6 DEF SalesTyped
<1>10. SalesTyped(db')
  BY <1>1, <1>5, <1>8, <1>9, SalesOrderChanged
<1>11. QED
  BY <1>1, <1>3, <1>4, <1>5, <1>7, <1>9, <1>10 DEF row, due, bill, q

\* A step that writes no order and no settings.
LEMMA SalesUntouched ==
    ASSUME SalesTyped(db), DOMAIN db' = DOMAIN db, db'.so = db.so, db'.salesconf = db.salesconf
    PROVE  SalesTyped(db')
  BY DEF SalesTyped

\* A payment is recorded.
LEMMA SalesPaid ==
    ASSUME ~ Concurrent, SalesTyped(db), NEW p, NEW i, NEW n, RecordPayment(p, i, n)
    PROVE  /\ SalesTyped(db') /\ Touches(p, {"invoice", "payment", "ar", "entry"})
           /\ i \in DOMAIN db.invoice /\ n <= db.invoice[i].amount - db.invoice[i].paid
           /\ db'.invoice = [db.invoice EXCEPT ![i] = [db.invoice[i] EXCEPT !.paid = @ + n]]
           /\ db'.payment = Append(db.payment, SalesPayment(i, n))
           /\ db'.ar = IF db.invoice[i].paid + n >= db.invoice[i].amount
                       THEN [db.ar EXCEPT ![db.invoice[i].ar] = [db.ar[db.invoice[i].ar] EXCEPT !.status = "paid"]]
                       ELSE db.ar
<1> DEFINE s == Settle(db, i, n)
           lines == <<Debit("cash", n, None), Credit(db.salesconf[1].receivable, n)>>
           new == Insert(Post([s EXCEPT !.invoice[i].paid = @ + n], "receipt", 1, lines),
                         "payment", SalesPayment(i, n))
<1>1. Commit(p, new) /\ i \in DOMAIN db.invoice /\ n <= db.invoice[i].amount - db.invoice[i].paid
  BY SerialRows DEF RecordPayment
<1>2. /\ DOMAIN s = DOMAIN db
      /\ s.ar = IF db.invoice[i].paid + n >= db.invoice[i].amount
                THEN [db.ar EXCEPT ![db.invoice[i].ar] = [db.ar[db.invoice[i].ar] EXCEPT !.status = "paid"]]
                ELSE db.ar
      /\ \A t \in DOMAIN db \ {"ar"} : s[t] = db[t]
  BY DEF Settle, SalesTyped
<1>3. s.invoice = db.invoice /\ s.payment = db.payment
  BY <1>2 DEF SalesTyped
<1> HIDE DEF s, lines
<1>4. /\ DOMAIN new = DOMAIN db
      /\ new.invoice = [db.invoice EXCEPT ![i] = [db.invoice[i] EXCEPT !.paid = @ + n]]
      /\ new.payment = Append(db.payment, SalesPayment(i, n))
      /\ new.ar = s.ar
      /\ \A t \in DOMAIN db \ {"invoice", "payment", "ar", "entry"} : new[t] = db[t]
  BY <1>2, <1>3 DEF Post, Insert, SalesTyped
<1> HIDE DEF new
<1>5. db' = new /\ Touches(p, {"invoice", "payment", "ar", "entry"})
  BY <1>1, <1>4, CommitTouches
<1>6. SalesTyped(db')
  <2>1. db'.so = db.so /\ db'.salesconf = db.salesconf
    BY <1>4, <1>5 DEF SalesTyped
  <2>2. QED
    BY <1>4, <1>5, <2>1, SalesUntouched
<1>7. QED
  BY <1>1, <1>2, <1>4, <1>5, <1>6

-----------------------------------------------------------------------------
(* The rows of production *)

BomRows == [active : BOOLEAN, product : Warehouses, component : Warehouses, per : Nat]

RunRows ==
    [status : {"draft", "released", "in_progress", "done", "cancelled"}, bom : Nat,
     product : Warehouses, component : Warehouses, planned : Nat \ {0}, required : Nat, center : Nat,
     produced : Nat, scrapped : Nat, consumed : Nat, fuel : Nat]

\* No bill makes a material of itself.
RunsTyped(s) ==
    /\ {"bom", "prodorder", "tank", "fuelissue", "batch"} \subseteq DOMAIN s
    /\ s.bom \in Seq(BomRows)
    /\ s.prodorder \in Seq(RunRows)
    /\ \A b \in DOMAIN s.bom : s.bom[b].product # s.bom[b].component
    /\ \A o \in DOMAIN s.prodorder : s.prodorder[o].product # s.prodorder[o].component

\* Requests on other tables.
LEMMA RunsUntouched ==
    ASSUME RunsTyped(db), DOMAIN db' = DOMAIN db, db'.bom = db.bom, db'.prodorder = db.prodorder
    PROVE  RunsTyped(db')
  BY DEF RunsTyped

\* A bill is written.
LEMMA BillWritten ==
    ASSUME ~ Concurrent, RunsTyped(db), NEW p, NEW f \in Warehouses, NEW c \in Warehouses, NEW n \in Nat,
           CreateBom(p, f, c, n)
    PROVE  RunsTyped(db')
<1> DEFINE row == Bom(f, c, n)
<1>1. f # c /\ db' = [db EXCEPT !.bom = Append(@, row)]
  BY CreateTouches DEF CreateBom
<1>2. row \in BomRows /\ row.product # row.component
  BY <1>1 DEF Bom, BomRows
<1> HIDE DEF row
<1>3. db'.bom = Append(db.bom, row) /\ db'.prodorder = db.prodorder /\ DOMAIN db' = DOMAIN db
  BY <1>1 DEF RunsTyped
<1>4. db.bom \in Seq(BomRows)
  BY DEF RunsTyped
<1>5. /\ db'.bom \in Seq(BomRows) /\ DOMAIN db'.bom = DOMAIN db.bom \cup {Len(db.bom) + 1}
      /\ db'.bom[Len(db.bom) + 1] = row /\ \A k \in DOMAIN db.bom : db'.bom[k] = db.bom[k]
  BY <1>2, <1>3, <1>4, TableInsert
<1>6. QED
  BY <1>2, <1>3, <1>5 DEF RunsTyped

\* Header and lines of a bill are replaced.
LEMMA BillReplaced ==
    ASSUME ~ Concurrent, RunsTyped(db), NEW p, NEW b, NEW n \in Nat, NEW a \in BOOLEAN, ReplaceBom(p, b, n, a)
    PROVE  RunsTyped(db')
<1> DEFINE row == [db.bom[b] EXCEPT !.per = n, !.active = a]
<1>1. db' = [db EXCEPT !.bom = [db.bom EXCEPT ![b] = row]] /\ b \in DOMAIN db.bom
  BY SerialRows DEF ReplaceBom, Amend, Commit, Rows, Row, RunsTyped
<1>2. db.bom \in Seq(BomRows) /\ db.bom[b] \in BomRows
  BY <1>1, TableRows DEF RunsTyped
<1>3. row \in BomRows /\ row.product = db.bom[b].product /\ row.component = db.bom[b].component
  BY <1>2 DEF BomRows
<1> HIDE DEF row
<1>4. db'.bom = [db.bom EXCEPT ![b] = row] /\ db'.prodorder = db.prodorder /\ DOMAIN db' = DOMAIN db
  BY <1>1 DEF RunsTyped
<1>5. /\ db'.bom \in Seq(BomRows) /\ DOMAIN db'.bom = DOMAIN db.bom
      /\ db'.bom[b] = row /\ \A k \in DOMAIN db.bom \ {b} : db'.bom[k] = db.bom[k]
  <2>1. db.bom \in Seq(BomRows) /\ row \in BomRows /\ b \in DOMAIN db.bom /\ db'.bom = [db.bom EXCEPT ![b] = row]
    BY <1>1, <1>2, <1>3, <1>4
  <2>2. QED
    BY <2>1, TableUpdate
<1>6. QED
  BY <1>1, <1>3, <1>4, <1>5 DEF RunsTyped

\* A production order snapshots its bill.
LEMMA RunCreated ==
    ASSUME ~ Concurrent, RunsTyped(db), NEW p, NEW b, NEW n \in Nat \ {0}, NEW c \in Nat,
           CreateProductionOrder(p, b, n, c)
    PROVE  RunsTyped(db')
<1> DEFINE bom == db.bom[b]
           row == ProductionOrder(b, bom, n, c)
<1>1. b \in DOMAIN db.bom /\ db' = [db EXCEPT !.prodorder = Append(@, row)]
  BY CreateTouches, SerialRows DEF CreateProductionOrder, Rows, Row
<1>2. bom \in BomRows /\ b \in Nat /\ bom.product # bom.component
  <2>1. db.bom \in Seq(BomRows)
    BY DEF RunsTyped
  <2>2. DOMAIN db.bom = 1..Len(db.bom) /\ db.bom[b] \in BomRows
    BY <1>1, <2>1, TableRows
  <2>3. QED
    BY <1>1, <2>2 DEF RunsTyped
<1> HIDE DEF bom
<1>3. n * bom.per \in Nat
  <2>1. bom.per \in Nat
    BY <1>2 DEF BomRows
  <2>2. QED
    BY <2>1
<1>4. row \in RunRows /\ row.product # row.component
  BY <1>2, <1>3 DEF ProductionOrder, RunRows, BomRows
<1> HIDE DEF row
<1>5. db'.prodorder = Append(db.prodorder, row) /\ db'.bom = db.bom /\ DOMAIN db' = DOMAIN db
  BY <1>1 DEF RunsTyped
<1>6. /\ db'.prodorder \in Seq(RunRows) /\ DOMAIN db'.prodorder = DOMAIN db.prodorder \cup {Len(db.prodorder) + 1}
      /\ db'.prodorder[Len(db.prodorder) + 1] = row
      /\ \A k \in DOMAIN db.prodorder : db'.prodorder[k] = db.prodorder[k]
  <2>1. db.prodorder \in Seq(RunRows)
    BY DEF RunsTyped
  <2>2. QED
    BY <1>4, <1>5, <2>1, TableInsert
<1>7. QED
  BY <1>4, <1>5, <1>6 DEF RunsTyped

\* A production order has another status or is done.
LEMMA RunChanged ==
    ASSUME RunsTyped(db), DOMAIN db' = DOMAIN db, db'.bom = db.bom,
           NEW o \in DOMAIN db.prodorder, NEW row \in RunRows,
           row.product = db.prodorder[o].product, row.component = db.prodorder[o].component,
           db'.prodorder = [db.prodorder EXCEPT ![o] = row]
    PROVE  RunsTyped(db')
<1>1. /\ db'.prodorder \in Seq(RunRows) /\ DOMAIN db'.prodorder = DOMAIN db.prodorder
      /\ db'.prodorder[o] = row
      /\ \A k \in DOMAIN db.prodorder \ {o} : db'.prodorder[k] = db.prodorder[k]
  <2>1. db.prodorder \in Seq(RunRows)
    BY DEF RunsTyped
  <2>2. QED
    BY <2>1, TableUpdate
<1>2. QED
  BY <1>1 DEF RunsTyped

\* A production order is released, started or cancelled.
LEMMA RunTurned ==
    ASSUME ~ Concurrent, RunsTyped(db), NEW p, NEW o,
           ReleaseOrder(p, o) \/ StartOrder(p, o) \/ CancelProduction(p, o)
    PROVE  RunsTyped(db')
<1> SUFFICES ASSUME NEW from, NEW status \in {"released", "in_progress", "cancelled"},
                    Turn(p, "prodorder", o, from, status)
             PROVE  RunsTyped(db')
  BY DEF ReleaseOrder, StartOrder, CancelProduction
<1> DEFINE row == [db.prodorder[o] EXCEPT !.status = status]
<1>1. db' = [db EXCEPT !["prodorder"][o].status = status] /\ o \in DOMAIN db["prodorder"]
  <2>1. /\ Touches(p, {"prodorder"}) /\ db' = [db EXCEPT !["prodorder"][o].status = status]
        /\ o \in DOMAIN db["prodorder"] /\ db["prodorder"][o].status \in from
    BY TurnTouches
  <2>2. QED
    BY <2>1
<1>2. DOMAIN db' = DOMAIN db /\ db'.prodorder = [db.prodorder EXCEPT ![o] = row] /\ db'.bom = db.bom
  BY <1>1 DEF RunsTyped
<1>3. db.prodorder[o] \in RunRows
  BY <1>1, TableRows DEF RunsTyped
<1>4. row \in RunRows /\ row.product = db.prodorder[o].product /\ row.component = db.prodorder[o].component
  BY <1>3 DEF RunRows
<1> HIDE DEF row
<1>5. QED
  BY <1>1, <1>2, <1>4, RunChanged

\* What the snapshot says for a quantity is a whole number.
LEMMA ConsumptionIsWhole ==
    ASSUME NEW r \in RunRows, NEW n \in Nat, NEW k \in Nat
    PROVE  DefaultConsumption(r, n, k) \in Nat
<1>1. r.required \in Nat /\ r.planned \in Nat /\ r.planned > 0 /\ n + k \in Nat
  BY DEF RunRows
<1> DEFINE x == r.required
           y == n + k
           z == r.planned
           xy == x * y
<1>2. xy \in Nat
  <2>1. x \in Nat /\ y \in Nat
    BY <1>1
  <2> HIDE DEF x, y
  <2>2. QED
    BY <2>1
<1>3. xy \div z \in Nat
  <2>1. z \in Nat /\ z > 0
    BY <1>1
  <2> HIDE DEF xy, z
  <2>2. QED
    BY <1>2, <2>1
<1>4. QED
  BY <1>3 DEF DefaultConsumption

\* A production order is completed: components and fuel out, the product in.
LEMMA RunCompleted ==
    ASSUME ~ Concurrent, StockSound, RunsTyped(db), NEW p, NEW o, NEW produced \in Nat, NEW scrapped \in Nat,
           NEW override \in Nat, NEW fuel \in Nat, NEW status,
           CompleteOrder(p, o, produced, scrapped, override, fuel, status)
    PROVE  /\ StockMoves /\ RunsTyped(db')
           /\ fuel > 0 => 1 \in DOMAIN db.tank /\ fuel <= db.tank[1].level
           /\ db'.tank = IF fuel > 0 THEN [db.tank EXCEPT ![1] = [db.tank[1] EXCEPT !.level = @ - fuel]] ELSE db.tank
           /\ db'.fuelissue = IF fuel > 0 THEN Append(db.fuelissue, FuelIssue(1, fuel)) ELSE db.fuelissue
           /\ \A t \in DOMAIN db \ ({"tank", "fuelissue", "batch", "prodorder"} \cup BalanceTables) : db'[t] = db[t]
           /\ DOMAIN db' = DOMAIN db /\ db'["waste"] = db["waste"]
           /\ req' = [req EXCEPT ![p] = Idle]
           /\ \E entry : past' = [past EXCEPT !.booked = @ + entry]
<1> DEFINE r == db.prodorder[o]
           w == r.component
           v == r.product
           consumed == IF override > 0 THEN override ELSE DefaultConsumption(r, produced, scrapped)
           m == IF consumed > 0 THEN IssueFrom(db, w, consumed) ELSE db
           b == Burn(m, fuel)
           priced == RunHasCost(db, r, consumed, fuel)
           l == Land(b, v, produced, priced)
           batch == BatchNumber(o, produced, status)
           row == [r EXCEPT !.status = "done", !.produced = produced, !.scrapped = scrapped,
                            !.consumed = consumed, !.fuel = fuel]
           n == [Insert(l, "batch", batch) EXCEPT
                    !.prodorder[o].status = "done",
                    !.prodorder[o].produced = produced, !.prodorder[o].scrapped = scrapped,
                    !.prodorder[o].consumed = consumed, !.prodorder[o].fuel = fuel]
<1>1. /\ Book(p, n, produced - consumed)
      /\ o \in DOMAIN db.prodorder
      /\ consumed > 0 => CanIssue(db, w, consumed)
      /\ CanBurn(db, r, fuel)
  BY SerialRows DEF CompleteOrder, Finished
<1>2. r \in RunRows /\ v # w
  BY <1>1, TableRows DEF RunsTyped
<1>3. consumed \in Nat
  <2>1. DefaultConsumption(r, produced, scrapped) \in Nat
    BY <1>2, ConsumptionIsWhole
  <2>2. QED
    BY <2>1
<1>4. w \in Warehouses /\ v \in Warehouses /\ StockTyped(db) /\ db.item[w].priced \in BOOLEAN
  <2>1. w \in Warehouses /\ v \in Warehouses
    BY <1>2 DEF RunRows
  <2>2. StockTyped(db) /\ db.item \in [Warehouses -> ItemRows]
    BY DEF StockSound, StockTyped
  <2> HIDE DEF w
  <2>3. QED
    BY <2>1, <2>2 DEF ItemRows
<1>5. priced \in BOOLEAN
  BY <1>4 DEF RunHasCost
<1> HIDE DEF consumed, priced
<1>6. Moved(db, m, w, -consumed)
  <2>1. CASE consumed > 0
    <3>1. Moved(db, IssueFrom(db, w, consumed), w, -consumed)
      <4> HIDE DEF w
      <4>1. QED
        BY <1>1, <1>3, <1>4, <2>1, IssueMoves
    <3>2. QED
      BY <2>1, <3>1
  <2>2. CASE ~ consumed > 0
    <3>1. consumed = 0
      BY <1>3, <2>2
    <3>2. Moved(db, db, w, -0)
      <4> HIDE DEF w
      <4>1. QED
        BY <1>4, NothingMoves
    <3>3. QED
      BY <2>2, <3>1, <3>2
  <2>3. QED
    BY <2>1, <2>2
<1> HIDE DEF m
<1>7. /\ DOMAIN m = DOMAIN db /\ BalanceTables \subseteq DOMAIN db
      /\ \A t \in DOMAIN db \ BalanceTables : m[t] = db[t]
      /\ "waste" \in DOMAIN db /\ m["waste"] = db["waste"]
  BY <1>4, <1>6 DEF Moved, BalanceTables, StockTyped
<1>8. /\ DOMAIN b = DOMAIN db
      /\ \A t \in DOMAIN db \ {"tank", "fuelissue"} : b[t] = m[t]
      /\ b.tank = IF fuel > 0 THEN [m.tank EXCEPT ![1] = [m.tank[1] EXCEPT !.level = @ - fuel]] ELSE m.tank
      /\ b.fuelissue = IF fuel > 0 THEN Append(m.fuelissue, FuelIssue(1, fuel)) ELSE m.fuelissue
  BY <1>7 DEF Burn, Draw, Insert, RunsTyped
<1> HIDE DEF b
<1>9. SameBalances(m, b)
  BY <1>7, <1>8 DEF SameBalances, BalanceTables
<1>10. StockTyped(b)
  BY <1>6, <1>9, SameBalancesTyped DEF Moved
<1>11. Moved(b, l, v, produced)
  <2> HIDE DEF v
  <2>1. QED
    BY <1>4, <1>5, <1>10, LandMoves
<1> HIDE DEF l
<1>12. Books(db, l, -consumed + produced)
  <2>1. -consumed \in Int /\ produced \in Int
    BY <1>3
  <2> HIDE DEF w, v
  <2>2. QED
    BY <1>2, <1>4, <1>6, <1>9, <1>11, <2>1, TwoMoves
<1>13. DOMAIN l = DOMAIN db /\ \A t \in DOMAIN db \ {"item", "layer"} : l[t] = b[t]
  BY <1>8, <1>11 DEF Moved
<1>14. l.prodorder = db.prodorder /\ l.bom = db.bom
  BY <1>7, <1>8, <1>13 DEF RunsTyped, BalanceTables
<1>15. /\ DOMAIN n = DOMAIN db
       /\ n.prodorder = [db.prodorder EXCEPT ![o] = row]
       /\ \A t \in DOMAIN db \ {"batch", "prodorder"} : n[t] = l[t]
  <2> HIDE DEF batch
  <2>1. QED
    BY <1>13, <1>14 DEF Insert, RunsTyped
<1>16. row \in RunRows /\ row.product = v /\ row.component = w
  BY <1>2, <1>3 DEF RunRows
<1> HIDE DEF n, row
<1>17. SameBalances(l, n)
  BY <1>7, <1>13, <1>15 DEF SameBalances, BalanceTables
<1>18. Books(db, n, produced - consumed)
  <2>1. StockTyped(l)
    BY <1>12 DEF Books
  <2>2. /\ StockTyped(n) /\ n.item = l.item /\ n.layer = l.layer /\ n.transfer = l.transfer
        /\ n.reserv = l.reserv
    BY <1>17, <2>1, SameBalancesTyped
  <2>3. -consumed + produced \in Int /\ -consumed + produced = produced - consumed
    BY <1>3
  <2>4. Books(db, n, -consumed + produced)
    BY <1>4, <1>12, <2>2, <2>3, BooksCarryOver
  <2>5. QED
    BY <2>3, <2>4
<1>19. StockMoves
  <2>1. produced - consumed \in Int
    BY <1>3
  <2>2. QED
    BY <1>1, <1>18, <2>1, BookStep
<1>20. db' = n /\ req' = [req EXCEPT ![p] = Idle] /\ past' = [past EXCEPT !.booked = @ + (produced - consumed)]
  BY <1>1, SerialRows DEF Book, Finish
<1>21. RunsTyped(db')
  <2>1. db'.bom = db.bom /\ db'.prodorder = [db.prodorder EXCEPT ![o] = row] /\ DOMAIN db' = DOMAIN db
    BY <1>14, <1>15, <1>20 DEF RunsTyped
  <2>2. QED
    BY <1>1, <1>16, <2>1, RunChanged
<1>22. fuel > 0 => 1 \in DOMAIN db.tank /\ fuel <= db.tank[1].level
  BY <1>1 DEF CanBurn, CanDraw
<1>23. m.tank = db.tank /\ m.fuelissue = db.fuelissue
  BY <1>7 DEF RunsTyped, BalanceTables
<1>24. n.tank = b.tank /\ n.fuelissue = b.fuelissue
  BY <1>13, <1>15 DEF RunsTyped
<1>25. \A t \in DOMAIN db \ ({"tank", "fuelissue", "batch", "prodorder"} \cup BalanceTables) : n[t] = db[t]
  BY <1>7, <1>8, <1>13, <1>15 DEF BalanceTables
<1>26. db'["waste"] = db["waste"]
  BY <1>7, <1>8, <1>13, <1>15, <1>20
<1>27. QED
  BY <1>8, <1>15, <1>19, <1>20, <1>21, <1>22, <1>23, <1>24, <1>25, <1>26

-----------------------------------------------------------------------------
(* The steps of every part *)

\* What is left to receive of a note are rows of it, for a warehouse it names.
ReceivingTyped ==
    \A p \in Workers : Resuming(p, "receiving") =>
        /\ req[p].todo \in [at : Warehouses \cup {None}, lines : SUBSET DOMAIN db.grnline]
        /\ req[p].todo.lines # {} => req[p].todo.at # None

\* The stock and the requests are as they should be after the step.
StepIsSound == StockMoves /\ Alone' /\ WasteSound' /\ ReceivingTyped'

\* A request that ends.
LEMMA RequestEnds ==
    ASSUME Alone, WasteSound, NobodyWastes, ReceivingTyped, NEW p \in Workers, Ends(p), WasteRests,
           DOMAIN db.grnline \subseteq DOMAIN db'.grnline
    PROVE  Alone' /\ WasteSound' /\ ReceivingTyped'
<1>1. Alone' /\ WasteSound'
  BY QuietRequests
<1>2. \A q \in Workers : req'[q] = req[q] \/ req'[q] = Idle
  BY FinishedOrNot DEF Ends
<1>3. ReceivingTyped'
  BY <1>2 DEF ReceivingTyped, Resuming, Idle
<1>4. QED
  BY <1>1, <1>3

\* What writes some tables keeps the others.
LEMMA KeepsMore ==
    ASSUME NEW names, Keeps(names), NEW more, names \subseteq more
    PROVE  Keeps(more)
  BY DEF Keeps

\* A step on documents other than receipt notes.
LEMMA TouchedStep ==
    ASSUME Alone, StockSound, WasteSound, NobodyWastes, ReceivingTyped, NEW p \in Workers,
           NEW names, Touches(p, names), names \cap BalanceTables = {}, DOMAIN db.grnline \subseteq DOMAIN db'.grnline
    PROVE  StepIsSound /\ Keeps(names)
<1>1. StockMoves
  BY QuietStep
<1>2. Ends(p) /\ past' = past
  BY DEF Touches, Ends
<1>3. WasteRests
  BY <1>2 DEF StockSound, StockTyped, Touches, WasteRests, BalanceTables
<1>4. Alone' /\ WasteSound' /\ ReceivingTyped'
  BY <1>2, <1>3, RequestEnds
<1>5. QED
  BY <1>1, <1>4 DEF StepIsSound, Keeps, Touches

\* A request that books goods and ends.
LEMMA BookedRequests ==
    ASSUME Alone, WasteSound, NobodyWastes, ReceivingTyped, NEW p \in Workers, req' = [req EXCEPT ![p] = Idle],
           \E entry : past' = [past EXCEPT !.booked = @ + entry],
           db'["waste"] = db["waste"], db'.grnline = db.grnline
    PROVE  Alone' /\ WasteSound' /\ ReceivingTyped'
<1>1. WasteRests
  BY DEF WasteSound, WasteRests
<1>2. QED
  BY <1>1, RequestEnds DEF Ends

\* Goods are received by hand.
LEMMA ReceiptStep ==
    ASSUME ~ Concurrent, Alone, StockSound, WasteSound, ReceivingTyped, PurchasesTyped(db), NEW p \in Workers,
           NEW w \in Warehouses, NEW q \in Quantities, Receive(p, w, q)
    PROVE  StepIsSound /\ Keeps(BalanceTables)
<1>1. StockMoves
  BY ReceiveStep, StockAssumption
<1>2. StockNext(p)
  BY DEF StockNext, ReceiptRoutes
<1>3. Keeps(BalanceTables)
  BY <1>2, StockKeeps DEF StockSound
<1>4. /\ req' = [req EXCEPT ![p] = Idle] /\ past' = [past EXCEPT !.booked = @ + q]
      /\ db' = Land(db, w, q, TRUE) /\ \A o \in Workers : req[o] = Idle
  BY SerialRows DEF Receive, Book, Finish
<1>5. db'.grnline = db.grnline
  BY <1>3 DEF Keeps, BalanceTables, PurchasesTyped, PurchaseTables
<1>6. db'["waste"] = db["waste"]
  <2>1. Moved(db, Land(db, w, q, TRUE), w, q)
    BY LandMoves, StockAssumption DEF StockSound
  <2>2. QED
    BY <1>4, <2>1 DEF Moved, StockSound, StockTyped, BalanceTables
<1>7. Alone' /\ WasteSound' /\ ReceivingTyped'
  BY <1>4, <1>5, <1>6, AtRest, BookedRequests
<1>8. QED
  BY <1>1, <1>3, <1>7 DEF StepIsSound

\* A step of the stock.
LEMMA StockPartStep ==
    ASSUME ~ Concurrent, Alone, StockSound, WasteSound, ReceivingTyped, PurchasesTyped(db), NEW p \in Workers,
           StockNext(p), part' = "stock"
    PROVE  StepIsSound /\ Keeps(BalanceTables)
<1>1. StockMoves /\ Alone' /\ WasteSound' /\ Keeps(BalanceTables)
  BY StockStep, StockRequests, StockKeeps DEF StockSound
<1>2. db'.grnline = db.grnline
  BY <1>1 DEF Keeps, BalanceTables, PurchasesTyped, PurchaseTables
<1>3. \A q \in Workers : Resuming(q, "receiving")' => req'[q] = req[q]
  <2>1. ASSUME NEW new, NEW entry, Book(p, new, entry) PROVE \A q \in Workers : req'[q] = req[q] \/ req'[q] = Idle
    <3>1. req' = [req EXCEPT ![p] = Idle]
      BY <2>1 DEF Book, Finish
    <3>2. QED
      BY <3>1, FinishedOrNot
  <2>2. CASE RecordWaste(p) \/ LoseWaste(p)
    <3>1. req' = [req EXCEPT ![p] = Idle]
      BY <2>2 DEF RecordWaste, LoseWaste, Commit, Finish
    <3>2. QED
      BY <3>1, FinishedOrNot DEF Resuming, Idle
  <2>3. ASSUME NEW w, NEW q, Waste(p, w, q) PROVE \A o \in Workers : Resuming(o, "receiving")' => req'[o] = req[o]
    <3>1. req' = [req EXCEPT ![p] = [at |-> "wasting", todo |-> q, seen |-> <<>>]]
      BY <2>3 DEF Waste, GoOn
    <3>2. QED
      BY <3>1 DEF Alone, Resuming
  <2>4. QED
    BY <2>1, <2>2, <2>3, StockIsBooked DEF Resuming, Idle
<1>4. ReceivingTyped'
  BY <1>2, <1>3 DEF ReceivingTyped, Resuming
<1>5. QED
  BY <1>1, <1>4 DEF StepIsSound

\* A line of a confirmed note is received into stock.
LEMMA NoteLineReceived ==
    ASSUME ~ Concurrent, Alone, StockSound, WasteSound, ReceivingTyped, PurchasesTyped(db), NEW p \in Workers,
           NEW k, ReceiveNoteLine(p, k)
    PROVE  /\ StepIsSound /\ Keeps(BalanceTables)
           /\ req[p].at = "receiving" /\ k \in req[p].todo.lines
           /\ req' = [req EXCEPT ![p] = [at |-> "receiving", seen |-> <<>>,
                todo |-> [req[p].todo EXCEPT !.lines = @ \ {k}]]]
           /\ past' = [past EXCEPT !.booked = @ + db.grnline[k].qty, !.landed = @ + db.grnline[k].qty]
<1> DEFINE q == db.grnline[k].qty
           at == req[p].todo.at
           todo == [req[p].todo EXCEPT !.lines = @ \ {k}]
           r == [at |-> "receiving", todo |-> todo, seen |-> <<>>]
           n == Land(db, at, q, TRUE)
<1>1. /\ Resuming(p, "receiving") /\ k \in req[p].todo.lines
      /\ db' = n
      /\ req' = [req EXCEPT ![p] = r]
      /\ past' = [past EXCEPT !.booked = @ + q, !.landed = @ + q]
  BY SerialRows DEF ReceiveNoteLine, GoOn
<1>2. k \in DOMAIN db.grnline /\ at \in Warehouses /\ at # None
  BY <1>1 DEF ReceivingTyped
<1>3. q \in Nat
  <2>1. db.grnline[k] \in NoteLineRows
    BY <1>2, TableRows DEF PurchasesTyped
  <2>2. QED
    BY <2>1 DEF NoteLineRows
<1>4. Books(db, n, q) /\ Moved(db, n, at, q)
  <2> HIDE DEF q, at
  <2>1. QED
    BY <1>2, <1>3, LandBooks, LandMoves DEF StockSound
<1> HIDE DEF n, q
<1>5. /\ {"booked", "wasted", "lost"} \subseteq DOMAIN past' /\ past'.booked = past.booked + q
      /\ past'.wasted = past.wasted /\ past'.lost = past.lost
  BY <1>1 DEF StockSound
<1>6. StockMoves
  <2>1. q \in Int /\ Books(db, db', q)
    BY <1>1, <1>3, <1>4
  <2>2. QED
    BY <1>5, <2>1, BookedStep
<1>7. DOMAIN n = DOMAIN db /\ \A t \in DOMAIN db \ {"item", "layer"} : n[t] = db[t]
  BY <1>4 DEF Moved
<1>8. Keeps(BalanceTables) /\ db'.grnline = db.grnline
  BY <1>1, <1>7 DEF Keeps, BalanceTables, PurchasesTyped, PurchaseTables
<1>9. Alone'
  <2>1. req[p] # Idle
    BY <1>1 DEF Resuming, Idle
  <2> HIDE DEF r
  <2>2. QED
    BY <1>1, <2>1, AloneStaysAlone
<1>10. \A o \in Workers \ {p} : req'[o] = req[o] /\ req[o] = Idle
  BY <1>1 DEF Alone, Resuming, Idle
<1>11. req'[p] = r
  <2> HIDE DEF r
  <2>1. QED
    BY <1>1 DEF Alone
<1>12. WasteSound'
  <2>1. db'["waste"] = db["waste"]
    BY <1>1, <1>7 DEF StockSound, StockTyped, BalanceTables
  <2>2. WasteRests
    BY <1>5, <2>1 DEF WasteRests
  <2>3. NobodyWastes /\ NobodyWastes'
    BY <1>1, <1>10, <1>11 DEF NobodyWastes, Resuming, Idle
  <2>4. QED
    BY <2>2, <2>3, WasteStays
<1>13. todo \in [at : Warehouses \cup {None}, lines : SUBSET DOMAIN db.grnline] /\ todo.at = at
  BY <1>1 DEF ReceivingTyped
<1>14. ReceivingTyped'
  <2>1. ASSUME NEW o \in Workers, Resuming(o, "receiving")' PROVE o = p
    BY <1>10, <2>1 DEF Resuming, Idle
  <2>2. /\ req'[p].todo \in [at : Warehouses \cup {None}, lines : SUBSET DOMAIN db'.grnline]
        /\ req'[p].todo.lines # {} => req'[p].todo.at # None
    <3>1. req'[p].todo = todo
      BY <1>11
    <3>2. DOMAIN db'.grnline = DOMAIN db.grnline
      BY <1>8
    <3>3. todo \in [at : Warehouses \cup {None}, lines : SUBSET DOMAIN db'.grnline]
      BY <1>13, <3>2
    <3>4. todo.at # None
      BY <1>2, <1>13
    <3> HIDE DEF todo
    <3>5. QED
      BY <3>1, <3>3, <3>4
  <2> HIDE DEF r, todo, at
  <2>3. QED
    BY <2>1, <2>2 DEF ReceivingTyped
<1>15. QED
  BY <1>1, <1>6, <1>8, <1>9, <1>12, <1>14 DEF StepIsSound, Resuming, q

\* What the modules' handlers find and leave behind.
MaterialsSound ==
    /\ Alone /\ StockSound /\ WasteSound /\ ReceivingTyped
    /\ PurchasesTyped(db) /\ SalesTyped(db) /\ RunsTyped(db)

\* A step that leaves that behind and moves the stock as it may.
MaterialsStep == StepIsSound /\ PurchasesTyped(db') /\ SalesTyped(db') /\ RunsTyped(db')

\* Documents that are not written stay as they are.
LEMMA TypesKept ==
    ASSUME PurchasesTyped(db), SalesTyped(db), RunsTyped(db), NEW names, Keeps(names)
    PROVE  /\ names \cap PurchaseTables = {} => PurchasesTyped(db')
           /\ names \cap {"so", "salesconf"} = {} => SalesTyped(db')
           /\ names \cap {"bom", "prodorder"} = {} => RunsTyped(db')
<1>1. DOMAIN db' = DOMAIN db /\ \A t \in DOMAIN db \ names : db'[t] = db[t]
  BY DEF Keeps
<1>2. ASSUME names \cap PurchaseTables = {} PROVE PurchasesTyped(db')
  <2>1. PurchaseTables \subseteq DOMAIN db
    BY DEF PurchasesTyped
  <2>2. \A t \in PurchaseTables : db'[t] = db[t]
    BY <1>1, <1>2, <2>1
  <2>3. QED
    BY <1>1, <2>2, PurchasesUntouched
<1>3. ASSUME names \cap {"so", "salesconf"} = {} PROVE SalesTyped(db')
  <2>1. db'["so"] = db["so"] /\ db'["salesconf"] = db["salesconf"]
    BY <1>1, <1>3 DEF SalesTyped
  <2>2. QED
    BY <1>1, <2>1, SalesUntouched
<1>4. ASSUME names \cap {"bom", "prodorder"} = {} PROVE RunsTyped(db')
  <2>1. db'["bom"] = db["bom"] /\ db'["prodorder"] = db["prodorder"]
    BY <1>1, <1>4 DEF RunsTyped
  <2>2. QED
    BY <1>1, <2>1, RunsUntouched
<1>5. QED
  BY <1>2, <1>3, <1>4

\* A step on none of the typed documents.
LEMMA QuietMaterials ==
    ASSUME MaterialsSound, NEW names, StepIsSound, Keeps(names),
           names \cap (PurchaseTables \cup {"so", "salesconf", "bom", "prodorder"}) = {}
    PROVE  MaterialsStep
<1>1. /\ names \cap PurchaseTables = {} /\ names \cap {"so", "salesconf"} = {}
      /\ names \cap {"bom", "prodorder"} = {}
  OBVIOUS
<1>2. QED
  BY <1>1, TypesKept DEF MaterialsSound, MaterialsStep

\* A step on documents, none of them typed, that moves no goods.
LEMMA QuietDocuments ==
    ASSUME MaterialsSound, NobodyWastes, NEW p \in Workers, NEW names, Touches(p, names),
           names \cap (PurchaseTables \cup BalanceTables \cup {"so", "salesconf", "bom", "prodorder"}) = {}
    PROVE  MaterialsStep /\ Keeps(names)
<1>1. db'["grnline"] = db["grnline"]
  BY DEF Touches, MaterialsSound, PurchasesTyped, PurchaseTables
<1>2. StepIsSound /\ Keeps(names)
  <2>1. names \cap BalanceTables = {}
    OBVIOUS
  <2>2. QED
    BY <1>1, <2>1, TouchedStep DEF MaterialsSound
<1>3. names \cap (PurchaseTables \cup {"so", "salesconf", "bom", "prodorder"}) = {}
  OBVIOUS
<1>4. QED
  BY <1>2, <1>3, QuietMaterials

\* A step on purchase documents that moves no goods.
LEMMA PurchaseDocuments ==
    ASSUME MaterialsSound, NobodyWastes, NEW p \in Workers, NEW names, Touches(p, names), names \subseteq PurchaseTables,
           PurchasesTyped(db'), DOMAIN db.grnline \subseteq DOMAIN db'.grnline
    PROVE  MaterialsStep /\ Keeps(names)
<1>1. /\ names \cap BalanceTables = {} /\ names \cap {"so", "salesconf"} = {}
      /\ names \cap {"bom", "prodorder"} = {}
  BY DEF PurchaseTables, BalanceTables
<1>2. StepIsSound /\ Keeps(names)
  BY <1>1, TouchedStep DEF MaterialsSound
<1>3. QED
  BY <1>1, <1>2, TypesKept DEF MaterialsSound, MaterialsStep

\* Whoever writes an order, asks for other bank details or sells begins when nobody is at work.
LEMMA BeginsAtRest ==
    ASSUME ~ Concurrent, NEW p \in Workers
    PROVE  /\ OrderRoutes(p) \/ BankingChange(p) \/ SalesNext(p) => Serving(p)
           /\ OrderRoutes(p) \/ BankingChange(p) \/ SalesNext(p) => NobodyWastes
<1>1. ASSUME OrderRoutes(p) PROVE Serving(p)
  BY <1>1 DEF OrderRoutes, CreatePurchaseOrder, InitiatePoApproval, IssuePurchaseOrder, DecidePoApprovalStep
<1>2. ASSUME BankingChange(p) PROVE Serving(p)
  BY <1>2 DEF BankingChange, SubmitBankingChange, ApproveBankingChange, RejectBankingChange, Create, Turn
<1>3. ASSUME SettingsRoutes(p) \/ SalesOrderRoutes(p) PROVE Serving(p)
  BY <1>3 DEF SettingsRoutes, SaveSettings, SalesOrderRoutes, CreateOrder, EditOrder, ConfirmOrder, CancelOrder,
              Create, Turn, Amend
<1>4. ASSUME DeliveryRoutes(p) \/ PaymentRoutes(p) PROVE Serving(p)
  BY <1>4 DEF DeliveryRoutes, PaymentRoutes, Deliver, InvoiceDelivered, RecordPayment
<1>5. ASSUME NEW w, NEW q, Receive(p, w, q) PROVE Serving(p)
  BY <1>5 DEF Receive
<1>6. Serving(p) => NobodyWastes
  BY AtRest DEF Serving
<1>7. QED
  BY <1>1, <1>2, <1>3, <1>4, <1>5, <1>6 DEF SalesNext

\* A vendor registers.
LEMMA VendorStep ==
    ASSUME ~ Concurrent, MaterialsSound, NEW p \in Workers, CreateVendor(p)
    PROVE  MaterialsStep /\ Keeps({"vendor"}) /\ db'.vendor = Append(db.vendor, Vendor)
<1>1. Touches(p, {"vendor"}) /\ db' = [db EXCEPT !["vendor"] = Append(db["vendor"], Vendor)]
  BY CreateTouches DEF CreateVendor
<1>2. db'.grnline = db.grnline /\ db'.vendor = Append(db.vendor, Vendor)
  BY <1>1 DEF MaterialsSound, PurchasesTyped, PurchaseTables
<1>3. PurchasesTyped(db')
  BY VendorTyped DEF MaterialsSound
<1>4. {"vendor"} \subseteq PurchaseTables
  BY DEF PurchaseTables
<1>5. NobodyWastes
  BY AtRest DEF CreateVendor, Create, Serving
<1>6. MaterialsStep /\ Keeps({"vendor"})
  BY <1>1, <1>2, <1>3, <1>4, <1>5, PurchaseDocuments
<1>7. QED
  BY <1>2, <1>6

\* Sourcing moves no goods.
LEMMA SourcingStep ==
    ASSUME ~ Concurrent, MaterialsSound, NobodyWastes, NEW p \in Workers, SourcingNext(p)
    PROVE  MaterialsStep /\ Keeps(SourcingTables \cup {"vendor"})
<1>1. CreateVendor(p) \/ Touches(p, SourcingTables)
  <2>1. \/ VendorRoutes(p) \/ RatingRoutes(p) \/ RfqRoutes(p) \/ RequestRoutes(p)
        \/ \E k : DocumentExpires(k)
        \/ \E k, o : InstanceEnds(k, o)
    BY DEF SourcingNext
  <2>2. QED
    BY <2>1, SourcingTouches
<1>2. CASE CreateVendor(p)
  BY <1>2, VendorStep, KeepsMore
<1>3. CASE Touches(p, SourcingTables)
  <2>1. SourcingTables \cap (PurchaseTables \cup BalanceTables \cup {"so", "salesconf", "bom", "prodorder"}) = {}
    BY DEF SourcingTables, PurchaseTables, BalanceTables
  <2>2. MaterialsStep /\ Keeps(SourcingTables)
    BY <1>3, <2>1, QuietDocuments
  <2>3. QED
    BY <2>2, KeepsMore
<1>4. QED
  BY <1>1, <1>2, <1>3

\* A step of any request that leaves the tables of the stock alone.
LEMMA StockKept ==
    ASSUME StockSound, NEW names, Keeps(names), names \cap BalanceTables = {},
           {"booked", "wasted", "lost"} \subseteq DOMAIN past', past'.booked = past.booked
    PROVE  StockMoves
<1>1. DOMAIN db' = DOMAIN db /\ \A t \in BalanceTables : t \in DOMAIN db /\ db'[t] = db[t]
  BY DEF Keeps, StockSound, StockTyped
<1>2. /\ db'.item = db.item /\ db'.layer = db.layer /\ db'.transfer = db.transfer
      /\ db'.reserv = db.reserv /\ db'.count = db.count /\ db'.settings = db.settings
  BY <1>1 DEF BalanceTables
<1>3. StockTyped(db')
  BY <1>1, <1>2 DEF StockSound, StockTyped
<1>4. QED
  BY <1>2, <1>3, OtherStep

\* A request that begins and is not over with its first commit.
LEMMA RequestGoesOn ==
    ASSUME Alone, WasteSound, NEW p \in Workers, NEW r, \A q \in Workers : req[q] = Idle,
           req' = [req EXCEPT ![p] = r], r.at # "wasting", WasteRests
    PROVE  /\ Alone' /\ WasteSound'
           /\ req'[p] = r /\ \A q \in Workers \ {p} : req'[q] = Idle
<1>1. Alone'
  BY AloneStaysAlone
<1>2. req'[p] = r /\ \A q \in Workers \ {p} : req'[q] = Idle
  BY DEF Alone
<1>3. NobodyWastes /\ NobodyWastes'
  BY <1>2 DEF NobodyWastes, Resuming, Idle
<1>4. WasteSound'
  BY <1>3, WasteStays
<1>5. QED
  BY <1>1, <1>2, <1>4

\* A purchase order is written.
LEMMA OrderStep ==
    ASSUME ~ Concurrent, MaterialsSound, NEW p \in Workers, NEW v, NEW n \in Quantities, NEW lines \in OrderLines,
           CreatePurchaseOrder(p, v, n, lines)
    PROVE  MaterialsStep /\ Keeps({"po", "poline", "postep"})
<1>1. Touches(p, {"po", "poline", "postep"})
  BY OrderTouches
<1>2. db'["grnline"] = db["grnline"]
  BY <1>1 DEF Touches, MaterialsSound, PurchasesTyped, PurchaseTables
<1>3. PurchasesTyped(db')
  BY OrderTyped DEF MaterialsSound
<1>4. {"po", "poline", "postep"} \subseteq PurchaseTables
  BY DEF PurchaseTables
<1>5. NobodyWastes
  BY AtRest DEF CreatePurchaseOrder, Serving
<1>6. QED
  BY <1>1, <1>2, <1>3, <1>4, <1>5, PurchaseDocuments

\* A purchase order is written, approved or issued.
LEMMA OrderRoutesStep ==
    ASSUME ~ Concurrent, MaterialsSound, NEW p \in Workers, OrderRoutes(p)
    PROVE  MaterialsStep /\ Keeps({"po", "poline", "postep"})
<1>1. Touches(p, {"po", "poline", "postep"})
  BY OrderTouches
<1>2. db'["grnline"] = db["grnline"]
  BY <1>1 DEF Touches, MaterialsSound, PurchasesTyped, PurchaseTables
<1>3. PurchasesTyped(db')
  <2>1. ASSUME NEW v, NEW n \in Quantities, NEW lines \in OrderLines, CreatePurchaseOrder(p, v, n, lines)
        PROVE  PurchasesTyped(db')
    BY <2>1, OrderTyped DEF MaterialsSound
  <2>2. ASSUME NEW o, NEW n \in 0..2, InitiatePoApproval(p, o, n) PROVE PurchasesTyped(db')
    <3>1. PurchasesTyped(db) /\ n \in Nat
      BY DEF MaterialsSound
    <3>2. /\ PurchasesTyped(db')
          /\ o \in DOMAIN db.po /\ n > 0 /\ StepsOf(db, o) = {}
          /\ db'.po = [db.po EXCEPT ![o] = [db.po[o] EXCEPT !.status = "pending_approval"]]
          /\ db'.postep = db.postep \o [i \in 1..n |-> POApprovalStep(o, i)]
          /\ \A t \in DOMAIN db \ {"po", "postep"} : db'[t] = db[t]
      BY <2>2, <3>1, ApprovalInitiated, Zenon
    <3>3. QED
      BY <3>2
  <2>3. ASSUME NEW o, NEW waiver \in BOOLEAN, IssuePurchaseOrder(p, o, waiver) PROVE PurchasesTyped(db')
    BY <2>3, OrderIssued DEF MaterialsSound
  <2>4. ASSUME NEW k, NEW d \in {"approved", "rejected"}, DecidePoApprovalStep(p, k, d) PROVE PurchasesTyped(db')
    BY <2>4, StepDecided DEF MaterialsSound
  <2>5. QED
    BY <2>1, <2>2, <2>3, <2>4 DEF OrderRoutes
<1>4. {"po", "poline", "postep"} \subseteq PurchaseTables
  BY DEF PurchaseTables
<1>5. NobodyWastes
  BY BeginsAtRest
<1>6. QED
  BY <1>1, <1>2, <1>3, <1>4, <1>5, PurchaseDocuments

\* A receipt note is written.
LEMMA NoteStep ==
    ASSUME ~ Concurrent, MaterialsSound, NEW p \in Workers, NEW o, NEW w \in Warehouses \cup {None},
           NEW q \in Quantities, CreateGrn(p, o, w, q)
    PROVE  MaterialsStep /\ Keeps({"grn", "grnline"})
<1>1. Touches(p, {"grn", "grnline"})
  BY NoteTouches
<1>2. PurchasesTyped(db') /\ DOMAIN db.grnline \subseteq DOMAIN db'.grnline
  BY NoteWritten DEF MaterialsSound
<1>3. {"grn", "grnline"} \subseteq PurchaseTables
  BY DEF PurchaseTables
<1>4. NobodyWastes
  BY AtRest DEF CreateGrn, Serving
<1>5. QED
  BY <1>1, <1>2, <1>3, <1>4, PurchaseDocuments

\* A receipt note is confirmed, and its request goes on to receive the lines.
LEMMA ConfirmationStep ==
    ASSUME ~ Concurrent, MaterialsSound, NEW p \in Workers, NEW g, ConfirmGoodsReceipt(p, g)
    PROVE  /\ MaterialsStep /\ Keeps({"grn", "poline"})
           /\ req'[p].at = "receiving" /\ req'[p].todo.lines = TrackedLines(db, g)
           /\ \A q \in Workers \ {p} : req'[q] = Idle
<1> DEFINE todo == [at |-> db.grn[g].at, lines |-> TrackedLines(db, g)]
           r == [at |-> "receiving", todo |-> todo, seen |-> <<>>]
<1>1. p \in DOMAIN req
  BY DEF MaterialsSound, Alone
<1>2. /\ PurchasesTyped(db')
      /\ g \in DOMAIN db.grn
      /\ \A t \in DOMAIN db \ {"grn", "poline"} : db'[t] = db[t]
      /\ DOMAIN db' = DOMAIN db
      /\ past' = past
      /\ \A q \in Workers : req[q] = Idle
      /\ TrackedLines(db, g) # {} => db.grn[g].at # None
  BY <1>1, NoteConfirmed DEF MaterialsSound
<1>3. Keeps({"grn", "poline"})
  BY <1>2 DEF Keeps
<1>4. req' = [req EXCEPT ![p] = r]
  BY SerialRows DEF ConfirmGoodsReceipt, CommitThen, GoOn
<1>5. {"booked", "wasted", "lost"} \subseteq DOMAIN past'
  BY <1>2 DEF MaterialsSound, StockSound
<1>6. StockMoves
  <2>1. {"grn", "poline"} \cap BalanceTables = {}
    BY DEF BalanceTables
  <2>2. QED
    BY <1>2, <1>3, <1>5, <2>1, StockKept DEF MaterialsSound
<1>7. r.at = "receiving" /\ r.todo = todo
  OBVIOUS
<1>8. todo \in [at : Warehouses \cup {None}, lines : SUBSET DOMAIN db'.grnline]
  <2>1. db'["grnline"] = db["grnline"]
    BY <1>2 DEF MaterialsSound, PurchasesTyped, PurchaseTables
  <2>2. db.grn[g].at \in Warehouses \cup {None}
    <3>1. db.grn[g] \in NoteRows
      BY <1>2, TableRows DEF MaterialsSound, PurchasesTyped
    <3>2. QED
      BY <3>1 DEF NoteRows
  <2>3. TrackedLines(db, g) \subseteq DOMAIN db'.grnline
    BY <2>1 DEF TrackedLines, NoteLines
  <2>4. QED
    BY <2>2, <2>3
<1>9. todo.lines = TrackedLines(db, g) /\ todo.at = db.grn[g].at
  OBVIOUS
<1> HIDE DEF r, todo
<1>10. Alone' /\ WasteSound' /\ req'[p] = r /\ \A q \in Workers \ {p} : req'[q] = Idle
  <2>1. WasteRests
    BY <1>2, <1>5 DEF WasteRests, MaterialsSound, StockSound, StockTyped, BalanceTables
  <2>2. QED
    BY <1>2, <1>4, <1>7, <2>1, RequestGoesOn DEF MaterialsSound
<1>11. ReceivingTyped'
  <2>1. ASSUME NEW q \in Workers, Resuming(q, "receiving")' PROVE q = p
    BY <1>10, <2>1 DEF Resuming, Idle
  <2>2. /\ req'[p].todo \in [at : Warehouses \cup {None}, lines : SUBSET DOMAIN db'.grnline]
        /\ req'[p].todo.lines # {} => req'[p].todo.at # None
    BY <1>2, <1>7, <1>8, <1>9, <1>10
  <2>3. QED
    BY <2>1, <2>2 DEF ReceivingTyped
<1>12. SalesTyped(db') /\ RunsTyped(db')
  <2>1. {"grn", "poline"} \cap {"so", "salesconf"} = {} /\ {"grn", "poline"} \cap {"bom", "prodorder"} = {}
    OBVIOUS
  <2>2. QED
    BY <1>3, <2>1, TypesKept DEF MaterialsSound
<1>13. QED
  BY <1>2, <1>3, <1>6, <1>7, <1>9, <1>10, <1>11, <1>12 DEF MaterialsStep, StepIsSound

\* Receipt notes are written, confirmed and received; invoices are matched.
LEMMA PurchasingStep ==
    ASSUME ~ Concurrent, MaterialsSound, NobodyWastes, NEW p \in Workers, PurchasingNext(p)
    PROVE  /\ MaterialsStep
           /\ Keeps(PurchaseTables \cup SourcingTables \cup BalanceTables \cup {"match"})
<1> DEFINE names == PurchaseTables \cup SourcingTables \cup BalanceTables \cup {"match"}
<1>1. CASE CreateVendor(p)
  <2>1. MaterialsStep /\ Keeps({"vendor"})
    BY <1>1, VendorStep
  <2>2. {"vendor"} \subseteq names
    BY DEF PurchaseTables
  <2> HIDE DEF names
  <2>3. Keeps(names)
    BY <2>1, <2>2, KeepsMore
  <2>4. QED
    BY <2>1, <2>3 DEF names
<1>2. CASE Touches(p, SourcingTables)
  <2>1. SourcingTables \cap (PurchaseTables \cup BalanceTables \cup {"so", "salesconf", "bom", "prodorder"}) = {}
    BY DEF SourcingTables, PurchaseTables, BalanceTables
  <2>2. MaterialsStep /\ Keeps(SourcingTables)
    BY <1>2, <2>1, QuietDocuments
  <2>3. Keeps(names)
    BY <2>2, KeepsMore
  <2>4. QED
    BY <2>2, <2>3
<1>3. CASE OrderRoutes(p)
  <2>1. MaterialsStep /\ Keeps({"po", "poline", "postep"})
    BY <1>3, OrderRoutesStep
  <2>2. {"po", "poline", "postep"} \subseteq names
    BY DEF PurchaseTables
  <2> HIDE DEF names
  <2>3. Keeps(names)
    BY <2>1, <2>2, KeepsMore
  <2>4. QED
    BY <2>1, <2>3 DEF names
<1>4. ASSUME NEW o, NEW w \in Warehouses \cup {None}, NEW q \in Quantities, CreateGrn(p, o, w, q)
      PROVE  MaterialsStep /\ Keeps(names)
  <2>1. MaterialsStep /\ Keeps({"grn", "grnline"})
    BY <1>4, NoteStep
  <2>2. {"grn", "grnline"} \subseteq names
    BY DEF PurchaseTables
  <2> HIDE DEF names
  <2>3. QED
    BY <2>1, <2>2, KeepsMore
<1>5. ASSUME NEW g, ConfirmGoodsReceipt(p, g) PROVE MaterialsStep /\ Keeps(names)
  <2>1. MaterialsStep /\ Keeps({"grn", "poline"})
    BY <1>5, ConfirmationStep
  <2>2. {"grn", "poline"} \subseteq names
    BY DEF PurchaseTables
  <2> HIDE DEF names
  <2>3. QED
    BY <2>1, <2>2, KeepsMore
<1>6. ASSUME NEW k, ReceiveNoteLine(p, k) PROVE MaterialsStep /\ Keeps(names)
  <2>1. StepIsSound /\ Keeps(BalanceTables)
    BY <1>6, NoteLineReceived DEF MaterialsSound
  <2>2. BalanceTables \cap (PurchaseTables \cup {"so", "salesconf", "bom", "prodorder"}) = {}
    BY DEF BalanceTables, PurchaseTables
  <2>3. MaterialsStep
    BY <2>1, <2>2, QuietMaterials
  <2>4. Keeps(names)
    BY <2>1, KeepsMore
  <2>5. QED
    BY <2>3, <2>4
<1>7. CASE AllReceived(p)
  <2>1. Touches(p, {})
    BY <1>7 DEF AllReceived, Finish, Touches
  <2>2. MaterialsStep /\ Keeps({})
    BY <2>1, QuietDocuments
  <2>3. Keeps(names)
    BY <2>2, KeepsMore
  <2>4. QED
    BY <2>2, <2>3
<1>8. CASE MatchRoutes(p)
  <2>1. Touches(p, {"match"})
    BY <1>8, MatchTouches
  <2>2. {"match"} \cap (PurchaseTables \cup BalanceTables \cup {"so", "salesconf", "bom", "prodorder"}) = {}
    BY DEF PurchaseTables, BalanceTables
  <2>3. MaterialsStep /\ Keeps({"match"})
    BY <2>1, <2>2, QuietDocuments
  <2>4. Keeps(names)
    BY <2>3, KeepsMore
  <2>5. QED
    BY <2>3, <2>4
<1>9. VendorRoutes(p) => CreateVendor(p) \/ Touches(p, SourcingTables)
  BY SourcingTouches
<1> HIDE DEF names
<1>10. PurchasingNext(p) => MaterialsStep /\ Keeps(names)
  <2>1. VendorRoutes(p) => MaterialsStep /\ Keeps(names)
    BY <1>1, <1>2, <1>9 DEF names
  <2>2. OrderRoutes(p) \/ MatchRoutes(p) => MaterialsStep /\ Keeps(names)
    BY <1>3, <1>8 DEF names
  <2>3. GoodsReceiptRoutes(p) => MaterialsStep /\ Keeps(names)
    <3>1. ASSUME NEW o, NEW w \in Warehouses \cup {None}, NEW q \in Quantities, CreateGrn(p, o, w, q)
          PROVE  MaterialsStep /\ Keeps(names)
      BY <1>4, <3>1 DEF names
    <3>2. ASSUME NEW g, ConfirmGoodsReceipt(p, g) PROVE MaterialsStep /\ Keeps(names)
      BY <1>5, <3>2 DEF names
    <3>3. ASSUME NEW k, ReceiveNoteLine(p, k) PROVE MaterialsStep /\ Keeps(names)
      BY <1>6, <3>3 DEF names
    <3>4. AllReceived(p) => MaterialsStep /\ Keeps(names)
      BY <1>7 DEF names
    <3>5. QED
      BY <3>1, <3>2, <3>3, <3>4 DEF GoodsReceiptRoutes
  <2>4. QED
    BY <2>1, <2>2, <2>3 DEF PurchasingNext
<1>11. QED
  BY <1>10 DEF names

\* Quotes are asked for, given, revised and declined.
LEMMA TenderingStep ==
    ASSUME ~ Concurrent, MaterialsSound, NobodyWastes, NEW p \in Workers, TenderingNext(p)
    PROVE  MaterialsStep /\ Keeps({"rfq", "invitation", "quotation"})
<1>1. Touches(p, {"rfq", "invitation", "quotation"})
  BY QuoteTouches DEF TenderingNext
<1>2. {"rfq", "invitation", "quotation"} \cap
        (PurchaseTables \cup BalanceTables \cup {"so", "salesconf", "bom", "prodorder"}) = {}
  BY DEF PurchaseTables, BalanceTables
<1>3. QED
  BY <1>1, <1>2, QuietDocuments

\* Banking details are asked for and decided on.
LEMMA BankingChangeStep ==
    ASSUME ~ Concurrent, MaterialsSound, NEW p \in Workers, BankingChange(p)
    PROVE  MaterialsStep /\ Keeps({"bankchange", "vendor"})
<1>1. PurchasesTyped(db')
  <2>1. ASSUME NEW v \in DOMAIN db.vendor, NEW n \in BankDetails, SubmitBankingChange(p, v, n)
        PROVE  PurchasesTyped(db')
    BY <2>1, ChangeAsked DEF MaterialsSound
  <2>2. ASSUME NEW k, ApproveBankingChange(p, k) PROVE PurchasesTyped(db')
    BY <2>2, ChangeApproved DEF MaterialsSound
  <2>3. ASSUME NEW k, RejectBankingChange(p, k) PROVE PurchasesTyped(db')
    BY <2>3, ChangeRejected DEF MaterialsSound
  <2>4. QED
    BY <2>1, <2>2, <2>3 DEF BankingChange
<1>2. Touches(p, {"bankchange", "vendor"})
  <2>1. ASSUME NEW v, NEW n, SubmitBankingChange(p, v, n) PROVE Touches(p, {"bankchange"})
    BY <2>1, CreateTouches DEF SubmitBankingChange
  <2>2. ASSUME NEW k, ApproveBankingChange(p, k) PROVE Touches(p, {"bankchange", "vendor"})
    BY <2>2, SerialRows DEF ApproveBankingChange, Commit, Finish, Touches
  <2>3. ASSUME NEW k, RejectBankingChange(p, k) PROVE Touches(p, {"bankchange"})
    BY <2>3, TurnTouches DEF RejectBankingChange
  <2>4. Touches(p, {"bankchange"}) => Touches(p, {"bankchange", "vendor"})
    BY TouchesMore
  <2>5. QED
    BY <2>1, <2>2, <2>3, <2>4 DEF BankingChange
<1>3. db'["grnline"] = db["grnline"]
  BY <1>2 DEF Touches, MaterialsSound, PurchasesTyped, PurchaseTables
<1>4. {"bankchange", "vendor"} \subseteq PurchaseTables
  BY DEF PurchaseTables
<1>5. NobodyWastes
  BY BeginsAtRest
<1>6. QED
  BY <1>1, <1>2, <1>3, <1>4, <1>5, PurchaseDocuments

PortalTableNames == {"po", "poline", "postep", "bankchange", "vendor", "acknowledgment", "upload"}

\* Vendors acknowledge, invoice and ask for changes on their portal.
LEMMA VendorPortalStep ==
    ASSUME ~ Concurrent, MaterialsSound, NobodyWastes, NEW p \in Workers, VendorPortalNext(p)
    PROVE  MaterialsStep /\ Keeps(PortalTableNames)
<1>1. ASSUME NEW v, NEW n \in Quantities, NEW lines \in OrderLines, CreatePurchaseOrder(p, v, n, lines)
      PROVE  MaterialsStep /\ Keeps(PortalTableNames)
  <2>1. MaterialsStep /\ Keeps({"po", "poline", "postep"})
    BY <1>1, OrderStep
  <2>2. {"po", "poline", "postep"} \subseteq PortalTableNames
    BY DEF PortalTableNames
  <2>3. QED
    BY <2>1, <2>2, KeepsMore
<1>2. CASE BankingChange(p)
  <2>1. {"bankchange", "vendor"} \subseteq PortalTableNames
    BY DEF PortalTableNames
  <2>2. QED
    BY <1>2, <2>1, BankingChangeStep, KeepsMore
<1>3. CASE Touches(p, {"acknowledgment", "upload"})
  <2>1. {"acknowledgment", "upload"} \cap
          (PurchaseTables \cup BalanceTables \cup {"so", "salesconf", "bom", "prodorder"}) = {}
    BY DEF PurchaseTables, BalanceTables
  <2>2. MaterialsStep /\ Keeps({"acknowledgment", "upload"})
    BY <1>3, <2>1, QuietDocuments
  <2>3. {"acknowledgment", "upload"} \subseteq PortalTableNames
    BY DEF PortalTableNames
  <2>4. QED
    BY <2>2, <2>3, KeepsMore
<1>4. QED
  BY <1>1, <1>2, <1>3, PortalTouches DEF VendorPortalNext

\* Batches, serial numbers and reorder levels; goods received by hand.
LEMMA TraceabilityStep ==
    ASSUME ~ Concurrent, MaterialsSound, NobodyWastes, NEW p \in Workers, TraceabilityNext(p)
    PROVE  MaterialsStep /\ Keeps(BalanceTables \cup {"itemcode", "batch", "serial", "reorder"})
<1>1. ASSUME NEW w \in Warehouses, NEW q \in Quantities, Receive(p, w, q)
      PROVE  MaterialsStep /\ Keeps(BalanceTables)
  <2>1. StepIsSound /\ Keeps(BalanceTables)
    BY <1>1, ReceiptStep DEF MaterialsSound
  <2>2. BalanceTables \cap (PurchaseTables \cup {"so", "salesconf", "bom", "prodorder"}) = {}
    BY DEF BalanceTables, PurchaseTables
  <2>3. QED
    BY <2>1, <2>2, QuietMaterials
<1>2. ASSUME Touches(p, {"itemcode", "batch", "serial", "reorder"})
      PROVE  MaterialsStep /\ Keeps({"itemcode", "batch", "serial", "reorder"})
  <2>1. {"itemcode", "batch", "serial", "reorder"} \cap
          (PurchaseTables \cup BalanceTables \cup {"so", "salesconf", "bom", "prodorder"}) = {}
    BY DEF PurchaseTables, BalanceTables
  <2>2. QED
    BY <1>2, <2>1, QuietDocuments
<1>3. TraceabilityRoutes(p) \/ ReorderRoutes(p) => Touches(p, {"itemcode", "batch", "serial", "reorder"})
  BY TraceabilityTouches
<1>4. \/ MaterialsStep /\ Keeps(BalanceTables)
      \/ MaterialsStep /\ Keeps({"itemcode", "batch", "serial", "reorder"})
  BY <1>1, <1>2, <1>3 DEF TraceabilityNext
<1>5. QED
  BY <1>4, KeepsMore

\* A payable is posted, and its request goes on to record the invoice.
LEMMA PayableStep ==
    ASSUME ~ Concurrent, MaterialsSound, NEW p \in Workers, NEW d, NEW n, NEW c, NEW g, NEW b, PostApInvoice(p, d, n, c, g, b)
    PROVE  /\ MaterialsStep /\ Keeps({"entry"})
           /\ \A q \in Workers : req[q] = Idle
           /\ req'[p].at = "payable" /\ \A q \in Workers \ {p} : req'[q] = Idle
<1> DEFINE lines == <<Debit("expense", n, c), Credit("payable", n)>>
           todo == [entry |-> Len(db'.entry), amount |-> n, code |-> c, budget |-> b]
           r == [at |-> "payable", todo |-> todo, seen |-> <<>>]
<1>1. /\ db' = Post(db, "ap", d, lines)
      /\ req' = [req EXCEPT ![p] = r]
      /\ past' = past
      /\ \A q \in Workers : req[q] = Idle
  <2>1. /\ Serving(p)
        /\ CommitThen(p, Post(Seen(p), "ap", d, lines), "payable", todo)
    BY DEF PostApInvoice
  <2> HIDE DEF lines, todo
  <2>2. QED
    BY <2>1, SerialRows DEF CommitThen, GoOn
<1>2. r.at = "payable"
  OBVIOUS
<1> HIDE DEF lines, todo, r
<1>3. Keeps({"entry"})
  BY <1>1 DEF Keeps, Post, Insert
<1>4. {"booked", "wasted", "lost"} \subseteq DOMAIN past'
  BY <1>1 DEF MaterialsSound, StockSound
<1>5. StockMoves
  <2>1. {"entry"} \cap BalanceTables = {}
    BY DEF BalanceTables
  <2>2. QED
    BY <1>1, <1>3, <1>4, <2>1, StockKept DEF MaterialsSound
<1>6. Alone' /\ WasteSound' /\ req'[p] = r /\ \A q \in Workers \ {p} : req'[q] = Idle
  <2>1. WasteRests
    BY <1>1, <1>3, <1>4 DEF WasteRests, Keeps, MaterialsSound, StockSound, StockTyped, BalanceTables
  <2>2. QED
    BY <1>1, <1>2, <2>1, RequestGoesOn DEF MaterialsSound
<1>7. ReceivingTyped'
  BY <1>2, <1>6 DEF ReceivingTyped, Resuming, Idle
<1>8. {"entry"} \cap (PurchaseTables \cup {"so", "salesconf", "bom", "prodorder"}) = {}
  BY DEF PurchaseTables
<1>9. MaterialsStep
  BY <1>3, <1>5, <1>6, <1>7, <1>8, QuietMaterials DEF StepIsSound
<1>10. QED
  BY <1>1, <1>2, <1>3, <1>6, <1>9

\* Postings, statements and the bank.
LEMMA LedgerStep ==
    ASSUME ~ Concurrent, MaterialsSound, NobodyWastes, NEW p \in Workers, PostingNext(p) \/ BankingNext(p)
    PROVE  MaterialsStep /\ Keeps(LedgerTableNames)
<1>1. ASSUME NEW d, NEW n, NEW c, NEW g, NEW b, PostApInvoice(p, d, n, c, g, b)
      PROVE  MaterialsStep /\ Keeps(LedgerTableNames)
  <2>1. {"entry"} \subseteq LedgerTableNames
    BY DEF LedgerTableNames
  <2>2. QED
    BY <1>1, <2>1, PayableStep, KeepsMore
<1>2. CASE Touches(p, LedgerTableNames)
  <2>1. LedgerTableNames \cap (PurchaseTables \cup BalanceTables \cup {"so", "salesconf", "bom", "prodorder"}) = {}
    BY DEF LedgerTableNames, PurchaseTables, BalanceTables
  <2>2. QED
    BY <1>2, <2>1, QuietDocuments
<1>3. \/ \E d, n : PostArInvoice(p, d, n)
      \/ RecordApInvoice(p) \/ LedgerRoutes(p) \/ BankRoutes(p) \/ StatementRoutes(p)
      \/ \E d, n, c, g, b : PostApInvoice(p, d, n, c, g, b)
  BY DEF PostingNext, BankingNext, InvoiceRoutes
<1>4. QED
  BY <1>1, <1>2, <1>3, LedgerTouches

DeliveryTables == SalesDocuments \cup BalanceTables \cup {"delivery"}

\* Goods are delivered against a sales order.
LEMMA DeliveryStep ==
    ASSUME ~ Concurrent, MaterialsSound, NEW p \in Workers, NEW o, NEW q \in Nat, Deliver(p, o, q)
    PROVE  MaterialsStep /\ Keeps({"so", "delivery", "entry"} \cup BalanceTables)
<1> DEFINE names == {"so", "delivery", "entry"} \cup BalanceTables
<1>1. /\ StockMoves /\ SalesTyped(db')
      /\ \A t \in DOMAIN db \ names : db'[t] = db[t]
      /\ DOMAIN db' = DOMAIN db /\ db'["waste"] = db["waste"]
      /\ req' = [req EXCEPT ![p] = Idle]
      /\ past' = [past EXCEPT !.booked = @ + -q]
  BY SalesDelivered DEF MaterialsSound
<1>2. Keeps(names)
  BY <1>1 DEF Keeps
<1>3. names \cap PurchaseTables = {} /\ names \cap {"bom", "prodorder"} = {}
  BY DEF BalanceTables, PurchaseTables
<1> HIDE DEF names
<1>4. PurchasesTyped(db') /\ RunsTyped(db')
  BY <1>2, <1>3, TypesKept DEF MaterialsSound
<1>5. db'["grnline"] = db["grnline"]
  BY <1>1, <1>3 DEF PurchaseTables, MaterialsSound, PurchasesTyped
<1>6. Alone' /\ WasteSound' /\ ReceivingTyped'
  <2>1. \E entry : past' = [past EXCEPT !.booked = @ + entry]
    BY <1>1
  <2>2. NobodyWastes
    BY AtRest DEF Deliver, Serving
  <2>3. QED
    BY <1>1, <1>5, <2>1, <2>2, BookedRequests DEF MaterialsSound
<1>7. QED
  BY <1>1, <1>2, <1>4, <1>6 DEF MaterialsStep, StepIsSound, names

\* Sales.
LEMMA SalesStep ==
    ASSUME ~ Concurrent, MaterialsSound, NEW p \in Workers, SalesNext(p)
    PROVE  MaterialsStep /\ Keeps(DeliveryTables)
<1>1. ASSUME SettingsRoutes(p) \/ SalesOrderRoutes(p) \/ PaymentRoutes(p) \/ \E o : InvoiceDelivered(p, o)
      PROVE  MaterialsStep /\ Keeps(DeliveryTables)
  <2>1. Touches(p, SalesDocuments)
    BY <1>1, SalesTouches
  <2>2. SalesTyped(db')
    <3>1. ASSUME NEW w \in Warehouses, NEW n \in 1..2, NEW price \in Prices, CreateOrder(p, w, n, price)
          PROVE  SalesTyped(db')
      BY <3>1, SalesOrderCreated DEF MaterialsSound
    <3>2. ASSUME NEW o, NEW w \in Warehouses, NEW n \in 1..2, NEW price \in Prices, EditOrder(p, o, w, n, price)
          PROVE  SalesTyped(db')
      <4>1. SalesTyped(db) /\ n \in Nat
        BY DEF MaterialsSound
      <4>2. QED
        BY <3>2, <4>1, SalesOrderEdited
    <3>3. ASSUME NEW o, ConfirmOrder(p, o) \/ CancelOrder(p, o) PROVE SalesTyped(db')
      BY <3>3, SalesOrderTurned DEF MaterialsSound
    <3>4. CASE SettingsRoutes(p)
      BY <3>4, SettingsSaved DEF MaterialsSound
    <3>5. ASSUME NEW o, InvoiceDelivered(p, o) PROVE SalesTyped(db')
      BY <3>5, SalesInvoiced DEF MaterialsSound
    <3>6. CASE PaymentRoutes(p)
      BY <3>6, SalesPaid DEF MaterialsSound, PaymentRoutes
    <3>7. QED
      BY <1>1, <3>1, <3>2, <3>3, <3>4, <3>5, <3>6 DEF SalesOrderRoutes
  <2>3. /\ SalesDocuments \cap BalanceTables = {}
        /\ SalesDocuments \cap PurchaseTables = {} /\ SalesDocuments \cap {"bom", "prodorder"} = {}
    BY DEF SalesDocuments, BalanceTables, PurchaseTables
  <2>4. db'["grnline"] = db["grnline"]
    BY <2>1, <2>3 DEF Touches, PurchaseTables, MaterialsSound, PurchasesTyped
  <2>5. StepIsSound /\ Keeps(SalesDocuments)
    BY <2>1, <2>3, <2>4, BeginsAtRest, TouchedStep DEF MaterialsSound
  <2>6. PurchasesTyped(db') /\ RunsTyped(db')
    BY <2>3, <2>5, TypesKept DEF MaterialsSound
  <2>7. SalesDocuments \subseteq DeliveryTables
    BY DEF DeliveryTables
  <2>8. QED
    BY <2>2, <2>5, <2>6, <2>7, KeepsMore DEF MaterialsStep
<1>2. ASSUME NEW o, NEW q \in 1..2, Deliver(p, o, q) PROVE MaterialsStep /\ Keeps(DeliveryTables)
  <2>1. q \in Nat
    OBVIOUS
  <2>2. MaterialsStep /\ Keeps({"so", "delivery", "entry"} \cup BalanceTables)
    BY <1>2, <2>1, DeliveryStep
  <2>3. {"so", "delivery", "entry"} \cup BalanceTables \subseteq DeliveryTables
    BY DEF DeliveryTables, SalesDocuments
  <2>4. QED
    BY <2>2, <2>3, KeepsMore
<1>3. ASSUME NEW w \in Warehouses, NEW q \in Quantities, Receive(p, w, q)
      PROVE  MaterialsStep /\ Keeps(DeliveryTables)
  <2>1. StepIsSound /\ Keeps(BalanceTables)
    BY <1>3, ReceiptStep DEF MaterialsSound
  <2>2. BalanceTables \cap (PurchaseTables \cup {"so", "salesconf", "bom", "prodorder"}) = {}
    BY DEF BalanceTables, PurchaseTables
  <2>3. BalanceTables \subseteq DeliveryTables
    BY DEF DeliveryTables
  <2>4. QED
    BY <2>1, <2>2, <2>3, QuietMaterials, KeepsMore
<1>4. QED
  BY <1>1, <1>2, <1>3 DEF SalesNext, DeliveryRoutes

\* Fuel moves no goods; a dip reading is remembered in past.
LEMMA DipStep ==
    ASSUME ~ Concurrent, MaterialsSound, NobodyWastes, NEW p \in Workers, NEW t, NEW n, ReconcileTank(p, t, n)
    PROVE  MaterialsStep /\ Keeps({"tank", "flag"})
<1>1. /\ DOMAIN db' = DOMAIN db
      /\ \A u \in DOMAIN db \ {"tank", "flag"} : db'[u] = db[u]
      /\ req' = [req EXCEPT ![p] = Idle]
      /\ past' = [past EXCEPT !.dipped = @ + n - db.tank[t].level]
  BY DipTouches
<1>2. Keeps({"tank", "flag"}) /\ Ends(p)
  BY <1>1 DEF Keeps, Ends
<1>3. /\ {"booked", "wasted", "lost"} \subseteq DOMAIN past' /\ past'.booked = past.booked
      /\ WasteRests
  BY <1>1 DEF WasteRests, MaterialsSound, StockSound, StockTyped, BalanceTables
<1>4. StockMoves
  <2>1. {"tank", "flag"} \cap BalanceTables = {}
    BY DEF BalanceTables
  <2>2. QED
    BY <1>2, <1>3, <2>1, StockKept DEF MaterialsSound
<1>5. db'["grnline"] = db["grnline"]
  BY <1>1 DEF PurchaseTables, MaterialsSound, PurchasesTyped
<1>6. Alone' /\ WasteSound' /\ ReceivingTyped'
  BY <1>2, <1>3, <1>5, RequestEnds DEF MaterialsSound
<1>7. {"tank", "flag"} \cap (PurchaseTables \cup {"so", "salesconf", "bom", "prodorder"}) = {}
  BY DEF PurchaseTables
<1>8. QED
  BY <1>2, <1>4, <1>6, <1>7, QuietMaterials DEF StepIsSound

\* Fuel moves no goods.
LEMMA FuelDocuments ==
    ASSUME MaterialsSound, NobodyWastes, NEW p \in Workers, Touches(p, FuelTableNames)
    PROVE  MaterialsStep /\ Keeps(FuelTableNames)
<1>1. FuelTableNames \cap (PurchaseTables \cup BalanceTables \cup {"so", "salesconf", "bom", "prodorder"}) = {}
  BY DEF FuelTableNames, PurchaseTables, BalanceTables
<1>2. QED
  BY <1>1, QuietDocuments

\* Tanks are filled, read and drawn on.
LEMMA FuelStep ==
    ASSUME ~ Concurrent, MaterialsSound, NobodyWastes, NEW p \in Workers, FuelNext(p)
    PROVE  MaterialsStep /\ Keeps(FuelTableNames)
<1>1. ASSUME NEW t, NEW n, ReconcileTank(p, t, n) PROVE MaterialsStep /\ Keeps(FuelTableNames)
  <2>1. {"tank", "flag"} \subseteq FuelTableNames
    BY DEF FuelTableNames
  <2>2. QED
    BY <1>1, <2>1, DipStep, KeepsMore
<1>2. \/ \E t, n : ReconcileTank(p, t, n)
      \/ CreateTank(p) \/ FuelPurchaseRoutes(p) \/ FuelIssueRoutes(p) \/ FuelVarianceRoutes(p)
      \/ \E k : FlagAges(k)
  BY DEF FuelNext, TankRoutes
<1>3. QED
  BY <1>1, <1>2, FuelTouches, FuelDocuments

ProductionTables ==
    FuelTableNames \cup BalanceTables \cup {"center", "bom", "prodorder", "batch"}

\* A production order is completed.
LEMMA CompletionStep ==
    ASSUME ~ Concurrent, MaterialsSound, NobodyWastes, NEW p \in Workers, NEW o, NEW produced \in Nat, NEW scrapped \in Nat,
           NEW override \in Nat, NEW fuel \in Nat, NEW status,
           CompleteOrder(p, o, produced, scrapped, override, fuel, status)
    PROVE  MaterialsStep /\ Keeps({"tank", "fuelissue", "batch", "prodorder"} \cup BalanceTables)
<1> DEFINE names == {"tank", "fuelissue", "batch", "prodorder"} \cup BalanceTables
<1>1. /\ StockMoves /\ RunsTyped(db')
      /\ \A t \in DOMAIN db \ names : db'[t] = db[t]
      /\ DOMAIN db' = DOMAIN db /\ db'["waste"] = db["waste"]
      /\ req' = [req EXCEPT ![p] = Idle]
      /\ \E entry : past' = [past EXCEPT !.booked = @ + entry]
  BY RunCompleted DEF MaterialsSound
<1>2. Keeps(names)
  BY <1>1 DEF Keeps
<1>3. names \cap PurchaseTables = {} /\ names \cap {"so", "salesconf"} = {}
  BY DEF BalanceTables, PurchaseTables
<1> HIDE DEF names
<1>4. PurchasesTyped(db') /\ SalesTyped(db')
  BY <1>2, <1>3, TypesKept DEF MaterialsSound
<1>5. db'["grnline"] = db["grnline"]
  BY <1>1, <1>3 DEF PurchaseTables, MaterialsSound, PurchasesTyped
<1>6. Alone' /\ WasteSound' /\ ReceivingTyped'
  BY <1>1, <1>5, BookedRequests DEF MaterialsSound
<1>7. QED
  BY <1>1, <1>2, <1>4, <1>6 DEF MaterialsStep, StepIsSound, names

\* Work centers, bills and runs.
LEMMA ProductionStep ==
    ASSUME ~ Concurrent, MaterialsSound, NobodyWastes, NEW p \in Workers, ManufacturingNext(p)
    PROVE  MaterialsStep /\ Keeps(ProductionTables)
<1>1. ASSUME \/ CenterRoutes(p) \/ BomRoutes(p)
             \/ \E b \in 1..MaxRows.bom, n \in {1, 2}, c \in 0..MaxRows.center : CreateProductionOrder(p, b, n, c)
             \/ \E o : ReleaseOrder(p, o) \/ StartOrder(p, o) \/ CancelProduction(p, o)
      PROVE  MaterialsStep /\ Keeps(ProductionTables)
  <2> DEFINE names == {"center", "bom", "prodorder"}
  <2>1. Touches(p, names)
    BY <1>1, ProductionTouches
  <2>2. /\ names \cap BalanceTables = {} /\ names \cap PurchaseTables = {}
        /\ names \cap {"so", "salesconf"} = {} /\ names \subseteq ProductionTables
    BY DEF BalanceTables, PurchaseTables, ProductionTables
  <2>3. RunsTyped(db')
    <3>1. ASSUME CenterRoutes(p) PROVE RunsTyped(db')
      <4>1. ASSUME NEW m, CreateWorkCenter(p, m) PROVE Touches(p, {"center"})
        BY <4>1, CreateTouches DEF CreateWorkCenter
      <4>2. ASSUME NEW k, NEW a, UpdateWorkCenter(p, k, a) PROVE Touches(p, {"center"})
        BY <4>2, SerialRows DEF UpdateWorkCenter, Amend, Commit, Finish, Touches
      <4>3. Touches(p, {"center"})
        BY <3>1, <4>1, <4>2 DEF CenterRoutes
      <4>4. db'["bom"] = db["bom"] /\ db'["prodorder"] = db["prodorder"] /\ DOMAIN db' = DOMAIN db
        BY <4>3 DEF Touches, MaterialsSound, RunsTyped
      <4>5. QED
        BY <4>4, RunsUntouched DEF MaterialsSound
    <3>2. ASSUME NEW f \in Warehouses, NEW c \in Warehouses, NEW n \in {1, 2}, CreateBom(p, f, c, n)
          PROVE  RunsTyped(db')
      BY <3>2, BillWritten DEF MaterialsSound
    <3>3. ASSUME NEW b, NEW n \in {1, 2}, NEW a \in BOOLEAN, ReplaceBom(p, b, n, a) PROVE RunsTyped(db')
      BY <3>3, BillReplaced DEF MaterialsSound
    <3>4. ASSUME NEW b, NEW n \in {1, 2}, NEW c \in 0..MaxRows.center, CreateProductionOrder(p, b, n, c)
          PROVE  RunsTyped(db')
      <4>1. c \in Nat /\ n \in Nat \ {0}
        OBVIOUS
      <4>2. QED
        BY <3>4, <4>1, RunCreated DEF MaterialsSound
    <3>5. ASSUME NEW o, ReleaseOrder(p, o) \/ StartOrder(p, o) \/ CancelProduction(p, o) PROVE RunsTyped(db')
      BY <3>5, RunTurned DEF MaterialsSound
    <3>6. QED
      BY <1>1, <3>1, <3>2, <3>3, <3>4, <3>5 DEF BomRoutes
  <2> HIDE DEF names
  <2>4. db'["grnline"] = db["grnline"]
    BY <2>1, <2>2 DEF Touches, PurchaseTables, MaterialsSound, PurchasesTyped
  <2>5. StepIsSound /\ Keeps(names)
    BY <2>1, <2>2, <2>4, TouchedStep DEF MaterialsSound
  <2>6. PurchasesTyped(db') /\ SalesTyped(db')
    BY <2>2, <2>5, TypesKept DEF MaterialsSound
  <2>7. QED
    BY <2>2, <2>3, <2>5, <2>6, KeepsMore DEF MaterialsStep
<1>2. ASSUME NEW o, NEW scrapped \in {0, 1}, NEW override \in {0, 1}, NEW fuel \in {0, 1}, NEW st,
             CompleteOrder(p, o, 1, scrapped, override, fuel, st)
      PROVE  MaterialsStep /\ Keeps(ProductionTables)
  <2>1. 1 \in Nat /\ scrapped \in Nat /\ override \in Nat /\ fuel \in Nat
    OBVIOUS
  <2>2. MaterialsStep /\ Keeps({"tank", "fuelissue", "batch", "prodorder"} \cup BalanceTables)
    BY <1>2, <2>1, CompletionStep
  <2>3. {"tank", "fuelissue", "batch", "prodorder"} \cup BalanceTables \subseteq ProductionTables
    BY DEF ProductionTables, FuelTableNames
  <2>4. QED
    BY <2>2, <2>3, KeepsMore
<1>3. ASSUME NEW w \in Warehouses, NEW q \in Quantities, Receive(p, w, q)
      PROVE  MaterialsStep /\ Keeps(ProductionTables)
  <2>1. StepIsSound /\ Keeps(BalanceTables)
    BY <1>3, ReceiptStep DEF MaterialsSound
  <2>2. BalanceTables \cap (PurchaseTables \cup {"so", "salesconf", "bom", "prodorder"}) = {}
    BY DEF BalanceTables, PurchaseTables
  <2>3. BalanceTables \subseteq ProductionTables
    BY DEF ProductionTables
  <2>4. QED
    BY <2>1, <2>2, <2>3, QuietMaterials, KeepsMore
<1>4. ASSUME CreateTank(p) \/ \E t, n : RecordPurchase(p, t, n, TRUE)
      PROVE  MaterialsStep /\ Keeps(ProductionTables)
  <2>1. MaterialsStep /\ Keeps(FuelTableNames)
    BY <1>4, FuelTouches, FuelDocuments
  <2>2. FuelTableNames \subseteq ProductionTables
    BY DEF ProductionTables
  <2>3. QED
    BY <2>1, <2>2, KeepsMore
<1>5. QED
  BY <1>1, <1>2, <1>3, <1>4 DEF ManufacturingNext, ProductionRoutes

\* The request is refused or dies.
LEMMA AbandonedStep ==
    ASSUME MaterialsSound, NobodyWastes, NEW p \in Workers, Abandon(p)
    PROVE  MaterialsStep /\ Keeps({})
<1>1. Touches(p, {})
  BY DEF Abandon, Touches
<1>2. QED
  BY <1>1, QuietDocuments

\* Waste is only ever to be recorded among the requests of the inventory.
LEMMA WhoSteps ==
    ASSUME MaterialsSound, [Next]_<<part, vars>>
    PROVE  \/ UNCHANGED <<part, vars>>
           \/ \E p \in Workers : Abandon(p) \/ StockNext(p)
           \/ /\ NobodyWastes
              /\ \E p \in Workers :
                    \/ TraceabilityNext(p) \/ SourcingNext(p) \/ PurchasingNext(p) \/ TenderingNext(p)
                    \/ VendorPortalNext(p) \/ PostingNext(p) \/ BankingNext(p) \/ SalesNext(p)
                    \/ FuelNext(p) \/ ManufacturingNext(p)
<1>1. part # "stock" => NobodyWastes
  BY DEF MaterialsSound, WasteSound
<1>2. \/ UNCHANGED <<part, vars>>
      \/ \E p \in Workers : Abandon(p) \/ StockNext(p)
      \/ /\ part # "stock"
         /\ \E p \in Workers :
               \/ TraceabilityNext(p) \/ SourcingNext(p) \/ PurchasingNext(p) \/ TenderingNext(p)
               \/ VendorPortalNext(p) \/ PostingNext(p) \/ BankingNext(p) \/ SalesNext(p)
               \/ FuelNext(p) \/ ManufacturingNext(p)
  BY DEF Next
<1>3. QED
  BY <1>1, <1>2

\* Every step of every part.
LEMMA PartStep ==
    ASSUME ~ Concurrent, MaterialsSound, Next
    PROVE  MaterialsStep
<1>1. PICK p \in Workers :
         \/ Abandon(p) /\ ~ Resuming(p, "wasting")
         \/ part' = "stock" /\ StockNext(p)
         \/ /\ part # "stock"
            /\ \/ TraceabilityNext(p)
               \/ SourcingNext(p)
               \/ PurchasingNext(p)
               \/ TenderingNext(p)
               \/ VendorPortalNext(p)
               \/ PostingNext(p)
               \/ BankingNext(p)
               \/ SalesNext(p)
               \/ FuelNext(p)
               \/ ManufacturingNext(p)
  BY DEF Next
<1>2. CASE part' = "stock" /\ StockNext(p)
  <2>1. StepIsSound /\ Keeps(BalanceTables)
    BY <1>2, StockPartStep DEF MaterialsSound
  <2>2. BalanceTables \cap (PurchaseTables \cup {"so", "salesconf", "bom", "prodorder"}) = {}
    BY DEF BalanceTables, PurchaseTables
  <2>3. QED
    BY <2>1, <2>2, QuietMaterials
<1>3. CASE Abandon(p) /\ ~ Resuming(p, "wasting")
  <2>1. NobodyWastes
    BY <1>3 DEF Abandon, MaterialsSound, Alone, NobodyWastes, Resuming, Idle
  <2>2. QED
    BY <1>3, <2>1, AbandonedStep
<1>4. part # "stock" => NobodyWastes
  BY DEF MaterialsSound, WasteSound
<1>5. QED
  BY <1>1, <1>2, <1>3, <1>4, TraceabilityStep, SourcingStep, PurchasingStep, TenderingStep, VendorPortalStep,
     LedgerStep, SalesStep, FuelStep, ProductionStep

-----------------------------------------------------------------------------
(* What the system starts with *)

\* A table of two compositions is that of the first which has it.
LEMMA OverlaidTables ==
    ASSUME NEW f, NEW g
    PROVE  /\ DOMAIN Overlay(f, g) = DOMAIN f \cup DOMAIN g
           /\ \A t \in DOMAIN f : Overlay(f, g)[t] = f[t]
           /\ \A t \in DOMAIN g \ DOMAIN f : Overlay(f, g)[t] = g[t]
  BY DEF Overlay

\* No table has rows, but for the stock items, the settings and the vendors.
LEMMA FirstTables ==
    ASSUME Init
    PROVE  /\ BalanceTables \cup PurchaseTables \subseteq DOMAIN db
           /\ {"so", "salesconf", "delivery", "invoice", "payment", "entry", "ar", "ap", "bank",
               "bom", "prodorder", "tank", "fuelissue", "fuelbuy", "batch"} \subseteq DOMAIN db
           /\ db.item = [w \in Warehouses |-> StockItem]
           /\ db.settings = <<[method |-> "weighted_average"]>>
           /\ db.vendor = <<>> \/ db.vendor = <<Vendor, Vendor>>
           /\ \A t \in {"layer", "transfer", "reserv", "count", "waste", "bankchange", "po", "poline", "postep", "grn",
                        "grnline", "so", "salesconf", "delivery", "invoice", "payment", "entry", "ar", "ap", "bank",
                        "bom", "prodorder", "tank", "fuelissue", "fuelbuy", "batch"} : db[t] = <<>>
<1> DEFINE m6 == Overlay(FuelTables, ManufacturingTables)
           m5 == Overlay(SalesTables, m6)
           m4 == Overlay(LedgerTables, m5)
           m3 == Overlay(VendorPortalTables, m4)
           m2 == Overlay(ProcurementTables, m3)
           m1 == Overlay(StockTables, m2)
<1>1. db = Overlay(Prepared(part), m1)
  BY DEF Init, MaterialsTables
<1>2. /\ {"bom", "prodorder", "tank", "fuelissue", "fuelbuy"} \subseteq DOMAIN m6
      /\ DOMAIN m6 = DOMAIN FuelTables \cup DOMAIN ManufacturingTables
      /\ \A t \in {"bom", "prodorder", "tank", "fuelissue", "fuelbuy"} : m6[t] = <<>>
  BY DEF Overlay, FuelTables, ManufacturingTables
<1> HIDE DEF m6
<1>3. /\ {"so", "salesconf", "delivery", "invoice", "payment"} \subseteq DOMAIN m5
      /\ DOMAIN m5 = DOMAIN SalesTables \cup DOMAIN m6
      /\ \A t \in {"so", "salesconf", "delivery", "invoice", "payment"} : m5[t] = <<>>
      /\ \A t \in {"bom", "prodorder", "tank", "fuelissue", "fuelbuy"} : m5[t] = m6[t]
  BY <1>2 DEF Overlay, SalesTables
<1> HIDE DEF m5
<1>4. /\ {"entry", "ar", "ap", "bank"} \subseteq DOMAIN m4
      /\ DOMAIN m4 = DOMAIN LedgerTables \cup DOMAIN m5
      /\ \A t \in {"entry", "ar", "ap", "bank"} : m4[t] = <<>>
      /\ \A t \in {"bom", "prodorder", "tank", "fuelissue", "fuelbuy", "so", "salesconf", "delivery", "invoice",
                   "payment"} : m4[t] = m5[t]
  BY <1>2, <1>3 DEF Overlay, LedgerTables
<1> HIDE DEF m4
<1>5. /\ "bankchange" \in DOMAIN m3 /\ m3.bankchange = <<>>
      /\ DOMAIN m3 = DOMAIN VendorPortalTables \cup DOMAIN m4
      /\ \A t \in {"bom", "prodorder", "tank", "fuelissue", "fuelbuy", "so", "salesconf", "delivery", "invoice",
                   "payment", "entry", "ar", "ap", "bank"} : m3[t] = m4[t]
  BY <1>2, <1>3, <1>4 DEF Overlay, VendorPortalTables
<1> HIDE DEF m3
<1>6. /\ {"vendor", "po", "poline", "postep", "grn", "grnline"} \subseteq DOMAIN m2
      /\ DOMAIN m2 = DOMAIN ProcurementTables \cup DOMAIN m3
      /\ \A t \in {"vendor", "po", "poline", "postep", "grn", "grnline"} : m2[t] = <<>>
      /\ \A t \in {"bom", "prodorder", "tank", "fuelissue", "fuelbuy", "so", "salesconf", "delivery", "invoice",
                   "payment", "entry", "ar", "ap", "bank", "bankchange"} : m2[t] = m3[t]
  BY <1>2, <1>3, <1>4, <1>5 DEF Overlay, ProcurementTables
<1> HIDE DEF m2
<1>7. /\ BalanceTables \cup {"batch"} \subseteq DOMAIN m1
      /\ DOMAIN m1 = DOMAIN StockTables \cup DOMAIN m2
      /\ m1.item = [w \in Warehouses |-> StockItem] /\ m1.settings = <<[method |-> "weighted_average"]>>
      /\ \A t \in {"layer", "transfer", "reserv", "count", "waste", "batch"} : m1[t] = <<>>
      /\ \A t \in {"bom", "prodorder", "tank", "fuelissue", "fuelbuy", "so", "salesconf", "delivery", "invoice",
                   "payment", "entry", "ar", "ap", "bank", "bankchange", "vendor", "po", "poline", "postep", "grn",
                   "grnline"} : m1[t] = m2[t]
  BY <1>2, <1>3, <1>4, <1>5, <1>6 DEF Overlay, StockTables, BalanceTables
<1> HIDE DEF m1
<1>8. /\ DOMAIN m1 \subseteq DOMAIN db
      /\ \A t \in DOMAIN m1 \ {"vendor"} : db[t] = m1[t]
      /\ db["vendor"] = m1["vendor"] \/ db["vendor"] = <<Vendor, Vendor>>
  <2> DEFINE f == Prepared(part)
  <2>1. \/ DOMAIN f = {}
        \/ DOMAIN f = {"vendor"} /\ f["vendor"] = <<Vendor, Vendor>>
    BY DEF Prepared
  <2>2. "vendor" \in DOMAIN m1
    BY <1>6, <1>7
  <2> HIDE DEF f
  <2>3. /\ DOMAIN db = DOMAIN f \cup DOMAIN m1
        /\ \A t \in DOMAIN f : db[t] = f[t]
        /\ \A t \in DOMAIN m1 \ DOMAIN f : db[t] = m1[t]
    <3>1. db = Overlay(f, m1)
      BY <1>1 DEF f
    <3>2. /\ DOMAIN Overlay(f, m1) = DOMAIN f \cup DOMAIN m1
          /\ \A t \in DOMAIN f : Overlay(f, m1)[t] = f[t]
          /\ \A t \in DOMAIN m1 \ DOMAIN f : Overlay(f, m1)[t] = m1[t]
      BY OverlaidTables, Zenon
    <3>3. QED
      BY <3>1, <3>2
  <2>4. QED
    BY <2>1, <2>2, <2>3
<1>9. QED
  BY <1>2, <1>3, <1>4, <1>5, <1>6, <1>7, <1>8 DEF PurchaseTables, BalanceTables

\* What the properties remember starts at nothing.
LEMMA FirstPast ==
    ASSUME Init
    PROVE  /\ {"booked", "wasted", "lost", "landed", "dipped"} \subseteq DOMAIN past
           /\ past.booked = 0 /\ past.wasted = 0 /\ past.lost = 0 /\ past.landed = 0 /\ past.dipped = 0
<1>1. past = Overlay(StockPast, Overlay(ProcurementPast, FuelPast))
  BY DEF Init
<1>2. QED
  BY <1>1 DEF Overlay, StockPast, ProcurementPast, FuelPast

\* A table without rows.
LEMMA EmptyTable == ASSUME NEW R PROVE <<>> \in Seq(R)
  OBVIOUS

\* The empty database is as it should be.
LEMMA FirstState ==
    ASSUME Init
    PROVE  MaterialsSound
<1>1. Alone /\ \A p \in Workers : req[p] = Idle
  BY DEF Init, Alone
<1>2. WasteSound /\ ReceivingTyped
  <2>1. db["waste"] = <<>>
    BY FirstTables
  <2>2. DOMAIN db["waste"] = {} /\ db["waste"] \in Seq(WasteRows)
    BY <2>1, EmptyTable
  <2>3. Recorded = 0
    BY <2>2, SumOfNoRows DEF Recorded
  <2>4. NobodyWastes
    BY <1>1, AtRest
  <2>5. past.lost = 0 /\ past.wasted = 0 /\ {"booked", "wasted", "lost"} \subseteq DOMAIN past
    BY FirstPast
  <2>6. WasteSound
    BY <2>2, <2>3, <2>4, <2>5 DEF WasteSound, NobodyWastes
  <2>7. QED
    BY <1>1, <2>6 DEF ReceivingTyped, Resuming, Idle
<1>3. StockTyped(db)
  <2>1. /\ db.item = [w \in Warehouses |-> StockItem] /\ db.settings = <<[method |-> "weighted_average"]>>
        /\ db["layer"] = <<>> /\ db["transfer"] = <<>> /\ db["reserv"] = <<>> /\ db["count"] = <<>>
        /\ BalanceTables \subseteq DOMAIN db
    BY FirstTables
  <2>2. db.item \in [Warehouses -> ItemRows]
    BY <2>1 DEF ItemRows, StockItem
  <2>3. db.settings \in [{1} -> [method : Methods]]
    BY <2>1, StockAssumption
  <2>4. /\ db["layer"] \in Seq(LayerRows) /\ db["transfer"] \in Seq(TransferRows)
        /\ db["reserv"] \in Seq(ReservRows) /\ db["count"] \in Seq(CountRows)
    BY <2>1, EmptyTable
  <2>5. QED
    BY <2>1, <2>2, <2>3, <2>4 DEF StockTyped
<1>4. StockSound
  <2>1. \A w \in Warehouses : db.item[w].qty = 0
    BY FirstTables DEF StockItem
  <2>2. Held(db) = 0
    <3> DEFINE f == [k \in DOMAIN db.item |-> db.item[k]["qty"]]
    <3>1. \A w \in Warehouses : f[w] = 0
      BY <1>3, <2>1 DEF StockTyped
    <3> HIDE DEF f
    <3>2. SumFunctionOnSet(f, Warehouses) = 0
      BY <3>1, StockAssumption, SumOfZeros
    <3>3. QED
      BY <3>2 DEF Held, SumOf, f
  <2>3. Moving(db) = 0
    <3>1. db["transfer"] = <<>>
      BY FirstTables
    <3>2. OnTheRoad(db) = {}
      BY <3>1 DEF OnTheRoad
    <3>3. QED
      BY <3>2, SumOfNoRows DEF Moving
  <2>4. QED
    BY <1>3, <2>2, <2>3, FirstPast DEF StockSound
<1>5. PurchasesTyped(db)
  <2>1. /\ PurchaseTables \subseteq DOMAIN db
        /\ db["bankchange"] = <<>> /\ db["po"] = <<>> /\ db["poline"] = <<>> /\ db["postep"] = <<>>
        /\ db["grn"] = <<>> /\ db["grnline"] = <<>>
        /\ db.vendor = <<>> \/ db.vendor = <<Vendor, Vendor>>
    BY FirstTables
  <2>2. db.vendor \in Seq(VendorRows)
    <3>1. Vendor \in VendorRows
      BY DEF Vendor, VendorRows
    <3>2. <<Vendor, Vendor>> \in Seq(VendorRows)
      BY <3>1
    <3>3. <<>> \in Seq(VendorRows)
      BY EmptyTable
    <3>4. QED
      BY <2>1, <3>2, <3>3
  <2>3. /\ db["bankchange"] \in Seq(BankChangeRows) /\ db["po"] \in Seq(PoRows)
        /\ db["poline"] \in Seq(PoLineRows) /\ db["postep"] \in Seq(PoStepRows)
        /\ db["grn"] \in Seq(NoteRows) /\ db["grnline"] \in Seq(NoteLineRows)
    BY <2>1, EmptyTable
  <2>4. /\ DOMAIN db["bankchange"] = {} /\ DOMAIN db["poline"] = {} /\ DOMAIN db["postep"] = {}
        /\ DOMAIN db["grnline"] = {}
    BY <2>1
  <2>5. QED
    BY <2>1, <2>2, <2>3, <2>4 DEF PurchasesTyped
<1>6. SalesTyped(db)
  <2>1. /\ db["so"] = <<>> /\ db["salesconf"] = <<>>
        /\ {"so", "salesconf", "delivery", "invoice", "payment", "entry", "ar"} \subseteq DOMAIN db
    BY FirstTables
  <2>2. db["so"] \in Seq(SoRows) /\ db["salesconf"] \in Seq(SettingsRows)
    BY <2>1, EmptyTable
  <2>3. QED
    BY <2>1, <2>2 DEF SalesTyped
<1>7. RunsTyped(db)
  <2>1. /\ db["bom"] = <<>> /\ db["prodorder"] = <<>>
        /\ {"bom", "prodorder", "tank", "fuelissue", "batch"} \subseteq DOMAIN db
    BY FirstTables
  <2>2. db["bom"] \in Seq(BomRows) /\ db["prodorder"] \in Seq(RunRows)
    BY <2>1, EmptyTable
  <2>3. DOMAIN db["bom"] = {} /\ DOMAIN db["prodorder"] = {}
    BY <2>1
  <2>4. QED
    BY <2>1, <2>2, <2>3 DEF RunsTyped
<1>8. QED
  BY <1>1, <1>2, <1>4, <1>5, <1>6, <1>7 DEF MaterialsSound

\* Between two steps nothing moves.
LEMMA RestingStep ==
    ASSUME MaterialsSound, UNCHANGED <<part, vars>>
    PROVE  MaterialsStep
<1>1. db' = db /\ req' = req /\ past' = past /\ part' = part
  BY DEF vars
<1>2. Keeps({})
  BY <1>1 DEF Keeps
<1>3. StockMoves
  BY <1>1, <1>2, StockKept DEF MaterialsSound, StockSound
<1>4. Alone' /\ WasteSound' /\ ReceivingTyped'
  BY <1>1 DEF MaterialsSound, Alone, WasteSound, NobodyWastes, Recorded, ReceivingTyped, Resuming
<1>5. PurchasesTyped(db') /\ SalesTyped(db') /\ RunsTyped(db')
  BY <1>1 DEF MaterialsSound
<1>6. QED
  BY <1>3, <1>4, <1>5 DEF MaterialsStep, StepIsSound

\* A step that is sound leaves a sound state.
LEMMA StepStaysSound ==
    ASSUME MaterialsStep
    PROVE  MaterialsSound'
<1>1. PurchasesTyped(db)' /\ SalesTyped(db)' /\ RunsTyped(db)'
  <2>1. PurchasesTyped(db)' = PurchasesTyped(db')
    BY DEF PurchasesTyped
  <2>2. SalesTyped(db)' = SalesTyped(db')
    BY DEF SalesTyped
  <2>3. RunsTyped(db)' = RunsTyped(db')
    BY DEF RunsTyped
  <2>4. QED
    BY <2>1, <2>2, <2>3 DEF MaterialsStep
<1>2. QED
  BY <1>1 DEF MaterialsStep, StepIsSound, StockMoves, MaterialsSound

\* The stock, the requests and the documents are as they should be in every state.
THEOREM MaterialsAreSound ==
    ASSUME ~ Concurrent
    PROVE  Spec => []MaterialsSound
<1>1. Init => MaterialsSound
  BY FirstState
<1>2. MaterialsSound /\ [Next]_<<part, vars>> => MaterialsSound'
  BY PartStep, RestingStep, StepStaysSound
<1>3. QED
  BY <1>1, <1>2, PTL DEF Spec

\* Whatever the warehouses, the quantities and the number of workers: what is on
\* hand and on the road is what came in less what went out, over all the handlers
\* that move goods (inv, prc, sal and mfg services).
THEOREM StockBooksBalance ==
    ASSUME ~ Concurrent
    PROVE  Spec => []BooksBalance
<1>1. MaterialsSound => BooksBalance
  <2>1. OnHand = Held(db)
    BY DEF OnHand, Held
  <2>2. InTransit = Moving(db)
    BY DEF InTransit, Moving, OnTheRoad
  <2>3. QED
    BY <2>1, <2>2 DEF MaterialsSound, StockSound, BooksBalance
<1>2. QED
  BY <1>1, MaterialsAreSound, PTL

\* Whatever is wasted by how many requests: the records of waste, what is still
\* to be recorded and what was lost between the two commits of record_waste
\* make up what left the stock as waste.
THEOREM WasteIsAccountedFor ==
    ASSUME ~ Concurrent
    PROVE  Spec => []WasteIsRecordedOnce
<1>1. MaterialsSound => WasteIsRecordedOnce
  BY WasteIsAccounted DEF MaterialsSound
<1>2. QED
  BY <1>1, MaterialsAreSound, PTL

\* A handler that touches the FIFO layers of a warehouse moves its balance by the
\* same quantity: "should be impossible if quantity_on_hand is kept in sync".
THEOREM LayersStayInSync ==
    ASSUME ~ Concurrent
    PROVE  Spec => LayersMoveWithBalance
<1>1. MaterialsSound /\ [Next]_<<part, vars>> => LayersFollow(db, db')
  BY PartStep, RestingStep DEF MaterialsStep, StepIsSound, StockMoves
<1>2. MaterialsSound /\ [Next]_<<part, vars>> =>
        [\A w \in Warehouses :
            Layered(db', w) # Layered(db, w) =>
                Layered(db', w) - Layered(db, w) = db'.item[w].qty - db.item[w].qty]_vars
  BY <1>1 DEF LayersFollow
<1>3. QED
  BY <1>2, MaterialsAreSound, PTL DEF Spec, LayersMoveWithBalance

\* A new reservation is covered by what other reservations leave available.
THEOREM ReservationsStayCovered ==
    ASSUME ~ Concurrent
    PROVE  Spec => ReservedWithinStock
<1>1. MaterialsSound /\ [Next]_<<part, vars>> => ReservesCovered(db, db')
  BY PartStep, RestingStep DEF MaterialsStep, StepIsSound, StockMoves
<1>2. MaterialsSound /\ [Next]_<<part, vars>> =>
        [\A w \in Warehouses :
            Reserved(db', w) > Reserved(db, w) => Reserved(db', w) <= db'.item[w].qty]_vars
  BY <1>1 DEF ReservesCovered
<1>3. QED
  BY <1>2, MaterialsAreSound, PTL DEF Spec, ReservedWithinStock
=============================================================================
