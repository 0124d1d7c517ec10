----------------------- MODULE WebhookAttempts_proofs -----------------------
(* What stays bounded: the attempts of a delivery, AttemptsBounded of WebhookDelivery,
   for any number of workers; the queue and the batch of the retry worker. *)
EXTENDS WebhookDelivery_proofs, FiniteSetTheorems

(* First the arithmetic of what k reopenings may cost with n workers ... *)

(* One reopening less is worth the settlements that might have followed it. *)
LEMMA OneReopening ==
  ASSUME NEW n \in Nat, NEW k \in Nat, k >= 1
  PROVE  Reopenings(n, k) = Reopenings(n, k - 1) + 2 * (n - k + 3)
  BY DEF Reopenings

LEMMA FewerReopenings ==
  ASSUME NEW n \in Nat, NEW k \in 0..n, NEW l \in 0..k
  PROVE  Reopenings(n, k) >= Reopenings(n, l) + 5 * (k - l)
<1> DEFINE m == k - l
           q == 2 * n - k - l
<1>1. m \in Nat /\ q \in Nat
  OBVIOUS
<1>2. m * q >= 0
  <2> HIDE DEF m, q
  <2> QED  BY <1>1
<1>3. Reopenings(n, k) - Reopenings(n, l) = m * q + 5 * m
  BY DEF Reopenings
<1>4. m * q \in Int
  BY <1>1
<1> QED  BY <1>2, <1>3, <1>4 DEF Reopenings

(* All there is to write when nobody but the last writer has begun again. *)
LEMMA MostReopenings ==
  ASSUME NEW n \in Nat, NEW k \in 0..n
  PROVE  /\ Reopenings(n, k) + 2 * (n - k) <= n * (n + 5)
         /\ k < n => Reopenings(n, k) + 2 * (n - k + 1) <= n * (n + 5)
<1> DEFINE m == n - k
<1>1. m \in Nat
  OBVIOUS
<1>2. n * (n + 5) - Reopenings(n, k) - 2 * (n - k) = m * m + 3 * m
  BY DEF Reopenings
<1>3. m * m \in Nat /\ (k < n => m * m + 3 * m >= 4)
  <2>1. k < n => m >= 1
    OBVIOUS
  <2> HIDE DEF m
  <2>2. m >= 1 => m * m >= 1
    BY <1>1
  <2>3. m * m \in Nat
    BY <1>1
  <2> QED  BY <1>1, <2>1, <2>2, <2>3
<1> QED  BY <1>1, <1>2, <1>3 DEF Reopenings

Held(n, k, j, h) ==
  n \in Nat /\ k \in Nat /\ j \in Nat /\ h \in {0, 1} /\ k + j <= n

(* ... then the row: it fits as long as no worker begins to hold it, or one
   begins that can only settle it, while it is unsettled. *)
LEMMA FitsQuiet ==
  ASSUME NEW n, NEW a \in Nat, NEW k, NEW j, NEW h, NEW k1, NEW j1, NEW h1,
         NEW s, NEW s1, Fits(n, a, s, k, j, h),
         Held(n, k, j, h), Held(n, k1, j1, h1), k1 <= k,
         s1 \in Unsettled => s \in Unsettled,
         s \notin Unsettled => j1 <= j /\ h1 <= h
  PROVE  Fits(n, a, s1, k1, j1, h1)
<1> USE DEF Held
<1>1. k \in 0..n /\ k1 \in 0..k /\ n \in Nat
  OBVIOUS
<1>2. Reopenings(n, k) >= Reopenings(n, k1) + 5 * (k - k1)
  BY <1>1, FewerReopenings
<1>3. Settlements(n, s, k, j, h) + 5 * (k - k1) >= Settlements(n, s1, k1, j1, h1)
  BY <1>1 DEF Settlements
<1>4. /\ Reopenings(n, k) \in Int /\ Reopenings(n, k1) \in Int
      /\ Settlements(n, s, k, j, h) \in Int /\ Settlements(n, s1, k1, j1, h1) \in Int
      /\ n * (n + 5) \in Int /\ MaxAttempts \in Int
  BY DeliveryAssumption DEF Reopenings, Settlements
<1> HIDE DEF Reopenings, Settlements
<1> QED  BY <1>2, <1>3, <1>4 DEF Fits

(* The outcome of one of the workers that may still reopen the row. *)
LEMMA FitsReopener ==
  ASSUME NEW n, NEW a \in Nat, NEW k, NEW j, NEW h, NEW s, NEW s1,
         Fits(n, a, s, k, j, h), Held(n, k, j, h), k >= 1
  PROVE  Fits(n, a + 1, s1, k - 1, j, h)
<1> USE DEF Held
<1>1. k - 1 \in 0..n /\ k - 1 < n /\ k - 1 \in Nat
  OBVIOUS
<1>2. Reopenings(n, k) = Reopenings(n, k - 1) + 2 * (n - k + 3)
  BY OneReopening
<1>3. /\ Reopenings(n, k - 1) + 2 * (n - (k - 1)) <= n * (n + 5)
      /\ Reopenings(n, k - 1) + 2 * (n - (k - 1) + 1) <= n * (n + 5)
  BY <1>1, MostReopenings
<1>4. /\ Settlements(n, s1, k - 1, j, h) + 2 <= 2 * (n - k + 3) + Settlements(n, s, k, j, h)
      /\ \/ Settlements(n, s1, k - 1, j, h) <= 2 * (n - (k - 1))
         \/ Settlements(n, s1, k - 1, j, h) <= 2 * (n - (k - 1) + 1)
  BY <1>1 DEF Settlements
<1>5. /\ Reopenings(n, k) \in Int /\ Reopenings(n, k - 1) \in Int
      /\ Settlements(n, s, k, j, h) \in Int /\ Settlements(n, s1, k - 1, j, h) \in Int
      /\ n * (n + 5) \in Int /\ MaxAttempts \in Int
  BY DeliveryAssumption DEF Reopenings, Settlements
<1> HIDE DEF Reopenings, Settlements
<1>6. CASE a + 1 >= MaxAttempts
  BY <1>2, <1>4, <1>5, <1>6 DEF Fits
<1>7. CASE a + 2 = MaxAttempts
  BY <1>3, <1>4, <1>5, <1>7 DEF Fits
<1>8. CASE a + 2 < MaxAttempts
  BY <1>5, <1>8 DEF Fits
<1> QED  BY <1>5, <1>6, <1>7, <1>8

(* The outcome of one that settles it, or the retry worker's verdict. *)
LEMMA FitsSettler ==
  ASSUME NEW n, NEW a \in Nat, NEW k, NEW j, NEW h, NEW j1, NEW h1,
         NEW s, NEW s1, s1 \notin Unsettled, Fits(n, a, s, k, j, h),
         Held(n, k, j, h), Held(n, k, j1, h1), j1 + h1 + 1 = j + h, j1 <= j
  PROVE  Fits(n, a + 1, s1, k, j1, h1)
<1> USE DEF Held
<1>1. k \in 0..n
  OBVIOUS
<1>2. Reopenings(n, k) + 2 * (n - k) <= n * (n + 5)
  BY <1>1, MostReopenings
<1>3. /\ Settlements(n, s1, k, j1, h1) + 2 <= Settlements(n, s, k, j, h)
      /\ Settlements(n, s1, k, j1, h1) <= 2 * (n - k)
  BY DEF Settlements
<1>4. /\ Reopenings(n, k) \in Int
      /\ Settlements(n, s, k, j, h) \in Int /\ Settlements(n, s1, k, j1, h1) \in Int
      /\ n * (n + 5) \in Int /\ MaxAttempts \in Int
  BY DeliveryAssumption DEF Reopenings, Settlements
<1> HIDE DEF Reopenings, Settlements
<1>5. CASE a + 1 >= MaxAttempts
  BY <1>3, <1>4, <1>5 DEF Fits
<1>6. CASE a + 2 = MaxAttempts
  BY <1>2, <1>3, <1>4, <1>6 DEF Fits
<1>7. CASE a + 2 < MaxAttempts
  BY <1>4, <1>7 DEF Fits
<1> QED  BY <1>4, <1>5, <1>6, <1>7

(* A row nobody has read since its attempts were set to 0. *)
LEMMA FitsFresh ==
  ASSUME NEW n, NEW s \in Unsettled, NEW k, NEW j, NEW h,
         Held(n, k, j, h), n # 0, MaxAttempts <= 1 => k = 0
  PROVE  Fits(n, 0, s, k, j, h)
<1> USE DEF Held
<1>1. n * n >= n /\ n * n \in Nat
  <2>1. n - 1 \in Nat /\ n * (n - 1) >= 0
    OBVIOUS
  <2>2. n * n = n * (n - 1) + n
    BY <2>1
  <2> QED  BY <2>1, <2>2
<1>2. CASE MaxAttempts <= 1
  <2>1. k = 0 /\ Reopenings(n, k) = 0 /\ Settlements(n, s, k, j, h) = 2 * n + 2
    BY <1>2 DEF Reopenings, Settlements
  <2>2. n * (n + 5) = n * n + 5 * n
    OBVIOUS
  <2> QED
    BY <1>1, <2>1, <2>2, DeliveryAssumption DEF Fits
<1>3. CASE MaxAttempts > 1
  BY <1>3, DeliveryAssumption DEF Fits
<1> QED  BY <1>2, <1>3, DeliveryAssumption

(* What fits is bounded. *)
LEMMA FitsBounds ==
  ASSUME NEW n, NEW a \in Nat, NEW k, NEW j, NEW h, NEW s,
         Held(n, k, j, h), Fits(n, a, s, k, j, h)
  PROVE  a <= MaxAttempts + ((n * (n + 5)) \div 2 - 1)
<1> USE DEF Held
<1> DEFINE x == n * (n + 5)
<1>1. x \in Nat
  OBVIOUS
<1>2. Reopenings(n, k) >= 0 /\ Reopenings(n, k) \in Int
  <2>1. Reopenings(n, 0) = 0
    BY DEF Reopenings
  <2>2. k \in 0..n /\ 0 \in 0..k
    OBVIOUS
  <2> QED  BY <2>1, <2>2, FewerReopenings DEF Reopenings
<1>3. Settlements(n, s, k, j, h) \in Nat
  BY DEF Settlements
<1>4. a + 1 >= MaxAttempts => 2 * a <= 2 * MaxAttempts + x - 2
  BY <1>1, <1>2, <1>3, DeliveryAssumption DEF Fits
<1> HIDE DEF x
<1>5. /\ x \div 2 \in Nat
      /\ 2 * (x \div 2) = x \/ 2 * (x \div 2) + 1 = x
  BY <1>1
<1>6. a <= MaxAttempts + (x \div 2 - 1)
  BY <1>1, <1>4, <1>5, DeliveryAssumption
<1> QED  BY <1>6 DEF x

-----------------------------------------------------------------------------
(* The workers that hold a delivery. *)

LEMMA Counts ==
  ASSUME NEW A \in SUBSET Workers, NEW B \in SUBSET Workers, A \cap B = {}
  PROVE  /\ Cardinality(Workers) \in Nat \ {0}
         /\ Cardinality(A) \in Nat /\ Cardinality(B) \in Nat
         /\ Cardinality(A) + Cardinality(B) <= Cardinality(Workers)
<1>1. IsFiniteSet(A) /\ IsFiniteSet(B) /\ IsFiniteSet(Workers)
  BY FS_Subset, DeliveryAssumption
<1>2. Cardinality(A) \in Nat /\ Cardinality(B) \in Nat /\ Cardinality(Workers) \in Nat
  BY <1>1, FS_CardinalityType
<1>3. Cardinality(Workers) # 0
  BY <1>1, FS_EmptySet, DeliveryAssumption
<1>4. Cardinality(A \cup B) = Cardinality(A) + Cardinality(B)
  <2>1. Cardinality(A \cap B) = 0
    BY FS_EmptySet
  <2>2. Cardinality(A \cup B) = Cardinality(A) + Cardinality(B) - Cardinality(A \cap B)
    BY <1>1, FS_Union
  <2> QED  BY <1>2, <2>1, <2>2
<1>5. Cardinality(A \cup B) <= Cardinality(Workers)
  <2>1. A \cup B \in SUBSET Workers
    OBVIOUS
  <2> QED  BY <1>1, <2>1, FS_Subset
<1> QED  BY <1>2, <1>3, <1>4, <1>5

LEMMA SmallerCount ==
  ASSUME NEW A \in SUBSET Workers, NEW B \in SUBSET A
  PROVE  Cardinality(B) \in 0..Cardinality(A)
<1>1. IsFiniteSet(A)
  BY FS_Subset, DeliveryAssumption
<1>2. IsFiniteSet(B) /\ Cardinality(B) <= Cardinality(A)
  BY <1>1, FS_Subset
<1> QED  BY <1>1, <1>2, FS_CardinalityType

LEMMA OneFewer ==
  ASSUME NEW A \in SUBSET Workers, NEW w \in A
  PROVE  /\ Cardinality(A) \in Nat /\ Cardinality(A) >= 1
         /\ Cardinality(A \ {w}) = Cardinality(A) - 1
<1>1. IsFiniteSet(A)
  BY FS_Subset, DeliveryAssumption
<1>2. Cardinality(A) \in Nat /\ Cardinality(A) # 0
  BY <1>1, FS_CardinalityType, FS_EmptySet
<1>3. Cardinality(A \ {w}) = Cardinality(A) - 1
  BY <1>1, FS_RemoveElement
<1> QED  BY <1>2, <1>3

LEMMA Apart ==
  ASSUME WorkerTypes, WorkerTypes', NEW d
  PROVE  /\ Reopeners(d) \in SUBSET Workers /\ Settlers(d) \in SUBSET Workers
         /\ Reopeners(d) \cap Settlers(d) = {}
         /\ Reopeners(d)' \in SUBSET Workers /\ Settlers(d)' \in SUBSET Workers
         /\ Reopeners(d)' \cap Settlers(d)' = {}
  BY DeliveryAssumption DEF WorkerTypes, Reopeners, Settlers, Holders

LEMMA SameHolders ==
  ASSUME UNCHANGED workerVars, NEW d
  PROVE  Reopeners(d)' = Reopeners(d) /\ Settlers(d)' = Settlers(d)
  BY DEF workerVars, Reopeners, Settlers, Holders

LEMMA ReleasedHolder ==
  ASSUME WorkerTypes, NEW w \in Workers, Release(w), NEW d
  PROVE  /\ Reopeners(d)' = Reopeners(d) \ {w}
         /\ Settlers(d)' = Settlers(d) \ {w}
<1>1. /\ pc'[w] = "idle"
      /\ \A v \in Workers \ {w} :
            pc'[v] = pc[v] /\ job'[v] = job[v] /\ seen'[v] = seen[v]
  BY DEF WorkerTypes, Release
<1>2. Holders(d)' = Holders(d) \ {w}
  BY <1>1 DEF Holders
<1> QED  BY <1>1, <1>2 DEF Reopeners, Settlers, Holders

(* A step that adds no attempt to a row and nobody who could reopen it, nor
   anyone who could add to it when it is settled. *)
Kept(d) ==
  /\ attempts'[d] = attempts[d]
  /\ status'[d] \in Unsettled => status[d] \in Unsettled
  /\ Reopeners(d)' \subseteq Reopeners(d)
  /\ status[d] \notin Unsettled =>
       Settlers(d)' \subseteq Settlers(d) /\ (d \in batch' => d \in batch)

LEMMA KeptFits ==
  ASSUME TypeOK, TypeOK', NEW d \in Ids, RowFits(d), Kept(d)
  PROVE  RowFits(d)'
<1> DEFINE n == Cardinality(Workers)
           k == Cardinality(Reopeners(d))
           j == Cardinality(Settlers(d))
           k1 == Cardinality(Reopeners(d)')
           j1 == Cardinality(Settlers(d)')
           h == InBatch(d)
           h1 == InBatch(d)'
<1>1. /\ Reopeners(d) \in SUBSET Workers /\ Settlers(d) \in SUBSET Workers
      /\ Reopeners(d) \cap Settlers(d) = {}
      /\ Reopeners(d)' \in SUBSET Workers /\ Settlers(d)' \in SUBSET Workers
      /\ Reopeners(d)' \cap Settlers(d)' = {}
  BY Apart DEF TypeOK
<1>2. /\ n \in Nat /\ k \in Nat /\ j \in Nat /\ k + j <= n
      /\ j1 \in Nat /\ k1 + j1 <= n
  BY <1>1, Counts
<1>3. k1 \in 0..k
  BY <1>1, SmallerCount DEF Kept
<1>4. status[d] \notin Unsettled => j1 <= j /\ h1 <= h
  <2>1. status[d] \notin Unsettled => j1 \in 0..j
    BY <1>1, SmallerCount DEF Kept
  <2>2. status[d] \notin Unsettled => h1 <= h
    BY DEF Kept, InBatch
  <2> QED  BY <1>2, <2>1, <2>2
<1>5. h \in {0, 1} /\ h1 \in {0, 1} /\ attempts[d] \in Nat
  BY DEF InBatch, TypeOK, RowTypes
<1>6. Fits(n, attempts[d], status[d], k, j, h)
  BY DEF RowFits
<1>7. status'[d] \in Unsettled => status[d] \in Unsettled
  BY DEF Kept
<1> DEFINE s == status[d]
           s1 == status'[d]
           a == attempts[d]
<1>8. Held(n, k, j, h) /\ Held(n, k1, j1, h1) /\ k1 <= k
  BY <1>2, <1>3, <1>5 DEF Held
<1> HIDE DEF n, k, j, k1, j1, h, h1, s, s1, a
<1>9. Fits(n, a, s1, k1, j1, h1)
  <2>1. Fits(n, a, s, k, j, h) /\ a \in Nat
    BY <1>5, <1>6 DEF a, s
  <2>2. s1 \in Unsettled => s \in Unsettled
    BY <1>7 DEF s, s1
  <2>3. s \notin Unsettled => j1 <= j /\ h1 <= h
    BY <1>4 DEF s
  <2> QED  BY <1>8, <2>1, <2>2, <2>3, FitsQuiet
<1> QED
  BY <1>9 DEF RowFits, Fits, Kept, n, k1, j1, h1, s1, a

(* An outcome written by worker w, or a verdict of the retry worker. *)
LEMMA RecordFits ==
  ASSUME TypeOK, TypeOK', NEW w \in Workers, NEW d \in Ids, RowFits(d),
         WorkerRecord(w), job[w] = d, Exists(d)
  PROVE  RowFits(d)'
<1> DEFINE n == Cardinality(Workers)
           R == Reopeners(d)
           S == Settlers(d)
           h == InBatch(d)
<1>1. /\ R \in SUBSET Workers /\ S \in SUBSET Workers /\ R \cap S = {}
  BY Apart DEF TypeOK
<1>2. /\ n \in Nat /\ Cardinality(R) \in Nat /\ Cardinality(S) \in Nat
      /\ Cardinality(R) + Cardinality(S) <= n
  BY <1>1, Counts
<1>3. Reopeners(d)' = R \ {w} /\ Settlers(d)' = S \ {w} /\ InBatch(d)' = h
  BY ReleasedHolder DEF WorkerRecord, TypeOK, retryVars, InBatch
<1>4. h \in {0, 1} /\ attempts[d] \in Nat
  BY DEF InBatch, TypeOK, RowTypes
<1>5. Fits(n, attempts[d], status[d], Cardinality(R), Cardinality(S), h)
  BY DEF RowFits
<1>6. RecordOutcome(d, result[w], seen[w] + 1)
  BY DEF WorkerRecord
<1>7. attempts'[d] = attempts[d] + 1
  BY <1>6 DEF RecordOutcome, UpdateDeliverySuccess, UpdateDeliveryDead,
              UpdateDeliveryRetry, UpdateDelivery, TypeOK, RowTypes
<1>8. CASE seen[w] + 1 < MaxAttempts
  <2>1. w \in R /\ w \notin S
    BY <1>1, <1>8 DEF WorkerRecord, Reopeners, Holders
  <2>2. /\ Cardinality(R) >= 1
        /\ Cardinality(R \ {w}) = Cardinality(R) - 1
        /\ S \ {w} = S
    BY <1>1, <2>1, OneFewer
  <2> HIDE DEF n, R, S, h
  <2>3. Held(n, Cardinality(R), Cardinality(S), h)
    BY <1>2, <1>4 DEF Held
  <2>4. Fits(n, attempts[d] + 1, status'[d], Cardinality(R) - 1, Cardinality(S), h)
    BY <1>4, <1>5, <2>2, <2>3, FitsReopener
  <2> QED
    BY <1>3, <1>7, <2>2, <2>4 DEF RowFits, n
<1>9. CASE ~(seen[w] + 1 < MaxAttempts)
  <2>1. seen[w] \in Nat /\ MaxAttempts \in Nat
    BY DeliveryAssumption DEF TypeOK, WorkerTypes
  <2>2. w \in S /\ w \notin R
    BY <1>1, <1>9, <2>1 DEF WorkerRecord, Settlers, Holders
  <2>3. status'[d] \notin Unsettled
    BY <1>6, <1>9 DEF RecordOutcome, UpdateDeliverySuccess, UpdateDeliveryDead,
                UpdateDelivery, TypeOK, RowTypes, Unsettled
  <2>4. /\ Cardinality(S) >= 1
        /\ Cardinality(S \ {w}) = Cardinality(S) - 1
        /\ R \ {w} = R
    BY <1>1, <2>2, OneFewer
  <2> DEFINE k == Cardinality(R)
             j == Cardinality(S)
             i == Cardinality(S) - 1
  <2>5. Held(n, k, j, h) /\ Held(n, k, i, h) /\ i + h + 1 = j + h /\ i <= j
    BY <1>2, <1>4, <2>4 DEF Held
  <2> HIDE DEF n, R, S, h, k, j, i
  <2>6. Fits(n, attempts[d], status[d], k, j, h)
    BY <1>5 DEF k, j
  <2>7. Fits(n, attempts[d] + 1, status'[d], k, i, h)
    BY <1>4, <2>3, <2>5, <2>6, FitsSettler
  <2>8. Fits(n, attempts[d] + 1, status'[d], Cardinality(R), Cardinality(S) - 1, h)
    BY <2>7 DEF k, i
  <2> QED
    BY <1>3, <1>7, <2>4, <2>8 DEF RowFits, n
<1> QED  BY <1>8, <1>9

LEMMA VerdictFits ==
  ASSUME TypeOK, TypeOK', NEW d \in batch, RowFits(d), Exists(d),
         UpdateDeliveryDead(d, "disabled"), batch' = batch \ {d},
         UNCHANGED workerVars
  PROVE  RowFits(d)'
<1> DEFINE n == Cardinality(Workers)
           k == Cardinality(Reopeners(d))
           j == Cardinality(Settlers(d))
<1>1. d \in Ids
  BY DEF TypeOK, OtherTypes
<1>2. n \in Nat /\ k \in Nat /\ j \in Nat /\ k + j <= n
  BY Apart, Counts DEF TypeOK
<1>3. /\ attempts'[d] = attempts[d] + 1 /\ attempts[d] \in Nat
      /\ status'[d] \notin Unsettled
  BY <1>1 DEF UpdateDeliveryDead, UpdateDelivery, TypeOK, RowTypes, Unsettled
<1>4. Fits(n, attempts[d], status[d], k, j, 1)
  BY DEF RowFits, InBatch
<1>5. Reopeners(d)' = Reopeners(d) /\ Settlers(d)' = Settlers(d) /\ InBatch(d)' = 0
  BY SameHolders DEF InBatch
<1>6. Held(n, k, j, 1) /\ Held(n, k, j, 0) /\ j + 0 + 1 = j + 1 /\ j <= j
  BY <1>2 DEF Held
<1> HIDE DEF n, k, j
<1>7. Fits(n, attempts[d] + 1, status'[d], k, j, 0)
  BY <1>3, <1>4, <1>6, FitsSettler
<1> QED  BY <1>3, <1>5, <1>7 DEF RowFits, n, k, j

(* When one attempt is all there is, nobody who has read the row reopens it. *)
LEMMA NoReopener ==
  ASSUME WorkerTypes, NEW d, MaxAttempts <= 1
  PROVE  Cardinality(Reopeners(d)) = 0
<1>1. Reopeners(d) = {}
  BY DeliveryAssumption DEF WorkerTypes, Reopeners, Holders
<1> QED  BY <1>1, FS_EmptySet

(* A row with no attempt fits, whoever holds it: Init, ResetDeliveryForRetry. *)
LEMMA FreshFits ==
  ASSUME TypeOK, NEW d \in Ids, NEW s \in Unsettled
  PROVE  Fits(Cardinality(Workers), 0, s, Cardinality(Reopeners(d)),
              Cardinality(Settlers(d)), InBatch(d))
<1> DEFINE n == Cardinality(Workers)
           k == Cardinality(Reopeners(d))
           j == Cardinality(Settlers(d))
           h == InBatch(d)
<1>1. /\ Reopeners(d) \in SUBSET Workers /\ Settlers(d) \in SUBSET Workers
      /\ Reopeners(d) \cap Settlers(d) = {}
  BY DeliveryAssumption DEF TypeOK, WorkerTypes, Reopeners, Settlers, Holders
<1>2. Held(n, k, j, h) /\ n # 0
  BY <1>1, Counts DEF Held, InBatch
<1>3. MaxAttempts <= 1 => k = 0
  BY NoReopener DEF TypeOK
<1> HIDE DEF n, k, j, h
<1>4. Fits(n, 0, s, k, j, h)
  BY <1>2, <1>3, FitsFresh
<1> QED  BY <1>4 DEF n, k, j, h

LEMMA WorkerFits ==
  ASSUME TypeOK, TypeOK', NEW w \in Workers, NEW d \in Ids, RowFits(d),
         Worker(w) \/ WorkerStatementFails(w) \/ WorkerExit(w)
  PROVE  RowFits(d)'
<1> USE DEF TypeOK
<1>1. CASE Release(w) /\ UNCHANGED <<attempts, status, batch>>
  <2>1. Kept(d)
    BY <1>1, ReleasedHolder DEF Kept
  <2> QED  BY <2>1, KeptFits
<1>2. CASE WorkerReceive(w) \/ WorkerPost(w) \/ WorkerExit(w)
  <2>1. \A v \in Workers :
           /\ pc'[v] \in {"post", "record"} <=> pc[v] \in {"post", "record"}
           /\ pc[v] \in {"post", "record"} => job'[v] = job[v] /\ seen'[v] = seen[v]
    <3>1. CASE WorkerReceive(w)
      BY <3>1 DEF WorkerReceive, WorkerTypes
    <3>2. CASE WorkerPost(w)
      BY <3>2 DEF WorkerPost, WorkerTypes
    <3>3. CASE WorkerExit(w)
      BY <3>3 DEF WorkerExit, WorkerTypes
    <3> QED  BY <1>2, <3>1, <3>2, <3>3
  <2>2. Reopeners(d)' = Reopeners(d) /\ Settlers(d)' = Settlers(d)
    BY <2>1 DEF Reopeners, Settlers, Holders
  <2>3. UNCHANGED <<attempts, status, batch>>
    BY <1>2 DEF WorkerReceive, WorkerPost, WorkerExit, rowVars, retryVars
  <2>4. Kept(d)
    BY <2>2, <2>3 DEF Kept
  <2> QED  BY <2>4, KeptFits
<1>3. CASE WorkerLoad(w) /\ status[job[w]] = "pending"
  <2>1. /\ pc[w] = "load" /\ pc'[w] = "post" /\ job'[w] = job[w]
        /\ seen'[w] = attempts[job[w]]
        /\ \A v \in Workers \ {w} :
              pc'[v] = pc[v] /\ job'[v] = job[v] /\ seen'[v] = seen[v]
        /\ UNCHANGED <<attempts, status, batch>>
    BY <1>3 DEF WorkerLoad, WorkerTypes, rowVars, retryVars
  <2>2. CASE job[w] # d
    <3>1. Reopeners(d)' = Reopeners(d) /\ Settlers(d)' = Settlers(d)
      BY <2>1, <2>2 DEF Reopeners, Settlers, Holders
    <3>2. Kept(d)
      BY <2>1, <3>1 DEF Kept
    <3> QED  BY <3>2, KeptFits
  <2>3. CASE job[w] = d /\ attempts[d] + 1 < MaxAttempts
    <3>1. attempts'[d] = attempts[d] /\ attempts[d] \in Nat /\ MaxAttempts \in Nat
      BY <2>1, DeliveryAssumption DEF RowTypes
    <3>2. ~(attempts'[d] + 1 >= MaxAttempts)
      BY <2>3, <3>1
    <3> QED  BY <3>2 DEF RowFits, Fits
  <2>4. CASE job[w] = d /\ ~(attempts[d] + 1 < MaxAttempts)
    <3>1. Reopeners(d)' \subseteq Reopeners(d)
      BY <2>1, <2>4 DEF Reopeners, Holders
    <3>2. Kept(d)
      BY <1>3, <2>1, <2>4, <3>1 DEF Kept, Unsettled
    <3> QED  BY <3>2, KeptFits
  <2> QED  BY <2>2, <2>3, <2>4
<1>4. CASE WorkerRecord(w) /\ ~(job[w] = d /\ Exists(d))
  <2>1. job[w] \in Ids /\ Release(w) /\ UNCHANGED batch
    BY <1>4 DEF WorkerRecord, WorkerTypes, retryVars
  <2>2. attempts'[d] = attempts[d] /\ status'[d] = status[d]
    BY <1>4, <2>1
       DEF WorkerRecord, RecordOutcome, UpdateDeliverySuccess, UpdateDeliveryDead,
           UpdateDeliveryRetry, UpdateDelivery, RowTypes, rowVars
  <2>3. Kept(d)
    BY <2>1, <2>2, ReleasedHolder DEF Kept
  <2> QED  BY <2>3, KeptFits
<1>5. CASE WorkerRecord(w) /\ job[w] = d /\ Exists(d)
  BY <1>5, RecordFits
<1>6. CASE WorkerLoad(w) /\ status[job[w]] # "pending"
  BY <1>1, <1>6 DEF WorkerLoad, rowVars, retryVars
<1>7. CASE WorkerStatementFails(w)
  BY <1>1, <1>7 DEF WorkerStatementFails, rowVars, retryVars
<1> QED
  BY <1>2, <1>3, <1>4, <1>5, <1>6, <1>7 DEF Worker

LEMMA RetryFits ==
  ASSUME TypeOK, TypeOK', NEW d \in Ids, RowFits(d),
         RetryFetch \/ RetryRead \/ RetryAct \/ RetryStatementFails \/ RetryExit
  PROVE  RowFits(d)'
<1> USE DEF TypeOK
<1>1. UNCHANGED workerVars
  BY DEF RetryFetch, RetryRead, RetryAct, RetryStatementFails, RetryExit
<1>2. Reopeners(d)' = Reopeners(d) /\ Settlers(d)' = Settlers(d)
  BY <1>1, SameHolders
<1>3. CASE UNCHANGED rowVars /\ (status[d] \notin Unsettled => (d \in batch' => d \in batch))
  <2>1. Kept(d)
    BY <1>2, <1>3 DEF Kept, rowVars
  <2> QED  BY <2>1, KeptFits
<1>4. CASE RetryFetch
  BY <1>3, <1>4 DEF RetryFetch, GetPendingDeliveries, PendingDue, Unsettled
<1>5. CASE RetryRead \/ RetryStatementFails \/ RetryExit
  BY <1>3, <1>5 DEF RetryRead, RetryStatementFails, RetryExit, TakeFromBatch
<1>6. CASE RetryAct
  <2>1. PICK e \in batch :
          /\ batch' = batch \ {e}
          /\ UpdateDeliveryDead(e, "disabled") \/ UNCHANGED rowVars
    BY <1>6 DEF RetryAct, TakeFromBatch
  <2>2. e \in Ids
    BY DEF OtherTypes
  <2>3. CASE UNCHANGED rowVars
    BY <1>3, <2>1, <2>3
  <2>4. CASE UpdateDeliveryDead(e, "disabled") /\ ~Exists(e)
    BY <2>3, <2>4 DEF UpdateDeliveryDead, UpdateDelivery
  <2>5. CASE UpdateDeliveryDead(e, "disabled") /\ e = d /\ Exists(e)
    BY <1>1, <2>1, <2>5, VerdictFits
  <2>6. CASE UpdateDeliveryDead(e, "disabled") /\ e # d /\ Exists(e)
    <3>1. attempts'[d] = attempts[d] /\ status'[d] = status[d]
      BY <2>2, <2>6 DEF UpdateDeliveryDead, UpdateDelivery, RowTypes
    <3>2. Kept(d)
      BY <1>2, <2>1, <3>1 DEF Kept
    <3> QED  BY <3>2, KeptFits
  <2> QED  BY <2>1, <2>3, <2>4, <2>5, <2>6
<1> QED  BY <1>4, <1>5, <1>6

(* Everything else leaves the workers and the batch alone, or empties them. *)
LEMMA OthersFit ==
  ASSUME TypeOK, TypeOK', NEW d \in Ids, RowFits(d), UNCHANGED <<workerVars, batch>>,
         attempts'[d] = attempts[d],
         status'[d] \in Unsettled => status[d] \in Unsettled
  PROVE  RowFits(d)'
<1>1. Kept(d)
  BY SameHolders DEF Kept
<1> QED  BY <1>1, KeptFits

LEMMA LossFits ==
  ASSUME TypeOK, TypeOK', NEW d \in Ids, RowFits(d), LoseMemory
  PROVE  RowFits(d)'
<1>1. Reopeners(d)' = {} /\ Settlers(d)' = {}
  BY DEF LoseMemory, Reopeners, Settlers, Holders
<1>2. batch' = {} /\ attempts' = attempts /\ status' = status
  BY DEF LoseMemory, rowVars
<1>3. Kept(d)
  BY <1>1, <1>2 DEF Kept
<1> QED  BY <1>3, KeptFits

LEMMA FitStep ==
  ASSUME TypeOK, AttemptsFit, IdsInOrder, [Next]_vars
  PROVE  AttemptsFit'
<1> SUFFICES ASSUME NEW d \in Ids PROVE RowFits(d)'
  BY DEF AttemptsFit
<1>1. TypeOK' /\ RowFits(d)
  BY TypeStep DEF AttemptsFit
<1> USE DEF TypeOK
<1>2. ASSUME NEW s \in Senders, Sender(s) PROVE RowFits(d)'
  <2>1. UNCHANGED <<workerVars, batch>>
    BY <1>2 DEF Sender, DispatchBegin, DispatchCreate, DispatchEnqueue, retryVars
  <2>2. CASE UNCHANGED rowVars
    BY <1>1, <2>1, <2>2, OthersFit DEF rowVars
  <2>3. ASSUME NEW h, InsertDelivery(h) PROVE RowFits(d)'
    BY <1>1, <2>1, <2>3, OthersFit
       DEF InsertDelivery, IdsInOrder, RowTypes, Unsettled, Ids
  <2> QED
    BY <1>2, <2>2, <2>3 DEF Sender, DispatchBegin, DispatchCreate, DispatchEnqueue
<1>3. ASSUME NEW w \in Workers,
             Worker(w) \/ WorkerStatementFails(w) \/ WorkerExit(w)
      PROVE  RowFits(d)'
  BY <1>1, <1>3, WorkerFits
<1>4. CASE RetryFetch \/ RetryRead \/ RetryAct \/ RetryStatementFails \/ RetryExit
  BY <1>1, <1>4, RetryFits
<1>5. ASSUME NEW e \in Ids, BackoffElapses(e) PROVE RowFits(d)'
  BY <1>1, <1>5, OthersFit DEF BackoffElapses, retryVars
<1>6. ASSUME NEW e \in Ids, RetryDelivery(e) PROVE RowFits(d)'
  <2>1. CASE e = d
    <3>1. attempts'[d] = 0 /\ status'[d] = "pending"
      BY <1>6, <2>1 DEF RetryDelivery, RowTypes
    <3>2. UNCHANGED <<workerVars, batch>>
      BY <1>6 DEF RetryDelivery, retryVars
    <3>3. /\ Reopeners(d)' = Reopeners(d) /\ Settlers(d)' = Settlers(d)
          /\ InBatch(d)' = InBatch(d)
      BY <3>2, SameHolders DEF InBatch
    <3>4. Fits(Cardinality(Workers), 0, "pending", Cardinality(Reopeners(d)),
               Cardinality(Settlers(d)), InBatch(d))
      BY FreshFits DEF Unsettled
    <3> QED  BY <3>1, <3>3, <3>4 DEF RowFits
  <2>2. CASE e # d
    BY <1>1, <1>6, <2>2, OthersFit DEF RetryDelivery, RowTypes, retryVars
  <2> QED  BY <2>1, <2>2
<1>7. ASSUME NEW S \in SUBSET Ids, DeleteRows(S), UNCHANGED <<workerVars, batch>>
      PROVE  RowFits(d)'
  BY <1>1, <1>7, OthersFit DEF DeleteRows, RowTypes, Unsettled
<1>8. CASE Cleanup
  BY <1>7, <1>8 DEF Cleanup, retryVars
<1>9. ASSUME NEW h \in Hooks,
             CreateHook(h) \/ UpdateHook(h) \/ DeleteHook(h) \/ TestHook(h)
      PROVE  RowFits(d)'
  <2>1. UNCHANGED <<workerVars, batch>>
    BY <1>9 DEF CreateHook, UpdateHook, DeleteHook, TestHook, retryVars
  <2>2. CASE CreateHook(h) \/ UpdateHook(h)
    BY <1>1, <2>1, <2>2, OthersFit DEF CreateHook, UpdateHook, rowVars
  <2>3. CASE DeleteHook(h)
    BY <1>7, <2>1, <2>3 DEF DeleteHook
  <2>4. CASE TestHook(h)
    BY <1>1, <2>1, <2>4, OthersFit
       DEF TestHook, InsertDelivery, IdsInOrder, RowTypes, Unsettled, Ids
  <2> QED  BY <1>9, <2>2, <2>3, <2>4
<1>10. CASE StopReturns \/ Crash
  BY <1>1, <1>10, LossFits DEF StopReturns, Crash
<1>11. CASE StopBegin \/ StopClose \/ Start \/ UNCHANGED vars
  BY <1>1, <1>11, OthersFit
     DEF StopBegin, StopClose, Start, vars, rowVars, retryVars
<1> QED
  BY <1>2, <1>3, <1>4, <1>5, <1>6, <1>8, <1>9, <1>10, <1>11 DEF Next, Admin

(* delivery.go:121-156: the attempts of a row never go beyond MaxAttempts by
   more than the workers that hold it can add, although nothing claims a row and
   the last attempt is recognised by a count that was read before the request. *)
THEOREM AttemptsStayBounded == Spec => []AttemptsBounded
<1>1. Init => AttemptsFit
  <2> SUFFICES ASSUME Init, NEW d \in Ids PROVE RowFits(d)
    BY DEF AttemptsFit
  <2>1. TypeOK /\ attempts[d] = 0 /\ status[d] \in Unsettled
    BY InitTypes DEF Init, Unsettled
  <2> QED  BY <2>1, FreshFits DEF RowFits
<1>2. IndInv /\ AttemptsFit /\ [Next]_vars => AttemptsFit'
  BY FitStep DEF IndInv, RowInv
<1>3. TypeOK /\ AttemptsFit => AttemptsBounded
  <2> SUFFICES ASSUME TypeOK, NEW d \in Ids, RowFits(d)
               PROVE  attempts[d] <= MaxAttempts + Overshoot
    BY DEF AttemptsFit, AttemptsBounded
  <2> DEFINE n == Cardinality(Workers)
             k == Cardinality(Reopeners(d))
             j == Cardinality(Settlers(d))
             h == InBatch(d)
  <2>1. /\ Reopeners(d) \in SUBSET Workers /\ Settlers(d) \in SUBSET Workers
        /\ Reopeners(d) \cap Settlers(d) = {}
    BY DeliveryAssumption DEF TypeOK, WorkerTypes, Reopeners, Settlers, Holders
  <2>2. Held(n, k, j, h) /\ attempts[d] \in Nat
    BY <2>1, Counts DEF Held, InBatch, TypeOK, RowTypes
  <2>3. Fits(n, attempts[d], status[d], k, j, h)
    BY DEF RowFits
  <2> HIDE DEF n, k, j, h
  <2>4. attempts[d] <= MaxAttempts + ((n * (n + 5)) \div 2 - 1)
    BY <2>2, <2>3, FitsBounds
  <2> QED  BY <2>4 DEF Overshoot, n
<1> QED
  BY <1>1, <1>2, <1>3, Invariance, PTL DEF Spec, IndInv

-----------------------------------------------------------------------------
(* What the dispatcher keeps in memory stays bounded too *)

Older(d) == {e \in PendingDue : e < d}

LEMMA OlderCounts ==
  ASSUME NEW d
  PROVE  /\ IsFiniteSet(PendingDue) /\ IsFiniteSet(Older(d))
         /\ Cardinality(Older(d)) \in Nat
<1>1. MaxDeliveries \in Nat /\ IsFiniteSet(Ids)
  BY DeliveryAssumption, FS_Interval DEF Ids
<1>2. PendingDue \in SUBSET Ids /\ Older(d) \in SUBSET PendingDue
  BY DEF PendingDue, Older
<1>3. IsFiniteSet(PendingDue)
  BY <1>1, <1>2, FS_Subset
<1> QED  BY <1>2, <1>3, FS_Subset, FS_CardinalityType

LEMMA OlderGrows ==
  ASSUME NEW d \in PendingDue, NEW e \in PendingDue, d < e
  PROVE  Cardinality(Older(d)) < Cardinality(Older(e))
<1>1. d \in Nat /\ e \in Nat /\ PendingDue \subseteq Nat
  BY DeliveryAssumption DEF PendingDue, Ids
<1>2. Older(d) \cup {d} \in SUBSET Older(e) /\ d \notin Older(d)
  <2>1. \A x \in PendingDue : x < d => x < e
    BY <1>1
  <2>2. Older(d) \subseteq Older(e) /\ d \in Older(e)
    BY <2>1 DEF Older
  <2>3. ~(d < d)
    BY <1>1
  <2> QED  BY <2>2, <2>3 DEF Older
<1>3. Cardinality(Older(d) \cup {d}) = Cardinality(Older(d)) + 1
  BY <1>2, OlderCounts, FS_AddElement
<1>4. Cardinality(Older(d) \cup {d}) <= Cardinality(Older(e))
  BY <1>2, OlderCounts, FS_Subset
<1> QED  BY <1>3, <1>4, OlderCounts

(* The query returns the oldest due rows, at most BatchSize of them. *)
LEMMA FetchedAreOldest ==
  /\ Cardinality(GetPendingDeliveries) \in Nat
  /\ Cardinality(GetPendingDeliveries) <= BatchSize
  /\ \A d \in GetPendingDeliveries, e \in PendingDue : e < d => e \in GetPendingDeliveries
<1> DEFINE S == GetPendingDeliveries
           rank == [d \in S |-> Cardinality(Older(d))]
<1>1. \A d : d \in S <=> d \in PendingDue /\ Cardinality(Older(d)) < BatchSize
  BY DEF GetPendingDeliveries, Older
<1>2. IsFiniteSet(S) /\ Cardinality(S) \in Nat
  <2>1. S \in SUBSET PendingDue
    BY <1>1
  <2> HIDE DEF S
  <2> QED  BY <2>1, OlderCounts, FS_Subset, FS_CardinalityType
<1> HIDE DEF S
<1>3. BatchSize \in Nat /\ \A d \in S : Cardinality(Older(d)) \in 0..(BatchSize - 1)
  <2> SUFFICES ASSUME NEW d \in S PROVE Cardinality(Older(d)) \in 0..(BatchSize - 1)
    BY DeliveryAssumption
  <2>1. Cardinality(Older(d)) \in Nat /\ Cardinality(Older(d)) < BatchSize
    BY <1>1, OlderCounts
  <2> QED  BY <2>1, DeliveryAssumption
<1>4. Cardinality(S) <= BatchSize
  <2> SUFFICES ASSUME Cardinality(S) > BatchSize PROVE FALSE
    BY <1>2, <1>3
  <2> DEFINE T == 0..(BatchSize - 1)
  <2>1. IsFiniteSet(T) /\ Cardinality(T) = BatchSize
    BY <1>3, FS_Interval
  <2>2. rank \in [S -> T]
    BY <1>3
  <2> HIDE DEF T, rank
  <2>3. PICK d \in S, e \in S : d # e /\ rank[d] = rank[e]
    BY <1>2, <1>3, <2>1, <2>2, FS_PigeonHole
  <2>4. Cardinality(Older(d)) = Cardinality(Older(e))
    BY <2>3 DEF rank
  <2>5. d \in PendingDue /\ e \in PendingDue /\ d \in Nat /\ e \in Nat
    BY <1>1, DeliveryAssumption DEF PendingDue, Ids
  <2>6. d < e \/ e < d
    BY <2>3, <2>5
  <2> QED  BY <2>4, <2>5, <2>6, OlderGrows, OlderCounts
<1>5. \A d \in S, e \in PendingDue : e < d => e \in S
  <2> SUFFICES ASSUME NEW d \in S, NEW e \in PendingDue, e < d
               PROVE  Cardinality(Older(e)) < BatchSize
    BY <1>1
  <2>1. Cardinality(Older(e)) < Cardinality(Older(d))
    BY <1>1, OlderGrows
  <2> QED  BY <1>3, <2>1, OlderCounts
<1> QED  BY <1>2, <1>4, <1>5 DEF S

(* dispatcher.go:207-265 and 356-365: however many events come and
   however many deliveries are due, the queue and the batch of the retry worker
   stay within their limits; the rest waits in the table. *)
MemoryBounded == Len(queue) <= QueueCap /\ Cardinality(batch) <= BatchSize

LEMMA MemoryStep == TypeOK /\ MemoryBounded /\ [Next]_vars => MemoryBounded'
<1> SUFFICES ASSUME TypeOK, MemoryBounded, [Next]_vars PROVE MemoryBounded'
  OBVIOUS
<1>1. /\ queue \in Seq(Ids) /\ QueueCap \in Nat /\ BatchSize \in Nat /\ Len(queue) \in Nat
      /\ batch \in SUBSET Ids /\ IsFiniteSet(batch)
  <2>1. IsFiniteSet(Ids)
    BY DeliveryAssumption, FS_Interval DEF Ids
  <2>2. queue \in Seq(Ids) /\ batch \in SUBSET Ids
    BY DEF TypeOK, OtherTypes
  <2> QED  BY <2>1, <2>2, FS_Subset, DeliveryAssumption
<1>2. ASSUME NEW d \in Ids, Enqueue(d) PROVE Len(queue') <= QueueCap
  <2>1. CASE Len(queue) < QueueCap
    BY <1>1, <1>2, <2>1 DEF Enqueue
  <2>2. CASE ~(Len(queue) < QueueCap)
    BY <1>2, <2>2 DEF Enqueue, MemoryBounded
  <2> QED  BY <2>1, <2>2
<1>3. ASSUME batch' \subseteq batch PROVE Cardinality(batch') <= BatchSize
  <2>1. Cardinality(batch') <= Cardinality(batch) /\ Cardinality(batch) \in Nat
        /\ Cardinality(batch') \in Nat
    BY <1>1, <1>3, FS_Subset, FS_CardinalityType
  <2> QED  BY <1>1, <2>1 DEF MemoryBounded
<1>4. ASSUME NEW s \in Senders, Sender(s) PROVE MemoryBounded'
  <2>1. CASE DispatchBegin(s) \/ DispatchCreate(s)
    BY <2>1 DEF DispatchBegin, DispatchCreate, retryVars, MemoryBounded
  <2>2. CASE DispatchEnqueue(s)
    <3>1. created[s] \in Ids /\ batch' = batch
      BY <2>2 DEF DispatchEnqueue, TypeOK, OtherTypes, retryVars
    <3> QED  BY <1>2, <2>2, <3>1 DEF DispatchEnqueue, MemoryBounded
  <2> QED  BY <1>4, <2>1, <2>2 DEF Sender
<1>5. ASSUME NEW w \in Workers, Worker(w) \/ WorkerStatementFails(w) \/ WorkerExit(w)
      PROVE  MemoryBounded'
  <2>1. batch' = batch
    BY <1>5 DEF Worker, WorkerReceive, WorkerLoad, WorkerPost, WorkerRecord,
                WorkerStatementFails, WorkerExit, retryVars
  <2>2. CASE WorkerReceive(w)
    <3>1. queue # <<>> /\ queue' = Tail(queue)
      BY <2>2 DEF WorkerReceive
    <3>2. Len(queue') <= Len(queue) /\ Len(queue') \in Nat
      BY <1>1, <3>1
    <3> QED  BY <1>1, <2>1, <3>2 DEF MemoryBounded
  <2>3. CASE queue' = queue
    BY <2>1, <2>3 DEF MemoryBounded
  <2> QED
    BY <1>5, <2>2, <2>3 DEF Worker, WorkerLoad, WorkerPost, WorkerRecord,
                            WorkerStatementFails, WorkerExit
<1>6. CASE RetryFetch
  BY <1>6, FetchedAreOldest DEF RetryFetch, MemoryBounded
<1>7. CASE RetryRead \/ RetryStatementFails \/ RetryExit
  <2>1. batch' \subseteq batch /\ queue' = queue
    BY <1>7 DEF RetryRead, RetryStatementFails, RetryExit, TakeFromBatch
  <2> QED  BY <1>3, <2>1 DEF MemoryBounded
<1>8. CASE RetryAct
  <2>1. PICK d \in batch : TakeFromBatch(d) /\ (UNCHANGED queue \/ Enqueue(d))
    BY <1>8 DEF RetryAct
  <2>2. d \in Ids /\ batch' \subseteq batch
    BY <1>1, <2>1 DEF TakeFromBatch
  <2> QED  BY <1>2, <1>3, <2>1, <2>2 DEF MemoryBounded
<1>9. CASE StopReturns \/ Crash
  <2>1. queue' = <<>> /\ batch' = {}
    BY <1>9 DEF StopReturns, Crash, LoseMemory
  <2>2. Len(<<>>) = 0 /\ Cardinality({}) = 0
    BY FS_EmptySet
  <2> HIDE DEF MemoryBounded
  <2> QED  BY <1>1, <2>1, <2>2 DEF MemoryBounded
<1>10. CASE UNCHANGED <<queue, retryVars>>
  BY <1>10 DEF retryVars, MemoryBounded
<1> QED
  <2>1. CASE \/ \E d \in Ids : BackoffElapses(d)
             \/ Cleanup \/ Admin \/ StopBegin \/ StopClose \/ Start \/ UNCHANGED vars
    <3>1. UNCHANGED <<queue, retryVars>>
      BY <2>1 DEF BackoffElapses, Cleanup, Admin, CreateHook, UpdateHook, DeleteHook,
                  TestHook, RetryDelivery, StopBegin, StopClose, Start, vars
    <3> QED  BY <1>10, <3>1
  <2> QED
    BY <1>4, <1>5, <1>6, <1>7, <1>8, <1>9, <2>1 DEF Next

(* The queue and the batch never hold more than their limits allow. *)
THEOREM MemoryStaysBounded == Spec => []MemoryBounded
<1>1. Init => MemoryBounded
  <2>1. Cardinality({}) = 0
    BY FS_EmptySet
  <2>2. Init => queue = <<>> /\ batch = {}
    BY DEF Init
  <2> QED  BY <2>1, <2>2, DeliveryAssumption DEF MemoryBounded
<1> QED  BY <1>1, MemoryStep, TypeCorrect, PTL DEF Spec

=============================================================================
