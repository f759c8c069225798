---------------------- MODULE PrioritySchedulerProofs ----------------------
(***************************************************************************)
(* The 3:1 share of PriorityScheduler, and that its round robin always     *)
(* finds a camera and turns fairly on a stable list, for every ratio,      *)
(* every number of cameras and any pattern of arrivals and lost claims.    *)
(***************************************************************************)
EXTENDS PriorityScheduler, CountingLemmas

\* The counter in the code bounds what actually happened since the last backlog
\* claim: it is what the two properties rest on.
RatioInv ==
  /\ rtServed \in 0..Ratio
  /\ streak \in 0..rtServed
  /\ since = rtServed

LEMMA RatioInitially == Init => RatioInv
  BY RatioAssumption DEF Init, RatioInv

\* A claim of either class keeps the counter and the history in step.
LEMMA ClaimKeepsRatio ==
  ASSUME RatioInv, NEW k \in Class, NEW c \in Camera, Claim(k, c)
  PROVE  RatioInv'
<1>1. CASE k = "backlog"
  <2>1. rtServed' = 0 /\ since' = 0 /\ streak' = 0
    BY <1>1 DEF Claim, Served
  <2> QED
    BY <2>1, RatioAssumption DEF RatioInv
<1>2. CASE k = "realtime"
  <2>1. rtServed' = UpToRatio(rtServed + 1) /\ since' = UpToRatio(since + 1)
    BY <1>2 DEF Claim, Served
  <2>2. rtServed' \in 0..Ratio /\ since' = rtServed' /\ rtServed' >= rtServed
    BY <2>1, RatioAssumption DEF RatioInv, UpToRatio
  <2>3. CASE Contended
    <3>1. rtServed < Ratio
      BY <1>2, <2>3 DEF Claim, Chosen
    <3>2. streak' = streak + 1
      BY <1>2, <2>3, <3>1, RatioAssumption DEF Claim, RatioInv
    <3>3. rtServed' = rtServed + 1
      BY <2>1, <3>1, RatioAssumption DEF RatioInv, UpToRatio
    <3> QED
      BY <2>2, <3>2, <3>3 DEF RatioInv
  <2>4. CASE ~Contended
    <3>1. streak' = 0
      BY <2>4 DEF Claim
    <3> QED
      BY <2>2, <3>1 DEF RatioInv
  <2> QED
    BY <2>3, <2>4
<1> QED
  BY <1>1, <1>2 DEF Class

LEMMA RatioInductive == RatioInv /\ [Next]_vars => RatioInv'
<1> SUFFICES ASSUME RatioInv, [Next]_vars
             PROVE  RatioInv'
  OBVIOUS
<1>1. CASE \E k \in Class, c \in Camera : Claim(k, c)
  BY <1>1, ClaimKeepsRatio
<1>2. CASE \E k \in Class, c \in Camera : ClaimLost(k, c)
  BY <1>2 DEF ClaimLost, RatioInv
<1>3. CASE \E c \in Camera : Arrive(c) \/ Age(c)
  BY <1>3 DEF Arrive, Age, RatioInv
<1>4. CASE UNCHANGED vars
  BY <1>4 DEF vars, RatioInv
<1> QED
  BY <1>1, <1>2, <1>3, <1>4 DEF Next

LEMMA RatioInvariance == Spec => []RatioInv
  BY RatioInitially, RatioInductive, PTL DEF Spec

\* Waiting backlog is passed over by at most Ratio realtime claims in a row.
THEOREM BacklogPassedAtMostRatio == Spec => []AtMostRatioBeforeBacklog
<1>1. RatioInv => AtMostRatioBeforeBacklog
  BY RatioAssumption DEF RatioInv, AtMostRatioBeforeBacklog
<1> QED
  BY <1>1, RatioInvariance, PTL

\* While live video waits, backlog is claimed only after Ratio realtime claims.
THEOREM RealtimeKeepsItsShare == Spec => BacklogWaitsItsTurn
<1>1. RatioInv => \A c \in Camera : Claim("backlog", c) /\ Contended => since = Ratio
  BY RatioAssumption DEF RatioInv, Claim, Chosen
<1>2. RatioInv /\ [Next]_vars
        => [\A c \in Camera : Claim("backlog", c) /\ Contended => since = Ratio]_vars
  BY <1>1
<1> QED
  BY <1>2, RatioInvariance, PTL DEF Spec, BacklogWaitsItsTurn

-----------------------------------------------------------------------------
(* Types                                                                   *)

LEMMA UpToRatioRange ==
  ASSUME NEW n \in Nat
  PROVE  UpToRatio(n) \in 0..Ratio
  BY RatioAssumption DEF UpToRatio

LEMMA AdvanceType ==
  ASSUME TypeOK, NEW k \in Class, Advance(k)
  PROVE  rrIndex' \in [Class -> 0..(Turns - 1)]
<1>1. rrIndex[k] + 1 \in Nat
  BY TurnsAssumption DEF TypeOK
<1>2. (rrIndex[k] + 1) % Turns \in 0..(Turns - 1)
  BY <1>1, TurnsAssumption, RemainderExists
<1> QED
  BY <1>2 DEF Advance, TypeOK

LEMMA ClaimType ==
  ASSUME TypeOK, NEW k \in Class, NEW c \in Camera, Claim(k, c)
  PROVE  TypeOK'
<1>1. rrIndex' \in [Class -> 0..(Turns - 1)]
  BY AdvanceType DEF Claim
<1>2. pending' \in [Class -> [Camera -> 0..MaxPending]]
  <2>1. pending[k][c] \in 0..MaxPending /\ pending[k][c] > 0
    BY DEF Claim, InTurn, Waiting, TypeOK
  <2>2. pending[k][c] - 1 \in 0..MaxPending
    BY <2>1, MaxPendingAssumption
  <2> QED
    BY <2>2 DEF Claim, TypeOK
<1>3. rtServed' \in 0..Ratio
  BY UpToRatioRange, RatioAssumption DEF Claim, Served, TypeOK
<1>4. streak' \in 0..(Ratio + 1)
  BY RatioAssumption DEF Claim, TypeOK
<1>5. since' \in 0..Ratio
  BY UpToRatioRange, RatioAssumption DEF Claim, TypeOK
<1> QED
  BY <1>1, <1>2, <1>3, <1>4, <1>5 DEF TypeOK

LEMMA TypeInductive == TypeOK /\ [Next]_vars => TypeOK'
<1> SUFFICES ASSUME TypeOK, [Next]_vars
             PROVE  TypeOK'
  OBVIOUS
<1>1. CASE \E k \in Class, c \in Camera : Claim(k, c)
  BY <1>1, ClaimType
<1>2. ASSUME NEW k \in Class, NEW c \in Camera, ClaimLost(k, c)
      PROVE  TypeOK'
  <2>1. rrIndex' \in [Class -> 0..(Turns - 1)]
    BY <1>2, AdvanceType DEF ClaimLost
  <2> QED
    BY <1>2, <2>1 DEF ClaimLost, TypeOK
<1>3. ASSUME NEW c \in Camera, Arrive(c)
      PROVE  TypeOK'
  <2>1. pending["realtime"][c] + 1 \in 0..MaxPending
    BY <1>3, MaxPendingAssumption DEF Arrive, TypeOK, Class
  <2> QED
    BY <1>3, <2>1 DEF Arrive, TypeOK, Class
<1>4. ASSUME NEW c \in Camera, Age(c)
      PROVE  TypeOK'
  <2>1. /\ pending["realtime"][c] - 1 \in 0..MaxPending
        /\ pending["backlog"][c] + 1 \in 0..MaxPending
    BY <1>4, MaxPendingAssumption DEF Age, TypeOK, Class
  <2> QED
    BY <1>4, <2>1 DEF Age, TypeOK, Class
<1>5. CASE UNCHANGED vars
  BY <1>5 DEF vars, TypeOK
<1> QED
  BY <1>1, <1>2, <1>3, <1>4, <1>5 DEF Next

\* Every counter and index of the scheduler keeps its type.
THEOREM SchedulerTypes == Spec => []TypeOK
<1>1. Init => TypeOK
  BY RatioAssumption, TurnsAssumption DEF Init, TypeOK
<1> QED
  BY <1>1, TypeInductive, PTL DEF Spec

-----------------------------------------------------------------------------
(* The round robin                                                         *)

LEMMA WaitingCameras ==
  ASSUME NEW k \in Class
  PROVE  /\ Waiting(k) \in SUBSET (1..Cameras)
         /\ IsFiniteSet(Waiting(k)) /\ Cardinality(Waiting(k)) \in Nat
         /\ Waiting(k) # {} => Cardinality(Waiting(k)) \in Camera
<1>1. Waiting(k) \in SUBSET (1..Cameras)
  BY DEF Waiting, Camera
<1>2. IsFiniteSet(1..Cameras) /\ Cardinality(1..Cameras) = Cameras
  BY CamerasAssumption, FS_Interval
<1>3. /\ IsFiniteSet(Waiting(k)) /\ Cardinality(Waiting(k)) \in Nat
      /\ Cardinality(Waiting(k)) <= Cameras
  BY <1>1, <1>2, FS_Subset, FS_CardinalityType
<1>4. Waiting(k) # {} => Cardinality(Waiting(k)) # 0
  BY <1>3, FS_EmptySet
<1> QED
  BY <1>1, <1>3, <1>4, CamerasAssumption DEF Camera

\* Where the index points in the list of waiting cameras: rr_index % len(cameras).
Pointer(k) == rrIndex[k] % Cardinality(Waiting(k))

LEMMA PointerRange ==
  ASSUME TypeOK, NEW k \in Class, Waiting(k) # {}
  PROVE  Pointer(k) \in 0..(Cardinality(Waiting(k)) - 1)
<1>1. Cardinality(Waiting(k)) \in Nat \ {0}
  BY WaitingCameras, CamerasAssumption DEF Camera
<1>2. rrIndex[k] \in Nat
  BY TurnsAssumption DEF TypeOK
<1> QED
  BY <1>1, <1>2, RemainderExists DEF Pointer

\* Whatever the index holds, exactly one waiting camera is in turn.
LEMMA OneCameraInTurn ==
  ASSUME TypeOK, NEW k \in Class, Waiting(k) # {}
  PROVE  /\ \E c \in Camera : InTurn(k, c)
         /\ \A c, d \in Camera : InTurn(k, c) /\ InTurn(k, d) => c = d
<1> DEFINE S == Waiting(k)
<1>1. S \in SUBSET (1..Cameras) /\ Cameras \in Nat /\ Cardinality(S) \in Nat
  BY WaitingCameras, CamerasAssumption
<1>2. Pointer(k) \in Nat /\ Pointer(k) < Cardinality(S)
  BY <1>1, PointerRange
<1>3. \A c \in Camera : InTurn(k, c) <=> c \in S /\ Rank(S, c) = Pointer(k)
  BY DEF InTurn, Rank, Pointer
<1>4. S \subseteq Camera
  BY <1>1 DEF Camera
<1> HIDE DEF S
<1>5. \E c \in S : Rank(S, c) = Pointer(k)
  BY <1>1, <1>2, RankOnto
<1>6. ASSUME NEW c \in S, NEW d \in S, Rank(S, c) = Rank(S, d)
      PROVE  c = d
  BY <1>1, <1>6, RankInjective
<1> QED
  BY <1>3, <1>4, <1>5, <1>6

\* _choose_class always has an answer while a row is pending, and only one.
LEMMA OneClassChosen ==
  ASSUME TypeOK
  PROVE  /\ (\E k \in Class : Waiting(k) # {}) => \E k \in Class : Chosen(k)
         /\ \A j, k \in Class : Chosen(j) /\ Chosen(k) => j = k
<1>1. CASE Contended
  <2>1. Chosen("realtime") <=> rtServed < Ratio
    BY <1>1 DEF Chosen, Contended, Class
  <2>2. Chosen("backlog") <=> ~ (rtServed < Ratio)
    BY <1>1 DEF Chosen, Contended, Class
  <2> QED
    BY <2>1, <2>2 DEF Class
<1>2. CASE ~Contended
  BY <1>2 DEF Chosen, Contended, Class
<1> QED
  BY <1>1, <1>2

\* Whenever a row is pending the worker has a claim to make: neither an empty
\* class, nor a camera that drained, nor an index beyond a shrunken list leaves
\* it idle.
THEOREM WorkFound == Spec => []WorkIsFound
<1>1. TypeOK => WorkIsFound
  <2> SUFFICES ASSUME TypeOK, \E k \in Class : Waiting(k) # {}
               PROVE  \E k \in Class, c \in Camera : Chosen(k) /\ InTurn(k, c)
    BY DEF WorkIsFound
  <2>1. PICK k \in Class : Chosen(k)
    BY OneClassChosen
  <2>2. \E c \in Camera : InTurn(k, c)
    BY <2>1, OneCameraInTurn DEF Chosen
  <2> QED
    BY <2>1, <2>2
<1> QED
  BY <1>1, SchedulerTypes, PTL

\* Wrapping the index at Turns is exact: it never moves the pointer, however
\* many cameras the list has.  This is what makes the bound Turns harmless.
LEMMA WrappingIsExact ==
  ASSUME NEW x \in 0..(Turns - 1), NEW n \in Camera
  PROVE  ((x + 1) % Turns) % n = (x + 1) % n
<1>1. n \in Nat \ {0} /\ x \in Nat /\ Turns \in Nat \ {0} /\ Turns % n = 0
  BY CamerasAssumption, TurnsAssumption DEF Camera
<1>2. CASE x + 1 < Turns
  <2>1. (Turns * 0 + (x + 1)) % Turns = x + 1
    BY <1>1, <1>2, RemainderUnique, x + 1 \in 0..(Turns - 1)
  <2>2. Turns * 0 + (x + 1) = x + 1
    BY <1>1
  <2> QED
    BY <2>1, <2>2
<1>3. CASE x + 1 = Turns
  <2>1. (Turns * 1 + 0) % Turns = 0
    BY <1>1, RemainderUnique, 0 \in 0..(Turns - 1)
  <2>2. Turns * 1 + 0 = Turns
    BY <1>1
  <2>3. (n * 0 + 0) % n = 0
    BY <1>1, RemainderUnique, 0 \in 0..(n - 1)
  <2>4. n * 0 + 0 = 0
    BY <1>1
  <2> QED
    BY <1>1, <1>3, <2>1, <2>2, <2>3, <2>4
<1> QED
  BY <1>1, <1>2, <1>3

\* How many turns of its class are taken before the camera's own.
Distance(k, c) ==
  LET place == Rank(Waiting(k), c)
  IN  IF place >= Pointer(k) THEN place - Pointer(k)
                             ELSE place + Cardinality(Waiting(k)) - Pointer(k)

Turn(k) == \E d \in Camera : Claim(k, d) \/ ClaimLost(k, d)

\* While the list of waiting cameras stays the same, every turn of the class
\* brings each camera one closer and nothing else moves it away: a camera is
\* reached after fewer turns than there are cameras (_claim_next: rr_index + 1
\* whether or not the claim succeeds).  The starvation that scheduler_three
\* exhibits needs a list that changes.
TurnsComeCloser ==
  [][\A k \in Class : \A c \in Waiting(k) :
       Waiting(k)' = Waiting(k) =>
         /\ Distance(k, c) \in 0..(Cardinality(Waiting(k)) - 1)
         /\ Distance(k, c) = 0 <=> InTurn(k, c)
         /\ ~InTurn(k, c) =>
              Distance(k, c)' = IF Turn(k) THEN Distance(k, c) - 1 ELSE Distance(k, c)]_vars

LEMMA DistanceRange ==
  ASSUME TypeOK, NEW k \in Class, NEW c \in Waiting(k)
  PROVE  /\ Distance(k, c) \in 0..(Cardinality(Waiting(k)) - 1)
         /\ Distance(k, c) = 0 <=> InTurn(k, c)
<1>1. /\ Waiting(k) \in SUBSET (1..Cameras) /\ Cameras \in Nat
      /\ Cardinality(Waiting(k)) \in Nat
  BY WaitingCameras, CamerasAssumption
<1>2. Pointer(k) \in 0..(Cardinality(Waiting(k)) - 1)
  BY PointerRange
<1>3. Rank(Waiting(k), c) \in 0..(Cardinality(Waiting(k)) - 1)
  BY <1>1, RankBelowLength
<1>4. InTurn(k, c) <=> Rank(Waiting(k), c) = Pointer(k)
  BY DEF InTurn, Rank, Pointer
<1> QED
  BY <1>1, <1>2, <1>3, <1>4 DEF Distance

LEMMA PointerMoves ==
  ASSUME TypeOK, NEW k \in Class, Waiting(k) # {}, Waiting(k)' = Waiting(k), Advance(k)
  PROVE  Pointer(k)' = IF Pointer(k) + 1 = Cardinality(Waiting(k)) THEN 0 ELSE Pointer(k) + 1
<1> DEFINE n == Cardinality(Waiting(k))
           x == rrIndex[k]
<1>1. n \in Camera /\ n \in Nat \ {0}
  BY WaitingCameras, CamerasAssumption DEF Camera
<1>2. x \in 0..(Turns - 1) /\ x \in Nat
  BY TurnsAssumption DEF TypeOK
<1>3. rrIndex'[k] = (x + 1) % Turns
  BY DEF Advance, TypeOK
<1>4. Pointer(k)' = ((x + 1) % Turns) % n
  BY <1>3 DEF Pointer
<1>5. Pointer(k) = x % n
  BY DEF Pointer
<1> HIDE DEF n, x
<1>6. Pointer(k)' = (x + 1) % n
  BY <1>1, <1>2, <1>4, WrappingIsExact
<1>7. (x + 1) % n = IF (x % n) + 1 = n THEN 0 ELSE (x % n) + 1
  BY <1>1, <1>2, RemainderOfSuccessor
<1> QED
  BY <1>5, <1>6, <1>7 DEF n

LEMMA PointerStays ==
  ASSUME TypeOK, NEW k \in Class, Waiting(k)' = Waiting(k), [Next]_vars, ~Turn(k)
  PROVE  Pointer(k)' = Pointer(k)
<1>1. rrIndex'[k] = rrIndex[k]
  <2>1. ASSUME NEW j \in Class, NEW d \in Camera, Claim(j, d) \/ ClaimLost(j, d)
        PROVE  rrIndex'[k] = rrIndex[k]
    <3>1. j # k
      BY <2>1 DEF Turn
    <3>2. Advance(j)
      BY <2>1 DEF Claim, ClaimLost
    <3> QED
      BY <3>1, <3>2 DEF Advance, TypeOK
  <2>2. CASE \E d \in Camera : Arrive(d) \/ Age(d)
    BY <2>2 DEF Arrive, Age
  <2>3. CASE UNCHANGED vars
    BY <2>3 DEF vars
  <2> QED
    BY <2>1, <2>2, <2>3 DEF Next
<1> QED
  BY <1>1 DEF Pointer

THEOREM RoundRobinTurns == Spec => TurnsComeCloser
<1> DEFINE Closer ==
      \A k \in Class : \A c \in Waiting(k) :
        Waiting(k)' = Waiting(k) =>
          /\ Distance(k, c) \in 0..(Cardinality(Waiting(k)) - 1)
          /\ Distance(k, c) = 0 <=> InTurn(k, c)
          /\ ~InTurn(k, c) =>
               Distance(k, c)' = IF Turn(k) THEN Distance(k, c) - 1 ELSE Distance(k, c)
<1>1. ASSUME TypeOK, [Next]_vars, NEW k \in Class, NEW c \in Waiting(k),
             Waiting(k)' = Waiting(k), ~InTurn(k, c)
      PROVE  Distance(k, c)' = IF Turn(k) THEN Distance(k, c) - 1 ELSE Distance(k, c)
  <2> DEFINE n == Cardinality(Waiting(k))
             place == Rank(Waiting(k), c)
  <2>1. Waiting(k) \in SUBSET (1..Cameras) /\ Cameras \in Nat /\ n \in Nat
    BY WaitingCameras, CamerasAssumption
  <2>2. place \in 0..(n - 1)
    BY <2>1, RankBelowLength
  <2>3. Pointer(k) \in 0..(n - 1)
    BY <1>1, PointerRange
  <2>4. place # Pointer(k)
    BY <1>1 DEF InTurn, Rank, Pointer
  <2>5. Rank(Waiting(k), c)' = place /\ Cardinality(Waiting(k))' = n
    BY <1>1 DEF Rank
  <2>6. Distance(k, c) = IF place >= Pointer(k) THEN place - Pointer(k)
                                                ELSE place + n - Pointer(k)
    BY DEF Distance
  <2>7. Distance(k, c)' = IF place >= Pointer(k)' THEN place - Pointer(k)'
                                                  ELSE place + n - Pointer(k)'
    BY <2>5 DEF Distance
  <2> HIDE DEF n, place
  <2>8. CASE Turn(k)
    <3>1. Waiting(k) # {} /\ Advance(k)
      BY <2>8 DEF Turn, Claim, ClaimLost
    <3>2. Pointer(k)' = IF Pointer(k) + 1 = n THEN 0 ELSE Pointer(k) + 1
      BY <1>1, <3>1, PointerMoves DEF n
    <3> QED
      BY <2>1, <2>2, <2>3, <2>4, <2>6, <2>7, <2>8, <3>2
  <2>9. CASE ~Turn(k)
    BY <1>1, <2>6, <2>7, <2>9, PointerStays
  <2> QED
    BY <2>8, <2>9
<1>2. TypeOK /\ [Next]_vars => Closer
  BY <1>1, DistanceRange
<1>3. TypeOK /\ [Next]_vars => [Closer]_vars
  BY <1>2
<1> QED
  BY <1>3, SchedulerTypes, PTL DEF Spec, TurnsComeCloser
=============================================================================
