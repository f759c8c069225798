----------------------- MODULE BufferWatermarksProofs -----------------------
(***************************************************************************)
(* The order in which the buffer recycles, for any number of segments, any *)
(* sizes, any marks and however many rounds an exception ends.             *)
(***************************************************************************)
EXTENDS BufferWatermarks, TLAPS

USE SegmentsAssumption, SizesAssumption, MarksAssumption, MaxErrorsAssumption

LEMMA Initially == Init => IInv
  BY DEF Init, IInv, TypeOK, RoundInv, Segment

\* What happens to the disk and the index under a round.
LEMMA OutsideIInv ==
  ASSUME IInv, NEW s \in Segment, Recorded(s) \/ Uploaded(s) \/ LeavesPlaylist(s)
  PROVE  IInv'
<1> USE DEF IInv, TypeOK, RoundInv, round, disk, rows
<1>1. CASE Recorded(s)
  <2>1. PICK size \in Sizes : \E seen \in 0..size :
          /\ file' = [file EXCEPT ![s] = size] /\ used' = used + size
          /\ recorded' = [recorded EXCEPT ![s] = seen]
    BY <1>1 DEF Recorded
  <2>2. size \in Nat /\ 0..size \subseteq Nat
    OBVIOUS
  <2> QED
    BY <1>1, <2>1, <2>2 DEF Recorded
<1>2. CASE Uploaded(s)
  BY <1>2 DEF Uploaded
<1>3. CASE LeavesPlaylist(s)
  BY <1>3 DEF LeavesPlaylist, RemoveFile
<1> QED
  BY <1>1, <1>2, <1>3

\* The steps of a round.
LEMMA RoundIInv == IInv /\ (RoundStep \/ RoundBreaks) => IInv'
<1> SUFFICES ASSUME IInv, RoundStep \/ RoundBreaks PROVE IInv'
  OBVIOUS
<1> USE DEF IInv, TypeOK, RoundInv, disk, rows
<1>1. CASE ReadUsage
  BY <1>1 DEF ReadUsage
<1>2. CASE ListUploaded
  BY <1>2 DEF ListUploaded
<1>3. CASE RoundEnds \/ RoundBreaks
  BY <1>3 DEF RoundEnds, RoundBreaks, Back
<1>4. CASE NextCandidate
  <2>1. PICK s \in rest : (\A t \in rest : s <= t) /\ DeleteRow(s)
    BY <1>4 DEF NextCandidate
  <2>2. s \in Segment /\ s \in listed /\ rest' = rest \ {s} /\ listed' = listed
    BY <2>1 DEF DeleteRow
  <2>3. state'[s] = "recycled" /\ \A t \in Segment \ {s} : state'[t] = state[t]
    BY <2>1, <2>2 DEF DeleteRow
  <2>4. \A t \in rest' : s < t
    BY <2>1, <2>2 DEF Segment
  <2>5. TypeOK'
    BY <1>4, <2>1, <2>2 DEF NextCandidate, DeleteRow, Segment
  <2>6. pc' = "unlink" => victim' = s
    BY <1>4, <2>1 DEF NextCandidate, DeleteRow
  <2> QED
    BY <1>4, <2>2, <2>3, <2>4, <2>5, <2>6 DEF NextCandidate
<1>5. CASE Unlink
  BY <1>5 DEF Unlink, RemoveFile
<1>6. CASE UnlinkRaises
  BY <1>6 DEF UnlinkRaises
<1> QED
  BY <1>1, <1>2, <1>3, <1>4, <1>5, <1>6 DEF RoundStep

LEMMA Inductive == IInv /\ [Next]_vars => IInv'
<1>1. IInv /\ UNCHANGED vars => IInv'
  BY DEF IInv, TypeOK, RoundInv, vars, disk, rows, round
<1> QED
  BY <1>1, OutsideIInv, RoundIInv DEF Next

LEMMA Invariance == Spec => []IInv
  BY Initially, Inductive, PTL DEF Spec

\* Type correctness of the buffer and its rounds.
THEOREM TypeCorrect == Spec => []TypeOK
  BY Invariance, PTL DEF IInv

\* Only the candidate's row changes to "recycled".
LEMMA OnlyCandidates ==
  ASSUME IInv, [Next]_vars, NEW s \in Segment,
         state[s] = "uploaded", state'[s] = "recycled"
  PROVE  /\ pc = "loop" /\ s \in rest
         /\ \A t \in rest : s <= t
<1>1. NextCandidate
  BY DEF IInv, TypeOK, vars, disk, rows, round, Next, RoundStep, ReadUsage, ListUploaded,
         RoundEnds, Unlink, UnlinkRaises, RoundBreaks, Back, Recorded, Uploaded,
         LeavesPlaylist, RemoveFile
<1>2. PICK c \in rest : (\A t \in rest : c <= t) /\ DeleteRow(c)
  BY <1>1 DEF NextCandidate
<1>3. c = s
  BY <1>2 DEF DeleteRow, IInv, TypeOK
<1> QED
  BY <1>1, <1>2, <1>3 DEF NextCandidate

\* No uploaded segment goes while the round's list still has an older one.
THEOREM RecyclingIsInOrder == Spec => OldestGoesFirst
<1> DEFINE InOrder ==
      \A s \in Segment :
        state[s] = "uploaded" /\ state'[s] = "recycled" =>
          \A t \in listed : t < s => state[t] # "uploaded"
<1>1. IInv /\ [Next]_vars => InOrder
  <2> SUFFICES ASSUME IInv, [Next]_vars, NEW s \in Segment,
                      state[s] = "uploaded", state'[s] = "recycled",
                      NEW t \in listed, t < s
               PROVE  state[t] # "uploaded"
    OBVIOUS
  <2>1. pc = "loop" /\ \A r \in rest : s <= r
    BY OnlyCandidates
  <2>2. t \notin rest
    BY <2>1 DEF IInv, TypeOK, Segment
  <2> QED
    BY <2>1, <2>2 DEF IInv, RoundInv
<1>2. IInv /\ [Next]_vars => [InOrder]_vars
  BY <1>1
<1> QED
  BY <1>2, Invariance, PTL DEF Spec, OldestGoesFirst
=============================================================================
