---------------------------- MODULE DecodersProofs ---------------------------
(***************************************************************************)
(* The RDS decoder, for any stations, any thresholds and any sequence of   *)
(* good, garbled and mistaken blocks: in synchronisation the valid blocks  *)
(* are those of the group that is being received (FreshInv), and what      *)
(* other stations have among the votes for the name is covered by what     *)
(* went wrong on the air (TallyInv).  The TETRA decoder, for any slots,    *)
(* channels, events, losses and resets: while a message is heard the slots *)
(* are counted rightly, and what is pending under its channel is its own   *)
(* or gone (PiecesInv).                                                    *)
(***************************************************************************)
EXTENDS RdsDecoder, TetraDecoder, TLAPS

-------------------------------------------------------------------------------
(* RDS.                                                                    *)

USE RdsAssumption

\* In synchronisation the valid blocks are of the group that is being received, and as old as
\* their places say. Before, their flags may be anything: entering synchronisation clears them.
FreshInv ==
  /\ blockNumber \in Places
  /\ valid \in [Places -> BOOLEAN] /\ age \in [Places -> 0 .. OldAge]
  /\ synced => \A i \in Places : valid[i] => i < blockNumber /\ age[i] = blockNumber - 1 - i
  /\ GroupIsOneTransmission

LEMMA FreshInit == RdsInit => FreshInv
BY DEF RdsInit, FreshInv, Places, OldAge, NothingValid, GroupIsOneTransmission

LEMMA UpToBound == \A n \in 0 .. OldAge : UpTo(n, OldAge) \in 0 .. OldAge
BY DEF UpTo, OldAge

\* One block in synchronisation.
LEMMA SyncedFresh ==
  ASSUME FreshInv, NEW good \in BOOLEAN, NEW from, Synced(good, from)
  PROVE  FreshInv'
<1> DEFINE v == [valid EXCEPT ![blockNumber] = good]
<1>1. /\ synced /\ blockNumber' = (blockNumber + 1) % 4
      /\ valid' = IF blockNumber = 3 THEN NothingValid ELSE v
      /\ age' = [i \in Places |-> IF ~v[i] THEN OldAge
                                  ELSE IF i = blockNumber THEN 0 ELSE UpTo(age[i], OldAge)]
      /\ used' = IF blockNumber = 3 /\ v[1]
                 THEN {<<i, age'[i]>> : i \in {j \in Places : v[j]}} ELSE {}
  BY DEF Synced
<1>2. v \in [Places -> BOOLEAN] /\ blockNumber \in Places
  BY DEF FreshInv
<1>3. \A i \in Places : v[i] => i <= blockNumber /\ (i # blockNumber => valid[i])
  BY <1>1 DEF FreshInv, Places
<1> HIDE DEF v
<1>4. age' \in [Places -> 0 .. OldAge]
  BY <1>1, <1>2, UpToBound DEF FreshInv, OldAge
<1>5. ASSUME NEW i \in Places, v[i] PROVE age'[i] = blockNumber - i
  <2>1. CASE i = blockNumber
    BY <1>1, <1>5, <2>1 DEF Places
  <2>2. CASE i # blockNumber
    <3>1. valid[i] /\ i < blockNumber /\ age[i] = blockNumber - 1 - i
      BY <1>1, <1>3, <1>5, <2>2 DEF FreshInv
    <3>2. UpTo(age[i], OldAge) = blockNumber - i
      BY <1>2, <3>1 DEF UpTo, OldAge, Places
    <3> QED
      BY <1>1, <1>5, <2>2, <3>2
  <2> QED
    BY <2>1, <2>2
<1>6. CASE blockNumber = 3
  <2>1. valid' = NothingValid /\ blockNumber' = 0
    BY <1>1, <1>6
  <2>2. \A u \in used' : u[2] = 3 - u[1]
    BY <1>1, <1>5, <1>6
  <2> QED
    BY <1>4, <2>1, <2>2 DEF FreshInv, NothingValid, Places, GroupIsOneTransmission
<1>7. CASE blockNumber # 3
  <2>1. valid' = v /\ blockNumber' = blockNumber + 1 /\ used' = {}
    BY <1>1, <1>2, <1>7 DEF Places
  <2>2. \A i \in Places : v[i] => i < blockNumber' /\ age'[i] = blockNumber' - 1 - i
    BY <1>2, <1>3, <1>5, <2>1 DEF Places
  <2>3. blockNumber' \in Places
    BY <1>2, <1>7, <2>1 DEF Places
  <2> QED
    BY <1>2, <1>4, <2>1, <2>2, <2>3 DEF FreshInv, GroupIsOneTransmission
<1> QED
  BY <1>6, <1>7

\* The places of the offsets.
LEMMA OffsetsLemma == \A j \in OffsetsSent : (j + 1) % 4 \in Places
BY DEF OffsetsSent, Places

\* One block of the search.
LEMMA SearchFresh ==
  ASSUME FreshInv, SearchFails \/ (\E j \in OffsetsSent : SearchFinds(j)),
         age' = [i \in Places |-> UpTo(age[i], OldAge)], used' = {}
  PROVE  FreshInv'
<1>1. age' \in [Places -> 0 .. OldAge] /\ GroupIsOneTransmission'
  BY UpToBound DEF FreshInv, GroupIsOneTransmission
<1>2. CASE ~synced' /\ UNCHANGED <<blockNumber, valid>>
  BY <1>1, <1>2 DEF FreshInv
<1>3. CASE \E j \in OffsetsSent : EnterSync(j)
  <2>1. valid' = NothingValid /\ blockNumber' \in Places
    BY <1>3, OffsetsLemma DEF EnterSync
  <2> QED
    BY <1>1, <2>1 DEF FreshInv, NothingValid
<1> QED
  BY <1>2, <1>3 DEF SearchFails, SearchFinds

LEMMA FreshStep == ASSUME FreshInv, [RdsNext]_rdsVars PROVE FreshInv'
<1>1. CASE ReceiveBlock
  <2>1. CASE \E good \in BOOLEAN : \E from : Synced(good, from)
    BY <2>1, SyncedFresh
  <2>2. \A k : Synced(position = blockNumber, Kept(station, k)) =>
                \E good \in BOOLEAN : \E from : Synced(good, from)
    OBVIOUS
  <2>3. \/ \E good \in BOOLEAN : \E from : Synced(good, from)
        \/ /\ SearchFails \/ \E j \in OffsetsSent : SearchFinds(j)
           /\ age' = [i \in Places |-> UpTo(age[i], OldAge)] /\ used' = {}
    BY <1>1, <2>2 DEF ReceiveBlock
  <2> QED
    BY <2>1, <2>3, SearchFresh
<1>2. CASE Retune
  BY <1>2 DEF Retune, FreshInv, search, GroupIsOneTransmission
<1>3. CASE Watchdog
  BY <1>3 DEF Watchdog, FreshInv, GroupIsOneTransmission
<1>4. CASE UNCHANGED rdsVars
  BY <1>4 DEF rdsVars, search, FreshInv, GroupIsOneTransmission
<1> QED
  BY <1>1, <1>2, <1>3, <1>4 DEF RdsNext

\* Whatever is received, a group is decoded from blocks that came one after the other.
THEOREM GroupsAreWhole == RdsSpec => []GroupIsOneTransmission
<1>1. FreshInv /\ [RdsNext]_rdsVars => FreshInv'
  BY FreshStep
<1>2. FreshInv => GroupIsOneTransmission
  BY DEF FreshInv
<1> QED
  BY <1>1, <1>2, FreshInit, PTL DEF RdsSpec

------------------------------------------------------------------------------
Shaped(d) ==
  d = [pi |-> d.pi, candidate |-> d.candidate, groups |-> d.groups, votes |-> d.votes]

\* A candidate is another identity that the last group with an identity named.
Candidate(d, last) ==
  /\ d.pi = None => d.candidate = None
  /\ d.candidate # None => d.candidate = last

CandidateInv == Shaped(decoded) /\ Candidate(decoded, lastPi)

Confirmed(d) == decoded.pi # None /\ d.pi \notin {None, decoded.pi} => lastPi = d.pi

\* Counting the group leaves the identity and the candidate alone.
LEMMA CountedLemma ==
  ASSUME NEW d, NEW v, NEW b
  PROVE  /\ Shaped(Counted(d, v, b))
         /\ Counted(d, v, b).pi = d.pi /\ Counted(d, v, b).candidate = d.candidate
BY DEF Counted, Shaped

\* What one group does to the identity and to the candidate.
LEMMA GroupLemma ==
  ASSUME CandidateInv, NEW v, NEW b, NEW last,
         v[1] => last = IF v[0] THEN b[0].of ELSE lastPi, ~v[1] => last = lastPi
  PROVE  /\ Shaped(DecodeGroup(v, b)) /\ Candidate(DecodeGroup(v, b), last)
         /\ Confirmed(DecodeGroup(v, b))
<1>1. CASE ~v[1]
  <2>1. DecodeGroup(v, b) = decoded
    BY <1>1 DEF DecodeGroup, Disowned
  <2> QED
    BY <1>1, <2>1 DEF CandidateInv, Confirmed
<1>2. CASE v[1] /\ Disowned(v, b)
  <2>1. DecodeGroup(v, b) = Unknown
    BY <1>2 DEF DecodeGroup, Disowned
  <2> QED
    BY <2>1 DEF Unknown, Shaped, Candidate, Confirmed
<1>3. CASE v[1] /\ ~Other(v, b)
  <2>1. DecodeGroup(v, b) = SameStation(v, b)
    BY <1>3 DEF DecodeGroup, Disowned
  <2> DEFINE d == [decoded EXCEPT !.pi = IF v[0] THEN b[0].of ELSE @,
                                  !.candidate = IF v[0] /\ decoded.pi # None THEN None ELSE @]
  <2>2. /\ d.pi = IF v[0] THEN b[0].of ELSE decoded.pi
        /\ d.candidate = IF v[0] /\ decoded.pi # None THEN None ELSE decoded.candidate
    BY DEF CandidateInv, Shaped
  <2>3. SameStation(v, b) = Counted(d, v, b)
    BY DEF SameStation
  <2> HIDE DEF d
  <2>4. Candidate(d, last)
    BY <1>3, <2>2 DEF CandidateInv, Candidate
  <2>5. Confirmed(d)
    BY <1>3, <2>2 DEF Confirmed, Other
  <2> QED
    BY <2>1, <2>3, <2>4, <2>5, CountedLemma DEF Candidate, Confirmed
<1>4. CASE v[1] /\ Other(v, b) /\ ~Disowned(v, b)
  <2>1. v[0] /\ decoded.pi # None /\ last = b[0].of
    BY <1>4 DEF Other
  <2>2. CASE decoded.candidate = b[0].of
    <3>1. DecodeGroup(v, b) = NewStation(v, b)
      BY <1>4, <2>2 DEF DecodeGroup
    <3> DEFINE d == [Unknown EXCEPT !.pi = b[0].of]
    <3>2. d.pi = b[0].of /\ d.candidate = None
      BY DEF Unknown
    <3>3. NewStation(v, b) = Counted(d, v, b)
      BY DEF NewStation
    <3> HIDE DEF d
    <3>4. Candidate(d, last) /\ Confirmed(d)
      BY <2>2, <3>2 DEF Candidate, Confirmed, CandidateInv
    <3> QED
      BY <3>1, <3>3, <3>4, CountedLemma DEF Candidate, Confirmed
  <2>3. CASE decoded.candidate # b[0].of
    <3> DEFINE d == [decoded EXCEPT !.candidate = b[0].of]
    <3>1. d.pi = decoded.pi /\ d.candidate = b[0].of
      BY DEF CandidateInv, Shaped
    <3>2. DecodeGroup(v, b) = Counted(d, v, b)
      BY <1>4, <2>3 DEF DecodeGroup
    <3> HIDE DEF d
    <3>3. Candidate(d, last) /\ Confirmed(d)
      BY <2>1, <3>1 DEF Candidate, Confirmed
    <3> QED
      BY <3>2, <3>3, CountedLemma DEF Candidate, Confirmed
  <2> QED
    BY <2>2, <2>3
<1> QED
  BY <1>1, <1>2, <1>3, <1>4

\* Forgetting the count of groups changes neither.
LEMMA ForgetGroups ==
  ASSUME NEW d, Shaped(d)
  PROVE  LET e == [d EXCEPT !.groups = 0]
         IN  Shaped(e) /\ e.pi = d.pi /\ e.candidate = d.candidate /\ e.votes = d.votes
BY DEF Shaped

LEMMA SyncedCandidate ==
  ASSUME CandidateInv, NEW good, NEW from, Synced(good, from)
  PROVE  CandidateInv' /\ Confirmed(decoded')
<1> DEFINE v == [valid EXCEPT ![blockNumber] = good]
           b == [blocks EXCEPT ![blockNumber] = IF good THEN from ELSE Empty]
           next == IF blockNumber = 3 THEN DecodeGroup(v, b) ELSE decoded
<1>1. /\ decoded' = next \/ decoded' = [next EXCEPT !.groups = 0]
      /\ lastPi' = IF blockNumber = 3 /\ v[0] /\ v[1] THEN b[0].of ELSE lastPi
  BY DEF Synced
<1>2. Shaped(next) /\ Candidate(next, lastPi') /\ Confirmed(next)
  <2>1. CASE blockNumber = 3
    <3>1. next = DecodeGroup(v, b)
      BY <2>1
    <3>2. /\ v[1] => lastPi' = IF v[0] THEN b[0].of ELSE lastPi
          /\ ~v[1] => lastPi' = lastPi
      BY <1>1, <2>1
    <3> HIDE DEF v, b, next
    <3> QED
      BY <3>1, <3>2, GroupLemma
  <2>2. CASE blockNumber # 3
    BY <1>1, <2>2 DEF CandidateInv, Confirmed
  <2> QED
    BY <2>1, <2>2
<1> HIDE DEF v, b, next
<1>3. /\ Shaped(decoded') /\ decoded'.pi = next.pi
      /\ decoded'.candidate = next.candidate
  BY <1>1, <1>2, ForgetGroups
<1> QED
  BY <1>2, <1>3 DEF CandidateInv, Candidate, Confirmed

\* For any stations and any errors, a known identity gives way to another one only when the last
\* two groups that had an identity named that one.
THEOREM ChangesAreConfirmed == RdsSpec => ChangeIsConfirmed
<1>1. RdsInit => CandidateInv
  BY DEF RdsInit, CandidateInv, Shaped, Candidate, Unknown
<1>2. CandidateInv /\ [RdsNext]_rdsVars => CandidateInv' /\ Confirmed(decoded')
  <2> SUFFICES ASSUME CandidateInv, [RdsNext]_rdsVars
               PROVE  CandidateInv' /\ Confirmed(decoded')
    OBVIOUS
  <2>1. ASSUME UNCHANGED <<decoded, lastPi>> PROVE CandidateInv' /\ Confirmed(decoded')
    BY <2>1 DEF CandidateInv, Confirmed
  <2>2. CASE ReceiveBlock
    <3>1. CASE \E good : \E from : Synced(good, from)
      BY <3>1, SyncedCandidate
    <3>2. \A k : Synced(position = blockNumber, Kept(station, k)) =>
                  \E good : \E from : Synced(good, from)
      OBVIOUS
    <3>3. UNCHANGED <<decoded, lastPi>> \/ \E good : \E from : Synced(good, from)
      BY <2>2, <3>2 DEF ReceiveBlock
    <3> QED
      BY <2>1, <3>1, <3>3
  <2>3. Retune \/ Watchdog \/ UNCHANGED rdsVars => UNCHANGED <<decoded, lastPi>>
    BY DEF Retune, Watchdog, rdsVars
  <2> QED
    BY <2>1, <2>2, <2>3 DEF RdsNext
<1>3. Confirmed(decoded') => (decoded.pi # None /\ decoded'.pi \notin {None, decoded.pi}
                                => lastPi = decoded'.pi)
  BY DEF Confirmed
<1> QED
  BY <1>1, <1>2, <1>3, PTL DEF RdsSpec, ChangeIsConfirmed

------------------------------------------------------------------------------
(* RDS: the votes for the name.                                              *)

\* How many more groups may vote for s before the identity is s or the votes are cleared, when
\* station is on the air, and a block of another one stands in the group that is being received.
Owing(d, s, on, foreign) ==
  IF on # s THEN 0
  ELSE IF foreign THEN 2
  ELSE IF d.pi \in {None, s} \/ d.candidate = s THEN 0 ELSE 1

\* Without an identity there are no votes. With one, what others have and may still get is covered
\* by two groups for every change of the station and every block mistaken for a valid one.
Tallied(d, changes, on, foreign) ==
  /\ d.votes \in [Voters -> Nat]
  /\ d.pi = None => \A s \in Voters : d.votes[s] = 0
  /\ d.pi # None =>
       \A s \in Voters \ {d.pi} : d.votes[s] + Owing(d, s, on, foreign) <= 2 * changes

Foreign == synced /\ valid[0] /\ blocks[0].of # station
Changes == retunes + falses

TallyInv ==
  /\ retunes \in Nat /\ falses \in Nat /\ station \in Stations
  /\ DOMAIN blocks = Places
  /\ synced /\ valid[0] => blocks[0].of \in Voters
  /\ Foreign => Changes > 0
  /\ Shaped(decoded)
  /\ Tallied(decoded, Changes, station, Foreign)

\* The vote that the group may give to s.
Voting(s, on, v) == IF s = on /\ v[0] THEN 1 ELSE 0

LEMMA OwingBound ==
  ASSUME NEW d, NEW s, NEW on, NEW foreign
  PROVE  /\ Owing(d, s, on, foreign) \in 0 .. 2 /\ Owing(d, s, on, FALSE) \in 0 .. 1
         /\ on # s => Owing(d, s, on, foreign) = 0
         /\ d.pi = s => Owing(d, s, on, FALSE) = 0
         /\ on = s /\ foreign => Owing(d, s, on, foreign) = 2
BY DEF Owing

\* The cases in which w votes, the one of this group and those to come are covered.
LEMMA Covered ==
  ASSUME NEW d, NEW s, NEW on, NEW v, NEW c \in Nat, NEW w \in Nat, d.votes[s] = w,
         \/ w + 2 <= 2 * c
         \/ w + 1 <= 2 * c /\ Owing(d, s, on, FALSE) = 0
         \/ w <= 2 * c /\ Owing(d, s, on, FALSE) = 0 /\ ~(s = on /\ v[0])
         \/ w + 1 <= 2 * c /\ ~(s = on /\ v[0])
  PROVE  d.votes[s] + Voting(s, on, v) + Owing(d, s, on, FALSE) <= 2 * c
<1>1. PICK k \in {0, 1} : k = Voting(s, on, v) /\ (~(s = on /\ v[0]) => k = 0)
  BY DEF Voting
<1>2. PICK o \in {0, 1} : o = Owing(d, s, on, FALSE)
  BY DEF Owing
<1>3. \/ w + 2 <= 2 * c
      \/ w + 1 <= 2 * c /\ o = 0
      \/ w <= 2 * c /\ o = 0 /\ k = 0
      \/ w + 1 <= 2 * c /\ k = 0
  BY <1>1, <1>2
<1>4. w + k + o <= 2 * c
  BY <1>3
<1> QED
  BY <1>1, <1>2, <1>4

\* What is owed is covered by the tally.
LEMMA OwedBefore ==
  ASSUME NEW c \in Nat, NEW on, NEW foreign, Tallied(decoded, c, on, foreign),
         decoded.pi # None, NEW s \in Voters \ {decoded.pi}
  PROVE  /\ decoded.votes[s] \in Nat /\ decoded.votes[s] <= 2 * c
         /\ Owing(decoded, s, on, foreign) = 1 => decoded.votes[s] + 1 <= 2 * c
         /\ Owing(decoded, s, on, foreign) = 2 => decoded.votes[s] + 2 <= 2 * c
<1>1. PICK w \in Nat : w = decoded.votes[s]
  BY DEF Tallied
<1>2. PICK o \in {0, 1, 2} : o = Owing(decoded, s, on, foreign)
  BY DEF Owing
<1>3. w + o <= 2 * c
  BY <1>1, <1>2 DEF Tallied
<1>4. w <= 2 * c /\ (o = 1 => w + 1 <= 2 * c) /\ (o = 2 => w + 2 <= 2 * c)
  BY <1>3
<1> QED
  BY <1>1, <1>2, <1>4

\* A vote more covers whatever happens.
LEMMA TalliedMore ==
  ASSUME NEW d, NEW e, NEW c \in Nat, NEW on, NEW foreign, Tallied(d, c, on, foreign),
         e.pi = d.pi, e.votes = d.votes, NEW on2, NEW foreign2
  PROVE  Tallied(e, c + 1, on2, foreign2)
<1>1. ASSUME NEW s \in Voters \ {d.pi}, d.pi # None
      PROVE  d.votes[s] + Owing(e, s, on2, foreign2) <= 2 * (c + 1)
  <2>1. d.votes[s] \in Nat /\ d.votes[s] + Owing(d, s, on, foreign) <= 2 * c
    BY <1>1 DEF Tallied
  <2>2. Owing(d, s, on, foreign) \in {0, 1, 2} /\ Owing(e, s, on2, foreign2) \in {0, 1, 2}
    BY DEF Owing
  <2> QED
    BY <2>1, <2>2
<1> QED
  BY <1>1 DEF Tallied

\* So does a tally when no block of another station comes in.
LEMMA TalliedLess ==
  ASSUME NEW d, NEW e, NEW c \in Nat, NEW on, NEW foreign \in BOOLEAN,
         Tallied(d, c, on, foreign),
         e.pi = d.pi, e.votes = d.votes, e.candidate = d.candidate,
         NEW foreign2 \in BOOLEAN, foreign2 => foreign
  PROVE  Tallied(e, c, on, foreign2)
<1>1. ASSUME NEW s \in Voters \ {d.pi}, d.pi # None
      PROVE  d.votes[s] + Owing(e, s, on, foreign2) <= 2 * c
  <2>1. d.votes[s] \in Nat /\ d.votes[s] + Owing(d, s, on, foreign) <= 2 * c
    BY <1>1 DEF Tallied
  <2>2. /\ Owing(d, s, on, foreign) \in {0, 1, 2} /\ Owing(e, s, on, foreign2) \in {0, 1, 2}
        /\ Owing(e, s, on, foreign2) <= Owing(d, s, on, foreign)
    BY DEF Owing
  <2> QED
    BY <2>1, <2>2
<1> QED
  BY <1>1 DEF Tallied

\* A group gives at most one vote, to the station of its D block, and only if its A block is valid.
LEMMA CountedVotes ==
  ASSUME NEW d, NEW v, NEW b, d.votes \in [Voters -> Nat]
  PROVE  /\ Counted(d, v, b).votes \in [Voters -> Nat]
         /\ \A s \in Voters :
              /\ Counted(d, v, b).votes[s] <= d.votes[s] + 1
              /\ ~(v[0] /\ v[3] /\ b[3].of = s) => Counted(d, v, b).votes[s] = d.votes[s]
<1>1. PICK w, named : w = d.votes /\ named = (b[1].kind = "ps" /\ v[0] /\ v[3])
  OBVIOUS
<1>2. Counted(d, v, b).votes =
        [s \in Voters |-> IF named /\ s = b[3].of THEN UpTo(w[s], MaxVotes) ELSE w[s]]
  BY <1>1 DEF Counted
<1>3. \A n \in Nat : UpTo(n, MaxVotes) \in Nat /\ UpTo(n, MaxVotes) <= n + 1
  BY DEF UpTo, MaxVotes
<1>4. w \in [Voters -> Nat]
  BY <1>1
<1>5. PICK u : u = Counted(d, v, b).votes
  OBVIOUS
<1>6. /\ u \in [Voters -> Nat]
      /\ \A s \in Voters : /\ u[s] <= w[s] + 1
                           /\ ~(named /\ b[3].of = s) => u[s] = w[s]
  BY <1>2, <1>3, <1>4, <1>5
<1> QED
  BY <1>1, <1>5, <1>6

LEMMA GroupShaped == ASSUME Shaped(decoded), NEW v, NEW b PROVE Shaped(DecodeGroup(v, b))
<1>1. Shaped(Unknown)
  BY DEF Unknown, Shaped
<1>2. \/ DecodeGroup(v, b) \in {decoded, Unknown}
      \/ \E d : DecodeGroup(v, b) = Counted(d, v, b)
  <2>1. \/ ~v[1] \/ Disowned(v, b) \/ (v[1] /\ ~Other(v, b))
        \/ (v[1] /\ Other(v, b) /\ ~Disowned(v, b))
    OBVIOUS
  <2> QED
    BY <2>1 DEF DecodeGroup, Disowned, SameStation, NewStation
<1> QED
  BY <1>1, <1>2, CountedLemma

\* One group keeps the tally: without the credit of a further change its D block is the station's.
LEMMA GroupTally ==
  ASSUME Shaped(decoded), NEW c \in Nat, NEW more \in {0, 1}, NEW v, NEW b,
         NEW on, NEW foreign \in BOOLEAN,
         v[0] => b[0].of # None, v[0] => foreign = (b[0].of # on),
         foreign => v[0] /\ c > 0,
         v[3] => b[3].of = on \/ more = 1,
         Tallied(decoded, c, on, foreign)
  PROVE  Tallied(DecodeGroup(v, b), c + more, on, FALSE)
<1>1. CASE ~v[1]
  <2>1. DecodeGroup(v, b) = decoded
    BY <1>1 DEF DecodeGroup, Disowned
  <2>2. Tallied(decoded, c, on, FALSE)
    BY TalliedLess
  <2>3. Tallied(decoded, c + 1, on, FALSE)
    BY TalliedMore
  <2>4. c + 0 = c
    OBVIOUS
  <2> QED
    BY <2>1, <2>2, <2>3, <2>4
<1>2. CASE v[1] /\ Disowned(v, b)
  <2>1. DecodeGroup(v, b) = Unknown
    BY <1>2 DEF DecodeGroup, Disowned
  <2> QED
    BY <2>1 DEF Unknown, Tallied
\* The group is counted for d, whose tally is as decoded's or has been cleared.
<1>3. ASSUME NEW d, DecodeGroup(v, b) = Counted(d, v, b), d.pi # None \/ ~v[0],
             d.votes \in [Voters -> Nat],
             d.pi = None => \A s \in Voters : d.votes[s] = 0,
             \A s \in Voters \ {d.pi} : d.pi # None =>
               d.votes[s] + Voting(s, on, v) + Owing(d, s, on, FALSE) <= 2 * c
      PROVE  Tallied(DecodeGroup(v, b), c + more, on, FALSE)
  <2>1. PICK e : e = Counted(d, v, b)
    OBVIOUS
  <2>2. e.pi = d.pi /\ e.candidate = d.candidate
    BY <2>1, CountedLemma
  <2>3. /\ e.votes \in [Voters -> Nat]
        /\ \A s \in Voters : /\ e.votes[s] <= d.votes[s] + 1
                             /\ ~(v[0] /\ v[3] /\ b[3].of = s) => e.votes[s] = d.votes[s]
    BY <1>3, <2>1, CountedVotes
  <2>4. ASSUME NEW s \in Voters \ {e.pi}, e.pi # None
        PROVE  e.votes[s] + Owing(e, s, on, FALSE) <= 2 * (c + more)
    <3>1. Owing(e, s, on, FALSE) = Owing(d, s, on, FALSE) /\ Owing(d, s, on, FALSE) \in {0, 1}
      BY <2>2 DEF Owing
    <3>2. d.votes[s] \in Nat /\ e.votes[s] \in Nat
      BY <1>3, <2>3
    <3>3. d.votes[s] + Voting(s, on, v) + Owing(d, s, on, FALSE) <= 2 * c
      BY <1>3, <2>2, <2>4
    <3>4. PICK w \in Nat, u \in Nat, k \in {0, 1}, o \in {0, 1} :
            w = d.votes[s] /\ u = e.votes[s] /\ k = Voting(s, on, v)
            /\ o = Owing(d, s, on, FALSE)
      BY <3>1, <3>2 DEF Voting
    <3>5. k = 1 \/ more = 1 \/ u = w
      BY <2>3, <3>4 DEF Voting
    <3>6. u <= w + 1
      BY <2>3, <3>4
    <3>7. w + k + o <= 2 * c
      BY <3>3, <3>4
    <3>8. u + o <= 2 * (c + more)
      BY <3>5, <3>6, <3>7
    <3> QED
      BY <3>1, <3>4, <3>8
  <2>5. e.pi = None => \A s \in Voters : e.votes[s] = 0
    BY <1>3, <2>2, <2>3
  <2> QED
    BY <1>3, <2>1, <2>3, <2>4, <2>5 DEF Tallied
<1>4. CASE v[1] /\ ~Other(v, b)
  <2>1. DecodeGroup(v, b) = SameStation(v, b)
    BY <1>4 DEF DecodeGroup, Disowned
  <2> DEFINE d == [decoded EXCEPT !.pi = IF v[0] THEN b[0].of ELSE @,
                                  !.candidate = IF v[0] /\ decoded.pi # None THEN None ELSE @]
  <2>2. /\ d.pi = IF v[0] THEN b[0].of ELSE decoded.pi
        /\ d.candidate = IF v[0] /\ decoded.pi # None THEN None ELSE decoded.candidate
        /\ d.votes = decoded.votes
    BY DEF Shaped
  <2>3. SameStation(v, b) = Counted(d, v, b)
    BY DEF SameStation
  <2> HIDE DEF d
  <2>4. decoded.pi \in {None, d.pi}
    BY <1>4, <2>2 DEF Other
  <2>5. ASSUME NEW s \in Voters \ {d.pi}, d.pi # None
        PROVE  d.votes[s] + Voting(s, on, v) + Owing(d, s, on, FALSE) <= 2 * c
    <3>1. CASE decoded.pi = None
      <4>1. v[0] /\ d.votes[s] = 0
        BY <2>2, <2>5, <3>1 DEF Tallied
      <4>2. CASE s = on
        <5>1. foreign
          BY <2>2, <2>5, <4>1, <4>2
        <5>2. PICK w \in Nat : d.votes[s] = w /\ w + 2 <= 2 * c
          BY <4>1, <5>1
        <5> QED
          BY <5>2, Covered
      <4>3. CASE s # on
        <5>1. Owing(d, s, on, FALSE) = 0
          BY <4>3 DEF Owing
        <5>2. 0 <= 2 * c
          OBVIOUS
        <5> QED
          BY <4>1, <4>3, <5>1, <5>2, Covered
      <4> QED
        BY <4>2, <4>3
    <3>2. CASE decoded.pi # None
      <4>1. s \in Voters \ {decoded.pi}
        BY <2>4, <2>5, <3>2
      <4>2. /\ decoded.votes[s] \in Nat /\ decoded.votes[s] <= 2 * c
            /\ Owing(decoded, s, on, foreign) = 1 => decoded.votes[s] + 1 <= 2 * c
            /\ Owing(decoded, s, on, foreign) = 2 => decoded.votes[s] + 2 <= 2 * c
        BY <3>2, <4>1, OwedBefore
      <4>3. CASE v[0] /\ s = on
        <5>1. foreign
          BY <2>2, <2>5, <4>3
        <5>2. Owing(decoded, s, on, foreign) = 2
          BY <4>3, <5>1, OwingBound
        <5> QED
          BY <2>2, <4>2, <5>2, Covered
      <4>4. CASE s # on
        <5>1. Owing(d, s, on, FALSE) = 0
          BY <4>4 DEF Owing
        <5> QED
          BY <2>2, <4>2, <4>4, <5>1, Covered
      <4>5. CASE ~v[0] /\ s = on
        <5>1. d.pi = decoded.pi /\ d.candidate = decoded.candidate /\ ~foreign
          BY <2>2, <4>5
        <5>2. Owing(d, s, on, FALSE) = Owing(decoded, s, on, foreign)
          BY <5>1 DEF Owing
        <5>3. Owing(d, s, on, FALSE) \in {0, 1}
          BY DEF Owing
        <5>4. CASE Owing(d, s, on, FALSE) = 0
          BY <2>2, <4>2, <4>5, <5>4, Covered
        <5>5. CASE Owing(d, s, on, FALSE) = 1
          BY <2>2, <4>2, <4>5, <5>2, <5>5, Covered
        <5> QED
          BY <5>3, <5>4, <5>5
      <4> QED
        BY <4>3, <4>4, <4>5
    <3> QED
      BY <3>1, <3>2
  <2>6. d.pi # None \/ ~v[0]
    BY <2>2
  <2>7. d.votes \in [Voters -> Nat] /\ (d.pi = None => \A s \in Voters : d.votes[s] = 0)
    BY <2>2, <2>4 DEF Tallied
  <2> QED
    BY <1>3, <2>1, <2>3, <2>5, <2>6, <2>7
<1>5. CASE v[1] /\ Other(v, b) /\ ~Disowned(v, b)
  <2>1. v[0] /\ decoded.pi # None /\ decoded.pi # b[0].of
    BY <1>5 DEF Other
  <2>2. CASE decoded.candidate = b[0].of
    <3>1. DecodeGroup(v, b) = NewStation(v, b)
      BY <1>5, <2>2 DEF DecodeGroup
    <3> DEFINE d == [Unknown EXCEPT !.pi = b[0].of]
    <3>2. d.pi = b[0].of /\ d.votes = [s \in Voters |-> 0]
      BY DEF Unknown
    <3>3. NewStation(v, b) = Counted(d, v, b)
      BY DEF NewStation
    <3> HIDE DEF d
    <3>4. ASSUME NEW s \in Voters \ {d.pi}
          PROVE  d.votes[s] + Voting(s, on, v) + Owing(d, s, on, FALSE) <= 2 * c
      <4>1. d.votes[s] = 0
        BY <3>2
      <4>2. CASE s = on
        <5>1. foreign
          BY <2>1, <3>2, <3>4, <4>2
        <5>2. PICK w \in Nat : d.votes[s] = w /\ w + 2 <= 2 * c
          BY <4>1, <5>1
        <5> QED
          BY <5>2, Covered
      <4>3. CASE s # on
        <5>1. Owing(d, s, on, FALSE) = 0
          BY <4>3 DEF Owing
        <5>2. 0 <= 2 * c
          OBVIOUS
        <5> QED
          BY <4>1, <4>3, <5>1, <5>2, Covered
      <4> QED
        BY <4>2, <4>3
    <3>5. d.votes \in [Voters -> Nat] /\ d.pi # None
      BY <2>1, <3>2
    <3> QED
      BY <1>3, <3>1, <3>3, <3>4, <3>5
  <2>3. CASE decoded.candidate # b[0].of
    <3> DEFINE d == [decoded EXCEPT !.candidate = b[0].of]
    <3>1. d.pi = decoded.pi /\ d.candidate = b[0].of /\ d.votes = decoded.votes
      BY DEF Shaped
    <3>2. DecodeGroup(v, b) = Counted(d, v, b)
      BY <1>5, <2>3 DEF DecodeGroup
    <3> HIDE DEF d
    <3>3. ASSUME NEW s \in Voters \ {d.pi}
          PROVE  d.votes[s] + Voting(s, on, v) + Owing(d, s, on, FALSE) <= 2 * c
      <4>1. /\ decoded.votes[s] \in Nat /\ decoded.votes[s] <= 2 * c
            /\ Owing(decoded, s, on, foreign) = 1 => decoded.votes[s] + 1 <= 2 * c
            /\ Owing(decoded, s, on, foreign) = 2 => decoded.votes[s] + 2 <= 2 * c
        BY <2>1, <3>1, OwedBefore
      <4>2. CASE s # on
        <5>1. Owing(d, s, on, FALSE) = 0
          BY <4>2 DEF Owing
        <5> QED
          BY <3>1, <4>1, <4>2, <5>1, Covered
      <4>3. CASE s = on /\ foreign
        <5>1. Owing(decoded, s, on, foreign) = 2
          BY <4>3, OwingBound
        <5> QED
          BY <3>1, <4>1, <5>1, Covered
      <4>4. CASE s = on /\ ~foreign
        <5>1. b[0].of = s
          BY <2>1, <4>4
        <5>2. Owing(d, s, on, FALSE) = 0
          BY <3>1, <5>1 DEF Owing
        <5>3. Owing(decoded, s, on, foreign) = 1
          BY <2>1, <2>3, <3>1, <4>4, <5>1 DEF Owing
        <5> QED
          BY <3>1, <4>1, <5>2, <5>3, Covered
      <4> QED
        BY <4>2, <4>3, <4>4
    <3>4. d.votes \in [Voters -> Nat]
      BY <3>1 DEF Tallied
    <3> QED
      BY <1>3, <2>1, <3>1, <3>2, <3>3, <3>4
  <2> QED
    BY <2>2, <2>3
<1> QED
  BY <1>1, <1>2, <1>4, <1>5

LEMMA TallyInit == RdsInit => TallyInv
BY DEF RdsInit, TallyInv, Shaped, Tallied, Unknown, Foreign, NothingValid, Places, Voters

\* One block in synchronisation; more: it was mistaken for a valid one.
LEMMA SyncedTally ==
  ASSUME FreshInv, TallyInv, NEW good \in BOOLEAN, NEW from, Synced(good, from),
         UNCHANGED <<station, retunes>>, NEW more \in {0, 1}, falses' = falses + more,
         good /\ blockNumber \in {0, 3} => from.of = station \/ (from.of = Noise /\ more = 1)
  PROVE  TallyInv'
<1> DEFINE v == [valid EXCEPT ![blockNumber] = good]
           b == [blocks EXCEPT ![blockNumber] = IF good THEN from ELSE Empty]
           next == IF blockNumber = 3 THEN DecodeGroup(v, b) ELSE decoded
<1>1. /\ synced
      /\ decoded' = next \/ decoded' = [next EXCEPT !.groups = 0]
      /\ blocks' = IF blockNumber = 3 THEN [i \in Places |-> Empty] ELSE b
      /\ valid' = IF blockNumber = 3 THEN NothingValid ELSE v
  BY DEF Synced
<1>2. Changes \in Nat /\ Changes' = Changes + more /\ Changes' \in Nat
      /\ retunes' \in Nat /\ falses' \in Nat /\ station' = station
  BY DEF TallyInv, Changes
<1>3. /\ blockNumber \in 0 .. 3 /\ (blockNumber = 0 => v[0] = good /\ b[0] = IF good THEN from ELSE Empty)
      /\ (blockNumber # 0 => v[0] = valid[0] /\ b[0] = blocks[0])
      /\ (blockNumber = 3 => v[3] = good /\ b[3] = IF good THEN from ELSE Empty)
      /\ DOMAIN b = Places
  BY DEF FreshInv, TallyInv, Places
<1>4. blockNumber = 0 => ~valid[0]
  BY <1>1 DEF FreshInv, Places
<1>5. station \in Voters /\ Noise \in Voters /\ None \notin Voters
  BY DEF TallyInv, Voters, Noise, None
<1>6. v[0] => b[0].of \in Voters
  <2>1. CASE blockNumber = 0
    BY <1>3, <1>5, <2>1
  <2>2. CASE blockNumber # 0
    BY <1>1, <1>3, <2>2 DEF TallyInv
  <2> QED
    BY <2>1, <2>2
<1> HIDE DEF v, b
<1>7. Shaped(next) /\ (Foreign' => Foreign \/ more = 1) /\ (Foreign' => Changes' > 0)
      /\ Tallied(next, Changes', station, Foreign') /\ DOMAIN blocks' = Places
      /\ (synced' /\ valid'[0] => blocks'[0].of \in Voters)
  <2>1. CASE blockNumber = 3
    <3>1. Foreign = (v[0] /\ b[0].of # station)
      BY <1>1, <1>3, <2>1 DEF Foreign
    <3>2. (v[0] => b[0].of # None) /\ (v[3] => b[3].of = station \/ more = 1)
      BY <1>3, <1>5, <1>6, <2>1
    <3>3. Foreign => v[0] /\ Changes > 0
      BY <3>1 DEF TallyInv
    <3>4. (v[0] => Foreign = (b[0].of # station)) /\ Foreign \in BOOLEAN
      BY <3>1
    <3>5. Shaped(decoded) /\ Tallied(decoded, Changes, station, Foreign)
      BY DEF TallyInv
    <3>6. Tallied(DecodeGroup(v, b), Changes + more, station, FALSE)
      BY <1>2, <3>2, <3>3, <3>4, <3>5, GroupTally
    <3>7. Shaped(DecodeGroup(v, b))
      BY <3>5, GroupShaped
    <3>8. valid' = NothingValid /\ blocks' = [i \in Places |-> Empty] /\ ~valid'[0]
      BY <1>1, <2>1 DEF NothingValid, Places
    <3>9. Foreign' = FALSE
      BY <3>8 DEF Foreign
    <3> QED
      BY <1>2, <2>1, <3>6, <3>7, <3>8, <3>9
  <2>2. CASE blockNumber # 3
    <3>1. valid' = v /\ blocks' = b /\ next = decoded
      BY <1>1, <2>2
    <3>2. Foreign' => Foreign \/ more = 1
      <4>1. CASE blockNumber = 0
        BY <1>2, <1>3, <3>1, <4>1 DEF Foreign
      <4>2. CASE blockNumber # 0
        BY <1>1, <1>2, <1>3, <3>1, <4>2 DEF Foreign
      <4> QED
        BY <4>1, <4>2
    <3>3. Foreign' => Changes' > 0
      BY <1>2, <3>2 DEF TallyInv
    <3>4. Shaped(decoded) /\ Tallied(decoded, Changes, station, Foreign)
      BY DEF TallyInv
    <3>5. Foreign \in BOOLEAN /\ Foreign' \in BOOLEAN
      BY DEF Foreign
    <3>6. CASE more = 1
      <4>1. Tallied(decoded, Changes + 1, station, Foreign')
        BY <1>2, <3>4, TalliedMore
      <4> QED
        BY <1>2, <1>3, <1>6, <3>1, <3>2, <3>3, <3>4, <3>6, <4>1
    <3>7. CASE more = 0
      <4>1. Foreign' => Foreign
        BY <3>2, <3>7
      <4>2. Tallied(decoded, Changes, station, Foreign')
        BY <1>2, <3>4, <3>5, <4>1, TalliedLess
      <4>3. Changes' = Changes
        BY <1>2, <3>7
      <4> QED
        BY <1>3, <1>6, <3>1, <3>2, <3>3, <3>4, <4>2, <4>3
    <3> QED
      BY <3>6, <3>7
  <2> QED
    BY <2>1, <2>2
<1> HIDE DEF next
<1>8. /\ Shaped(decoded') /\ decoded'.pi = next.pi /\ decoded'.votes = next.votes
      /\ decoded'.candidate = next.candidate
  BY <1>1, <1>7, ForgetGroups
<1>9. Foreign' \in BOOLEAN
  BY DEF Foreign
<1>10. Tallied(decoded', Changes', station, Foreign')
  BY <1>2, <1>7, <1>8, <1>9, TalliedLess
<1> QED
  BY <1>2, <1>7, <1>8, <1>10 DEF TallyInv

\* What the search does keeps the tally: it decodes nothing, and its end clears the flags.
LEMMA SearchTally ==
  ASSUME TallyInv, SearchFails \/ (\E j \in OffsetsSent : SearchFinds(j)),
         UNCHANGED <<station, retunes, blocks, decoded, falses>>
  PROVE  TallyInv'
<1>1. ~synced /\ (~synced' \/ valid' = NothingValid)
  BY DEF SearchFails, SearchFinds, EnterSync
<1>2. Foreign = FALSE /\ Foreign' = FALSE /\ (synced' => ~valid'[0])
  BY <1>1 DEF Foreign, NothingValid, Places
<1>3. Changes' = Changes /\ Tallied(decoded', Changes', station', Foreign')
  BY <1>2 DEF TallyInv, Changes
<1> QED
  BY <1>2, <1>3 DEF TallyInv

LEMMA TallyStep == ASSUME FreshInv, TallyInv, [RdsNext]_rdsVars PROVE TallyInv'
<1>1. CASE ReceiveBlock
  <2>1. UNCHANGED <<station, retunes>>
    BY <1>1 DEF ReceiveBlock
  <2>2. CASE /\ SearchFails \/ \E j \in OffsetsSent : SearchFinds(j)
             /\ UNCHANGED <<blocks, decoded, falses>>
    BY <2>1, <2>2, SearchTally
  <2>3. ASSUME NEW k, Synced(position = blockNumber, Kept(station, k)), UNCHANGED falses
        PROVE  TallyInv'
    <3>1. blockNumber \in {0, 3} => Kept(station, k).of = station
      BY DEF Kept
    <3>2. falses' = falses + 0
      BY <2>3 DEF TallyInv
    <3>3. (position = blockNumber) \in BOOLEAN
      OBVIOUS
    <3> QED
      BY <2>1, <2>3, <3>1, <3>2, <3>3, SyncedTally
  <2>4. CASE Synced(FALSE, Empty) /\ UNCHANGED falses
    <3>1. falses' = falses + 0
      BY <2>4 DEF TallyInv
    <3> QED
      BY <2>1, <2>4, <3>1, SyncedTally
  <2>5. ASSUME NEW k, Synced(TRUE, Kept(Noise, k)), falses' = falses + 1
        PROVE  TallyInv'
    <3>1. blockNumber \in {0, 3} => Kept(Noise, k).of = Noise
      BY DEF Kept
    <3> QED
      BY <2>1, <2>5, <3>1, SyncedTally
  <2> QED
    BY <1>1, <2>2, <2>3, <2>4, <2>5 DEF ReceiveBlock
<1>2. CASE Retune
  <2>1. /\ UNCHANGED <<synced, valid, blocks, decoded, falses>>
        /\ retunes' = retunes + 1 /\ station' \in Stations
    BY <1>2 DEF Retune, search
  <2>2. Changes \in Nat /\ Changes' = Changes + 1 /\ retunes' \in Nat
    BY <2>1 DEF TallyInv, Changes
  <2>3. Tallied(decoded, Changes, station, Foreign) /\ Shaped(decoded)
    BY DEF TallyInv
  <2>4. Tallied(decoded', Changes', station', Foreign')
    BY <2>1, <2>2, <2>3, TalliedMore
  <2>5. Changes' > 0
    BY <2>2
  <2> QED
    BY <2>1, <2>2, <2>3, <2>4, <2>5 DEF TallyInv
<1>3. CASE Watchdog \/ UNCHANGED rdsVars
  BY <1>3 DEF Watchdog, rdsVars, transmitter, search, TallyInv, Foreign, Changes
<1> QED
  BY <1>1, <1>2, <1>3 DEF RdsNext

\* For any stations, any errors and any losses of synchronisation, what other stations have among
\* the votes for the name is covered by the changes of the station and the mistaken blocks.
THEOREM NameIsOfTheStation == RdsSpec => []NameIsTheStations
<1> DEFINE Inv == FreshInv /\ TallyInv
<1>1. RdsInit => Inv
  BY FreshInit, TallyInit
<1>2. Inv /\ [RdsNext]_rdsVars => Inv'
  BY FreshStep, TallyStep
<1>3. Inv => NameIsTheStations
  <2> SUFFICES ASSUME TallyInv, decoded.pi # None, NEW s \in Voters \ {decoded.pi}
               PROVE  decoded.votes[s] <= 2 * (retunes + falses)
    BY DEF NameIsTheStations
  <2>1. Changes \in Nat
    BY DEF TallyInv, Changes
  <2>2. decoded.votes[s] <= 2 * Changes
    BY <2>1, OwedBefore DEF TallyInv
  <2> QED
    BY <2>2 DEF Changes
<1> QED
  BY <1>1, <1>2, <1>3, PTL DEF RdsSpec

------------------------------------------------------------------------------
(* RDS: the types. The counters of wrong blocks stay below what ends the     *)
(* synchronisation, and a group that names nobody leaves no name behind.     *)

Counting ==
  /\ position \in Places /\ seen \in 0 .. 4 /\ distance \in 0 .. OldAge
  /\ consecutive \in 0 .. DropAfter - 1 /\ counted \in 0 .. Window - 1 /\ wrong \in 0 .. counted

Named(d) ==
  /\ d.pi \in Voters \cup {None} /\ d.candidate \in Voters \cup {None}
  /\ d.groups \in 0 .. Acquired /\ d.votes \in [Voters -> 0 .. MaxVotes]

LEMMA UpToMax == \A max \in Nat : \A n \in 0 .. max : UpTo(n, max) \in 0 .. max
BY DEF UpTo

LEMMA CountedNamed ==
  ASSUME NEW d, Named(d), NEW v, NEW b
  PROVE  Named(Counted(d, v, b))
<1>1. PICK w, named : w = d.votes /\ named = (b[1].kind = "ps" /\ v[0] /\ v[3])
  OBVIOUS
<1>2. PICK u : u = [s \in Voters |-> IF named /\ s = b[3].of THEN UpTo(w[s], MaxVotes) ELSE w[s]]
  OBVIOUS
<1>3. /\ Counted(d, v, b).votes = u /\ Counted(d, v, b).groups = UpTo(d.groups, Acquired)
      /\ Counted(d, v, b).pi = d.pi /\ Counted(d, v, b).candidate = d.candidate
  BY <1>1, <1>2 DEF Counted
<1>4. w \in [Voters -> 0 .. MaxVotes]
  BY <1>1 DEF Named
<1>5. \A n \in 0 .. MaxVotes : UpTo(n, MaxVotes) \in 0 .. MaxVotes
  BY UpToMax DEF MaxVotes
<1>6. u \in [Voters -> 0 .. MaxVotes]
  BY <1>2, <1>4, <1>5
<1>7. UpTo(d.groups, Acquired) \in 0 .. Acquired
  BY UpToMax DEF Named
<1> QED
  BY <1>3, <1>6, <1>7 DEF Named

LEMMA GroupNamed ==
  ASSUME Shaped(decoded), Named(decoded), NEW v, NEW b, v[0] => b[0].of \in Voters
  PROVE  Named(DecodeGroup(v, b))
<1>1. Named(Unknown)
  <2>1. \A s \in Voters : 0 \in 0 .. MaxVotes
    BY DEF MaxVotes
  <2>2. 0 \in 0 .. Acquired
    OBVIOUS
  <2> QED
    BY <2>1, <2>2 DEF Named, Unknown
<1>2. CASE ~v[1] \/ Disowned(v, b)
  <2>1. DecodeGroup(v, b) \in {decoded, Unknown}
    BY <1>2 DEF DecodeGroup, Disowned
  <2> QED
    BY <1>1, <2>1
<1>3. CASE v[1] /\ ~Other(v, b)
  <2>1. PICK d : d = [decoded EXCEPT !.pi = IF v[0] THEN b[0].of ELSE @,
                                     !.candidate = IF v[0] /\ decoded.pi # None THEN None ELSE @]
    OBVIOUS
  <2>2. /\ d.pi \in {b[0].of, decoded.pi} /\ (d.pi # decoded.pi => v[0])
        /\ d.candidate \in {None, decoded.candidate}
        /\ d.groups = decoded.groups /\ d.votes = decoded.votes
    BY <2>1 DEF Shaped
  <2>3. Named(d)
    BY <2>2 DEF Named
  <2>4. DecodeGroup(v, b) = Counted(d, v, b)
    BY <1>3, <2>1 DEF DecodeGroup, SameStation, Disowned
  <2> QED
    BY <2>3, <2>4, CountedNamed
<1>4. CASE v[1] /\ Other(v, b) /\ ~Disowned(v, b) /\ decoded.candidate = b[0].of
  <2>1. PICK d : d = [Unknown EXCEPT !.pi = b[0].of]
    OBVIOUS
  <2>2. b[0].of \in Voters
    BY <1>4 DEF Other
  <2>3. d.pi = b[0].of /\ d.candidate = Unknown.candidate /\ d.groups = Unknown.groups /\ d.votes = Unknown.votes
    BY <2>1 DEF Unknown
  <2>4. Named(d)
    BY <1>1, <2>2, <2>3 DEF Named
  <2>5. DecodeGroup(v, b) = Counted(d, v, b)
    BY <1>4, <2>1 DEF DecodeGroup, NewStation
  <2> QED
    BY <2>4, <2>5, CountedNamed
<1>5. CASE v[1] /\ Other(v, b) /\ ~Disowned(v, b) /\ decoded.candidate # b[0].of
  <2>1. PICK d : d = [decoded EXCEPT !.candidate = b[0].of]
    OBVIOUS
  <2>2. b[0].of \in Voters
    BY <1>5 DEF Other
  <2>3. d.pi = decoded.pi /\ d.candidate = b[0].of /\ d.groups = decoded.groups /\ d.votes = decoded.votes
    BY <2>1 DEF Shaped
  <2>4. Named(d)
    BY <2>2, <2>3 DEF Named
  <2>5. DecodeGroup(v, b) = Counted(d, v, b)
    BY <1>5, <2>1 DEF DecodeGroup
  <2> QED
    BY <2>4, <2>5, CountedNamed
<1> QED
  BY <1>2, <1>3, <1>4, <1>5

\* The identity in a valid A block is that of a station, or of noise.
LEMMA BlockNamed ==
  ASSUME FreshInv, TallyInv, synced, NEW good \in BOOLEAN, NEW from,
         good /\ blockNumber = 0 => from.of \in Voters
  PROVE  [valid EXCEPT ![blockNumber] = good][0] =>
           [blocks EXCEPT ![blockNumber] = IF good THEN from ELSE Empty][0].of \in Voters
<1>1. valid \in [Places -> BOOLEAN] /\ DOMAIN blocks = Places /\ 0 \in Places /\ blockNumber \in Places
  BY DEF FreshInv, TallyInv, Places
<1>2. CASE blockNumber = 0
  BY <1>1, <1>2
<1>3. CASE blockNumber # 0
  BY <1>1, <1>3 DEF TallyInv
<1> QED
  BY <1>2, <1>3

LEMMA SyncedTyped ==
  ASSUME FreshInv, TallyInv, Counting, Named(decoded), NEW good \in BOOLEAN, NEW from, Synced(good, from),
         position' = (position + 1) % 4, good /\ blockNumber = 0 => from.of \in Voters
  PROVE  Counting' /\ Named(decoded)'
<1> DEFINE v == [valid EXCEPT ![blockNumber] = good]
           b == [blocks EXCEPT ![blockNumber] = IF good THEN from ELSE Empty]
           next == IF blockNumber = 3 THEN DecodeGroup(v, b) ELSE decoded
           inRow == IF good THEN 0 ELSE consecutive + 1
           bad == IF good THEN wrong ELSE wrong + 1
           lost == TooManyWrong(inRow, bad, counted + 1)
           dropped == blockNumber = 3 /\ Disowned(v, b)
<1>1. /\ synced /\ seen' = seen
      /\ decoded' = next \/ decoded' = [next EXCEPT !.groups = 0]
      /\ \/ (dropped \/ lost) /\ SyncDrop
         \/ /\ ~lost /\ distance' = distance /\ consecutive' = inRow
            /\ counted' = (counted + 1) % Window
            /\ wrong' = IF counted + 1 = Window THEN 0 ELSE bad
  BY DEF Synced
<1>2. Named(next) /\ Shaped(next)
  <2>1. v[0] => b[0].of \in Voters
    BY <1>1, BlockNamed
  <2>2. Shaped(decoded)
    BY DEF TallyInv
  <2> HIDE DEF v, b
  <2> QED
    BY <2>1, <2>2, GroupNamed, GroupShaped
<1>3. consecutive \in 0 .. DropAfter - 1 /\ counted \in 0 .. Window - 1 /\ wrong \in 0 .. counted
  BY DEF Counting
<1>4. inRow \in Nat /\ bad \in 0 .. counted + 1
  BY <1>3
<1>5. ~lost => inRow < DropAfter
  BY <1>4 DEF TooManyWrong
<1> HIDE DEF next, lost, dropped, v, b
<1>6. Named(decoded')
  <2>1. CASE decoded' = next
    BY <1>2, <2>1
  <2>2. CASE decoded' = [next EXCEPT !.groups = 0]
    <3>1. decoded'.pi = next.pi /\ decoded'.candidate = next.candidate /\ decoded'.votes = next.votes
          /\ decoded'.groups = 0
      BY <1>2, <2>2 DEF Shaped
    <3>2. 0 \in 0 .. Acquired
      OBVIOUS
    <3> QED
      BY <1>2, <3>1, <3>2 DEF Named
  <2> QED
    BY <1>1, <2>1, <2>2
<1>7. position' \in Places
  BY DEF Counting, Places
<1>8. /\ consecutive' \in 0 .. DropAfter - 1 /\ counted' \in 0 .. Window - 1 /\ wrong' \in 0 .. counted'
      /\ distance' \in 0 .. OldAge
  <2>1. CASE SyncDrop
    BY <2>1 DEF SyncDrop, OldAge
  <2>2. CASE /\ ~lost /\ distance' = distance /\ consecutive' = inRow
             /\ counted' = (counted + 1) % Window
             /\ wrong' = IF counted + 1 = Window THEN 0 ELSE bad
    <3>1. consecutive' \in 0 .. DropAfter - 1
      BY <1>4, <1>5, <2>2
    <3> HIDE DEF inRow, bad
    <3>2. CASE counted + 1 = Window
      <4>1. counted' = 0 /\ wrong' = 0
        BY <1>3, <2>2, <3>2
      <4> QED
        BY <2>2, <3>1, <4>1 DEF Counting
    <3>3. CASE counted + 1 # Window
      <4>1. counted' = counted + 1 /\ wrong' = bad /\ counted + 1 < Window
        BY <1>3, <2>2, <3>3
      <4> QED
        BY <1>3, <1>4, <2>2, <3>1, <4>1 DEF Counting
    <3> QED
      BY <3>2, <3>3
  <2> QED
    BY <1>1, <2>1, <2>2
<1> QED
  BY <1>1, <1>6, <1>7, <1>8 DEF Counting

LEMMA SearchTyped ==
  ASSUME Counting, SearchFails \/ (\E j \in OffsetsSent : SearchFinds(j)), position' = (position + 1) % 4
  PROVE  Counting'
<1>1. position' \in Places
  BY DEF Counting, Places
<1>2. CASE SearchFails
  <2>1. distance' \in 0 .. OldAge
    BY <1>2 DEF SearchFails, Counting, UpTo, OldAge
  <2> QED
    BY <1>1, <1>2, <2>1 DEF SearchFails, Counting, counters
<1>3. ASSUME NEW j \in OffsetsSent, SearchFinds(j) PROVE Counting'
  <2>1. j \in 0 .. 4
    BY DEF OffsetsSent
  <2>2. distance' = 0 /\ seen' \in {seen, j, 0}
    BY <1>3 DEF SearchFinds
  <2>3. \/ UNCHANGED counters
        \/ wrong' = 0 /\ counted' = 0 /\ consecutive' = consecutive
    BY <1>3 DEF SearchFinds, EnterSync
  <2>4. 0 \in 0 .. OldAge /\ 0 \in 0 .. Window - 1
    BY DEF OldAge
  <2> QED
    BY <1>1, <2>1, <2>2, <2>3, <2>4 DEF Counting, counters
<1> QED
  BY <1>2, <1>3

\* For any thresholds every variable of the RDS decoder keeps its type: the counters stay below
\* what ends the synchronisation, and identities are those of stations, or of noise (rds.py:457-571).
THEOREM RdsTypes == RdsSpec => []RdsTypeOK
<1> DEFINE Inv == FreshInv /\ TallyInv /\ Counting /\ Named(decoded)
<1>1. RdsInit => Inv
  <2> SUFFICES ASSUME RdsInit PROVE Counting /\ Named(decoded)
    BY FreshInit, TallyInit
  <2>1. Counting
    BY DEF RdsInit, Counting, OldAge
  <2>2. 0 \in 0 .. MaxVotes /\ 0 \in 0 .. Acquired
    BY DEF MaxVotes
  <2>3. Named(decoded)
    BY <2>2 DEF RdsInit, Named, Unknown
  <2> QED
    BY <2>1, <2>3
<1>2. Inv /\ [RdsNext]_rdsVars => Inv'
  <2> SUFFICES ASSUME FreshInv, TallyInv, Counting, Named(decoded), [RdsNext]_rdsVars
               PROVE  Counting' /\ Named(decoded)'
    BY FreshStep, TallyStep
  <2>1. station \in Voters /\ Noise \in Voters
    BY DEF TallyInv, Voters
  <2>2. CASE ReceiveBlock
    <3>1. position' = (position + 1) % 4
      BY <2>2 DEF ReceiveBlock
    <3>2. CASE (SearchFails \/ \E j \in OffsetsSent : SearchFinds(j)) /\ UNCHANGED decoded
      BY <3>1, <3>2, SearchTyped
    <3>3. ASSUME NEW k, Synced(position = blockNumber, Kept(station, k))
          PROVE  Counting' /\ Named(decoded)'
      <4>1. blockNumber = 0 => Kept(station, k).of = station
        BY DEF Kept
      <4>2. (position = blockNumber) \in BOOLEAN
        OBVIOUS
      <4> QED
        BY <2>1, <3>1, <3>3, <4>1, <4>2, SyncedTyped
    <3>4. CASE Synced(FALSE, Empty)
      BY <3>1, <3>4, SyncedTyped
    <3>5. ASSUME NEW k, Synced(TRUE, Kept(Noise, k))
          PROVE  Counting' /\ Named(decoded)'
      <4>1. blockNumber = 0 => Kept(Noise, k).of = Noise
        BY DEF Kept
      <4> QED
        BY <2>1, <3>1, <3>5, <4>1, SyncedTyped
    <3> QED
      BY <2>2, <3>2, <3>3, <3>4, <3>5 DEF ReceiveBlock
  <2>3. CASE Retune \/ UNCHANGED rdsVars
    BY <2>3 DEF Retune, rdsVars, transmitter, search, counters, Counting, Named
  <2>4. CASE Watchdog
    BY <2>4 DEF Watchdog, transmitter, counters, Counting, Named, OldAge
  <2> QED
    BY <2>2, <2>3, <2>4 DEF RdsNext
<1>3. Inv => RdsTypeOK
  BY DEF RdsTypeOK, FreshInv, TallyInv, Counting, Named
<1> QED
  BY <1>1, <1>2, <1>3, PTL DEF RdsSpec

-----------------------------------------------------------------------------
(* TETRA.                                                                  *)

USE TetraAssumption

Owners == Channels \cup {Several, Nothing.of}
Messages == [of : Owners, event : Events \cup {"other"}, age : Nat]
Sendings == [open : BOOLEAN, renews : BOOLEAN, heard : BOOLEAN]

CarrierOK == air \in Tns /\ tn \in 0 .. Timeslots /\ sending \in [Channels -> Sendings]
PendingOK ==
  /\ pending \in [Channels -> Messages]
  /\ \A k \in Channels : pending[k].of = Nothing.of => pending[k] = Nothing

\* While a message is heard the slots are counted rightly, and what is pending under its channel
\* is its own or gone.
HeardAligned == (\E c \in Channels : sending[c].heard) => sync # "unlocked" /\ tn = air
HeardOwns == \A c \in Channels : sending[c].heard => pending[c].of \in {c, Nothing.of}

PiecesInv == CarrierOK /\ PendingOK /\ HeardAligned /\ HeardOwns /\ ~mixed

LEMMA OwnersDiffer ==
  /\ Several \notin Channels /\ Nothing.of \notin Channels /\ Several # Nothing.of
  /\ Nothing \in Messages
<1>1. Several[1] = 0 /\ \A c \in Channels : c[1] # 0
  BY DEF Several, Channels, Tns
<1>2. Nothing.of[1] = 0 /\ Nothing.of[2] = "none" /\ Several[2] = "several"
  BY DEF Nothing, Several
<1>3. Nothing \in Messages
  BY DEF Nothing, Messages, Owners
<1> QED
  BY <1>1, <1>2, <1>3

LEMMA FollowingOK ==
  /\ \A s \in Tns : Following(s) \in Tns
  /\ \A s \in 0 .. Timeslots : Following(s) \in 0 .. Timeslots
BY DEF Following, Tns

\* A message's owner changed to a known one.
LEMMA OwnerChanged ==
  ASSUME NEW m \in Messages, NEW o \in Owners
  PROVE  LET n == [m EXCEPT !.of = o] IN n \in Messages /\ n.of = o
BY DEF Messages

\* A new message on a channel takes over what is pending there from that channel's last one.
LEMMA OutdatedOK ==
  ASSUME PendingOK, NEW channel \in Channels, NEW p, p = Outdated(channel)
  PROVE  /\ p \in [Channels -> Messages]
         /\ \A k \in Channels :
              /\ p[k].of = IF pending[k].of = channel THEN Several ELSE pending[k].of
              /\ p[k].of = Nothing.of => p[k] = Nothing
<1>1. ASSUME NEW k \in Channels
      PROVE  /\ p[k] \in Messages
             /\ p[k].of = IF pending[k].of = channel THEN Several ELSE pending[k].of
             /\ p[k].of = Nothing.of => p[k] = Nothing
  <2>1. PICK m : m = pending[k]
    OBVIOUS
  <2>2. PICK o : o = IF m.of = channel THEN Several ELSE m.of
    OBVIOUS
  <2>3. m \in Messages /\ (m.of = Nothing.of => m = Nothing)
    BY <2>1 DEF PendingOK
  <2>4. m.of \in Owners /\ m = [m EXCEPT !.of = m.of]
    BY <2>3 DEF Messages
  <2>5. o \in Owners
    BY <2>2, <2>4 DEF Owners
  <2>6. p[k] = [m EXCEPT !.of = o]
    BY <2>1, <2>2 DEF Outdated
  <2>7. p[k] \in Messages /\ p[k].of = o
    BY <2>3, <2>5, <2>6, OwnerChanged
  <2>8. o = Nothing.of => p[k] = Nothing
    BY <2>2, <2>3, <2>4, <2>6, OwnersDiffer
  <2> QED
    BY <2>1, <2>2, <2>7, <2>8
<1>2. p = [k \in Channels |-> p[k]]
  BY DEF Outdated
<1> QED
  BY <1>1, <1>2

OutdatedOf(p, channel) ==
  /\ p \in [Channels -> Messages]
  /\ \A k \in Channels :
       /\ p[k].of = IF pending[k].of = channel THEN Several ELSE pending[k].of
       /\ p[k].of = Nothing.of => p[k] = Nothing

LEMMA OutdatedExists ==
  ASSUME PendingOK
  PROVE  \A channel \in Channels : \E p : p = Outdated(channel) /\ OutdatedOf(p, channel)
<1>1. ASSUME NEW channel \in Channels
      PROVE  \E p : p = Outdated(channel) /\ OutdatedOf(p, channel)
  <2>1. PICK p : p = Outdated(channel)
    OBVIOUS
  <2>2. OutdatedOf(p, channel)
    BY <2>1, OutdatedOK DEF OutdatedOf
  <2> QED
    BY <2>1, <2>2
<1> QED
  BY <1>1

\* The parts of the invariant that a block of a channel may disturb.
Pieces == /\ sending \in [Channels -> Sendings] /\ PendingOK /\ HeardOwns /\ ~mixed

\* A channel of which nothing is heard from now on.
LEMMA Lost ==
  ASSUME Pieces, NEW channel \in Channels, NEW new \in Sendings,
         new.heard => new = sending[channel],
         sending' = [sending EXCEPT ![channel] = new],
         pending' \in {pending, Outdated(channel)},
         pending' = pending \/ ~new.heard, mixed' = mixed
  PROVE  Pieces' /\ \A c \in Channels : sending'[c].heard => sending[c].heard
<1>1. /\ sending' \in [Channels -> Sendings] /\ sending'[channel] = new
      /\ \A c \in Channels \ {channel} : sending'[c] = sending[c]
  BY DEF Pieces
<1>2. PendingOK'
  BY OutdatedOK DEF Pieces, PendingOK
<1>3. ASSUME NEW c \in Channels, sending'[c].heard
      PROVE  sending[c].heard /\ pending'[c].of \in {c, Nothing.of}
  <2>1. sending[c].heard
    BY <1>1, <1>3
  <2>2. pending[c].of \in {c, Nothing.of}
    BY <2>1 DEF Pieces, HeardOwns
  <2>3. CASE pending' = pending
    BY <2>1, <2>2, <2>3
  <2>4. CASE pending' = Outdated(channel) /\ ~new.heard
    <3>1. c # channel
      BY <1>1, <1>3, <2>4
    <3>2. pending[c].of # channel
      BY <2>2, <3>1, OwnersDiffer
    <3>3. pending'[c].of = pending[c].of
      BY <2>4, <3>2, OutdatedOK DEF Pieces
    <3> QED
      BY <2>1, <2>2, <3>3
  <2> QED
    BY <2>3, <2>4
<1>4. HeardOwns'
  BY <1>3 DEF HeardOwns
<1> QED
  BY <1>1, <1>2, <1>3, <1>4 DEF Pieces

LEMMA UnheardPieces ==
  ASSUME Pieces, NEW channel \in Channels, NEW pdu \in Pdus(channel), Unheard(channel, pdu)
  PROVE  Pieces' /\ \A c \in Channels : sending'[c].heard => sending[c].heard
<1>1. PICK new : new = Sent(channel, pdu, FALSE)
  OBVIOUS
<1>2. /\ sending' = [sending EXCEPT ![channel] = new] /\ mixed' = mixed
      /\ pending' = IF pdu.kind = "resource" THEN Outdated(channel) ELSE pending
  BY <1>1 DEF Unheard
<1>3. CASE pdu.kind = "resource"
  <2>1. new \in Sendings /\ ~new.heard
    BY <1>1, <1>3 DEF Sent, Sendings
  <2> QED
    BY <1>2, <1>3, <2>1, Lost
<1>4. CASE pdu.kind = "end"
  <2>1. new \in Sendings /\ ~new.heard
    BY <1>1, <1>4 DEF Sent, Sendings, Silence
  <2> QED
    BY <1>2, <1>4, <2>1, Lost
<1>5. CASE pdu.kind \notin {"resource", "end"}
  <2>1. new = sending[channel] /\ new \in Sendings
    BY <1>1, <1>5 DEF Sent, Pieces
  <2> QED
    BY <1>2, <1>5, <2>1, Lost
<1> QED
  BY <1>3, <1>4, <1>5

\* One entry of what is pending is replaced.
LEMMA Replaced ==
  ASSUME NEW p \in [Channels -> Messages],
         \A k \in Channels : p[k].of = Nothing.of => p[k] = Nothing,
         NEW key \in Channels, NEW m \in Messages, m.of = Nothing.of => m = Nothing,
         pending' = [p EXCEPT ![key] = m]
  PROVE  PendingOK' /\ pending'[key] = m /\ \A k \in Channels \ {key} : pending'[k] = p[k]
BY DEF PendingOK

\* A block that is heard: only where the slots are counted rightly does a message become heard.
LEMMA HeardPieces ==
  ASSUME Pieces, NEW s \in Sources, NEW at \in Tns, air \in Tns,
         \A c \in Channels : sending[c].heard => at = air,
         NEW channel, channel = <<air, s>>, NEW key, key = <<at, s>>,
         NEW pdu \in Pdus(channel), Heard(channel, key, pdu)
  PROVE  Pieces' /\ \A c \in Channels : sending'[c].heard => at = air
<1>1. /\ channel \in Channels /\ key \in Channels /\ key[1] = at
      /\ at = air => key = channel
  BY DEF Channels
<1>2. PICK new : new = Sent(channel, pdu, at = air)
  OBVIOUS
<1>3. sending' = [sending EXCEPT ![channel] = new]
  <2>1. sending' = [sending EXCEPT ![channel] = Sent(channel, pdu, key[1] = air)]
    BY Zenon DEF Heard
  <2> QED
    BY <1>1, <1>2, <2>1
<1>4. new \in Sendings =>
        /\ sending' \in [Channels -> Sendings] /\ sending'[channel] = new
        /\ \A c \in Channels \ {channel} : sending'[c] = sending[c]
  BY <1>1, <1>3 DEF Pieces
<1>5. \A c \in Channels : sending[c].heard => at = air /\ pending[c].of \in {c, Nothing.of}
  BY DEF Pieces, HeardOwns
<1>6. /\ pending \in [Channels -> Messages]
      /\ \A k \in Channels : pending[k].of = Nothing.of => pending[k] = Nothing
  BY DEF Pieces, PendingOK
<1>7. CASE pdu.kind = "resource" /\ Resource(key, channel, pdu.event)
  <2>1. new \in Sendings /\ (new.heard => at = air)
    BY <1>2, <1>7 DEF Sent, Sendings
  <2>2. PICK m : m = [of |-> channel, event |-> pdu.event, age |-> 0]
    OBVIOUS
  <2>3. m \in Messages /\ m.of = channel /\ m.of # Nothing.of
    <3>1. pdu.event \in Events \cup {"other"}
      BY DEF Pdus
    <3> QED
      BY <1>1, <2>2, <3>1, OwnersDiffer DEF Messages, Owners
  <2>4. PICK p : p = Outdated(channel) /\ OutdatedOf(p, channel)
    <3>1. PendingOK /\ channel \in Channels
      BY <1>1 DEF Pieces
    <3> QED
      BY Zenon, <3>1, OutdatedExists
  <2>5. /\ p \in [Channels -> Messages]
        /\ \A k \in Channels :
             /\ p[k].of = IF pending[k].of = channel THEN Several ELSE pending[k].of
             /\ p[k].of = Nothing.of => p[k] = Nothing
    BY <2>4 DEF OutdatedOf
  <2>6. pending' = [p EXCEPT ![key] = m]
    BY <1>7, <2>2, <2>4 DEF Resource
  <2>7. PendingOK' /\ pending'[key] = m /\ \A k \in Channels \ {key} : pending'[k] = p[k]
    BY <1>1, <2>3, <2>5, <2>6, Replaced
  <2>8. ASSUME NEW c \in Channels, sending'[c].heard
        PROVE  at = air /\ pending'[c].of \in {c, Nothing.of}
    <3>1. CASE c = channel
      BY <1>1, <1>4, <2>1, <2>3, <2>7, <2>8, <3>1
    <3>2. CASE c # channel
      <4>1. sending[c].heard
        BY <1>4, <2>1, <2>8, <3>2
      <4>2. at = air /\ pending[c].of \in {c, Nothing.of}
        BY <1>5, <4>1
      <4>3. pending[c].of # channel /\ c # key
        BY <1>1, <3>2, <4>2, OwnersDiffer
      <4>4. pending'[c].of = pending[c].of
        BY <2>5, <2>7, <4>3
      <4> QED
        BY <4>2, <4>4
    <3> QED
      BY <3>1, <3>2
  <2>9. mixed' = mixed
    BY <1>7 DEF Resource
  <2> QED
    BY <1>4, <2>1, <2>7, <2>8, <2>9 DEF Pieces, HeardOwns
<1>8. CASE pdu.kind = "fragment" /\ Fragment(key, channel)
  <2>1. new = sending[channel] /\ new \in Sendings
    BY <1>1, <1>2, <1>8 DEF Sent, Pieces
  <2>2. sending' = sending
    BY <1>1, <1>3, <2>1 DEF Pieces
  <2>3. CASE pending[key] = Nothing
    <3>1. pending' = pending /\ mixed' = mixed
      BY <1>8, <2>3 DEF Fragment
    <3> QED
      BY <1>5, <2>2, <3>1 DEF Pieces, HeardOwns, PendingOK
  <2>4. CASE pending[key] # Nothing
    <3>1. PICK old : old = pending[key]
      OBVIOUS
    <3>2. PICK o : o = IF old.of = channel THEN old.of ELSE Several
      OBVIOUS
    <3>3. PICK m : m = [old EXCEPT !.of = o, !.age = 0]
      OBVIOUS
    <3>4. old \in Messages /\ old.of # Nothing.of
      BY <1>1, <1>6, <2>4, <3>1
    <3>5. o \in Owners /\ o # Nothing.of
      BY <3>2, <3>4, OwnersDiffer DEF Owners, Messages
    <3>6. m \in Messages /\ m.of = o
      BY <3>3, <3>4, <3>5 DEF Messages
    <3>7. pending' = [pending EXCEPT ![key] = m] /\ mixed' = mixed
      BY <1>1, <1>6, <1>8, <2>4, <3>1, <3>2, <3>3 DEF Fragment
    <3>8. PendingOK' /\ pending'[key] = m /\ \A k \in Channels \ {key} : pending'[k] = pending[k]
      BY <1>1, <1>6, <3>5, <3>6, <3>7, Replaced
    <3>9. ASSUME NEW c \in Channels, sending[c].heard
          PROVE  pending'[c].of \in {c, Nothing.of}
      <4>1. at = air /\ pending[c].of \in {c, Nothing.of} /\ key = channel
        BY <1>1, <1>5, <3>9
      <4>2. CASE c = key
        BY <3>1, <3>2, <3>4, <3>6, <3>8, <4>1, <4>2
      <4>3. CASE c # key
        BY <3>8, <4>1, <4>3
      <4> QED
        BY <4>2, <4>3
    <3> QED
      BY <1>5, <2>2, <3>7, <3>8, <3>9 DEF Pieces, HeardOwns
  <2> QED
    BY <2>3, <2>4
<1>9. CASE pdu.kind = "end" /\ End(key, channel)
  <2>1. new \in Sendings /\ ~new.heard
    BY <1>2, <1>9 DEF Sent, Silence, Sendings
  <2>2. /\ PendingOK' /\ pending'[key] = Nothing
        /\ \A k \in Channels \ {key} : pending'[k] = pending[k]
    <3>1. pending' = [pending EXCEPT ![key] = Nothing]
      BY <1>9 DEF End
    <3> QED
      BY <1>1, <1>6, <3>1, OwnersDiffer, Replaced
  <2>3. ~mixed'
    <3>1. sending[channel].heard => pending[key].of \in {channel, Nothing.of}
      BY <1>1, <1>5
    <3> QED
      BY <1>9, <3>1 DEF End, Pieces
  <2>4. ASSUME NEW c \in Channels, sending'[c].heard
        PROVE  at = air /\ pending'[c].of \in {c, Nothing.of}
    <3>1. sending[c].heard
      BY <1>4, <2>1, <2>4
    <3> QED
      BY <1>5, <2>2, <3>1
  <2> QED
    BY <1>4, <2>1, <2>2, <2>3, <2>4 DEF Pieces, HeardOwns
<1> QED
  BY <1>7, <1>8, <1>9 DEF Heard

\* The block of a burst, counted as slot `at'.
LEMMA SignalPieces ==
  ASSUME Pieces, air \in Tns, NEW at \in 0 .. Timeslots, NEW sources, Signal(sources, at),
         \A c \in Channels : sending[c].heard => at = air
  PROVE  Pieces' /\ \A c \in Channels : sending'[c].heard => at = air
<1>1. CASE UNCHANGED <<sending, mac>>
  BY <1>1 DEF Pieces, PendingOK, HeardOwns, mac
<1>2. ASSUME NEW s \in sources \cap Sources, NEW pdu \in Pdus(<<air, s>>),
             Unheard(<<air, s>>, pdu)
      PROVE  Pieces' /\ \A c \in Channels : sending'[c].heard => at = air
  <2>1. <<air, s>> \in Channels
    BY DEF Channels
  <2> QED
    BY <1>2, <2>1, UnheardPieces
<1>3. ASSUME NEW s \in sources \cap Sources, NEW pdu \in Pdus(<<air, s>>),
             at # 0, Heard(<<air, s>>, <<at, s>>, pdu)
      PROVE  Pieces' /\ \A c \in Channels : sending'[c].heard => at = air
  <2>1. at \in Tns
    BY <1>3 DEF Tns
  <2> QED
    BY <1>3, <2>1, HeardPieces
<1> QED
  BY <1>1, <1>2, <1>3, Zenon DEF Signal

LEMMA UnreadablePieces ==
  ASSUME Pieces, air \in Tns, Unreadable
  PROVE  Pieces' /\ \A c \in Channels : sending'[c].heard => sending[c].heard
<1>1. CASE UNCHANGED <<sending, mac>>
  BY <1>1 DEF Pieces, PendingOK, HeardOwns, mac
<1>2. ASSUME NEW s \in Sources, NEW pdu \in Pdus(<<air, s>>), Unheard(<<air, s>>, pdu)
      PROVE  Pieces' /\ \A c \in Channels : sending'[c].heard => sending[c].heard
  <2>1. <<air, s>> \in Channels
    BY DEF Channels
  <2> QED
    BY <1>2, <2>1, UnheardPieces
<1> QED
  BY <1>1, <1>2, Zenon DEF Unreadable

\* After the lock is lost nothing counts as heard.
LEMMA ForgottenPieces ==
  ASSUME sending \in [Channels -> Sendings], sending' = Forgotten
  PROVE  sending' \in [Channels -> Sendings] /\ \A c \in Channels : ~sending'[c].heard
<1>1. ASSUME NEW c \in Channels
      PROVE  Forgotten[c] \in Sendings /\ ~Forgotten[c].heard
  <2>1. sending[c] \in Sendings /\ Forgotten[c] = [sending[c] EXCEPT !.heard = FALSE]
    BY DEF Forgotten
  <2> QED
    BY <2>1 DEF Sendings
<1>2. Forgotten = [c \in Channels |-> Forgotten[c]]
  BY DEF Forgotten
<1> QED
  BY <1>1, <1>2

LEMMA PiecesInit == TetraInit => PiecesInv
<1> SUFFICES ASSUME TetraInit PROVE PiecesInv
  OBVIOUS
<1>1. Silence \in Sendings /\ ~Silence.heard
  BY DEF Silence, Sendings
<1>2. CarrierOK /\ \A c \in Channels : ~sending[c].heard
  BY <1>1 DEF TetraInit, CarrierOK
<1>3. PendingOK /\ ~mixed
  BY OwnersDiffer DEF TetraInit, PendingOK
<1> QED
  BY <1>2, <1>3 DEF PiecesInv, HeardAligned, HeardOwns

\* A burst counted as slot `at', after which the slots are counted from there.
LEMMA CountedOn ==
  ASSUME air \in Tns, NEW at \in 0 .. Timeslots, Over(at), Pieces', sync # "unlocked",
         sync' = sync, \A c \in Channels : sending'[c].heard => at = air
  PROVE  PiecesInv'
<1>1. air' = Following(air) /\ tn' = Following(at)
  BY DEF Over
<1>2. air' \in Tns /\ tn' \in 0 .. Timeslots
  BY <1>1, FollowingOK
<1>3. (\E c \in Channels : sending'[c].heard) => tn' = air'
  BY <1>1
<1> QED
  BY <1>2, <1>3 DEF PiecesInv, CarrierOK, HeardAligned, Pieces

LEMMA PiecesStep == ASSUME PiecesInv, [TetraNext]_tetraVars PROVE PiecesInv'
<1>0. /\ Pieces /\ air \in Tns /\ tn \in 0 .. Timeslots /\ sending \in [Channels -> Sendings]
      /\ \A c \in Channels : sending[c].heard => sync # "unlocked" /\ tn = air
  BY DEF PiecesInv, Pieces, CarrierOK, HeardAligned
<1>a. Following(air) \in Tns /\ Following(tn) \in 0 .. Timeslots
  BY <1>0, FollowingOK
<1>1. CASE Pass
  <2>1. sync' = sync /\ tn' = tn /\ air' = Following(air) /\ sync = "unlocked" /\ Unreadable
    BY <1>1 DEF Pass, lock
  <2>2. Pieces' /\ \A c \in Channels : ~sending'[c].heard
    BY <1>0, <2>1, UnreadablePieces
  <2> QED
    BY <1>0, <1>a, <2>1, <2>2 DEF PiecesInv, CarrierOK, HeardAligned, Pieces
<1>2. CASE Acquire
  <2>1. UNCHANGED <<air, tn, sending, pending, mixed>> /\ sync = "unlocked"
    BY <1>2 DEF Acquire, carrier, mac
  <2> QED
    BY <1>0, <2>1 DEF PiecesInv, CarrierOK, PendingOK, HeardAligned, HeardOwns
<1>3. CASE Uncorrelated
  <2>0. Over(tn) /\ sync # "unlocked" /\ sync' \in {sync, "unlocked"}
    BY <1>3 DEF Uncorrelated
  <2>1. CASE sync' = "unlocked"
    <3>1. sending' = Forgotten /\ UNCHANGED <<pending, mixed>>
      BY <1>3, <2>1 DEF Uncorrelated, mac
    <3>2. sending' \in [Channels -> Sendings] /\ \A c \in Channels : ~sending'[c].heard
      BY <1>0, <3>1, ForgottenPieces
    <3> QED
      BY <1>0, <1>a, <2>0, <3>1, <3>2
         DEF PiecesInv, CarrierOK, PendingOK, HeardAligned, HeardOwns, Over
  <2>2. CASE sync' # "unlocked"
    <3>1. Unreadable
      BY <1>3, <2>2 DEF Uncorrelated
    <3>2. Pieces' /\ \A c \in Channels : sending'[c].heard => tn = air
      BY <1>0, <3>1, UnreadablePieces
    <3> QED
      BY <1>0, <2>0, <2>2, <3>2, CountedOn
  <2> QED
    BY <2>1, <2>2
<1>4. CASE SyncFails
  <2>1. CASE fails + 1 < MaxFailures
    <3>1. Unreadable /\ Over(tn) /\ sync' = sync /\ sync # "unlocked"
      BY <1>4, <2>1 DEF SyncFails
    <3>2. Pieces' /\ \A c \in Channels : sending'[c].heard => tn = air
      BY <1>0, <3>1, UnreadablePieces
    <3> QED
      BY <1>0, <3>1, <3>2, CountedOn
  <2>2. CASE ~(fails + 1 < MaxFailures)
    <3>1. /\ sending' = Forgotten /\ pending' = [k \in Channels |-> Nothing] /\ mixed' = mixed
          /\ air' = Following(air) /\ tn' = 0
      BY <1>4, <2>2, Zenon DEF SyncFails
    <3>2. sending' \in [Channels -> Sendings] /\ \A c \in Channels : ~sending'[c].heard
      BY <1>0, <3>1, ForgottenPieces
    <3>3. PendingOK'
      BY <3>1, OwnersDiffer DEF PendingOK
    <3>4. 0 \in 0 .. Timeslots
      OBVIOUS
    <3> QED
      BY <1>a, <3>1, <3>2, <3>3, <3>4 DEF PiecesInv, CarrierOK, HeardAligned, HeardOwns
  <2> QED
    BY <2>1, <2>2
<1>5. CASE SyncFound
  <2>1. Signal({"SB2"}, air) /\ Over(air) /\ sync' = sync /\ sync # "unlocked"
    BY <1>5 DEF SyncFound
  <2>2. air \in 0 .. Timeslots
    BY <1>0 DEF Tns
  <2>3. Pieces'
    BY <1>0, <2>1, <2>2, SignalPieces
  <2> QED
    BY <1>0, <2>1, <2>2, <2>3, CountedOn
<1>6. CASE Normal
  <2>1. Signal(Sources \ {"SB2"}, tn) /\ Over(tn) /\ sync' = sync /\ sync # "unlocked"
    BY <1>6 DEF Normal
  <2>2. Pieces' /\ \A c \in Channels : sending'[c].heard => tn = air
    BY <1>0, <2>1, SignalPieces
  <2> QED
    BY <1>0, <2>1, <2>2, CountedOn
<1>7. CASE Traffic
  <2>1. Over(tn) /\ sync' = sync /\ sync # "unlocked" /\ UNCHANGED <<sending, pending, mixed>>
    BY <1>7 DEF Traffic, mac
  <2>2. Pieces'
    BY <1>0, <2>1 DEF Pieces, PendingOK, HeardOwns
  <2> QED
    BY <1>0, <2>1, <2>2, CountedOn
<1>8. ASSUME NEW dt \in {0, 1}, EndOfBatch(dt) PROVE PiecesInv'
  <2>1. /\ air' = air /\ tn' = tn /\ mixed' = mixed
        /\ sync' = IF sync = "draining" THEN "unlocked" ELSE sync
        /\ sending' = IF sync = "draining" THEN Forgotten ELSE sending
    BY <1>8 DEF EndOfBatch
  <2>2. /\ sending' \in [Channels -> Sendings]
        /\ \A c \in Channels : sending'[c].heard =>
             sending[c].heard /\ sync' # "unlocked" /\ tn' = air'
    <3>1. CASE sync = "draining"
      BY <1>0, <2>1, <3>1, ForgottenPieces
    <3>2. CASE sync # "draining"
      BY <1>0, <2>1, <3>2
    <3> QED
      BY <3>1, <3>2
  <2>3. ASSUME NEW k \in Channels
        PROVE  /\ pending'[k] \in Messages /\ pending'[k].of \in {pending[k].of, Nothing.of}
               /\ pending'[k].of = Nothing.of => pending'[k] = Nothing
    <3>1. PICK p : /\ p \in {Unexpired, pending}
                   /\ pending' = [c \in Channels |->
                        IF dt = 0 \/ p[c] = Nothing THEN p[c]
                        ELSE [p[c] EXCEPT !.age = Later(@, FragTimeout)]]
      BY <1>8 DEF EndOfBatch
    <3>2. PICK m : m = p[k]
      OBVIOUS
    <3>3. m \in {pending[k], Nothing}
      BY <3>1, <3>2 DEF Unexpired
    <3>4. pending[k] \in Messages /\ (pending[k].of = Nothing.of => pending[k] = Nothing)
      BY <1>0 DEF Pieces, PendingOK
    <3>5. /\ m \in Messages /\ m.of \in {pending[k].of, Nothing.of}
          /\ (m.of = Nothing.of => m = Nothing)
      BY <3>3, <3>4, OwnersDiffer
    <3>6. CASE dt = 0 \/ m = Nothing
      <4>1. pending'[k] = m
        BY <3>1, <3>2, <3>6
      <4> QED
        BY <3>5, <4>1
    <3>7. CASE ~(dt = 0 \/ m = Nothing)
      <4>1. pending'[k] = [m EXCEPT !.age = Later(m.age, FragTimeout)]
        BY <3>1, <3>2, <3>7
      <4>2. Later(m.age, FragTimeout) \in Nat
        BY <3>5 DEF Later, Messages
      <4>3. pending'[k] \in Messages /\ pending'[k].of = m.of
        BY <3>5, <4>1, <4>2 DEF Messages
      <4> QED
        BY <3>5, <3>7, <4>3
    <3> QED
      BY <3>6, <3>7
  <2>4. PendingOK'
    <3>1. pending' = [k \in Channels |-> pending'[k]]
      BY <1>8 DEF EndOfBatch
    <3> QED
      BY <2>3, <3>1 DEF PendingOK
  <2>5. HeardOwns'
    BY <1>0, <2>2, <2>3 DEF Pieces, HeardOwns
  <2> QED
    BY <1>0, <2>1, <2>2, <2>4, <2>5 DEF PiecesInv, CarrierOK, HeardAligned, Pieces
<1>9. CASE Talk \/ UNCHANGED tetraVars
  <2>1. UNCHANGED <<air, tn, sync, sending, pending, mixed>>
    BY <1>9 DEF Talk, tetraVars, carrier, lock, mac
  <2> QED
    BY <2>1 DEF PiecesInv, CarrierOK, PendingOK, HeardAligned, HeardOwns
<1> QED
  BY <1>1, <1>2, <1>3, <1>4, <1>5, <1>6, <1>7, <1>8, <1>9 DEF TetraNext, AnyBurst

\* MessageIsItsOwn, for any number of slots, any channels and any losses.
THEOREM MessagesAreWhole == TetraInit /\ [][TetraNext]_tetraVars => []MessageIsItsOwn
<1>1. PiecesInv /\ [TetraNext]_tetraVars => PiecesInv'
  BY PiecesStep
<1>2. PiecesInv => MessageIsItsOwn
  BY DEF PiecesInv, MessageIsItsOwn
<1> QED
  BY <1>1, <1>2, PiecesInit, PTL
===============================================================================
