------------------------------ MODULE RdsDecoder ------------------------------
(* The RDS decoder from its blocks on (radio/decoders/rds.py): block          *)
(* synchronisation, groups, the identity of the station and the votes for its *)
(* name. A step receives one block of the station's endless A, B, C or C', D; *)
(* bits, checkwords and characters are left out.                              *)
EXTENDS Integers

CONSTANTS
  Stations,                  \* stations, by their PI
  DropAfter,                 \* wrong blocks in a row that end synchronisation (10)
  Window, WrongPercent,      \* or this share of the blocks of a window (40, 40 %)
  Acquired,                  \* groups after which a station is established (4)
  Retunes, Falses            \* bounds: changes of the station; blocks mistaken for valid ones

Noise == "noise"             \* the PI of a block mistaken for a valid one
None == "none"

ASSUME RdsAssumption ==
  /\ Noise \notin Stations /\ None \notin Stations
  /\ {DropAfter, Window, WrongPercent, Acquired, Retunes, Falses} \subseteq Nat
  /\ DropAfter > 0 /\ Window > 0

VARIABLES
  station, position,                 \* the transmitter: who, and the place of its next block
  synced, presync, seen, distance,   \* presync: a block of offset seen came distance blocks ago
  blockNumber, valid, blocks,        \* blocks: per place that is valid, whose it is, of what kind
  consecutive, counted, wrong,       \* _consecutive_wrong, _blocks_counter, _wrong_blocks_counter
  decoded,                           \* _pi_code, _pi_candidate, _groups_received (up to Acquired)
                                     \* and _ps_votes: per station, how many of its groups voted
  age,                               \* history: per place, how many blocks ago it was received
  used,                              \* history: place and age of the blocks of the last group
  lastPi,                            \* history: the PI of the last A block of a group
  retunes, falses                    \* counters of the bounds

transmitter == <<station, position, retunes>>
search == <<synced, presync, seen, distance, blockNumber>>
counters == <<consecutive, counted, wrong>>
rdsVars == <<transmitter, search, valid, blocks, counters, decoded, age, used, lastPi, falses>>

Places == 0 .. 3
Voters == Stations \cup {Noise}
MaxVotes == Acquired + 2     \* bound: votes counted for a station
OldAge == 4                  \* bound: of age, and with one more of distance
UpTo(n, max) == IF n < max THEN n + 1 ELSE max
Empty == [of |-> None, kind |-> "none"]
NothingValid == [i \in Places |-> FALSE]
Unknown == [pi |-> None, candidate |-> None, groups |-> 0, votes |-> [s \in Voters |-> 0]]

\* RDS_SYNDROMES: A, B, C, C', D; RDS_OFFSET_POS
OffsetPos(j) == IF j < 3 THEN j ELSE j - 1
OffsetsSent == {j \in 0 .. 4 : OffsetPos(j) = position}

RdsInit ==
  /\ station \in Stations /\ position \in Places
  /\ synced = FALSE /\ presync = FALSE /\ seen = 0 /\ distance = 0 /\ blockNumber = 0
  /\ valid = NothingValid /\ blocks = [i \in Places |-> Empty]
  /\ consecutive = 0 /\ counted = 0 /\ wrong = 0
  /\ decoded = Unknown /\ lastPi = None
  /\ age = [i \in Places |-> OldAge] /\ used = {} /\ retunes = 0 /\ falses = 0

------------------------------------------------------------------------------
(* Search for synchronisation                                                *)

\* The distance in blocks from the place of one offset to the next place of another.
BlockDistance(last, curr) ==
  IF OffsetPos(last) >= OffsetPos(curr) THEN OffsetPos(curr) + 4 - OffsetPos(last)
                                        ELSE OffsetPos(curr) - OffsetPos(last)

\* (mutant) The flags of the blocks outlive the loss of synchronisation.
EnterSyncKeepingFlags(j) ==
  /\ synced' = TRUE /\ blockNumber' = (j + 1) % 4
  /\ wrong' = 0 /\ counted' = 0
  /\ UNCHANGED <<valid, consecutive>>

\* The next place is reckoned from the index of the offset.
EnterSync(j) ==
  /\ synced' = TRUE /\ blockNumber' = (j + 1) % 4
  /\ wrong' = 0 /\ counted' = 0 /\ valid' = NothingValid
  /\ UNCHANGED consecutive

\* A block while there is no synchronisation whose checkword fits no offset, or the offset j. The
\* second one that does must be as far from the first as their places are.
SearchFails ==
  /\ ~synced
  /\ distance' = IF presync THEN UpTo(distance, OldAge) ELSE 0
  /\ UNCHANGED <<synced, presync, seen, blockNumber, valid, counters>>

SearchFinds(j) ==
  /\ ~synced /\ distance' = 0
  /\ \/ /\ ~presync /\ presync' = TRUE /\ seen' = j
        /\ UNCHANGED <<synced, blockNumber, valid, counters>>
     \/ /\ presync /\ distance + 1 = BlockDistance(seen, j)
        /\ EnterSync(j) /\ seen' = 0 /\ UNCHANGED presync
     \/ /\ presync /\ distance + 1 # BlockDistance(seen, j)
        /\ presync' = FALSE /\ seen' = 0
        /\ UNCHANGED <<synced, blockNumber, valid, counters>>

\* _check_sync_watchdog: after a long search the timing is nudged and the search begins anew.
Watchdog ==
  /\ ~synced /\ presync /\ presync' = FALSE /\ seen' = 0 /\ distance' = 0
  /\ UNCHANGED <<transmitter, synced, blockNumber, valid, blocks, counters, decoded, age, used,
                 lastPi, falses>>

------------------------------------------------------------------------------
(* Groups                                                                    *)

\* _decode_ps takes groups with a valid A and D block.
Counted(d, v, b) ==
  LET named == b[1].kind = "ps" /\ v[0] /\ v[3]
  IN [pi |-> d.pi, candidate |-> d.candidate, groups |-> UpTo(d.groups, Acquired),
      votes |-> [s \in Voters |-> IF named /\ s = b[3].of THEN UpTo(d.votes[s], MaxVotes)
                                                         ELSE d.votes[s]]]

\* (mutant) The votes for the station before stay.
RenamedStation(v, b) ==
  Counted([decoded EXCEPT !.pi = b[0].of, !.candidate = None, !.groups = 0], v, b)

\* A new identity that was repeated: what was decoded is cleared.
NewStation(v, b) == Counted([Unknown EXCEPT !.pi = b[0].of], v, b)

\* The identity was not received, is the first, or is the one that is known.
SameStation(v, b) ==
  Counted([decoded EXCEPT !.pi = IF v[0] THEN b[0].of ELSE @,
                          !.candidate = IF v[0] /\ decoded.pi # None THEN None ELSE @], v, b)

Other(v, b) == v[0] /\ decoded.pi \notin {None, b[0].of}

\* Before the station is established another identity ends synchronisation.
Disowned(v, b) == v[1] /\ Other(v, b) /\ decoded.groups < Acquired

\* (mutant) An established station gives way at once.
DecodeGroupAtOnce(v, b) ==
  CASE ~v[1] -> decoded
    [] Disowned(v, b) -> Unknown
    [] v[1] /\ ~Other(v, b) -> SameStation(v, b)
    [] v[1] /\ Other(v, b) /\ ~Disowned(v, b) -> NewStation(v, b)

\* _decode_group; without a B block the group is passed over.
DecodeGroup(v, b) ==
  CASE ~v[1] -> decoded
    [] Disowned(v, b) -> Unknown
    [] v[1] /\ ~Other(v, b) -> SameStation(v, b)
    [] v[1] /\ Other(v, b) /\ ~Disowned(v, b) ->
         IF decoded.candidate = b[0].of THEN NewStation(v, b)
         ELSE Counted([decoded EXCEPT !.candidate = b[0].of], v, b)

\* _sync_drop, which keeps the identity and the votes
SyncDrop ==
  /\ synced' = FALSE /\ presync' = FALSE /\ distance' = 0
  /\ consecutive' = 0 /\ counted' = 0 /\ wrong' = 0

TooManyWrong(inRow, bad, all) ==
  inRow >= DropAfter \/ (all >= Window /\ bad * 100 > WrongPercent * all)

\* A block in synchronisation; good: its checkword fits the place where it is expected, or seems
\* to. After the fourth the group is decoded and the flags are cleared.
Synced(good, from) ==
  LET b == [blocks EXCEPT ![blockNumber] = IF good THEN from ELSE Empty]
      v == [valid EXCEPT ![blockNumber] = good]
      ends == blockNumber = 3
      inRow == IF good THEN 0 ELSE consecutive + 1
      bad == IF good THEN wrong ELSE wrong + 1
      lost == TooManyWrong(inRow, bad, counted + 1)
      next == IF ends THEN DecodeGroup(v, b) ELSE decoded
      dropped == ends /\ Disowned(v, b)
  IN /\ synced /\ blockNumber' = (blockNumber + 1) % 4 /\ UNCHANGED seen
     /\ blocks' = IF ends THEN [i \in Places |-> Empty] ELSE b
     /\ valid' = IF ends THEN NothingValid ELSE v
     /\ age' = [i \in Places |-> IF ~v[i] THEN OldAge
                                 ELSE IF i = blockNumber THEN 0 ELSE UpTo(age[i], OldAge)]
     /\ IF dropped \/ lost THEN SyncDrop
        ELSE /\ UNCHANGED <<synced, presync, distance>>
             /\ consecutive' = inRow
             /\ counted' = (counted + 1) % Window
             /\ wrong' = IF counted + 1 = Window THEN 0 ELSE bad
     /\ decoded' = IF lost /\ ~dropped THEN [next EXCEPT !.groups = 0] ELSE next
     /\ used' = IF ends /\ v[1] THEN {<<i, age'[i]>> : i \in {j \in Places : v[j]}} ELSE {}
     /\ lastPi' = IF ends /\ v[0] /\ v[1] THEN b[0].of ELSE lastPi

\* What the decoder takes from a block at its place: the identity, the kind, nothing, the name.
Kept(s, k) == [of |-> IF blockNumber \in {0, 3} THEN s ELSE None,
               kind |-> IF blockNumber = 1 THEN k ELSE "none"]

\* One block: received well, garbled, or garbled so that it fits where it is expected.
ReceiveBlock ==
  /\ position' = (position + 1) % 4 /\ UNCHANGED <<station, retunes>>
  /\ \/ /\ SearchFails \/ \E j \in OffsetsSent : SearchFinds(j)
        /\ age' = [i \in Places |-> UpTo(age[i], OldAge)]
        /\ used' = {} /\ UNCHANGED <<blocks, decoded, lastPi, falses>>
     \/ /\ \E k \in {"ps", "rt"} : Synced(position = blockNumber, Kept(station, k))
        /\ UNCHANGED falses
     \/ Synced(FALSE, Empty) /\ UNCHANGED falses
     \/ /\ falses < Falses /\ falses' = falses + 1
        /\ \E k \in {"ps", "rt"} : Synced(TRUE, Kept(Noise, k))

\* Another station takes over; the decoder is not told.
Retune ==
  /\ retunes < Retunes /\ retunes' = retunes + 1
  /\ station' \in Stations \ {station}
  /\ UNCHANGED <<position, search, valid, blocks, counters, decoded, age, used,
                 lastPi, falses>>

RdsNext == ReceiveBlock \/ Retune \/ Watchdog
RdsSpec == RdsInit /\ [][RdsNext]_rdsVars

------------------------------------------------------------------------------
(* Properties                                                                *)

RdsTypeOK ==
  /\ station \in Stations /\ position \in Places /\ blockNumber \in Places /\ seen \in 0 .. 4
  /\ distance \in 0 .. OldAge /\ valid \in [Places -> BOOLEAN]
  /\ consecutive \in 0 .. DropAfter - 1 /\ counted \in 0 .. Window - 1 /\ wrong \in 0 .. counted
  /\ decoded.pi \in Voters \cup {None} /\ decoded.candidate \in Voters \cup {None}
  /\ decoded.groups \in 0 .. Acquired /\ decoded.votes \in [Voters -> 0 .. MaxVotes]

\* The blocks a group is decoded from were received one after the other: none is left from a group
\* before, from before a loss of synchronisation, or from a group that was only partly received.
GroupIsOneTransmission == \A u \in used : u[2] = 3 - u[1]

\* The identity of a station gives way to another one only when that one was heard in the two last
\* groups that had an identity: one A block mistaken for a valid one changes nothing. (A station
\* that is given up is unknown in between.)
ChangeIsConfirmed ==
  [][decoded.pi # None /\ decoded'.pi \notin {None, decoded.pi} => lastPi = decoded'.pi]_rdsVars

\* A change of the station, or a block mistaken for a valid one, puts at most two groups of another
\* station among the votes for the name, however often synchronisation is lost meanwhile.
NameIsTheStations ==
  decoded.pi # None =>
    \A s \in Voters \ {decoded.pi} : decoded.votes[s] <= 2 * (retunes + falses)

\* In synchronisation the next block is expected where it comes. ("Block position (C and C' both
\* at pos 2)": EnterSync reckons with the index of the offset instead.)
SyncIsAligned == synced => blockNumber = position
==============================================================================
