----------------------------- MODULE ProviderApi -----------------------------
(***************************************************************************)
(* The provider's service (provider/api.py): a client uploads a piece in     *)
(* batches of chunks and asks for the deal to be accepted.  Every request    *)
(* runs in a thread of its own on dictionaries and lists that no lock        *)
(* guards; requests are retried after a timeout while the first one runs on. *)
(* The quote changes no state and reserves nothing.                          *)
(***************************************************************************)
EXTENDS Merkle

CONSTANTS
    Deals,
    Threads,         \* requests in progress at one time
    Chunks,          \* contents of a chunk
    NotHex,          \* of a chunk that fails to parse
    Piece,           \* what the client prepared, the same for every deal
    BATCHES,         \* bound: the lists of chunks that are sent
    BEACONS,         \* activation beacons
    MAX_BUFFERS, MAX_CHUNKS    \* bounds: buffers ever made, chunks in one

ASSUME ProviderAssumption ==
    /\ NotHex \notin Chunks
    /\ Piece \in Seq(Chunks) /\ Piece # << >>
    /\ BATCHES \subseteq Seq(Chunks \cup {NotHex})

VARIABLES
    clients,         \* how the clients behave, fixed
    buffers,         \* the list objects, by identity
    received,        \* deal -> its buffer, or 0
    deals,           \* deal -> what is stored of it, or Absent
    op               \* thread -> the request it runs

vars == <<clients, buffers, received, deals, op>>

Idle == [pc |-> "idle"]
Absent == [n_chunks |-> 0]

\* merkle_root([poseidon2_stub(c) for c in chunks])
piece_root(chunks) == merkle_root([i \in DOMAIN chunks |-> Leaf(chunks[i])])

\* derive_replica_id: the deal, the root that was checked, and the beacon; the
\* provider's own address is the same in all.
ReplicaId == [deal: Deals, root: {piece_root(Piece)}, beacon: BEACONS]

\* What seal computes from chunks under a replica is a different value for
\* different chunks or replicas (Sealing), and stands here as the two.
DealStorage == [n_chunks: Nat, sealed: Seq(Chunks), replica: ReplicaId]

\* inTurn: a client sends a request when it has the answer to the one before.
\* faithful: no chunk arrives as another; it may arrive unreadable.
Behaviours == [inTurn: BOOLEAN, faithful: BOOLEAN]

TypeOK ==
    /\ clients \in Behaviours
    /\ buffers \in Seq(Seq(Chunks))
    /\ received \in [Deals -> 0..Len(buffers)]
    /\ deals \in [Deals -> {Absent} \cup DealStorage]
    /\ op \in [Threads ->
           {Idle}
           \cup [pc: {"putting"}, deal: Deals, buf: 1..Len(buffers),
                 rest: Seq(Chunks \cup {NotHex})]
           \cup [pc: {"checking", "sealing", "dropping"}, deal: Deals,
                 buf: 1..Len(buffers), replica: ReplicaId]
           \cup [pc: {"storing"}, deal: Deals, buf: 1..Len(buffers),
                 replica: ReplicaId, sealed: Seq(Chunks)]]

Init ==
    /\ clients \in Behaviours
    /\ buffers = << >>
    /\ received = [d \in Deals |-> 0]
    /\ deals = [d \in Deals |-> Absent]
    /\ op = [r \in Threads |-> Idle]

\* The client of d may send a request.
MaySend(r, d) ==
    /\ op[r] = Idle
    /\ clients.inTurn => \A s \in Threads : op[s] # Idle => op[s].deal # d

\* Batch chunks is what the piece has from start on.
OfPiece(start, chunks) ==
    \A i \in DOMAIN chunks :
        start + i \in DOMAIN Piece /\ chunks[i] \in {Piece[start + i], NotHex}

Step(r, next) == op' = [op EXCEPT ![r] = next]

-----------------------------------------------------------------------------
(***************************************************************************)
(* put_chunks.                                                              *)
(***************************************************************************)
\* received.setdefault(deal_id, [])
Setdefault(d) ==
    IF received[d] = 0
    THEN /\ buffers' = Append(buffers, << >>)
         /\ received' = [received EXCEPT ![d] = Len(buffers) + 1]
    ELSE UNCHANGED <<buffers, received>>

\* Seeded fault: a batch that starts before the end is taken too.
Expected_Before(start, n) == start <= n

\* A batch has to begin where the buffer ends.
Expected(start, n) == start = n

PutBegins(r, d, start, chunks) ==
    /\ MaySend(r, d)
    /\ clients.faithful => OfPiece(start, chunks)
    /\ received[d] = 0 => Len(buffers) < MAX_BUFFERS
    /\ Setdefault(d)
    /\ LET b == received'[d] IN
       IF Expected(start, Len(buffers'[b]))
       THEN /\ Len(buffers'[b]) + Len(chunks) <= MAX_CHUNKS
            /\ Step(r, [pc |-> "putting", deal |-> d, buf |-> b, rest |-> chunks])
       ELSE UNCHANGED op       \* 409
    /\ UNCHANGED <<clients, deals>>

\* Seeded fault: the digits are stored as they came.
Parses_Any(chunk) == TRUE

Parses(chunk) == chunk # NotHex

\* extend takes the chunks one by one from a generator.
PutAppends(r) ==
    /\ op[r].pc = "putting" /\ op[r].rest # << >> /\ Parses(Head(op[r].rest))
    /\ Len(buffers[op[r].buf]) < MAX_CHUNKS
    /\ buffers' = [buffers EXCEPT ![op[r].buf] = Append(@, Head(op[r].rest))]
    /\ Step(r, [pc |-> "putting", deal |-> op[r].deal, buf |-> op[r].buf,
                rest |-> Tail(op[r].rest)])
    /\ UNCHANGED <<clients, received, deals>>

\* bytes.fromhex raises; the chunks before stay in the buffer.
PutRaises(r) ==
    /\ op[r].pc = "putting" /\ op[r].rest # << >> /\ ~Parses(Head(op[r].rest))
    /\ Step(r, Idle)
    /\ UNCHANGED <<clients, buffers, received, deals>>

PutReturns(r) ==
    /\ op[r].pc = "putting" /\ op[r].rest = << >>
    /\ Step(r, Idle)
    /\ UNCHANGED <<clients, buffers, received, deals>>

-----------------------------------------------------------------------------
(***************************************************************************)
(* accept.                                                                  *)
(***************************************************************************)
Accepting(pc, d, b, replica) == [pc |-> pc, deal |-> d, buf |-> b, replica |-> replica]

\* Nothing received yet is answered 404 and changes nothing.
AcceptBegins(r, d, beacon) ==
    /\ MaySend(r, d)
    /\ received[d] # 0
    /\ buffers[received[d]] # << >>
    /\ Step(r, Accepting("checking", d, received[d],
                [deal |-> d, root |-> piece_root(Piece), beacon |-> beacon]))
    /\ UNCHANGED <<clients, buffers, received, deals>>

\* Seeded fault: the root is not compared.
RootMatches_Any(r) == TRUE

RootMatches(r) == piece_root(buffers[op[r].buf]) = op[r].replica.root

AcceptChecks(r) ==
    /\ op[r].pc = "checking"
    /\ Step(r, IF RootMatches(r)
               THEN Accepting("sealing", op[r].deal, op[r].buf, op[r].replica)
               ELSE Idle)      \* 422; the buffer stays as it is
    /\ UNCHANGED <<clients, buffers, received, deals>>

\* Seeded fault: the buffer is looked up again.
Sealed_Looked(r) ==
    IF received[op[r].deal] = 0 THEN << >> ELSE buffers[received[op[r].deal]]

\* The list the root was computed from, as it is now.
Sealed(r) == buffers[op[r].buf]

AcceptSeals(r) ==
    /\ op[r].pc = "sealing"
    /\ Step(r, [pc |-> "storing", deal |-> op[r].deal, buf |-> op[r].buf,
                replica |-> op[r].replica, sealed |-> Sealed(r)])
    /\ UNCHANGED <<clients, buffers, received, deals>>

AcceptStores(r) ==
    /\ op[r].pc = "storing"
    /\ deals' = [deals EXCEPT ![op[r].deal] =
           [n_chunks |-> Len(buffers[op[r].buf]), sealed |-> op[r].sealed,
            replica |-> op[r].replica]]
    /\ Step(r, Accepting("dropping", op[r].deal, op[r].buf, op[r].replica))
    /\ UNCHANGED <<clients, buffers, received>>

\* received.pop(deal_id, None) drops whatever buffer the deal has by now.
AcceptDrops(r) ==
    /\ op[r].pc = "dropping"
    /\ received' = [received EXCEPT ![op[r].deal] = 0]
    /\ Step(r, Idle)
    /\ UNCHANGED <<clients, buffers, deals>>

-----------------------------------------------------------------------------
Next ==
    \E r \in Threads :
        \/ \E d \in Deals, start \in 0..MAX_CHUNKS, chunks \in BATCHES :
              PutBegins(r, d, start, chunks)
        \/ PutAppends(r) \/ PutRaises(r) \/ PutReturns(r)
        \/ \E d \in Deals, beacon \in BEACONS : AcceptBegins(r, d, beacon)
        \/ AcceptChecks(r) \/ AcceptSeals(r) \/ AcceptStores(r) \/ AcceptDrops(r)

Spec == Init /\ [][Next]_vars

-----------------------------------------------------------------------------
(***************************************************************************)
(* Properties.                                                              *)
(***************************************************************************)

\* Whatever overlaps (uploads that run on after a timeout, two accepts of one
\* deal, a new upload while the old one is sealed), what is sealed begins with
\* chunks that have the root the client asked for.
SealedBeginsWithThePiece ==
    \A d \in Deals : deals[d] # Absent =>
        \E k \in 1..Len(deals[d].sealed) :
            piece_root(SubSeq(deals[d].sealed, 1, k)) = deals[d].replica.root

\* For clients that wait for each answer it is no more than that, and its
\* length is the one recorded: nothing slips in between check and seal.
InTurnIsExact ==
    clients.inTurn =>
        \A d \in Deals : deals[d] # Absent =>
            /\ piece_root(deals[d].sealed) = deals[d].replica.root
            /\ deals[d].n_chunks = Len(deals[d].sealed)

\* Batches that are sent again, one after another and also after one that broke
\* off half way, never make the buffer anything but a beginning of the piece.
RetriesKeepThePrefix ==
    clients.inTurn /\ clients.faithful =>
        \A d \in Deals : received[d] # 0 => IsPrefix(buffers[received[d]], Piece)
=============================================================================
