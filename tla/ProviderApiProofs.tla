-------------------------- MODULE ProviderApiProofs --------------------------
(***************************************************************************)
(* What the provider's service seals, for any number of deals, requests,     *)
(* chunks and beacons, and any order of their steps.  Nothing is used of      *)
(* piece_root but that it is a function of the chunks.                       *)
(***************************************************************************)
EXTENDS ProviderApi, SequenceTheorems, TLAPS

\* The requests of TypeOK that name one of the first n buffers.
Putting(n) == [pc: {"putting"}, deal: Deals, buf: 1..n, rest: Seq(Chunks \cup {NotHex})]
Acceptings(n) == [pc: {"checking", "sealing", "dropping"}, deal: Deals, buf: 1..n,
                  replica: ReplicaId]
Storing(n) == [pc: {"storing"}, deal: Deals, buf: 1..n, replica: ReplicaId,
               sealed: Seq(Chunks)]
Requests(n) == {Idle} \cup Putting(n) \cup Acceptings(n) \cup Storing(n)

\* Some beginning of chunks has the root.
Begins(chunks, root) ==
    \E k \in 1..Len(chunks) : piece_root(SubSeq(chunks, 1, k)) = root

\* A buffer only grows, so what was checked stays a beginning of it.
SealInv ==
    /\ \A r \in Threads :
          /\ op[r].pc = "checking" => buffers[op[r].buf] # << >>
          /\ op[r].pc = "sealing" => Begins(buffers[op[r].buf], op[r].replica.root)
          /\ op[r].pc = "storing" => Begins(op[r].sealed, op[r].replica.root)
    /\ \A d \in Deals : deals[d] # Absent => Begins(deals[d].sealed, deals[d].replica.root)

\* One request of a deal at a time, and it works on the deal's own buffer.
OwnBuffer ==
    /\ \A d, e \in Deals : received[d] # 0 /\ received[d] = received[e] => d = e
    /\ \A r \in Threads : op[r] # Idle => received[op[r].deal] = op[r].buf
    /\ \A r, s \in Threads :
          op[r] # Idle /\ op[s] # Idle /\ op[r].deal = op[s].deal => r = s

Exact ==
    /\ \A r \in Threads :
          /\ op[r].pc = "sealing" => piece_root(buffers[op[r].buf]) = op[r].replica.root
          /\ op[r].pc = "storing" => /\ op[r].sealed = buffers[op[r].buf]
                                     /\ piece_root(op[r].sealed) = op[r].replica.root
    /\ \A d \in Deals : deals[d] # Absent =>
          /\ piece_root(deals[d].sealed) = deals[d].replica.root
          /\ deals[d].n_chunks = Len(deals[d].sealed)

\* What is left of a batch goes on where its buffer ends.
Continues ==
    /\ \A d \in Deals : received[d] # 0 => IsPrefix(buffers[received[d]], Piece)
    /\ \A r \in Threads :
          op[r].pc = "putting" => OfPiece(Len(buffers[op[r].buf]), op[r].rest)

InTurnInv == clients.inTurn => OwnBuffer /\ Exact
PrefixInv == clients.inTurn /\ clients.faithful => Continues

-----------------------------------------------------------------------------
LEMMA RequestsGrow ==
    ASSUME NEW n \in Nat, NEW m \in Nat, n <= m
    PROVE  Requests(n) \subseteq Requests(m)
<1>1. 1..n \subseteq 1..m
  OBVIOUS
<1> QED  BY <1>1 DEF Requests, Putting, Acceptings, Storing

LEMMA Types ==
    ASSUME TypeOK
    PROVE  /\ Len(buffers) \in Nat
           /\ op \in [Threads -> Requests(Len(buffers))]
           /\ \A b \in 1..Len(buffers) : buffers[b] \in Seq(Chunks)
BY DEF TypeOK, Requests, Putting, Acceptings, Storing

LEMMA RequestCases ==
    ASSUME TypeOK, NEW r \in Threads
    PROVE  /\ op[r].pc = "idle" => op[r] = Idle
           /\ op[r].pc = "putting" => op[r] \in Putting(Len(buffers))
           /\ op[r].pc \in {"checking", "sealing", "dropping"} =>
                  op[r] \in Acceptings(Len(buffers))
           /\ op[r].pc = "storing" => op[r] \in Storing(Len(buffers))
           /\ op[r] # Idle => op[r].buf \in 1..Len(buffers) /\ op[r].deal \in Deals
           /\ op[r].pc # "idle" => op[r] # Idle
<1>1. op[r] \in Requests(Len(buffers))
  BY Types
<1> QED  BY <1>1 DEF Requests, Putting, Acceptings, Storing, Idle

\* A step of one request.
LEMMA StepOf ==
    ASSUME TypeOK, NEW r \in Threads, NEW next, Step(r, next)
    PROVE  /\ op'[r] = next
           /\ \A s \in Threads \ {r} : op'[s] = op[s]
           /\ \A n \in Nat : Len(buffers) <= n /\ next \in Requests(n) =>
                  op' \in [Threads -> Requests(n)]
<1>1. op \in [Threads -> Requests(Len(buffers))] /\ Len(buffers) \in Nat
  BY Types
<1>2. op' = [op EXCEPT ![r] = next]
  BY DEF Step
<1>3. ASSUME NEW n \in Nat, Len(buffers) <= n, next \in Requests(n)
      PROVE  op' \in [Threads -> Requests(n)]
  <2>1. Requests(Len(buffers)) \subseteq Requests(n)
    BY <1>1, <1>3, RequestsGrow
  <2> QED  BY <1>1, <1>2, <1>3, <2>1
<1> QED  BY <1>1, <1>2, <1>3

LEMMA InitInv == Init => TypeOK /\ SealInv /\ InTurnInv /\ PrefixInv
<1> SUFFICES ASSUME Init PROVE TypeOK /\ SealInv /\ InTurnInv /\ PrefixInv  OBVIOUS
<1>1. TypeOK
  <2>1. buffers = << >> /\ buffers \in Seq(Seq(Chunks)) /\ Len(buffers) = 0
    BY EmptySeq DEF Init
  <2>2. received \in [Deals -> 0..Len(buffers)]
    BY <2>1 DEF Init
  <2> QED  BY <2>1, <2>2 DEF Init, TypeOK
<1>2. \A r \in Threads : op[r] = Idle /\ op[r].pc = "idle"
  BY DEF Init, Idle
<1>3. \A d \in Deals : received[d] = 0 /\ deals[d] = Absent
  BY DEF Init
<1>4. SealInv
  BY <1>2, <1>3 DEF SealInv
<1>5. OwnBuffer /\ Exact /\ Continues
  BY <1>2, <1>3 DEF OwnBuffer, Exact, Continues
<1> QED  BY <1>1, <1>4, <1>5 DEF InTurnInv, PrefixInv

-----------------------------------------------------------------------------
\* setdefault makes an empty buffer or changes nothing.
LEMMA SetdefaultKeeps ==
    ASSUME TypeOK, NEW d \in Deals, Setdefault(d)
    PROVE  /\ buffers' \in Seq(Seq(Chunks)) /\ Len(buffers) <= Len(buffers')
           /\ Len(buffers') \in Nat
           /\ received' \in [Deals -> 0..Len(buffers')] /\ received'[d] # 0
           /\ \A b \in 1..Len(buffers) : buffers'[b] = buffers[b]
           /\ \A e \in Deals \ {d} : received'[e] = received[e]
           /\ received[d] # 0 => received'[d] = received[d] /\ buffers' = buffers
           /\ received[d] = 0 => /\ received'[d] = Len(buffers) + 1
                                 /\ Len(buffers') = Len(buffers) + 1
                                 /\ buffers'[received'[d]] = << >>
<1>1. Len(buffers) \in Nat /\ buffers \in Seq(Seq(Chunks))
      /\ received \in [Deals -> 0..Len(buffers)]
  BY DEF TypeOK
<1>2. CASE received[d] # 0
  BY <1>1, <1>2 DEF Setdefault
<1>3. CASE received[d] = 0
  <2>1. buffers' = Append(buffers, << >>)
        /\ received' = [received EXCEPT ![d] = Len(buffers) + 1]
    BY <1>3 DEF Setdefault
  <2>2. << >> \in Seq(Chunks)
    BY EmptySeq
  <2>3. /\ buffers' \in Seq(Seq(Chunks)) /\ Len(buffers') = Len(buffers) + 1
        /\ \A b \in 1..Len(buffers) : buffers'[b] = buffers[b]
        /\ buffers'[Len(buffers) + 1] = << >>
    BY <1>1, <2>1, <2>2, AppendProperties
  <2>4. 0..Len(buffers) \subseteq 0..(Len(buffers) + 1)
        /\ Len(buffers) + 1 \in 0..(Len(buffers) + 1) /\ Len(buffers) + 1 # 0
    BY <1>1
  <2>5. received' \in [Deals -> 0..Len(buffers')]
    BY <1>1, <2>1, <2>3, <2>4
  <2>6. received'[d] = Len(buffers) + 1
        /\ \A e \in Deals \ {d} : received'[e] = received[e]
    BY <1>1, <2>1
  <2> QED  BY <1>1, <1>3, <2>3, <2>4, <2>5, <2>6
<1> QED  BY <1>2, <1>3

\* A batch that was begun.
LEMMA BatchBegun ==
    ASSUME TypeOK, NEW r \in Threads, NEW d \in Deals, NEW start \in 0..MAX_CHUNKS,
           NEW chunks \in BATCHES, PutBegins(r, d, start, chunks)
    PROVE  /\ TypeOK' /\ Setdefault(d) /\ op[r] = Idle /\ UNCHANGED <<clients, deals>>
           /\ \A s \in Threads \ {r} : op'[s] = op[s]
           /\ \/ op'[r] = op[r]
              \/ op'[r] = [pc |-> "putting", deal |-> d, buf |-> received'[d],
                           rest |-> chunks]
                 /\ start = Len(buffers'[received'[d]])
<1>1. Setdefault(d) /\ op[r] = Idle /\ UNCHANGED <<clients, deals>>
  BY DEF PutBegins, MaySend
<1>2. /\ buffers' \in Seq(Seq(Chunks)) /\ Len(buffers) <= Len(buffers')
      /\ Len(buffers') \in Nat /\ Len(buffers) \in Nat
      /\ received' \in [Deals -> 0..Len(buffers')] /\ received'[d] # 0
  BY <1>1, SetdefaultKeeps, Types
<1>3. CASE UNCHANGED op
  <2>1. op' \in [Threads -> Requests(Len(buffers'))]
    <3>1. Requests(Len(buffers)) \subseteq Requests(Len(buffers'))
      BY <1>2, RequestsGrow
    <3> QED  BY <1>3, <3>1, Types
  <2>2. TypeOK'
    <3>1. clients' \in Behaviours /\ deals' \in [Deals -> {Absent} \cup DealStorage]
      BY <1>1 DEF TypeOK
    <3> QED  BY <1>2, <2>1, <3>1 DEF TypeOK, Requests, Putting, Acceptings, Storing
  <2> QED  BY <1>1, <1>3, <2>2
<1>4. CASE ~UNCHANGED op
  <2> DEFINE next == [pc |-> "putting", deal |-> d, buf |-> received'[d], rest |-> chunks]
  <2>1. Step(r, next) /\ start = Len(buffers'[received'[d]])
    BY <1>4 DEF PutBegins, Expected
  <2>2. next \in Requests(Len(buffers'))
    <3>1. received'[d] \in 1..Len(buffers')
      BY <1>2
    <3>2. chunks \in Seq(Chunks \cup {NotHex})
      BY ProviderAssumption
    <3> QED  BY <3>1, <3>2 DEF Requests, Putting
  <2> HIDE DEF next
  <2>3. /\ op'[r] = next /\ \A s \in Threads \ {r} : op'[s] = op[s]
        /\ op' \in [Threads -> Requests(Len(buffers'))]
    BY <1>2, <2>1, <2>2, StepOf
  <2>4. TypeOK'
    <3>1. clients' \in Behaviours /\ deals' \in [Deals -> {Absent} \cup DealStorage]
      BY <1>1 DEF TypeOK
    <3> QED  BY <1>2, <2>3, <3>1 DEF TypeOK, Requests, Putting, Acceptings, Storing
  <2> QED  BY <1>1, <2>1, <2>3, <2>4 DEF next
<1> QED  BY <1>3, <1>4

\* A chunk that was appended.
LEMMA ChunkAppended ==
    ASSUME TypeOK, NEW r \in Threads, PutAppends(r)
    PROVE  /\ TypeOK' /\ UNCHANGED <<clients, received, deals>>
           /\ op[r] \in Putting(Len(buffers)) /\ Head(op[r].rest) \in Chunks
           /\ Len(buffers') = Len(buffers)
           /\ buffers'[op[r].buf] = Append(buffers[op[r].buf], Head(op[r].rest))
           /\ \A b \in 1..Len(buffers) : b # op[r].buf => buffers'[b] = buffers[b]
           /\ op'[r] = [pc |-> "putting", deal |-> op[r].deal, buf |-> op[r].buf,
                        rest |-> Tail(op[r].rest)]
           /\ \A s \in Threads \ {r} : op'[s] = op[s]
<1> DEFINE b == op[r].buf
           chunk == Head(op[r].rest)
           next == [pc |-> "putting", deal |-> op[r].deal, buf |-> b,
                    rest |-> Tail(op[r].rest)]
<1>1. op[r] \in Putting(Len(buffers)) /\ op[r].rest # << >> /\ chunk # NotHex
      /\ UNCHANGED <<clients, received, deals>>
  BY RequestCases DEF PutAppends, Parses
<1>2. b \in 1..Len(buffers) /\ op[r].deal \in Deals
      /\ op[r].rest \in Seq(Chunks \cup {NotHex})
  BY <1>1 DEF Putting
<1>3. chunk \in Chunks /\ Tail(op[r].rest) \in Seq(Chunks \cup {NotHex})
  BY <1>1, <1>2, HeadTailProperties
<1>4. next \in Requests(Len(buffers))
  BY <1>2, <1>3 DEF Requests, Putting
<1>5. buffers[b] \in Seq(Chunks) /\ buffers \in Seq(Seq(Chunks)) /\ Len(buffers) \in Nat
  BY <1>2, Types DEF TypeOK
<1>6. Append(buffers[b], chunk) \in Seq(Chunks)
  BY <1>3, <1>5, AppendProperties
<1>7. /\ buffers' = [buffers EXCEPT ![b] = Append(buffers[b], chunk)]
      /\ Step(r, next)
  BY DEF PutAppends
<1>8. /\ buffers' \in Seq(Seq(Chunks)) /\ Len(buffers') = Len(buffers)
      /\ buffers'[b] = Append(buffers[b], chunk)
      /\ \A c \in 1..Len(buffers) : c # b => buffers'[c] = buffers[c]
  BY <1>2, <1>5, <1>6, <1>7, ExceptSeq
<1> HIDE DEF next
<1>9. /\ op'[r] = next /\ \A s \in Threads \ {r} : op'[s] = op[s]
      /\ op' \in [Threads -> Requests(Len(buffers))]
  BY <1>4, <1>5, <1>7, StepOf
<1>10. TypeOK'
  <2>1. /\ clients' \in Behaviours /\ deals' \in [Deals -> {Absent} \cup DealStorage]
        /\ received' \in [Deals -> 0..Len(buffers')]
    BY <1>1, <1>8 DEF TypeOK
  <2> QED  BY <1>8, <1>9, <2>1 DEF TypeOK, Requests, Putting, Acceptings, Storing
<1> QED  BY <1>1, <1>3, <1>8, <1>9, <1>10 DEF next

\* A step that leaves the buffers and the deals alone.
LEMMA QuietType ==
    ASSUME TypeOK, NEW r \in Threads, NEW next \in Requests(Len(buffers)), Step(r, next),
           UNCHANGED <<clients, buffers, received, deals>>
    PROVE  TypeOK'
<1>1. op' \in [Threads -> Requests(Len(buffers'))]
  BY StepOf, Types
<1>2. /\ clients' \in Behaviours /\ deals' \in [Deals -> {Absent} \cup DealStorage]
      /\ received' \in [Deals -> 0..Len(buffers')] /\ buffers' \in Seq(Seq(Chunks))
  BY DEF TypeOK
<1> QED  BY <1>1, <1>2 DEF TypeOK, Requests, Putting, Acceptings, Storing

LEMMA AcceptingIsRequest ==
    ASSUME TypeOK, NEW pc \in {"checking", "sealing", "dropping"}, NEW d \in Deals,
           NEW b \in 1..Len(buffers), NEW replica \in ReplicaId
    PROVE  Accepting(pc, d, b, replica) \in Requests(Len(buffers))
BY DEF Accepting, Requests, Acceptings

LEMMA NextTypeOK == TypeOK /\ [Next]_vars => TypeOK'
<1> SUFFICES ASSUME TypeOK, [Next]_vars PROVE TypeOK'  OBVIOUS
<1>1. CASE UNCHANGED vars
  BY <1>1 DEF vars, TypeOK
<1>2. ASSUME NEW r \in Threads, NEW d \in Deals, NEW start \in 0..MAX_CHUNKS,
             NEW chunks \in BATCHES, PutBegins(r, d, start, chunks)
      PROVE  TypeOK'
  BY <1>2, BatchBegun
<1>3. ASSUME NEW r \in Threads, PutAppends(r) PROVE TypeOK'
  BY <1>3, ChunkAppended
<1>4. ASSUME NEW r \in Threads, PutRaises(r) \/ PutReturns(r) PROVE TypeOK'
  <2>1. Idle \in Requests(Len(buffers))
    BY DEF Requests
  <2> QED  BY <1>4, <2>1, QuietType DEF PutRaises, PutReturns
<1>5. ASSUME NEW r \in Threads, NEW d \in Deals, NEW beacon \in BEACONS,
             AcceptBegins(r, d, beacon)
      PROVE  TypeOK'
  <2> DEFINE replica == [deal |-> d, root |-> piece_root(Piece), beacon |-> beacon]
  <2>1. received[d] \in 1..Len(buffers)
    <3>1. received[d] \in 0..Len(buffers) /\ received[d] # 0
      BY <1>5 DEF AcceptBegins, TypeOK
    <3> QED  BY <3>1, Types
  <2>2. replica \in ReplicaId
    BY DEF ReplicaId
  <2>3. Step(r, Accepting("checking", d, received[d], replica))
        /\ UNCHANGED <<clients, buffers, received, deals>>
    BY <1>5 DEF AcceptBegins
  <2> HIDE DEF replica
  <2> QED  BY <2>1, <2>2, <2>3, AcceptingIsRequest, QuietType
<1>6. ASSUME NEW r \in Threads, AcceptChecks(r) PROVE TypeOK'
  <2>1. op[r].deal \in Deals /\ op[r].buf \in 1..Len(buffers) /\ op[r].replica \in ReplicaId
    BY <1>6, RequestCases DEF AcceptChecks, Acceptings
  <2>2. Idle \in Requests(Len(buffers))
    BY DEF Requests
  <2>3. Accepting("sealing", op[r].deal, op[r].buf, op[r].replica) \in Requests(Len(buffers))
    BY <2>1, AcceptingIsRequest
  <2> QED  BY <1>6, <2>2, <2>3, QuietType DEF AcceptChecks
<1>7. ASSUME NEW r \in Threads, AcceptSeals(r) PROVE TypeOK'
  <2>1. op[r].deal \in Deals /\ op[r].buf \in 1..Len(buffers) /\ op[r].replica \in ReplicaId
    BY <1>7, RequestCases DEF AcceptSeals, Acceptings
  <2>2. Sealed(r) \in Seq(Chunks)
    BY <2>1, Types DEF Sealed
  <2>3. [pc |-> "storing", deal |-> op[r].deal, buf |-> op[r].buf,
         replica |-> op[r].replica, sealed |-> Sealed(r)] \in Requests(Len(buffers))
    BY <2>1, <2>2 DEF Requests, Storing
  <2> QED  BY <1>7, <2>3, QuietType DEF AcceptSeals
<1>8. ASSUME NEW r \in Threads, AcceptStores(r) PROVE TypeOK'
  <2>1. op[r].deal \in Deals /\ op[r].buf \in 1..Len(buffers) /\ op[r].replica \in ReplicaId
        /\ op[r].sealed \in Seq(Chunks)
    BY <1>8, RequestCases DEF AcceptStores, Storing
  <2>2. [n_chunks |-> Len(buffers[op[r].buf]), sealed |-> op[r].sealed,
         replica |-> op[r].replica] \in DealStorage
    <3>1. Len(buffers[op[r].buf]) \in Nat
      BY <2>1, Types, LenProperties
    <3> QED  BY <2>1, <3>1 DEF DealStorage
  <2>3. deals' \in [Deals -> {Absent} \cup DealStorage]
    BY <1>8, <2>2 DEF AcceptStores, TypeOK
  <2>4. Accepting("dropping", op[r].deal, op[r].buf, op[r].replica) \in Requests(Len(buffers))
    BY <2>1, AcceptingIsRequest
  <2>5. op' \in [Threads -> Requests(Len(buffers'))]
    BY <1>8, <2>4, StepOf, Types DEF AcceptStores
  <2>6. /\ clients' \in Behaviours /\ received' \in [Deals -> 0..Len(buffers')]
        /\ buffers' \in Seq(Seq(Chunks))
    BY <1>8 DEF TypeOK, AcceptStores
  <2> QED  BY <2>3, <2>5, <2>6 DEF TypeOK, Requests, Putting, Acceptings, Storing
<1>9. ASSUME NEW r \in Threads, AcceptDrops(r) PROVE TypeOK'
  <2>1. Idle \in Requests(Len(buffers))
    BY DEF Requests
  <2>2. op' \in [Threads -> Requests(Len(buffers'))]
    BY <1>9, <2>1, StepOf, Types DEF AcceptDrops
  <2>3. received' \in [Deals -> 0..Len(buffers')]
    <3>1. 0 \in 0..Len(buffers)
      BY Types
    <3> QED  BY <1>9, <3>1 DEF AcceptDrops, TypeOK
  <2>4. /\ clients' \in Behaviours /\ deals' \in [Deals -> {Absent} \cup DealStorage]
        /\ buffers' \in Seq(Seq(Chunks))
    BY <1>9 DEF TypeOK, AcceptDrops
  <2> QED  BY <2>2, <2>3, <2>4 DEF TypeOK, Requests, Putting, Acceptings, Storing
<1> QED  BY <1>1, <1>2, <1>3, <1>4, <1>5, <1>6, <1>7, <1>8, <1>9 DEF Next

-----------------------------------------------------------------------------
(***************************************************************************)
(* What is sealed begins with the piece that was asked for.                 *)
(***************************************************************************)
LEMMA BeginsGrow ==
    ASSUME NEW chunks \in Seq(Chunks), NEW chunk \in Chunks, NEW root,
           Begins(chunks, root)
    PROVE  Begins(Append(chunks, chunk), root)
<1>1. PICK k \in 1..Len(chunks) : piece_root(SubSeq(chunks, 1, k)) = root
  BY DEF Begins
<1>2. Len(chunks) \in Nat /\ Len(Append(chunks, chunk)) = Len(chunks) + 1
  BY AppendProperties
<1>3. SubSeq(Append(chunks, chunk), 1, k) = SubSeq(chunks, 1, k)
  <2>1. Append(chunks, chunk) = chunks \o <<chunk>> /\ <<chunk>> \in Seq(Chunks)
    BY AppendIsConcat
  <2>2. 1 \in 1..Len(chunks)
    BY <1>2
  <2> QED  BY <2>1, <2>2, SubSeqOfConcat1
<1>4. k \in 1..Len(Append(chunks, chunk))
  BY <1>2
<1> QED  BY <1>1, <1>3, <1>4 DEF Begins

LEMMA BeginsWhole ==
    ASSUME NEW chunks \in Seq(Chunks), chunks # << >>
    PROVE  Begins(chunks, piece_root(chunks))
<1>1. Len(chunks) \in 1..Len(chunks)
  BY EmptySeq
<1>2. SubSeq(chunks, 1, Len(chunks)) = chunks
  BY SubSeqFull
<1> QED  BY <1>1, <1>2 DEF Begins

\* Every buffer of the state before is the same or longer by a chunk.
LEMMA BuffersGrow ==
    ASSUME TypeOK, [Next]_vars, NEW b \in 1..Len(buffers)
    PROVE  \/ buffers'[b] = buffers[b]
           \/ \E chunk \in Chunks : buffers'[b] = Append(buffers[b], chunk)
<1>1. ASSUME NEW r \in Threads, NEW d \in Deals, NEW start \in 0..MAX_CHUNKS,
             NEW chunks \in BATCHES, PutBegins(r, d, start, chunks)
      PROVE  buffers'[b] = buffers[b]
  <2>1. Setdefault(d)
    BY <1>1, BatchBegun
  <2> QED  BY <2>1, SetdefaultKeeps
<1>2. ASSUME NEW r \in Threads, PutAppends(r)
      PROVE  \/ buffers'[b] = buffers[b]
             \/ \E chunk \in Chunks : buffers'[b] = Append(buffers[b], chunk)
  <2>1. /\ Head(op[r].rest) \in Chunks
        /\ buffers'[op[r].buf] = Append(buffers[op[r].buf], Head(op[r].rest))
        /\ b # op[r].buf => buffers'[b] = buffers[b]
    BY <1>2, ChunkAppended
  <2> QED  BY <2>1
<1>3. ASSUME UNCHANGED buffers PROVE buffers'[b] = buffers[b]
  BY <1>3
<1> QED  BY <1>1, <1>2, <1>3 DEF Next, vars, PutRaises, PutReturns, AcceptBegins,
           AcceptChecks, AcceptSeals, AcceptStores, AcceptDrops

\* SealInv, for one request and for one deal.
RequestSeals(r) ==
    /\ op[r].pc = "checking" => buffers[op[r].buf] # << >>
    /\ op[r].pc = "sealing" => Begins(buffers[op[r].buf], op[r].replica.root)
    /\ op[r].pc = "storing" => Begins(op[r].sealed, op[r].replica.root)

DealSeals(d) == deals[d] # Absent => Begins(deals[d].sealed, deals[d].replica.root)

LEMMA SealParts ==
    SealInv <=> (\A r \in Threads : RequestSeals(r)) /\ (\A d \in Deals : DealSeals(d))
BY DEF SealInv, RequestSeals, DealSeals

\* A request that does not step itself stays right.
LEMMA OthersSeal ==
    ASSUME TypeOK, [Next]_vars, NEW s \in Threads, op'[s] = op[s], RequestSeals(s)
    PROVE  RequestSeals(s)'
<1>1. CASE op[s].pc \notin {"checking", "sealing"}
  BY <1>1 DEF RequestSeals
<1>2. CASE op[s].pc \in {"checking", "sealing"}
  <2>1. op[s].buf \in 1..Len(buffers)
    BY <1>2, RequestCases DEF Acceptings
  <2>2. buffers[op[s].buf] \in Seq(Chunks)
    BY <2>1, Types
  <2>3. CASE buffers'[op[s].buf] = buffers[op[s].buf]
    BY <2>3 DEF RequestSeals
  <2>4. ASSUME NEW chunk \in Chunks,
               buffers'[op[s].buf] = Append(buffers[op[s].buf], chunk)
        PROVE  RequestSeals(s)'
    <3>1. op[s].pc = "checking" => Append(buffers[op[s].buf], chunk) # << >>
      BY <2>2, AppendProperties
    <3>2. op[s].pc = "sealing" =>
              Begins(Append(buffers[op[s].buf], chunk), op[s].replica.root)
      BY <2>2, BeginsGrow DEF RequestSeals
    <3> QED  BY <1>2, <2>4, <3>1, <3>2 DEF RequestSeals
  <2> QED  BY <2>1, <2>3, <2>4, BuffersGrow
<1> QED  BY <1>1, <1>2

LEMMA NextSealInv == TypeOK /\ SealInv /\ [Next]_vars => SealInv'
<1> SUFFICES ASSUME TypeOK, SealInv, [Next]_vars PROVE SealInv'  OBVIOUS
<1>0. (\A r \in Threads : RequestSeals(r)) /\ (\A d \in Deals : DealSeals(d))
  BY SealParts
<1>1. ASSUME NEW r \in Threads, UNCHANGED deals, RequestSeals(r)',
             \A s \in Threads \ {r} : op'[s] = op[s]
      PROVE  SealInv'
  <2>1. \A s \in Threads : RequestSeals(s)'
    BY <1>0, <1>1, OthersSeal
  <2>2. \A d \in Deals : DealSeals(d)'
    BY <1>0, <1>1 DEF DealSeals
  <2> QED  BY <2>1, <2>2 DEF SealInv, RequestSeals, DealSeals
<1>2. CASE UNCHANGED vars
  BY <1>2 DEF vars, SealInv
<1>3. ASSUME NEW r \in Threads, NEW d \in Deals, NEW start \in 0..MAX_CHUNKS,
             NEW chunks \in BATCHES, PutBegins(r, d, start, chunks)
      PROVE  SealInv'
  <2>1. \/ op'[r] = Idle
        \/ op'[r] = [pc |-> "putting", deal |-> d, buf |-> received'[d],
                     rest |-> chunks]
    BY <1>3, BatchBegun
  <2>2. op'[r].pc \in {"idle", "putting"}
    BY <2>1 DEF Idle
  <2>3. RequestSeals(r)'
    BY <2>2 DEF RequestSeals
  <2>4. UNCHANGED deals /\ \A s \in Threads \ {r} : op'[s] = op[s]
    BY <1>3, BatchBegun
  <2> QED  BY <1>1, <2>3, <2>4
<1>4. ASSUME NEW r \in Threads, PutAppends(r) PROVE SealInv'
  <2>1. op'[r].pc = "putting"
    <3>1. op'[r] = [pc |-> "putting", deal |-> op[r].deal, buf |-> op[r].buf,
                    rest |-> Tail(op[r].rest)]
      BY <1>4, ChunkAppended
    <3> QED  BY <3>1
  <2>2. RequestSeals(r)'
    BY <2>1 DEF RequestSeals
  <2>3. UNCHANGED deals /\ \A s \in Threads \ {r} : op'[s] = op[s]
    BY <1>4, ChunkAppended
  <2> QED  BY <1>1, <2>2, <2>3
<1>5. ASSUME NEW r \in Threads, PutRaises(r) \/ PutReturns(r) PROVE SealInv'
  <2>1. Step(r, Idle) /\ UNCHANGED deals
    BY <1>5 DEF PutRaises, PutReturns
  <2>2. op'[r].pc = "idle" /\ \A s \in Threads \ {r} : op'[s] = op[s]
    BY <2>1, StepOf DEF Idle
  <2>3. RequestSeals(r)'
    BY <2>2 DEF RequestSeals
  <2> QED  BY <1>1, <2>1, <2>2, <2>3
<1>6. ASSUME NEW r \in Threads, NEW d \in Deals, NEW beacon \in BEACONS,
             AcceptBegins(r, d, beacon)
      PROVE  SealInv'
  <2> DEFINE next == Accepting("checking", d, received[d],
                 [deal |-> d, root |-> piece_root(Piece), beacon |-> beacon])
  <2>1. Step(r, next) /\ buffers[received[d]] # << >> /\ UNCHANGED <<buffers, deals>>
    BY <1>6 DEF AcceptBegins
  <2>2. op'[r] = next /\ \A s \in Threads \ {r} : op'[s] = op[s]
    BY <2>1, StepOf
  <2>3. RequestSeals(r)'
    BY <2>1, <2>2 DEF RequestSeals, Accepting
  <2> QED  BY <1>1, <2>1, <2>2, <2>3
<1>7. ASSUME NEW r \in Threads, AcceptChecks(r) PROVE SealInv'
  <2>1. op[r].pc = "checking" /\ UNCHANGED <<buffers, deals>>
    BY <1>7 DEF AcceptChecks
  <2>2. buffers[op[r].buf] \in Seq(Chunks) /\ buffers[op[r].buf] # << >>
    BY <1>0, <2>1, RequestCases, Types DEF Acceptings, RequestSeals
  <2>3. \A s \in Threads \ {r} : op'[s] = op[s]
    BY <1>7, StepOf DEF AcceptChecks
  <2>4. RequestSeals(r)'
    <3>1. CASE RootMatches(r)
      <4>1. op'[r] = Accepting("sealing", op[r].deal, op[r].buf, op[r].replica)
        BY <1>7, <3>1, StepOf DEF AcceptChecks
      <4>2. Begins(buffers[op[r].buf], op[r].replica.root)
        BY <2>2, <3>1, BeginsWhole DEF RootMatches
      <4> QED  BY <2>1, <4>1, <4>2 DEF RequestSeals, Accepting
    <3>2. CASE ~RootMatches(r)
      <4>1. op'[r] = Idle
        BY <1>7, <3>2, StepOf DEF AcceptChecks
      <4> QED  BY <4>1 DEF RequestSeals, Idle
    <3> QED  BY <3>1, <3>2
  <2> QED  BY <1>1, <2>1, <2>3, <2>4
<1>8. ASSUME NEW r \in Threads, AcceptSeals(r) PROVE SealInv'
  <2>1. /\ op'[r] = [pc |-> "storing", deal |-> op[r].deal, buf |-> op[r].buf,
                     replica |-> op[r].replica, sealed |-> Sealed(r)]
        /\ \A s \in Threads \ {r} : op'[s] = op[s]
        /\ op[r].pc = "sealing" /\ UNCHANGED deals
    BY <1>8, StepOf DEF AcceptSeals
  <2>2. RequestSeals(r)'
    BY <1>0, <2>1 DEF RequestSeals, Sealed
  <2> QED  BY <1>1, <2>1, <2>2
<1>9. ASSUME NEW r \in Threads, AcceptStores(r) PROVE SealInv'
  <2>1. /\ op'[r] = Accepting("dropping", op[r].deal, op[r].buf, op[r].replica)
        /\ \A s \in Threads \ {r} : op'[s] = op[s]
        /\ op[r].pc = "storing"
    BY <1>9, StepOf DEF AcceptStores
  <2>2. RequestSeals(r)'
    BY <2>1 DEF RequestSeals, Accepting
  <2>3. \A s \in Threads : RequestSeals(s)'
    BY <1>0, <2>1, <2>2, OthersSeal
  <2>4. ASSUME NEW d \in Deals PROVE DealSeals(d)'
    <3>1. CASE d = op[r].deal
      <4>1. deals'[d] = [n_chunks |-> Len(buffers[op[r].buf]), sealed |-> op[r].sealed,
                         replica |-> op[r].replica]
        BY <1>9, <3>1 DEF AcceptStores, TypeOK
      <4> QED  BY <1>0, <2>1, <4>1 DEF DealSeals, RequestSeals
    <3>2. CASE d # op[r].deal
      BY <1>0, <1>9, <3>2 DEF AcceptStores, DealSeals, TypeOK
    <3> QED  BY <3>1, <3>2
  <2> QED  BY <2>3, <2>4 DEF SealInv, RequestSeals, DealSeals
<1>10. ASSUME NEW r \in Threads, AcceptDrops(r) PROVE SealInv'
  <2>1. Step(r, Idle) /\ UNCHANGED deals
    BY <1>10 DEF AcceptDrops
  <2>2. op'[r].pc = "idle" /\ \A s \in Threads \ {r} : op'[s] = op[s]
    BY <2>1, StepOf DEF Idle
  <2>3. RequestSeals(r)'
    BY <2>2 DEF RequestSeals
  <2> QED  BY <1>1, <2>1, <2>2, <2>3
<1> QED  BY <1>2, <1>3, <1>4, <1>5, <1>6, <1>7, <1>8, <1>9, <1>10 DEF Next

-----------------------------------------------------------------------------
(***************************************************************************)
(* Clients that wait for each answer: a deal's requests come one after       *)
(* another, and nobody else touches its buffer.                             *)
(***************************************************************************)
LEMMA ClientsFixed == [Next]_vars => clients' = clients
BY DEF Next, vars, PutBegins, PutAppends, PutRaises, PutReturns, AcceptBegins,
       AcceptChecks, AcceptSeals, AcceptStores, AcceptDrops

\* A step of request r for deal d, when no other request is for d.
LEMMA OwnStep ==
    ASSUME OwnBuffer, NEW r \in Threads, NEW d \in Deals,
           \A s \in Threads \ {r} : /\ op'[s] = op[s]
                                    /\ op[s] # Idle => op[s].deal \in Deals \ {d},
           \A e \in Deals \ {d} : received'[e] = received[e],
           received'[d] # 0 => \A e \in Deals \ {d} : received'[d] # received[e],
           op'[r] # Idle => op'[r].deal = d /\ op'[r].buf = received'[d]
    PROVE  OwnBuffer'
<1>1. \A c, e \in Deals : received'[c] # 0 /\ received'[c] = received'[e] => c = e
  BY DEF OwnBuffer
<1>2. \A s \in Threads : op'[s] # Idle => received'[op'[s].deal] = op'[s].buf
  BY DEF OwnBuffer
<1>3. \A s, t \in Threads :
          op'[s] # Idle /\ op'[t] # Idle /\ op'[s].deal = op'[t].deal => s = t
  BY DEF OwnBuffer
<1> QED  BY <1>1, <1>2, <1>3 DEF OwnBuffer

\* A step of a request on its way, that leaves received alone.
LEMMA OwnQuiet ==
    ASSUME TypeOK, OwnBuffer, NEW r \in Threads, op[r] # Idle, UNCHANGED received,
           \A s \in Threads \ {r} : op'[s] = op[s],
           op'[r] # Idle => op'[r].deal = op[r].deal /\ op'[r].buf = op[r].buf
    PROVE  OwnBuffer'
<1>1. op[r].deal \in Deals /\ received[op[r].deal] = op[r].buf
  BY RequestCases DEF OwnBuffer
<1>2. \A s \in Threads \ {r} : op[s] # Idle => op[s].deal \in Deals \ {op[r].deal}
  BY RequestCases DEF OwnBuffer
<1>3. received[op[r].deal] # 0 =>
          \A e \in Deals \ {op[r].deal} : received[op[r].deal] # received[e]
  BY <1>1 DEF OwnBuffer
<1> QED  BY <1>1, <1>2, <1>3, OwnStep

LEMMA NextOwnBuffer == TypeOK /\ clients.inTurn /\ OwnBuffer /\ [Next]_vars => OwnBuffer'
<1> SUFFICES ASSUME TypeOK, clients.inTurn, OwnBuffer, [Next]_vars PROVE OwnBuffer'
  OBVIOUS
<1>1. CASE UNCHANGED vars
  BY <1>1 DEF vars, OwnBuffer
<1>2. ASSUME NEW r \in Threads, NEW d \in Deals, NEW start \in 0..MAX_CHUNKS,
             NEW chunks \in BATCHES, PutBegins(r, d, start, chunks)
      PROVE  OwnBuffer'
  <2>1. /\ Setdefault(d) /\ op[r] = Idle /\ \A s \in Threads \ {r} : op'[s] = op[s]
        /\ \/ op'[r] = op[r]
           \/ op'[r] = [pc |-> "putting", deal |-> d, buf |-> received'[d],
                        rest |-> chunks]
    BY <1>2, BatchBegun
  <2>2. \A s \in Threads \ {r} : op[s] # Idle => op[s].deal \in Deals \ {d}
    BY <1>2, RequestCases DEF PutBegins, MaySend
  <2>3. \A e \in Deals \ {d} : received'[e] = received[e]
    BY <2>1, SetdefaultKeeps
  <2>4. \A e \in Deals \ {d} : received'[d] # received[e]
    <3>1. CASE received[d] # 0
      BY <2>1, <3>1, SetdefaultKeeps DEF OwnBuffer
    <3>2. CASE received[d] = 0
      <4>1. received'[d] = Len(buffers) + 1 /\ Len(buffers) \in Nat
        BY <2>1, <3>2, SetdefaultKeeps, Types
      <4>2. \A e \in Deals : received[e] \in 0..Len(buffers)
        BY DEF TypeOK
      <4> QED  BY <4>1, <4>2
    <3> QED  BY <3>1, <3>2
  <2>5. op'[r] # Idle => op'[r].deal = d /\ op'[r].buf = received'[d]
    BY <2>1
  <2> QED  BY <2>1, <2>2, <2>3, <2>4, <2>5, OwnStep
<1>3. ASSUME NEW r \in Threads, PutAppends(r) PROVE OwnBuffer'
  <2>1. /\ op'[r] = [pc |-> "putting", deal |-> op[r].deal, buf |-> op[r].buf,
                     rest |-> Tail(op[r].rest)]
        /\ UNCHANGED received /\ \A s \in Threads \ {r} : op'[s] = op[s]
    BY <1>3, ChunkAppended
  <2>2. op[r] # Idle
    BY <1>3 DEF PutAppends, Idle
  <2> QED  BY <2>1, <2>2, OwnQuiet
<1>4. ASSUME NEW r \in Threads, PutRaises(r) \/ PutReturns(r) PROVE OwnBuffer'
  <2>1. Step(r, Idle) /\ UNCHANGED received /\ op[r] # Idle
    BY <1>4 DEF PutRaises, PutReturns, Idle
  <2>2. op'[r] = Idle /\ \A s \in Threads \ {r} : op'[s] = op[s]
    BY <2>1, StepOf
  <2> QED  BY <2>1, <2>2, OwnQuiet
<1>5. ASSUME NEW r \in Threads, NEW d \in Deals, NEW beacon \in BEACONS,
             AcceptBegins(r, d, beacon)
      PROVE  OwnBuffer'
  <2>1. /\ op'[r] = Accepting("checking", d, received[d],
              [deal |-> d, root |-> piece_root(Piece), beacon |-> beacon])
        /\ UNCHANGED received /\ \A s \in Threads \ {r} : op'[s] = op[s]
    BY <1>5, StepOf DEF AcceptBegins
  <2>2. \A s \in Threads \ {r} : op[s] # Idle => op[s].deal \in Deals \ {d}
    BY <1>5, RequestCases DEF AcceptBegins, MaySend
  <2>3. \A e \in Deals \ {d} : received'[d] # 0 => received'[d] # received[e]
    BY <2>1 DEF OwnBuffer
  <2>4. op'[r].deal = d /\ op'[r].buf = received'[d]
    BY <2>1 DEF Accepting
  <2> QED  BY <2>1, <2>2, <2>3, <2>4, OwnStep
<1>6. ASSUME NEW r \in Threads, AcceptChecks(r) \/ AcceptSeals(r) \/ AcceptStores(r)
      PROVE  OwnBuffer'
  <2>1. UNCHANGED received /\ op[r] # Idle
    BY <1>6 DEF AcceptChecks, AcceptSeals, AcceptStores, Idle
  <2>2. PICK next : /\ Step(r, next)
                    /\ next # Idle => next.deal = op[r].deal /\ next.buf = op[r].buf
    <3>1. CASE AcceptChecks(r)
      BY <3>1 DEF AcceptChecks, Accepting
    <3>2. CASE AcceptSeals(r)
      BY <3>2 DEF AcceptSeals
    <3>3. CASE AcceptStores(r)
      BY <3>3 DEF AcceptStores, Accepting
    <3> QED  BY <1>6, <3>1, <3>2, <3>3
  <2>3. op'[r] = next /\ \A s \in Threads \ {r} : op'[s] = op[s]
    BY <2>2, StepOf
  <2> QED  BY <2>1, <2>2, <2>3, OwnQuiet
<1>7. ASSUME NEW r \in Threads, AcceptDrops(r) PROVE OwnBuffer'
  <2>1. Step(r, Idle) /\ received' = [received EXCEPT ![op[r].deal] = 0] /\ op[r] # Idle
    BY <1>7 DEF AcceptDrops, Idle
  <2>2. op'[r] = Idle /\ \A s \in Threads \ {r} : op'[s] = op[s]
    BY <2>1, StepOf
  <2>3. op[r].deal \in Deals
        /\ \A s \in Threads \ {r} : op[s] # Idle => op[s].deal \in Deals \ {op[r].deal}
    BY <2>1, RequestCases DEF OwnBuffer
  <2>4. received'[op[r].deal] = 0
        /\ \A e \in Deals \ {op[r].deal} : received'[e] = received[e]
    BY <2>1, <2>3 DEF TypeOK
  <2> QED  BY <2>2, <2>3, <2>4, OwnStep
<1> QED  BY <1>1, <1>2, <1>3, <1>4, <1>5, <1>6, <1>7 DEF Next

\* Two requests work on two buffers, and no other deal has a request's buffer.
LEMMA Apart ==
    ASSUME TypeOK, OwnBuffer, NEW r \in Threads, op[r] # Idle
    PROVE  /\ op[r].buf \in 1..Len(buffers) /\ op[r].deal \in Deals
           /\ received[op[r].deal] = op[r].buf /\ op[r].buf # 0
           /\ \A s \in Threads \ {r} : op[s] # Idle => op[s].buf # op[r].buf
           /\ \A e \in Deals \ {op[r].deal} : received[e] # op[r].buf
<1>1. op[r].buf \in 1..Len(buffers) /\ op[r].deal \in Deals
      /\ received[op[r].deal] = op[r].buf /\ op[r].buf # 0
  BY RequestCases, Types DEF OwnBuffer
<1>2. \A e \in Deals \ {op[r].deal} : received[e] # op[r].buf
  BY <1>1 DEF OwnBuffer
<1>3. ASSUME NEW s \in Threads \ {r}, op[s] # Idle PROVE op[s].buf # op[r].buf
  <2>1. op[s].deal \in Deals \ {op[r].deal} /\ received[op[s].deal] = op[s].buf
    BY <1>3, RequestCases DEF OwnBuffer
  <2> QED  BY <1>2, <2>1
<1> QED  BY <1>1, <1>2, <1>3

RequestExact(r) ==
    /\ op[r].pc = "sealing" => piece_root(buffers[op[r].buf]) = op[r].replica.root
    /\ op[r].pc = "storing" => /\ op[r].sealed = buffers[op[r].buf]
                               /\ piece_root(op[r].sealed) = op[r].replica.root

DealExact(d) ==
    deals[d] # Absent => /\ piece_root(deals[d].sealed) = deals[d].replica.root
                         /\ deals[d].n_chunks = Len(deals[d].sealed)

\* A step of request r that leaves the buffers of the others alone.
LEMMA ExactStep ==
    ASSUME TypeOK, Exact, NEW r \in Threads, UNCHANGED deals, RequestExact(r)',
           \A s \in Threads \ {r} :
               /\ op'[s] = op[s]
               /\ op[s] # Idle => buffers'[op[s].buf] = buffers[op[s].buf]
    PROVE  Exact'
<1>1. ASSUME NEW s \in Threads \ {r} PROVE RequestExact(s)'
  <2>1. CASE op[s].pc \in {"sealing", "storing"}
    <3>1. op[s] # Idle
      BY <2>1 DEF Idle
    <3> QED  BY <3>1 DEF Exact, RequestExact
  <2>2. CASE op[s].pc \notin {"sealing", "storing"}
    BY <2>2 DEF RequestExact
  <2> QED  BY <2>1, <2>2
<1>2. \A d \in Deals : DealExact(d)'
  BY DEF Exact, DealExact
<1>3. \A s \in Threads : RequestExact(s)'
  BY <1>1
<1> QED  BY <1>2, <1>3 DEF Exact, RequestExact, DealExact

LEMMA NextExact == TypeOK /\ OwnBuffer /\ Exact /\ [Next]_vars => Exact'
<1> SUFFICES ASSUME TypeOK, OwnBuffer, Exact, [Next]_vars PROVE Exact'  OBVIOUS
<1>1. CASE UNCHANGED vars
  BY <1>1 DEF vars, Exact
<1>2. ASSUME NEW r \in Threads, NEW d \in Deals, NEW start \in 0..MAX_CHUNKS,
             NEW chunks \in BATCHES, PutBegins(r, d, start, chunks)
      PROVE  Exact'
  <2>1. /\ Setdefault(d) /\ UNCHANGED deals /\ \A s \in Threads \ {r} : op'[s] = op[s]
        /\ \/ op'[r] = Idle
           \/ op'[r] = [pc |-> "putting", deal |-> d, buf |-> received'[d],
                        rest |-> chunks]
    BY <1>2, BatchBegun
  <2>2. \A s \in Threads : op[s] # Idle => buffers'[op[s].buf] = buffers[op[s].buf]
    BY <2>1, SetdefaultKeeps, RequestCases
  <2>3. RequestExact(r)'
    BY <2>1 DEF RequestExact, Idle
  <2> QED  BY <2>1, <2>2, <2>3, ExactStep
<1>3. ASSUME NEW r \in Threads, PutAppends(r) PROVE Exact'
  <2>1. /\ op'[r] = [pc |-> "putting", deal |-> op[r].deal, buf |-> op[r].buf,
                     rest |-> Tail(op[r].rest)]
        /\ UNCHANGED deals /\ \A s \in Threads \ {r} : op'[s] = op[s]
        /\ \A b \in 1..Len(buffers) : b # op[r].buf => buffers'[b] = buffers[b]
    BY <1>3, ChunkAppended
  <2>2. op[r] # Idle
    BY <1>3 DEF PutAppends, Idle
  <2>3. \A s \in Threads \ {r} : op[s] # Idle => buffers'[op[s].buf] = buffers[op[s].buf]
    BY <2>1, <2>2, Apart
  <2>4. RequestExact(r)'
    BY <2>1 DEF RequestExact
  <2> QED  BY <2>1, <2>3, <2>4, ExactStep
<1>4. ASSUME NEW r \in Threads, PutRaises(r) \/ PutReturns(r) \/ AcceptDrops(r) PROVE Exact'
  <2>1. Step(r, Idle) /\ UNCHANGED <<buffers, deals>>
    BY <1>4 DEF PutRaises, PutReturns, AcceptDrops
  <2>2. op'[r] = Idle /\ \A s \in Threads \ {r} : op'[s] = op[s]
    BY <2>1, StepOf
  <2>3. RequestExact(r)'
    BY <2>2 DEF RequestExact, Idle
  <2> QED  BY <2>1, <2>2, <2>3, ExactStep
<1>5. ASSUME NEW r \in Threads, NEW d \in Deals, NEW beacon \in BEACONS,
             AcceptBegins(r, d, beacon)
      PROVE  Exact'
  <2>1. /\ op'[r] = Accepting("checking", d, received[d],
              [deal |-> d, root |-> piece_root(Piece), beacon |-> beacon])
        /\ UNCHANGED <<buffers, deals>> /\ \A s \in Threads \ {r} : op'[s] = op[s]
    BY <1>5, StepOf DEF AcceptBegins
  <2>2. RequestExact(r)'
    BY <2>1 DEF RequestExact, Accepting
  <2> QED  BY <2>1, <2>2, ExactStep
<1>6. ASSUME NEW r \in Threads, AcceptChecks(r) PROVE Exact'
  <2>1. UNCHANGED <<buffers, deals>> /\ \A s \in Threads \ {r} : op'[s] = op[s]
    BY <1>6, StepOf DEF AcceptChecks
  <2>2. RequestExact(r)'
    <3>1. CASE RootMatches(r)
      <4>1. op'[r] = Accepting("sealing", op[r].deal, op[r].buf, op[r].replica)
        BY <1>6, <3>1, StepOf DEF AcceptChecks
      <4> QED  BY <2>1, <3>1, <4>1 DEF RequestExact, Accepting, RootMatches
    <3>2. CASE ~RootMatches(r)
      <4>1. op'[r] = Idle
        BY <1>6, <3>2, StepOf DEF AcceptChecks
      <4> QED  BY <4>1 DEF RequestExact, Idle
    <3> QED  BY <3>1, <3>2
  <2> QED  BY <2>1, <2>2, ExactStep
<1>7. ASSUME NEW r \in Threads, AcceptSeals(r) PROVE Exact'
  <2>1. /\ op'[r] = [pc |-> "storing", deal |-> op[r].deal, buf |-> op[r].buf,
                     replica |-> op[r].replica, sealed |-> Sealed(r)]
        /\ UNCHANGED <<buffers, deals>> /\ op[r].pc = "sealing"
        /\ \A s \in Threads \ {r} : op'[s] = op[s]
    BY <1>7, StepOf DEF AcceptSeals
  <2>2. piece_root(buffers[op[r].buf]) = op[r].replica.root
    BY <2>1 DEF Exact
  <2>3. RequestExact(r)'
    BY <2>1, <2>2 DEF RequestExact, Sealed
  <2> QED  BY <2>1, <2>3, ExactStep
<1>8. ASSUME NEW r \in Threads, AcceptStores(r) PROVE Exact'
  <2>1. /\ op'[r] = Accepting("dropping", op[r].deal, op[r].buf, op[r].replica)
        /\ UNCHANGED buffers /\ op[r].pc = "storing"
        /\ \A s \in Threads \ {r} : op'[s] = op[s]
    BY <1>8, StepOf DEF AcceptStores
  <2>2. \A s \in Threads : RequestExact(s)'
    BY <2>1 DEF Exact, RequestExact, Accepting
  <2>3. ASSUME NEW d \in Deals PROVE DealExact(d)'
    <3>1. CASE d = op[r].deal
      <4>1. deals'[d] = [n_chunks |-> Len(buffers[op[r].buf]), sealed |-> op[r].sealed,
                         replica |-> op[r].replica]
        BY <1>8, <3>1 DEF AcceptStores, TypeOK
      <4> QED  BY <2>1, <4>1 DEF DealExact, Exact
    <3>2. CASE d # op[r].deal
      BY <1>8, <3>2 DEF AcceptStores, DealExact, Exact, TypeOK
    <3> QED  BY <3>1, <3>2
  <2> QED  BY <2>2, <2>3 DEF Exact, RequestExact, DealExact
<1> QED  BY <1>1, <1>2, <1>3, <1>4, <1>5, <1>6, <1>7, <1>8 DEF Next

-----------------------------------------------------------------------------
(***************************************************************************)
(* Batches that are sent again.                                             *)
(***************************************************************************)
LEMMA PrefixByElements ==
    ASSUME NEW s \in Seq(Chunks), NEW t \in Seq(Chunks)
    PROVE  IsPrefix(s, t) <=> Len(s) <= Len(t) /\ \A i \in 1..Len(s) : s[i] = t[i]
<1>1. Len(s) \in Nat /\ Len(t) \in Nat
  OBVIOUS
<1>2. SubSeq(s, 1, Len(s)) = s
  BY SubSeqFull
<1>3. ASSUME Len(s) <= Len(t)
      PROVE  s = SubSeq(t, 1, Len(s)) <=> \A i \in 1..Len(s) : s[i] = t[i]
  <2>1. \A i \in 1..Len(s) : t[i] \in Chunks
    BY <1>1, <1>3, ElementOfSeq
  <2>2. /\ SubSeq(t, 1, Len(s)) \in Seq(Chunks)
        /\ Len(SubSeq(t, 1, Len(s))) = Len(s)
        /\ \A i \in 1..Len(s) : SubSeq(t, 1, Len(s))[i] = t[i]
    BY <1>1, <2>1, SubSeqProperties
  <2>3. (\A i \in 1..Len(s) : s[i] = t[i]) => s = SubSeq(t, 1, Len(s))
    BY <2>2, SeqEqual
  <2> QED  BY <2>2, <2>3
<1> QED  BY <1>2, <1>3 DEF IsPrefix

LEMMA PrefixIntro ==
    ASSUME NEW s \in Seq(Chunks), NEW t \in Seq(Chunks), Len(s) <= Len(t),
           \A i \in 1..Len(s) : s[i] = t[i]
    PROVE  IsPrefix(s, t)
BY PrefixByElements

\* The chunk that comes next makes the prefix longer.
LEMMA PrefixGrows ==
    ASSUME NEW s \in Seq(Chunks), IsPrefix(s, Piece), NEW rest \in Seq(Chunks \cup {NotHex}),
           rest # << >>, Head(rest) \in Chunks, OfPiece(Len(s), rest)
    PROVE  /\ IsPrefix(Append(s, Head(rest)), Piece)
           /\ OfPiece(Len(s) + 1, Tail(rest))
<1>1. Len(s) \in Nat /\ Len(rest) \in Nat /\ Len(rest) >= 1 /\ Len(Piece) \in Nat
      /\ DOMAIN rest = 1..Len(rest) /\ Piece \in Seq(Chunks) /\ DOMAIN Piece = 1..Len(Piece)
  BY EmptySeq, ProviderAssumption
<1>2. Head(rest) = rest[1] /\ 1 \in DOMAIN rest
  BY <1>1
<1>3. Len(s) + 1 \in 1..Len(Piece) /\ Head(rest) = Piece[Len(s) + 1]
  <2>1. Len(s) + 1 \in DOMAIN Piece /\ Head(rest) \in {Piece[Len(s) + 1], NotHex}
    BY <1>2 DEF OfPiece
  <2> QED  BY <1>1, <2>1, ProviderAssumption
<1>4. /\ Append(s, Head(rest)) \in Seq(Chunks)
      /\ Len(Append(s, Head(rest))) = Len(s) + 1
      /\ \A i \in 1..Len(s) : Append(s, Head(rest))[i] = s[i]
      /\ Append(s, Head(rest))[Len(s) + 1] = Head(rest)
  BY AppendProperties
<1>5. \A i \in 1..Len(s) : s[i] = Piece[i]
  BY <1>1, PrefixByElements
<1>6. \A i \in 1..(Len(s) + 1) : Append(s, Head(rest))[i] = Piece[i]
  <2> TAKE i \in 1..(Len(s) + 1)
  <2>1. i \in 1..Len(s) \/ i = Len(s) + 1
    BY <1>1
  <2> QED  BY <1>3, <1>4, <1>5, <2>1
<1>7. IsPrefix(Append(s, Head(rest)), Piece)
  <2> DEFINE longer == Append(s, Head(rest))
  <2>1. longer \in Seq(Chunks) /\ Len(longer) = Len(s) + 1
    BY <1>4
  <2>2. Len(longer) <= Len(Piece) /\ \A i \in 1..Len(longer) : longer[i] = Piece[i]
    BY <1>1, <1>3, <1>6, <2>1
  <2>3. Piece \in Seq(Chunks)
    BY <1>1
  <2> HIDE DEF longer
  <2>4. IsPrefix(longer, Piece)
    BY <2>1, <2>2, <2>3, PrefixIntro
  <2> QED  BY <2>4 DEF longer
<1>8. OfPiece(Len(s) + 1, Tail(rest))
  <2>1. /\ Tail(rest) \in Seq(Chunks \cup {NotHex}) /\ Len(Tail(rest)) = Len(rest) - 1
        /\ \A i \in 1..Len(Tail(rest)) : Tail(rest)[i] = rest[i + 1]
    BY HeadTailProperties
  <2>2. DOMAIN Tail(rest) = 1..(Len(rest) - 1)
    BY <2>1
  <2>3. ASSUME NEW i \in DOMAIN Tail(rest)
        PROVE  (Len(s) + 1) + i \in DOMAIN Piece
               /\ Tail(rest)[i] \in {Piece[(Len(s) + 1) + i], NotHex}
    <3>1. i + 1 \in DOMAIN rest /\ Tail(rest)[i] = rest[i + 1]
          /\ Len(s) + (i + 1) = (Len(s) + 1) + i
      BY <1>1, <2>1, <2>2
    <3>2. Len(s) + (i + 1) \in DOMAIN Piece
          /\ rest[i + 1] \in {Piece[Len(s) + (i + 1)], NotHex}
      BY <3>1 DEF OfPiece
    <3> QED  BY <3>1, <3>2
  <2> QED  BY <2>3 DEF OfPiece
<1> QED  BY <1>7, <1>8

RequestContinues(r) ==
    op[r].pc = "putting" => OfPiece(Len(buffers[op[r].buf]), op[r].rest)

DealPrefix(d) == received[d] # 0 => IsPrefix(buffers[received[d]], Piece)

LEMMA NextContinues ==
    TypeOK /\ OwnBuffer /\ clients.faithful /\ Continues /\ [Next]_vars => Continues'
<1> SUFFICES ASSUME TypeOK, OwnBuffer, clients.faithful, Continues, [Next]_vars
             PROVE  Continues'
  OBVIOUS
<1>0. /\ \A r \in Threads : RequestContinues(r)
      /\ \A d \in Deals : DealPrefix(d)
  BY DEF Continues, RequestContinues, DealPrefix
<1>1. CASE UNCHANGED vars
  BY <1>1 DEF vars, Continues
<1>2. ASSUME NEW r \in Threads, NEW d \in Deals, NEW start \in 0..MAX_CHUNKS,
             NEW chunks \in BATCHES, PutBegins(r, d, start, chunks)
      PROVE  Continues'
  <2>1. /\ Setdefault(d) /\ \A s \in Threads \ {r} : op'[s] = op[s]
        /\ \/ op'[r] = Idle
           \/ op'[r] = [pc |-> "putting", deal |-> d, buf |-> received'[d],
                        rest |-> chunks]
              /\ start = Len(buffers'[received'[d]])
    BY <1>2, BatchBegun
  <2>2. /\ \A b \in 1..Len(buffers) : buffers'[b] = buffers[b]
        /\ \A e \in Deals \ {d} : received'[e] = received[e]
        /\ received[d] # 0 => received'[d] = received[d]
        /\ received[d] = 0 => buffers'[received'[d]] = << >>
    BY <2>1, SetdefaultKeeps
  <2>3. ASSUME NEW s \in Threads PROVE RequestContinues(s)'
    <3>1. CASE s = r
      <4>1. OfPiece(start, chunks)
        BY <1>2 DEF PutBegins
      <4> QED  BY <2>1, <3>1, <4>1 DEF RequestContinues, Idle
    <3>2. CASE s # r
      <4>1. op[s].pc = "putting" => op[s].buf \in 1..Len(buffers)
        BY RequestCases DEF Putting
      <4> QED  BY <1>0, <2>1, <2>2, <3>2, <4>1 DEF RequestContinues
    <3> QED  BY <3>1, <3>2
  <2>4. ASSUME NEW e \in Deals PROVE DealPrefix(e)'
    <3>1. CASE e = d /\ received[d] = 0
      <4>1. IsPrefix(<< >>, Piece)
        <5>1. << >> \in Seq(Chunks) /\ Len(<< >>) = 0 /\ Piece \in Seq(Chunks)
              /\ Len(Piece) \in Nat
          BY EmptySeq, ProviderAssumption
        <5> DEFINE none == << >>
        <5>2. Len(none) <= Len(Piece) /\ \A i \in 1..Len(none) : none[i] = Piece[i]
          BY <5>1
        <5>3. none \in Seq(Chunks)
          BY <5>1
        <5> HIDE DEF none
        <5>4. IsPrefix(none, Piece)
          BY <5>1, <5>2, <5>3, PrefixIntro
        <5> QED  BY <5>4 DEF none
      <4> QED  BY <2>2, <3>1, <4>1 DEF DealPrefix
    <3>2. CASE ~(e = d /\ received[d] = 0)
      <4>1. received'[e] = received[e]
        BY <2>2, <3>2
      <4>2. received[e] # 0 => received[e] \in 1..Len(buffers)
        BY Types DEF TypeOK
      <4> QED  BY <1>0, <2>2, <4>1, <4>2 DEF DealPrefix
    <3> QED  BY <3>1, <3>2
  <2> QED  BY <2>3, <2>4 DEF Continues, RequestContinues, DealPrefix
<1>3. ASSUME NEW r \in Threads, PutAppends(r) PROVE Continues'
  <2>1. /\ op'[r] = [pc |-> "putting", deal |-> op[r].deal, buf |-> op[r].buf,
                     rest |-> Tail(op[r].rest)]
        /\ UNCHANGED received /\ \A s \in Threads \ {r} : op'[s] = op[s]
        /\ op[r] \in Putting(Len(buffers)) /\ Head(op[r].rest) \in Chunks
        /\ buffers'[op[r].buf] = Append(buffers[op[r].buf], Head(op[r].rest))
        /\ \A b \in 1..Len(buffers) : b # op[r].buf => buffers'[b] = buffers[b]
    BY <1>3, ChunkAppended
  <2>2. op[r].pc = "putting" /\ op[r] # Idle /\ op[r].rest # << >>
        /\ op[r].rest \in Seq(Chunks \cup {NotHex})
    BY <1>3, <2>1 DEF PutAppends, Idle, Putting
  <2>3. op[r].buf \in 1..Len(buffers) /\ op[r].deal \in Deals
        /\ received[op[r].deal] = op[r].buf /\ op[r].buf # 0
        /\ (\A s \in Threads \ {r} : op[s] # Idle => op[s].buf # op[r].buf)
        /\ (\A e \in Deals \ {op[r].deal} : received[e] # op[r].buf)
    BY <2>2, Apart
  <2>4. buffers[op[r].buf] \in Seq(Chunks)
    BY <2>3, Types
  <2>5. IsPrefix(buffers[op[r].buf], Piece) /\ OfPiece(Len(buffers[op[r].buf]), op[r].rest)
    BY <1>0, <2>2, <2>3 DEF DealPrefix, RequestContinues
  <2>6. /\ IsPrefix(Append(buffers[op[r].buf], Head(op[r].rest)), Piece)
        /\ OfPiece(Len(buffers[op[r].buf]) + 1, Tail(op[r].rest))
    BY <2>1, <2>2, <2>4, <2>5, PrefixGrows
  <2>7. ASSUME NEW s \in Threads PROVE RequestContinues(s)'
    <3>1. CASE s = r
      <4>1. Len(Append(buffers[op[r].buf], Head(op[r].rest))) = Len(buffers[op[r].buf]) + 1
        BY <2>1, <2>4, AppendProperties
      <4>2. OfPiece(Len(buffers'[op[r].buf]), Tail(op[r].rest))
        BY <2>1, <2>6, <4>1
      <4>3. op'[r].buf = op[r].buf /\ op'[r].rest = Tail(op[r].rest)
        BY <2>1
      <4>4. OfPiece(Len(buffers'[op'[r].buf]), op'[r].rest)
        BY <4>2, <4>3
      <4> QED  BY <3>1, <4>4 DEF RequestContinues
    <3>2. CASE s # r /\ op[s].pc = "putting"
      <4>1. op[s] # Idle /\ op[s].buf \in 1..Len(buffers)
        BY <3>2, RequestCases DEF Putting, Idle
      <4>2. buffers'[op[s].buf] = buffers[op[s].buf]
        BY <2>1, <2>3, <3>2, <4>1
      <4> QED  BY <1>0, <2>1, <3>2, <4>2 DEF RequestContinues
    <3>3. CASE s # r /\ op[s].pc # "putting"
      BY <2>1, <3>3 DEF RequestContinues
    <3> QED  BY <3>1, <3>2, <3>3
  <2>8. ASSUME NEW e \in Deals PROVE DealPrefix(e)'
    <3>1. CASE e = op[r].deal
      <4>1. received'[e] = op[r].buf
        BY <2>1, <2>3, <3>1
      <4>2. IsPrefix(buffers'[op[r].buf], Piece)
        BY <2>1, <2>6
      <4>3. IsPrefix(buffers'[received'[e]], Piece)
        BY <4>1, <4>2
      <4> QED  BY <4>3 DEF DealPrefix
    <3>2. CASE e # op[r].deal
      <4>1. received[e] # 0 => received[e] \in 1..Len(buffers)
        BY Types DEF TypeOK
      <4>2. received[e] # op[r].buf
        BY <2>3, <3>2
      <4> QED  BY <1>0, <2>1, <4>1, <4>2 DEF DealPrefix
    <3> QED  BY <3>1, <3>2
  <2> QED  BY <2>7, <2>8 DEF Continues, RequestContinues, DealPrefix
<1>4. ASSUME NEW r \in Threads, NEW next, Step(r, next), next.pc # "putting",
             UNCHANGED buffers,
             \A d \in Deals : received'[d] \in {received[d], 0}
      PROVE  Continues'
  <2>1. op'[r].pc # "putting" /\ \A s \in Threads \ {r} : op'[s] = op[s]
    BY <1>4, StepOf
  <2>2. \A s \in Threads : RequestContinues(s)'
    BY <1>0, <1>4, <2>1 DEF RequestContinues
  <2>3. \A d \in Deals : DealPrefix(d)'
    BY <1>0, <1>4 DEF DealPrefix
  <2> QED  BY <2>2, <2>3 DEF Continues, RequestContinues, DealPrefix
<1>5. ASSUME NEW r \in Threads, PutRaises(r) \/ PutReturns(r) PROVE Continues'
  BY <1>4, <1>5 DEF PutRaises, PutReturns, Idle
<1>6. ASSUME NEW r \in Threads, NEW d \in Deals, NEW beacon \in BEACONS,
             AcceptBegins(r, d, beacon)
      PROVE  Continues'
  <2> DEFINE next == Accepting("checking", d, received[d],
                 [deal |-> d, root |-> piece_root(Piece), beacon |-> beacon])
  <2>1. Step(r, next) /\ UNCHANGED <<buffers, received>>
    BY <1>6 DEF AcceptBegins
  <2>2. next.pc # "putting"
    BY DEF Accepting
  <2> QED  BY <1>4, <2>1, <2>2
<1>7. ASSUME NEW r \in Threads, AcceptChecks(r) PROVE Continues'
  BY <1>4, <1>7 DEF AcceptChecks, Accepting, Idle
<1>8. ASSUME NEW r \in Threads, AcceptSeals(r) PROVE Continues'
  BY <1>4, <1>8 DEF AcceptSeals
<1>9. ASSUME NEW r \in Threads, AcceptStores(r) PROVE Continues'
  BY <1>4, <1>9 DEF AcceptStores, Accepting
<1>10. ASSUME NEW r \in Threads, AcceptDrops(r) PROVE Continues'
  <2>1. \A d \in Deals : received'[d] \in {received[d], 0}
    BY <1>10 DEF AcceptDrops, TypeOK
  <2> QED  BY <1>4, <1>10, <2>1 DEF AcceptDrops, Idle
<1> QED  BY <1>1, <1>2, <1>3, <1>5, <1>6, <1>7, <1>8, <1>9, <1>10 DEF Next

-----------------------------------------------------------------------------
ProviderInv == TypeOK /\ SealInv /\ InTurnInv /\ PrefixInv

THEOREM Inductive == Spec => []ProviderInv
<1>1. Init => ProviderInv
  BY InitInv DEF ProviderInv
<1>2. ProviderInv /\ [Next]_vars => ProviderInv'
  <2> SUFFICES ASSUME ProviderInv, [Next]_vars PROVE ProviderInv'
    OBVIOUS
  <2>1. TypeOK' /\ SealInv' /\ clients' = clients
    BY NextTypeOK, NextSealInv, ClientsFixed DEF ProviderInv
  <2>2. clients.inTurn => OwnBuffer' /\ Exact'
    BY NextOwnBuffer, NextExact DEF ProviderInv, InTurnInv
  <2>3. clients.inTurn /\ clients.faithful => Continues'
    BY NextContinues DEF ProviderInv, InTurnInv, PrefixInv
  <2> QED  BY <2>1, <2>2, <2>3 DEF ProviderInv, InTurnInv, PrefixInv
<1> QED  BY <1>1, <1>2, PTL DEF Spec

\* Type correctness.
THEOREM TypeCorrect == Spec => []TypeOK
<1>1. ProviderInv => TypeOK
  BY DEF ProviderInv
<1> QED  BY <1>1, Inductive, PTL

\* Whatever requests overlap, accept never seals data that does not begin with
\* chunks of the root it was given.
THEOREM SealsThePiece == Spec => []SealedBeginsWithThePiece
<1>1. ProviderInv => SealedBeginsWithThePiece
  BY DEF ProviderInv, SealInv, SealedBeginsWithThePiece, Begins
<1> QED  BY <1>1, Inductive, PTL

\* With clients that wait for each answer, nothing slips between accept's check
\* of the root and its seal.
THEOREM InTurnSealsExactly == Spec => []InTurnIsExact
<1>1. ProviderInv => InTurnIsExact
  BY DEF ProviderInv, InTurnInv, Exact, InTurnIsExact
<1> QED  BY <1>1, Inductive, PTL

\* put_chunks takes batches that are sent again, whole or broken off, without
\* ever making the buffer anything but a beginning of the piece.
THEOREM RetriesAreSafe == Spec => []RetriesKeepThePrefix
<1>1. ProviderInv => RetriesKeepThePrefix
  BY DEF ProviderInv, PrefixInv, Continues, RetriesKeepThePrefix
<1> QED  BY <1>1, Inductive, PTL
=============================================================================
