--------------------------- MODULE DataAvailability ---------------------------
(***************************************************************************)
(* The two backends that are not atomic.  The mock service answers requests  *)
(* in threads of its own beside the thread that ticks the clock, submits     *)
(* under a lock and reads without it (da_mock/__main__.py).  CelestiaDA      *)
(* talks to a node, one call per height of the window it reads, while        *)
(* blocks go on being made (common/da.py).  Both implement MemoryDA.         *)
(***************************************************************************)
EXTENDS Integers, Sequences, FiniteSets

CONSTANTS
    Clients, Namespaces, Signers, WINDOWS, GENESIS_HEIGHT, NoAnswer,
    NodeAddress,         \* client -> the account its Celestia node signs with
    NETWORKS,            \* values of CELESTIA_NETWORK
    MAINNETS, TESTNETS,  \* those never, and those always, published to
    Nobody,              \* holder of a free lock
    MAX_BLOBS, MAX_HEIGHT    \* bounds: blobs written, height of the chain

ASSUME DAAssumption ==
    /\ GENESIS_HEIGHT \in Nat /\ WINDOWS \subseteq Nat \X Nat
    /\ NodeAddress \in [Clients -> Signers]
    /\ Nobody \notin Clients

VARIABLES
    config,          \* backend and environment, fixed when the process starts
    height, blobs, answer,   \* as in MemoryDA
    lock,            \* of the mock: the client whose submit holds it
    mempool,         \* of Celestia: transactions of a client not yet in a block
    op               \* per client the call it is in

vars == <<config, height, blobs, answer, lock, mempool, op>>

Memory == INSTANCE MemoryDA WITH entries <- blobs

Idle == [pc |-> "idle"]

\* The mock reads neither CELESTIA_NETWORK nor CELESTIA_LOCAL_DEVNET.
Configs == {[backend |-> "mock"]}
           \cup [backend: {"celestia"}, network: NETWORKS, devnet: BOOLEAN]

TypeOK ==
    /\ config \in Configs
    /\ height \in Nat
    /\ blobs \in Seq(Memory!ObservedBlob)
    /\ answer \in [Clients -> {NoAnswer} \cup
           [namespace: Namespaces, window: WINDOWS, over: BOOLEAN, blobs: SUBSET Nat]]
    /\ lock \in Clients \cup {Nobody}
    /\ mempool \in [Clients \X Namespaces -> Nat]
    /\ op \in [Clients ->
           {Idle}
           \cup [pc: {"submitting"}, blob: Memory!ObservedBlob]
           \cup [pc: {"reading"}, namespace: Namespaces, window: WINDOWS,
                 over: BOOLEAN, next: Nat, out: SUBSET Nat]]

Init ==
    /\ config \in Configs
    /\ Memory!MemoryInit
    /\ lock = Nobody
    /\ mempool = [x \in Clients \X Namespaces |-> 0]
    /\ op = [c \in Clients |-> Idle]

\* A read of a window: where it goes on, and what it has found.
ReadCall(ns, w, over, next, out) ==
    [pc |-> "reading", namespace |-> ns, window |-> w, over |-> over,
     next |-> next, out |-> out]

\* A read that goes on, having found the blobs of S.
Collect(c, S) ==
    op' = [op EXCEPT ![c] = ReadCall(op[c].namespace, op[c].window, op[c].over,
                                     op[c].next + 1, op[c].out \cup S)]

\* A read that returns: its list is the answer.
Return(c) ==
    /\ answer' = [answer EXCEPT ![c] =
           [namespace |-> op[c].namespace, window |-> op[c].window,
            over |-> op[c].over, blobs |-> op[c].out]]
    /\ op' = [op EXCEPT ![c] = Idle]
    /\ UNCHANGED <<config, height, blobs, lock, mempool>>

-----------------------------------------------------------------------------
(***************************************************************************)
(* The mock service.                                                        *)
(***************************************************************************)
mock == config.backend = "mock"

\* tick: the clock's thread.
Tick ==
    /\ mock /\ lock = Nobody /\ height < MAX_HEIGHT
    /\ height' = height + 1
    /\ UNCHANGED <<config, blobs, answer, lock, mempool, op>>

\* Seeded fault: the submit does not take the lock.
SubmitLocks_Unlocked(c) == UNCHANGED lock

SubmitLocks(c) == lock = Nobody /\ lock' = c

\* submit, up to the blob that is going to be appended: under the lock, the
\* height and the number of blobs at that height.
SubmitBegins(c, ns, signer) ==
    /\ mock /\ op[c] = Idle /\ Len(blobs) < MAX_BLOBS
    /\ SubmitLocks(c)
    /\ op' = [op EXCEPT ![c] = [pc |-> "submitting",
           blob |-> [height |-> height, index |-> Memory!NextIndex,
                     namespace |-> ns, signer |-> signer]]]
    /\ UNCHANGED <<config, height, blobs, answer, mempool>>

SubmitAppends(c) ==
    /\ mock /\ op[c].pc = "submitting"
    /\ blobs' = Append(blobs, op[c].blob)
    /\ lock' = Nobody
    /\ op' = [op EXCEPT ![c] = Idle]
    /\ UNCHANGED <<config, height, answer, mempool>>

\* get_range walks along the list of blobs, which may grow under it.
RangeBegins(c, ns, w) ==
    /\ mock /\ op[c] = Idle
    /\ op' = [op EXCEPT ![c] = ReadCall(ns, w, w[2] <= height, 1, {})]
    /\ UNCHANGED <<config, height, blobs, answer, lock, mempool>>

RangeStep(c) ==
    /\ mock /\ op[c].pc = "reading" /\ op[c].next <= Len(blobs)
    /\ Collect(c, Memory!Window({op[c].next}, op[c].namespace, op[c].window))
    /\ UNCHANGED <<config, height, blobs, answer, lock, mempool>>

RangeReturns(c) ==
    /\ mock /\ op[c].pc = "reading" /\ op[c].next > Len(blobs)
    /\ Return(c)

-----------------------------------------------------------------------------
(***************************************************************************)
(* CelestiaDA and the chain behind its node, which is external: a            *)
(* transaction gets into some later block or none, whether or not the call   *)
(* that sent it returned.                                                    *)
(***************************************************************************)
celestia == config.backend = "celestia"

\* _guard_submit
CanPublish ==
    /\ config.network \notin MAINNETS
    /\ config.devnet \/ config.network \in TESTNETS

\* submit: the signer has to be the account of the client's own node.
Send(c, ns, signer) ==
    /\ celestia /\ CanPublish /\ op[c] = Idle
    /\ signer = NodeAddress[c]
    /\ Len(blobs) + mempool[<<c, ns>>] < MAX_BLOBS
    /\ mempool' = [mempool EXCEPT ![<<c, ns>>] = @ + 1]
    /\ UNCHANGED <<config, height, blobs, answer, lock, op>>

\* Consensus writes the signer.  The index is the place in the block; a read
\* numbers the blobs of its namespace anew, in the same order.
Include(c, ns) ==
    /\ celestia /\ mempool[<<c, ns>>] > 0 /\ Len(blobs) < MAX_BLOBS
    /\ blobs' = Append(blobs, [height |-> height, index |-> Memory!NextIndex,
                               namespace |-> ns, signer |-> NodeAddress[c]])
    /\ mempool' = [mempool EXCEPT ![<<c, ns>>] = @ - 1]
    /\ UNCHANGED <<config, height, answer, lock, op>>

MakeBlock ==
    /\ celestia /\ height < MAX_HEIGHT
    /\ height' = height + 1
    /\ UNCHANGED <<config, blobs, answer, lock, mempool, op>>

\* The network's head is the last block that is made, not the one being made.
head_height == height - 1

ReadBegins(c, ns, w) ==
    /\ celestia /\ op[c] = Idle
    /\ op' = [op EXCEPT ![c] = ReadCall(ns, w, w[2] <= head_height, w[1], {})]
    /\ UNCHANGED <<config, height, blobs, answer, lock, mempool>>

\* Seeded fault: any error of the node is taken for "not found".
NodeHas_Lenient(h) == TRUE

\* The node knows the blocks that are made.
NodeHas(h) == h <= head_height

\* blob.GetAll at one height; "not found" and an empty list are the same.
GetAll(c) ==
    /\ celestia /\ op[c].pc = "reading" /\ op[c].next < op[c].window[2]
    /\ NodeHas(op[c].next)
    /\ Collect(c, Memory!Window(DOMAIN blobs, op[c].namespace,
                                <<op[c].next, op[c].next + 1>>))
    /\ UNCHANGED <<config, height, blobs, answer, lock, mempool>>

\* Any other error ends the read without an answer.
GetAllRaises(c) ==
    /\ celestia /\ op[c].pc = "reading" /\ op[c].next < op[c].window[2]
    /\ op' = [op EXCEPT ![c] = Idle]
    /\ UNCHANGED <<config, height, blobs, answer, lock, mempool>>

ReadReturns(c) ==
    /\ celestia /\ op[c].pc = "reading" /\ op[c].next >= op[c].window[2]
    /\ Return(c)

-----------------------------------------------------------------------------
ClientNext(c) ==
    \/ \E ns \in Namespaces, signer \in Signers :
          SubmitBegins(c, ns, signer) \/ Send(c, ns, signer)
    \/ \E ns \in Namespaces, w \in WINDOWS : RangeBegins(c, ns, w) \/ ReadBegins(c, ns, w)
    \/ SubmitAppends(c) \/ RangeStep(c) \/ RangeReturns(c)
    \/ GetAll(c) \/ GetAllRaises(c) \/ ReadReturns(c)
    \/ \E ns \in Namespaces : Include(c, ns)

Next == Tick \/ MakeBlock \/ \E c \in Clients : ClientNext(c)

Spec == Init /\ [][Next]_vars

-----------------------------------------------------------------------------
(***************************************************************************)
(* Properties.                                                              *)
(***************************************************************************)

\* Places in the log and positions (height, index) have one order, and no two
\* blobs one position: "the earliest blob" (F4) names the same blob for everybody.
ChainIsOrdered ==
    \A i, j \in DOMAIN blobs : i < j =>
        \/ blobs[i].height < blobs[j].height
        \/ blobs[i].height = blobs[j].height /\ blobs[i].index < blobs[j].index

\* What was read of a window after it was over is all there ever will be in it:
\* two workers that read it, however slowly and beside whatever submits, agree,
\* and a blob nobody saw then is absent for good.
ClosedWindowsAreWhole ==
    \A c \in Clients :
        answer[c] # NoAnswer /\ answer[c].over =>
            answer[c].blobs = Memory!Window(DOMAIN blobs, answer[c].namespace,
                                            answer[c].window)

\* Threads, locks, in-flight transactions and reads height by height cannot be
\* told from calls that happen at once.
ImplementsMemoryDA == Memory!MemorySpec
=============================================================================
