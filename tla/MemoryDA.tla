------------------------------- MODULE MemoryDA -------------------------------
(***************************************************************************)
(* What every data availability backend promises: an open log of signed     *)
(* blobs, ordered by (height, index), in which submit, read and the tick of  *)
(* the clock are atomic (class MemoryDA of common/da.py, which is its        *)
(* in-process form; the protocol DALayer is its interface).                  *)
(***************************************************************************)
EXTENDS Integers, Sequences, FiniteSets

CONSTANTS
    Clients,         \* providers, strangers and workers that use the layer
    Namespaces, Signers,
    WINDOWS,         \* bound: the half-open windows <<start, end>> read
    GENESIS_HEIGHT,
    NoAnswer         \* of a client that has not read yet

VARIABLES
    height,          \* blobs are still being written at this height
    entries,         \* the blobs, in the order they were written
    answer           \* per client what its last successful read returned

memoryVars == <<height, entries, answer>>

\* Header and payload are whatever the author wrote; what tells a blob from
\* others is its place in entries.
ObservedBlob == [height: Nat, index: Nat, namespace: Namespaces, signer: Signers]

\* Seeded fault: the blob being written is taken to be counted already.
NextIndex_Counted == Cardinality({i \in DOMAIN entries : entries[i].height = height}) - 1

NextIndex == Cardinality({i \in DOMAIN entries : entries[i].height = height})

\* Places, among those in S, of the blobs of a namespace in a window.
Window(S, ns, w) ==
    {i \in S : /\ entries[i].namespace = ns
               /\ w[1] <= entries[i].height /\ entries[i].height < w[2]}

MemoryInit ==
    /\ height = GENESIS_HEIGHT
    /\ entries = << >>
    /\ answer = [c \in Clients |-> NoAnswer]

advance ==
    /\ height' = height + 1
    /\ UNCHANGED <<entries, answer>>

submit(ns, signer) ==
    /\ entries' = Append(entries, [height |-> height, index |-> NextIndex,
                                   namespace |-> ns, signer |-> signer])
    /\ UNCHANGED <<height, answer>>

\* over: the caller knew when it called that the window was over.
read(c, ns, w, over) ==
    /\ over => w[2] <= height
    /\ answer' = [answer EXCEPT ![c] =
           [namespace |-> ns, window |-> w, over |-> over,
            blobs |-> Window(DOMAIN entries, ns, w)]]
    /\ UNCHANGED <<height, entries>>

MemoryNext ==
    \/ advance
    \/ \E ns \in Namespaces, signer \in Signers : submit(ns, signer)
    \/ \E c \in Clients, ns \in Namespaces, w \in WINDOWS, over \in BOOLEAN :
          read(c, ns, w, over)

MemorySpec == MemoryInit /\ [][MemoryNext]_memoryVars
=============================================================================
