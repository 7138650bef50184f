------------------------ MODULE DataAvailabilityProofs ------------------------
(***************************************************************************)
(* The backends of DataAvailability implement MemoryDA, for any number of    *)
(* clients, namespaces and blobs.                                           *)
(***************************************************************************)
EXTENDS DataAvailability, FiniteSetTheorems, TLAPS

Submitting == [pc: {"submitting"}, blob: Memory!ObservedBlob]
Reading == [pc: {"reading"}, namespace: Namespaces, window: WINDOWS,
            over: BOOLEAN, next: Nat, out: SUBSET Nat]

Answers == [namespace: Namespaces, window: WINDOWS, over: BOOLEAN, blobs: SUBSET Nat]

\* The lock is what keeps a blob's position true until it is appended.
LockInv ==
    \A c \in Clients : op[c].pc = "submitting" =>
        /\ mock /\ lock = c
        /\ op[c].blob.height = height /\ op[c].blob.index = Memory!NextIndex

\* Nothing is ahead of the position the next blob gets.
OrderInv ==
    /\ ChainIsOrdered
    /\ \A i \in DOMAIN blobs :
          /\ blobs[i].height <= height
          /\ blobs[i].height = height => blobs[i].index < Memory!NextIndex

\* What a read has so far: a prefix of the list, or the heights before the next.
SoFar(r) ==
    IF mock THEN Memory!Window(1..(r.next - 1), r.namespace, r.window)
            ELSE Memory!Window(DOMAIN blobs, r.namespace, <<r.window[1], r.next>>)

ReadOK(r) ==
    /\ r.over => r.window[2] <= height
    /\ r.out = SoFar(r)
    /\ mock => r.next \in 1..(Len(blobs) + 1)
    /\ ~mock => /\ r.window[1] <= r.next
                /\ r.next # r.window[1] => r.next <= height /\ r.next <= r.window[2]

ReadInv == \A c \in Clients : op[c].pc = "reading" => ReadOK(op[c])

AnswerInv ==
    \A c \in Clients : answer[c] # NoAnswer /\ answer[c].over =>
        /\ answer[c].window[2] <= height
        /\ answer[c].blobs = Memory!Window(DOMAIN blobs, answer[c].namespace,
                                           answer[c].window)

DAInv == TypeOK /\ LockInv /\ OrderInv /\ ReadInv /\ AnswerInv

-----------------------------------------------------------------------------
LEMMA OpCases ==
    ASSUME TypeOK, NEW c \in Clients
    PROVE  /\ op[c] \in {Idle} \cup Submitting \cup Reading
           /\ op[c].pc = "idle" => op[c] = Idle
           /\ op[c].pc = "submitting" => op[c] \in Submitting
           /\ op[c].pc = "reading" => op[c] \in Reading
BY DEF TypeOK, Idle, Submitting, Reading

\* A read that goes on stays a read.
LEMMA CollectStep ==
    ASSUME TypeOK, NEW c \in Clients, op[c] \in Reading,
           NEW S \in SUBSET Nat, Collect(c, S)
    PROVE  /\ op'[c] \in Reading /\ op' \in [Clients -> {Idle} \cup Submitting \cup Reading]
           /\ op'[c].namespace = op[c].namespace /\ op'[c].window = op[c].window
           /\ op'[c].over = op[c].over
           /\ op'[c].next = op[c].next + 1 /\ op'[c].out = op[c].out \cup S
           /\ \A x \in Clients \ {c} : op'[x] = op[x]
<1> DEFINE r == ReadCall(op[c].namespace, op[c].window, op[c].over,
                         op[c].next + 1, op[c].out \cup S)
<1>2. op' = [op EXCEPT ![c] = r]
  BY DEF Collect
<1>3. op \in [Clients -> {Idle} \cup Submitting \cup Reading]
  BY DEF TypeOK, Submitting, Reading
<1>4. op'[c] = r /\ \A x \in Clients \ {c} : op'[x] = op[x]
  BY <1>2, <1>3
<1>5. r \in Reading
  <2>1. op[c].next + 1 \in Nat
    BY DEF Reading
  <2>2. op[c].out \cup S \in SUBSET Nat
    BY DEF Reading
  <2>3. op[c].namespace \in Namespaces /\ op[c].window \in WINDOWS /\ op[c].over \in BOOLEAN
    BY DEF Reading
  <2> QED  BY <2>1, <2>2, <2>3 DEF Reading, ReadCall
<1>6. op' \in [Clients -> {Idle} \cup Submitting \cup Reading]
  BY <1>2, <1>3, <1>5
<1> QED  BY <1>4, <1>5, <1>6 DEF ReadCall

LEMMA WindowType ==
    ASSUME NEW w \in WINDOWS
    PROVE  w \in Nat \X Nat /\ w[1] \in Nat /\ w[2] \in Nat
BY DAAssumption

\* What a client gets when its read returns.
LEMMA ReturnType ==
    ASSUME TypeOK, NEW c \in Clients, op[c] \in Reading, Return(c)
    PROVE  /\ answer'[c] = [namespace |-> op[c].namespace, window |-> op[c].window,
                            over |-> op[c].over, blobs |-> op[c].out]
           /\ answer'[c] \in Answers
           /\ answer' \in [Clients -> {NoAnswer} \cup Answers]
           /\ \A x \in Clients \ {c} : answer'[x] = answer[x]
<1> DEFINE r == [namespace |-> op[c].namespace, window |-> op[c].window,
                 over |-> op[c].over, blobs |-> op[c].out]
<1>1. answer \in [Clients -> {NoAnswer} \cup Answers]
  BY DEF TypeOK, Answers
<1>2. answer' = [answer EXCEPT ![c] = r]
  BY DEF Return
<1>3. r \in Answers
  BY DEF Reading, Answers
<1> HIDE DEF r
<1>4. answer'[c] = r /\ answer' \in [Clients -> {NoAnswer} \cup Answers]
      /\ \A x \in Clients \ {c} : answer'[x] = answer[x]
  BY <1>1, <1>2, <1>3
<1> QED  BY <1>3, <1>4 DEF r

LEMMA NextIndexType ==
    ASSUME TypeOK
    PROVE  Memory!NextIndex \in Nat
<1>1. DOMAIN blobs = 1..Len(blobs) /\ Len(blobs) \in Nat
  BY DEF TypeOK
<1>2. IsFiniteSet(DOMAIN blobs)
  BY <1>1, FS_Interval
<1>3. IsFiniteSet({i \in DOMAIN blobs : blobs[i].height = height})
  BY <1>2, FS_Subset
<1>4. Cardinality({i \in DOMAIN blobs : blobs[i].height = height}) \in Nat
  BY <1>3, FS_CardinalityType
<1> QED  BY <1>4 DEF Memory!NextIndex, Memory!Cardinality, Cardinality

-----------------------------------------------------------------------------
LEMMA InitDAInv == Init => DAInv
<1> SUFFICES ASSUME Init PROVE DAInv  OBVIOUS
<1>1. TypeOK
  BY DAAssumption DEF Init, TypeOK, Memory!MemoryInit, Idle
<1>2. LockInv /\ ReadInv
  BY DEF Init, LockInv, ReadInv, Idle
<1>3. OrderInv
  BY DEF Init, OrderInv, ChainIsOrdered, Memory!MemoryInit
<1>4. AnswerInv
  BY DEF Init, AnswerInv, Memory!MemoryInit
<1> QED  BY <1>1, <1>2, <1>3, <1>4 DEF DAInv

\* Type correctness is inductive by itself.
LEMMA NextTypeOK == TypeOK /\ [Next]_vars => TypeOK'
<1> SUFFICES ASSUME TypeOK, [Next]_vars PROVE TypeOK'  OBVIOUS
<1> USE DEF TypeOK
<1>0. Memory!NextIndex \in Nat
  BY NextIndexType
<1>1. CASE UNCHANGED vars
  BY <1>1 DEF vars
<1>2. CASE Tick
  BY <1>2 DEF Tick
<1>3. CASE MakeBlock
  BY <1>3 DEF MakeBlock
<1>4. ASSUME NEW c \in Clients, ClientNext(c) PROVE TypeOK'
  <2>1. ASSUME NEW ns \in Namespaces, NEW signer \in Signers, SubmitBegins(c, ns, signer)
        PROVE  TypeOK'
    <3>1. [height |-> height, index |-> Memory!NextIndex, namespace |-> ns,
           signer |-> signer] \in Memory!ObservedBlob
      BY <1>0 DEF Memory!ObservedBlob
    <3> QED  BY <2>1, <3>1 DEF SubmitBegins, SubmitLocks
  <2>2. ASSUME NEW ns \in Namespaces, NEW signer \in Signers, Send(c, ns, signer)
        PROVE  TypeOK'
    BY <2>2 DEF Send
  <2>3. ASSUME NEW ns \in Namespaces, NEW w \in WINDOWS, RangeBegins(c, ns, w)
        PROVE  TypeOK'
    <3>1. (w[2] <= height) \in BOOLEAN
      OBVIOUS
    <3> QED  BY <2>3, <3>1 DEF RangeBegins, ReadCall
  <2>4. ASSUME NEW ns \in Namespaces, NEW w \in WINDOWS, ReadBegins(c, ns, w)
        PROVE  TypeOK'
    BY <2>4, WindowType DEF ReadBegins, ReadCall, head_height
  <2>5. CASE SubmitAppends(c)
    <3>1. op[c].blob \in Memory!ObservedBlob
      BY <2>5, OpCases DEF SubmitAppends, Submitting
    <3> QED  BY <2>5, <3>1 DEF SubmitAppends
  <2>6. CASE RangeStep(c)
    <3>1. op[c] \in Reading
      BY <2>6, OpCases DEF RangeStep
    <3>2. Memory!Window({op[c].next}, op[c].namespace, op[c].window) \in SUBSET Nat
      BY <3>1 DEF Reading, Memory!Window
    <3> QED  BY <2>6, <3>1, <3>2, CollectStep DEF RangeStep, Submitting, Reading
  <2>7. CASE RangeReturns(c)
    <3>1. op[c] \in Reading /\ Return(c)
      BY <2>7, OpCases DEF RangeReturns
    <3> QED  BY <2>7, <3>1, ReturnType DEF Return, Answers
  <2>8. CASE GetAll(c)
    <3>1. op[c] \in Reading
      BY <2>8, OpCases DEF GetAll
    <3>2. Memory!Window(DOMAIN blobs, op[c].namespace, <<op[c].next, op[c].next + 1>>)
             \in SUBSET Nat
      BY <3>1 DEF Reading, Memory!Window
    <3> QED  BY <2>8, <3>1, <3>2, CollectStep DEF GetAll, Submitting, Reading
  <2>9. CASE GetAllRaises(c)
    BY <2>9 DEF GetAllRaises
  <2>10. CASE ReadReturns(c)
    <3>1. op[c] \in Reading /\ Return(c)
      BY <2>10, OpCases DEF ReadReturns
    <3> QED  BY <2>10, <3>1, ReturnType DEF Return, Answers
  <2>11. ASSUME NEW ns \in Namespaces, Include(c, ns) PROVE TypeOK'
    <3>1. NodeAddress[c] \in Signers
      BY DAAssumption
    <3>2. [height |-> height, index |-> Memory!NextIndex, namespace |-> ns,
           signer |-> NodeAddress[c]] \in Memory!ObservedBlob
      BY <1>0, <3>1 DEF Memory!ObservedBlob
    <3>3. mempool'  \in [Clients \X Namespaces -> Nat]
      BY <2>11 DEF Include
    <3> QED  BY <2>11, <3>2, <3>3 DEF Include
  <2> QED
    BY <1>4, <2>1, <2>2, <2>3, <2>4, <2>5, <2>6, <2>7, <2>8, <2>9, <2>10, <2>11
    DEF ClientNext
<1> QED  BY <1>1, <1>2, <1>3, <1>4 DEF Next

-----------------------------------------------------------------------------
(***************************************************************************)
(* Every step ticks, appends one blob at the height and index of the moment, *)
(* changes one client's call, or answers it.                                 *)
(***************************************************************************)
Ticks ==
    /\ height' = height + 1
    /\ mock => lock = Nobody
    /\ UNCHANGED <<config, blobs, answer, lock, op>>

Appends(ns, signer) ==
    /\ blobs' = Append(blobs, [height |-> height, index |-> Memory!NextIndex,
                               namespace |-> ns, signer |-> signer])
    /\ \/ ~mock /\ UNCHANGED <<lock, op>>
       \/ \E c \in Clients : op[c].pc = "submitting" /\ op' = [op EXCEPT ![c] = Idle]
    /\ UNCHANGED <<config, height, answer>>

\* A call begins, goes on or raises.
Calls(c) ==
    /\ \A x \in Clients \ {c} : op'[x] = op[x]
    /\ lock' = lock \/ op'[c].pc = "submitting"
    /\ op'[c].pc = "submitting" =>
          /\ mock /\ lock = Nobody /\ lock' = c
          /\ op'[c].blob.height = height /\ op'[c].blob.index = Memory!NextIndex
    /\ op'[c].pc = "reading" =>
          \/ \E ns \in Namespaces, w \in WINDOWS :
                RangeBegins(c, ns, w) \/ ReadBegins(c, ns, w)
          \/ RangeStep(c) \/ GetAll(c)
    /\ UNCHANGED <<config, height, blobs, answer>>

Returns(c) == (RangeReturns(c) \/ ReadReturns(c)) /\ Return(c)

LEMMA Steps ==
    ASSUME TypeOK, LockInv, [Next]_vars
    PROVE  \/ Ticks
           \/ \E ns \in Namespaces, signer \in Signers : Appends(ns, signer)
           \/ \E c \in Clients : Calls(c) \/ Returns(c)
           \/ UNCHANGED <<config, height, blobs, answer, lock, op>>
<1>0. op \in [Clients -> {Idle} \cup Submitting \cup Reading]
  BY DEF TypeOK, Submitting, Reading
<1>1. CASE UNCHANGED vars
  BY <1>1 DEF vars
<1>2. CASE Tick
  BY <1>2 DEF Tick, Ticks
<1>3. CASE MakeBlock
  <2>1. ~mock
    BY <1>3 DEF MakeBlock, celestia, mock
  <2> QED  BY <1>3, <2>1 DEF MakeBlock, Ticks
<1>4. ASSUME NEW c \in Clients, NEW ns \in Namespaces, NEW signer \in Signers,
             SubmitBegins(c, ns, signer)
      PROVE  Calls(c)
  <2> DEFINE r == [pc |-> "submitting",
           blob |-> [height |-> height, index |-> Memory!NextIndex,
                     namespace |-> ns, signer |-> signer]]
  <2>1. op' = [op EXCEPT ![c] = r]
    BY <1>4 DEF SubmitBegins
  <2>2. op'[c] = r /\ \A x \in Clients \ {c} : op'[x] = op[x]
    BY <1>0, <2>1
  <2>3. /\ op'[c].pc = "submitting"
        /\ op'[c].blob.height = height /\ op'[c].blob.index = Memory!NextIndex
    BY <2>2
  <2> HIDE DEF r
  <2> QED  BY <1>4, <2>2, <2>3 DEF SubmitBegins, SubmitLocks, Calls
<1>5. ASSUME NEW c \in Clients, NEW ns \in Namespaces, NEW signer \in Signers,
             Send(c, ns, signer)
      PROVE  UNCHANGED <<config, height, blobs, answer, lock, op>>
  BY <1>5 DEF Send
<1>6. ASSUME NEW c \in Clients, NEW ns \in Namespaces, NEW w \in WINDOWS,
             RangeBegins(c, ns, w) \/ ReadBegins(c, ns, w)
      PROVE  Calls(c)
  <2>1. op'[c].pc = "reading" /\ \A x \in Clients \ {c} : op'[x] = op[x]
    BY <1>0, <1>6 DEF RangeBegins, ReadBegins, ReadCall
  <2>2. UNCHANGED <<config, height, blobs, answer, lock>>
    BY <1>6 DEF RangeBegins, ReadBegins
  <2> QED  BY <1>6, <2>1, <2>2 DEF Calls
<1>7. ASSUME NEW c \in Clients, SubmitAppends(c)
      PROVE  \E ns \in Namespaces, signer \in Signers : Appends(ns, signer)
  <2>1. op[c].pc = "submitting" /\ op[c] \in Submitting
    BY <1>7, OpCases DEF SubmitAppends
  <2>2. op[c].blob \in Memory!ObservedBlob
    BY <2>1 DEF Submitting
  <2>3. op[c].blob.height = height /\ op[c].blob.index = Memory!NextIndex
    BY <2>1 DEF LockInv
  <2>4. /\ op[c].blob.namespace \in Namespaces /\ op[c].blob.signer \in Signers
        /\ op[c].blob = [height |-> height, index |-> Memory!NextIndex,
                         namespace |-> op[c].blob.namespace,
                         signer |-> op[c].blob.signer]
    BY <2>2, <2>3 DEF Memory!ObservedBlob
  <2>5. Appends(op[c].blob.namespace, op[c].blob.signer)
    BY <1>7, <2>1, <2>4 DEF SubmitAppends, Appends
  <2> QED  BY <2>4, <2>5
<1>8. ASSUME NEW c \in Clients, RangeStep(c) \/ GetAll(c)
      PROVE  Calls(c)
  <2>1. \E S : op' = [op EXCEPT ![c] = ReadCall(op[c].namespace, op[c].window,
                             op[c].over, op[c].next + 1, op[c].out \cup S)]
    BY <1>8 DEF RangeStep, GetAll, Collect
  <2>2. op'[c].pc = "reading" /\ \A x \in Clients \ {c} : op'[x] = op[x]
    BY <1>0, <2>1 DEF ReadCall
  <2>3. UNCHANGED <<config, height, blobs, answer, lock>>
    BY <1>8 DEF RangeStep, GetAll
  <2> QED  BY <1>8, <2>2, <2>3 DEF Calls
<1>9. ASSUME NEW c \in Clients, GetAllRaises(c)
      PROVE  Calls(c)
  <2>1. op'[c].pc = "idle" /\ \A x \in Clients \ {c} : op'[x] = op[x]
    BY <1>0, <1>9 DEF GetAllRaises, Idle
  <2> QED  BY <1>9, <2>1 DEF GetAllRaises, Calls
<1>10. ASSUME NEW c \in Clients, RangeReturns(c) \/ ReadReturns(c)
       PROVE  Returns(c)
  BY <1>10 DEF RangeReturns, ReadReturns, Returns
<1>11. ASSUME NEW c \in Clients, NEW ns \in Namespaces, Include(c, ns)
       PROVE  \E signer \in Signers : Appends(ns, signer)
  <2>1. NodeAddress[c] \in Signers
    BY DAAssumption
  <2>2. ~mock
    BY <1>11 DEF Include, celestia, mock
  <2>3. Appends(ns, NodeAddress[c])
    BY <1>11, <2>2 DEF Include, Appends
  <2> QED  BY <2>1, <2>3
<1> QED
  BY <1>1, <1>2, <1>3, <1>4, <1>5, <1>6, <1>7, <1>8, <1>9, <1>10, <1>11
  DEF Next, ClientNext

-----------------------------------------------------------------------------
(***************************************************************************)
(* The log.                                                                 *)
(***************************************************************************)
LEMMA LogDomain ==
    ASSUME TypeOK
    PROVE  /\ DOMAIN blobs = 1..Len(blobs) /\ Len(blobs) \in Nat
           /\ \A i \in DOMAIN blobs : blobs[i].height \in Nat /\ blobs[i].index \in Nat
<1>1. DOMAIN blobs = 1..Len(blobs) /\ Len(blobs) \in Nat
  BY DEF TypeOK
<1>2. \A i \in DOMAIN blobs : blobs[i] \in Memory!ObservedBlob
  BY DEF TypeOK
<1> QED  BY <1>1, <1>2 DEF Memory!ObservedBlob

LEMMA Appended ==
    ASSUME TypeOK, NEW ns, NEW signer, Appends(ns, signer)
    PROVE  /\ DOMAIN blobs' = DOMAIN blobs \cup {Len(blobs) + 1}
           /\ Len(blobs') = Len(blobs) + 1
           /\ \A i \in DOMAIN blobs : blobs'[i] = blobs[i]
           /\ blobs'[Len(blobs) + 1].height = height
           /\ blobs'[Len(blobs) + 1].index = Memory!NextIndex
<1> DEFINE b == [height |-> height, index |-> Memory!NextIndex,
                 namespace |-> ns, signer |-> signer]
<1>1. blobs' = Append(blobs, b)
  BY DEF Appends
<1>2. b.height = height /\ b.index = Memory!NextIndex
  OBVIOUS
<1> HIDE DEF b
<1>3. /\ Len(blobs') = Len(blobs) + 1 /\ Len(blobs) \in Nat
      /\ \A i \in 1..Len(blobs) : blobs'[i] = blobs[i]
      /\ blobs'[Len(blobs) + 1] = b
  BY <1>1 DEF TypeOK
<1>4. DOMAIN blobs' = 1..Len(blobs') /\ DOMAIN blobs = 1..Len(blobs)
  BY <1>1 DEF TypeOK
<1> QED  BY <1>2, <1>3, <1>4

\* The number of blobs at a height, which grows by one.
LEMMA NextIndexGrows ==
    ASSUME TypeOK, NEW ns, NEW signer, Appends(ns, signer)
    PROVE  (Memory!NextIndex)' = Memory!NextIndex + 1
<1> DEFINE At == {i \in DOMAIN blobs : blobs[i].height = height}
<1>1. height' = height /\ Len(blobs) \in Nat /\ DOMAIN blobs = 1..Len(blobs)
  BY LogDomain DEF Appends
<1>2. At' = At \cup {Len(blobs) + 1}
  BY <1>1, Appended
<1>3. IsFiniteSet(At)
  <2>1. IsFiniteSet(DOMAIN blobs)
    BY <1>1, FS_Interval
  <2> QED  BY <2>1, FS_Subset
<1>4. Len(blobs) + 1 \notin At
  BY <1>1
<1>5. Cardinality(At') = Cardinality(At) + 1
  BY <1>2, <1>3, <1>4, FS_AddElement
<1> QED  BY <1>5 DEF Memory!NextIndex, Memory!Cardinality, Cardinality

\* What is written lands at or after the end of every window that is over.
LEMMA ClosedWindow ==
    ASSUME TypeOK, NEW ns, NEW signer, Appends(ns, signer),
           NEW ms, NEW w, w[2] \in Int, w[1] \in Int,
           w[2] <= height \/ w[2] <= w[1]
    PROVE  Memory!Window(DOMAIN blobs, ms, w)' = Memory!Window(DOMAIN blobs, ms, w)
<1>1. /\ \A i \in DOMAIN blobs : blobs'[i] = blobs[i]
      /\ DOMAIN blobs' = DOMAIN blobs \cup {Len(blobs) + 1}
      /\ blobs'[Len(blobs) + 1].height = height
      /\ height \in Nat
  BY Appended DEF TypeOK
<1> QED  BY <1>1 DEF Memory!Window

-----------------------------------------------------------------------------
LEMMA NextLockInv == TypeOK /\ LockInv /\ [Next]_vars => LockInv'
<1> SUFFICES ASSUME TypeOK, LockInv, [Next]_vars,
                    NEW x \in Clients, op'[x].pc = "submitting"
             PROVE  /\ mock' /\ lock' = x
                    /\ op'[x].blob.height = height'
                    /\ op'[x].blob.index = (Memory!NextIndex)'
  BY DEF LockInv
<1>0. op \in [Clients -> {Idle} \cup Submitting \cup Reading]
  BY DEF TypeOK, Submitting, Reading
<1>1. CASE Ticks
  <2>1. op'[x] = op[x] /\ (mock => lock = Nobody)
    BY <1>1 DEF Ticks
  <2>2. mock /\ lock = x
    BY <1>1, <2>1 DEF LockInv, Ticks
  <2> QED  BY <1>1, <2>2, DAAssumption DEF Ticks
<1>2. ASSUME NEW ns \in Namespaces, NEW signer \in Signers, Appends(ns, signer)
      PROVE  FALSE
  <2>1. CASE ~mock /\ UNCHANGED <<lock, op>>
    BY <2>1 DEF LockInv
  <2>2. ASSUME NEW c \in Clients, op[c].pc = "submitting", op' = [op EXCEPT ![c] = Idle]
        PROVE  FALSE
    <3>1. op'[c].pc = "idle" /\ \A y \in Clients \ {c} : op'[y] = op[y]
      BY <1>0, <2>2 DEF Idle
    <3>2. x # c /\ op[x].pc = "submitting"
      BY <3>1
    <3> QED  BY <2>2, <3>2 DEF LockInv
  <2> QED  BY <1>2, <2>1, <2>2 DEF Appends
<1>3. ASSUME NEW c \in Clients, Calls(c)
      PROVE  /\ mock' /\ lock' = x
             /\ op'[x].blob.height = height'
             /\ op'[x].blob.index = (Memory!NextIndex)'
  <2>1. UNCHANGED <<config, height, blobs>>
    BY <1>3 DEF Calls
  <2>2. mock' = mock /\ (Memory!NextIndex)' = Memory!NextIndex
    BY <2>1 DEF mock, Memory!NextIndex
  <2>3. CASE x = c
    BY <1>3, <2>1, <2>2, <2>3 DEF Calls
  <2>4. CASE x # c
    <3>1. op'[x] = op[x]
      BY <1>3, <2>4 DEF Calls
    <3>2. mock /\ lock = x /\ op[x].blob.height = height
          /\ op[x].blob.index = Memory!NextIndex
      BY <3>1 DEF LockInv
    <3>3. lock' = lock
      BY <1>3, <3>2, DAAssumption DEF Calls
    <3> QED  BY <2>1, <2>2, <3>1, <3>2, <3>3
  <2> QED  BY <2>3, <2>4
<1>4. ASSUME NEW c \in Clients, Returns(c)
      PROVE  /\ mock' /\ lock' = x
             /\ op'[x].blob.height = height'
             /\ op'[x].blob.index = (Memory!NextIndex)'
  <2>1. op'[c].pc = "idle" /\ \A y \in Clients \ {c} : op'[y] = op[y]
    BY <1>0, <1>4 DEF Returns, Return, Idle
  <2>2. op'[x] = op[x] /\ UNCHANGED <<config, height, blobs, lock>>
    BY <1>4, <2>1 DEF Returns, Return
  <2> QED  BY <2>2 DEF LockInv, mock, Memory!NextIndex
<1>5. CASE UNCHANGED <<config, height, blobs, answer, lock, op>>
  BY <1>5 DEF LockInv, mock, Memory!NextIndex
<1> QED  BY <1>1, <1>2, <1>3, <1>4, <1>5, Steps

LEMMA NextOrderInv == TypeOK /\ LockInv /\ OrderInv /\ [Next]_vars => OrderInv'
<1> SUFFICES ASSUME TypeOK, LockInv, OrderInv, [Next]_vars PROVE OrderInv'
  OBVIOUS
<1>0. height \in Nat /\ Memory!NextIndex \in Nat
  BY NextIndexType DEF TypeOK
<1>1. CASE Ticks
  <2>1. height' = height + 1 /\ blobs' = blobs
    BY <1>1 DEF Ticks
  <2>2. \A i \in DOMAIN blobs : blobs[i].height <= height /\ blobs[i].height \in Nat
    BY LogDomain DEF OrderInv
  <2> QED  BY <1>0, <2>1, <2>2 DEF OrderInv, ChainIsOrdered
<1>2. ASSUME NEW ns \in Namespaces, NEW signer \in Signers, Appends(ns, signer)
      PROVE  OrderInv'
  <2> DEFINE n == Len(blobs) + 1
  <2>1. /\ DOMAIN blobs' = DOMAIN blobs \cup {n}
        /\ \A i \in DOMAIN blobs : blobs'[i] = blobs[i]
        /\ blobs'[n].height = height /\ blobs'[n].index = Memory!NextIndex
        /\ height' = height
    BY <1>2, Appended DEF Appends
  <2>2. (Memory!NextIndex)' = Memory!NextIndex + 1
    BY <1>2, NextIndexGrows
  <2>3. DOMAIN blobs = 1..Len(blobs) /\ Len(blobs) \in Nat
    BY LogDomain
  <2>4. \A i \in DOMAIN blobs :
           /\ blobs[i].height \in Nat /\ blobs[i].index \in Nat
           /\ blobs[i].height <= height
           /\ blobs[i].height = height => blobs[i].index < Memory!NextIndex
    BY LogDomain DEF OrderInv
  <2> HIDE DEF n
  <2>5. \A i \in DOMAIN blobs' :
           /\ blobs'[i].height <= height'
           /\ blobs'[i].height = height' => blobs'[i].index < (Memory!NextIndex)'
    BY <1>0, <2>1, <2>2, <2>4
  <2>6. ASSUME NEW i \in DOMAIN blobs', NEW j \in DOMAIN blobs', i < j
        PROVE  \/ blobs'[i].height < blobs'[j].height
               \/ blobs'[i].height = blobs'[j].height /\ blobs'[i].index < blobs'[j].index
    <3>1. i \in DOMAIN blobs
      BY <2>1, <2>3, <2>6 DEF n
    <3>2. CASE j \in DOMAIN blobs
      <4>1. blobs'[i] = blobs[i] /\ blobs'[j] = blobs[j]
        BY <2>1, <3>1, <3>2
      <4> QED  BY <2>6, <3>1, <3>2, <4>1 DEF OrderInv, ChainIsOrdered
    <3>3. CASE j = n
      <4>1. blobs'[i] = blobs[i]
        BY <2>1, <3>1
      <4> QED  BY <1>0, <2>1, <2>4, <3>1, <3>3, <4>1
    <3> QED  BY <2>1, <3>2, <3>3
  <2>7. ChainIsOrdered'
    BY <2>6 DEF ChainIsOrdered
  <2> QED  BY <2>5, <2>7 DEF OrderInv
<1>3. CASE UNCHANGED <<height, blobs>>
  BY <1>3 DEF OrderInv, ChainIsOrdered, Memory!NextIndex
<1> QED  BY <1>1, <1>2, <1>3, Steps DEF Calls, Returns, Return

LEMMA NextReadInv == DAInv /\ [Next]_vars => ReadInv'
<1> SUFFICES ASSUME DAInv, [Next]_vars, NEW x \in Clients, op'[x].pc = "reading"
             PROVE  ReadOK(op[x])'
  BY DEF ReadInv
<1> USE DEF DAInv
<1>0. /\ op \in [Clients -> {Idle} \cup Submitting \cup Reading]
      /\ height \in Nat /\ DOMAIN blobs = 1..Len(blobs) /\ Len(blobs) \in Nat
      /\ \A i \in DOMAIN blobs : blobs[i].height \in Nat /\ blobs[i].height <= height
  BY LogDomain DEF TypeOK, Submitting, Reading, OrderInv
\* A read that is not touched, while the clock ticks or a blob is appended.
<1>1. ASSUME op'[x] = op[x], config' = config,
             \/ Ticks
             \/ \E ns \in Namespaces, signer \in Signers : Appends(ns, signer)
             \/ UNCHANGED <<height, blobs>>
      PROVE  ReadOK(op[x])'
  <2>1. op[x] \in Reading /\ ReadOK(op[x])
    BY <1>1, OpCases DEF ReadInv
  <2>2. op[x].next \in Nat /\ op[x].window \in WINDOWS /\ op[x].over \in BOOLEAN
    BY <2>1 DEF Reading
  <2>3. op[x].window[1] \in Nat /\ op[x].window[2] \in Nat
    BY <2>2, WindowType
  <2>4. height' = height \/ height' = height + 1
    BY <1>1 DEF Ticks, Appends
  <2>a. height' \in Nat /\ height <= height'
    BY <1>0, <2>4
  <2>b. mock' = mock
    BY <1>1 DEF mock
  <2>5. /\ Len(blobs') \in Nat /\ Len(blobs) <= Len(blobs')
        /\ \A i \in DOMAIN blobs : i \in DOMAIN blobs' /\ blobs'[i] = blobs[i]
        /\ \A i \in DOMAIN blobs' : i \in DOMAIN blobs \/ blobs'[i].height = height
    BY <1>0, <1>1, Appended DEF Ticks
  <2>d. op[x].over => op[x].window[2] <= height'
    BY <1>0, <2>1, <2>3, <2>a DEF ReadOK
  <2>6. CASE mock
    <3>1. 1..(op[x].next - 1) \subseteq DOMAIN blobs
      BY <1>0, <2>1, <2>6 DEF ReadOK
    <3>2. Memory!Window(1..(op[x].next - 1), op[x].namespace, op[x].window)'
            = Memory!Window(1..(op[x].next - 1), op[x].namespace, op[x].window)
      BY <1>1, <2>5, <3>1 DEF Memory!Window
    <3>3. op[x].out = SoFar(op[x])'
      BY <1>1, <2>1, <2>6, <2>b, <3>2 DEF SoFar, ReadOK
    <3>4. op[x].next \in 1..(Len(blobs') + 1)
      BY <1>0, <2>1, <2>5, <2>6 DEF ReadOK
    <3> QED  BY <1>1, <2>6, <2>b, <2>d, <3>3, <3>4 DEF ReadOK
  <2>7. CASE ~mock
    <3>1. /\ op[x].window[1] <= op[x].next
          /\ op[x].next # op[x].window[1] =>
                op[x].next <= height /\ op[x].next <= op[x].window[2]
      BY <2>1, <2>7 DEF ReadOK
    <3>2. Memory!Window(DOMAIN blobs, op[x].namespace, <<op[x].window[1], op[x].next>>)'
            = Memory!Window(DOMAIN blobs, op[x].namespace, <<op[x].window[1], op[x].next>>)
      BY <1>0, <1>1, <2>2, <2>3, <2>5, <3>1 DEF Memory!Window
    <3>3. op[x].out = SoFar(op[x])'
      BY <1>1, <2>1, <2>7, <2>b, <3>2 DEF SoFar, ReadOK
    <3>4. op[x].next # op[x].window[1] =>
            op[x].next <= height' /\ op[x].next <= op[x].window[2]
      BY <1>0, <2>2, <2>a, <3>1
    <3> QED  BY <1>1, <2>7, <2>b, <2>d, <3>1, <3>3, <3>4 DEF ReadOK
  <2> QED  BY <2>6, <2>7
\* Two that belong to clients other than the one that moves.
<1>2. ASSUME NEW c \in Clients, Calls(c) \/ Returns(c), x # c
      PROVE  op'[x] = op[x] /\ UNCHANGED <<config, height, blobs>>
  BY <1>0, <1>2 DEF Calls, Returns, Return
<1>3. ASSUME NEW ns \in Namespaces, NEW w \in WINDOWS, RangeBegins(x, ns, w)
      PROVE  ReadOK(op[x])'
  <2>1. /\ op'[x] = ReadCall(ns, w, w[2] <= height, 1, {})
        /\ mock' /\ UNCHANGED <<height, blobs>>
    BY <1>0, <1>3 DEF RangeBegins, mock
  <2>2. op'[x].over = (w[2] <= height) /\ op'[x].window = w
    BY <2>1 DEF ReadCall
  <2>3. op'[x].next = 1 /\ op'[x].out = {}
    BY <2>1 DEF ReadCall
  <2>4. SoFar(op[x])' = {}
    BY <2>1, <2>3 DEF SoFar, Memory!Window
  <2>5. 1 \in 1..(Len(blobs') + 1)
    BY <1>0, <2>1
  <2> QED  BY <2>1, <2>2, <2>3, <2>4, <2>5 DEF ReadOK
<1>4. ASSUME NEW ns \in Namespaces, NEW w \in WINDOWS, ReadBegins(x, ns, w)
      PROVE  ReadOK(op[x])'
  <2>1. /\ op'[x] = ReadCall(ns, w, w[2] <= head_height, w[1], {})
        /\ ~mock' /\ UNCHANGED <<height, blobs>>
    BY <1>0, <1>4 DEF ReadBegins, mock, celestia
  <2>2. op'[x].over = (w[2] <= head_height) /\ op'[x].window = w
    BY <2>1 DEF ReadCall
  <2>3. op'[x].next = w[1] /\ op'[x].out = {}
    BY <2>1 DEF ReadCall
  <2>4. w[1] \in Nat /\ w[2] \in Nat
    BY WindowType
  <2>5. SoFar(op[x])' = {}
    BY <1>0, <2>1, <2>2, <2>3, <2>4 DEF SoFar, Memory!Window
  <2>6. (w[2] <= head_height) => w[2] <= height'
    BY <1>0, <2>1, <2>4 DEF head_height
  <2>7. w[1] <= op'[x].next
    BY <2>3, <2>4
  <2> QED  BY <2>1, <2>2, <2>3, <2>5, <2>6, <2>7 DEF ReadOK
<1>5. CASE RangeStep(x)
  <2>1. op[x].pc = "reading" /\ op[x] \in Reading /\ mock
    BY <1>5, OpCases DEF RangeStep
  <2>2. /\ op[x].over => op[x].window[2] <= height
        /\ op[x].out = Memory!Window(1..(op[x].next - 1), op[x].namespace, op[x].window)
        /\ op[x].next \in 1..Len(blobs)
    BY <1>0, <1>5, <2>1 DEF ReadInv, ReadOK, SoFar, RangeStep
  <2>3. Memory!Window({op[x].next}, op[x].namespace, op[x].window) \in SUBSET Nat
    BY <1>0, <2>2 DEF Memory!Window
  <2>4. /\ op'[x].namespace = op[x].namespace /\ op'[x].window = op[x].window
        /\ op'[x].over = op[x].over /\ op'[x].next = op[x].next + 1
        /\ op'[x].out = op[x].out
             \cup Memory!Window({op[x].next}, op[x].namespace, op[x].window)
    BY <1>5, <2>1, <2>3, CollectStep DEF RangeStep
  <2>5. UNCHANGED <<config, height, blobs>> /\ mock'
    BY <1>5, <2>1 DEF RangeStep, mock
  <2>6. 1..(op'[x].next - 1) = 1..(op[x].next - 1) \cup {op[x].next}
    BY <1>0, <2>2, <2>4
  <2>7. op'[x].out = SoFar(op[x])'
    BY <2>2, <2>4, <2>5, <2>6 DEF SoFar, Memory!Window
  <2>8. op'[x].next \in 1..(Len(blobs') + 1)
    BY <1>0, <2>2, <2>4, <2>5
  <2>9. op'[x].over => op'[x].window[2] <= height'
    BY <2>2, <2>4, <2>5
  <2> QED  BY <2>5, <2>7, <2>8, <2>9 DEF ReadOK
<1>6. CASE GetAll(x)
  <2>1. op[x].pc = "reading" /\ op[x] \in Reading /\ ~mock
    BY <1>6, OpCases DEF GetAll, mock, celestia
  <2>2. op[x].window \in WINDOWS /\ op[x].next \in Nat
    BY <2>1 DEF Reading
  <2>3. op[x].window[1] \in Nat /\ op[x].window[2] \in Nat
    BY <2>2, WindowType
  <2>4. /\ op[x].over => op[x].window[2] <= height
        /\ op[x].out = Memory!Window(DOMAIN blobs, op[x].namespace,
                                    <<op[x].window[1], op[x].next>>)
        /\ op[x].next < op[x].window[2] /\ op[x].next + 1 <= height
        /\ op[x].window[1] <= op[x].next
    <3>1. op[x].next < op[x].window[2] /\ op[x].next <= height - 1
      BY <1>6 DEF GetAll, NodeHas, head_height
    <3>2. ReadOK(op[x])
      BY <2>1 DEF ReadInv
    <3> QED  BY <1>0, <2>1, <2>2, <2>3, <3>1, <3>2 DEF ReadOK, SoFar
  <2>5. Memory!Window(DOMAIN blobs, op[x].namespace, <<op[x].next, op[x].next + 1>>)
          \in SUBSET Nat
    BY <1>0 DEF Memory!Window
  <2>6. /\ op'[x].namespace = op[x].namespace /\ op'[x].window = op[x].window
        /\ op'[x].over = op[x].over /\ op'[x].next = op[x].next + 1
        /\ op'[x].out = op[x].out \cup Memory!Window(DOMAIN blobs, op[x].namespace,
                                            <<op[x].next, op[x].next + 1>>)
    BY <1>6, <2>1, <2>5, CollectStep DEF GetAll
  <2>7. UNCHANGED <<config, height, blobs>> /\ ~mock'
    BY <1>6, <2>1 DEF GetAll, mock
  <2>8. op'[x].out = SoFar(op[x])'
    BY <1>0, <2>2, <2>3, <2>4, <2>6, <2>7 DEF SoFar, Memory!Window
  <2>9. op'[x].window[1] <= op'[x].next /\ op'[x].next <= height'
        /\ op'[x].next <= op'[x].window[2]
    BY <1>0, <2>2, <2>3, <2>4, <2>6, <2>7
  <2> QED  BY <2>4, <2>6, <2>7, <2>8, <2>9 DEF ReadOK
<1>7. ASSUME NEW c \in Clients, Returns(c) PROVE x # c
  BY <1>0, <1>7 DEF Returns, Return, Idle
<1>8. CASE \E c \in Clients : Calls(c) \/ Returns(c)
  <2>1. PICK c \in Clients : Calls(c) \/ Returns(c)
    BY <1>8
  <2>2. CASE x # c
    BY <1>1, <1>2, <2>1, <2>2
  <2>3. CASE x = c
    BY <1>3, <1>4, <1>5, <1>6, <1>7, <2>1, <2>3 DEF Calls
  <2> QED  BY <2>2, <2>3
<1>9. CASE Ticks \/ UNCHANGED <<config, height, blobs, answer, lock, op>>
  BY <1>1, <1>9 DEF Ticks
<1>10. ASSUME NEW ns \in Namespaces, NEW signer \in Signers, Appends(ns, signer)
       PROVE  op'[x] = op[x] /\ config' = config
  BY <1>0, <1>10 DEF Appends, Idle
<1> QED  BY <1>1, <1>8, <1>9, <1>10, Steps

\* When a read returns it has every blob that is in its window at that moment.
LEMMA ReturnsWhole ==
    ASSUME DAInv, NEW c \in Clients, Returns(c)
    PROVE  /\ op[c] \in Reading
           /\ op[c].out = Memory!Window(DOMAIN blobs, op[c].namespace, op[c].window)
           /\ op[c].over => op[c].window[2] <= height
<1> USE DEF DAInv
<1>0. /\ DOMAIN blobs = 1..Len(blobs) /\ Len(blobs) \in Nat
      /\ \A i \in DOMAIN blobs : blobs[i].height \in Nat
  BY LogDomain
<1>1. op[c].pc = "reading" /\ op[c] \in Reading /\ ReadOK(op[c])
  BY OpCases DEF Returns, RangeReturns, ReadReturns, ReadInv
<1>2. op[c].next \in Nat /\ op[c].window \in WINDOWS
  BY <1>1 DEF Reading
<1>3. op[c].window[1] \in Nat /\ op[c].window[2] \in Nat
  BY <1>2, WindowType
<1>4. CASE mock
  <2>1. op[c].next > Len(blobs)
    BY <1>4 DEF Returns, RangeReturns, ReadReturns, mock, celestia
  <2>2. 1..(op[c].next - 1) = DOMAIN blobs
    BY <1>0, <1>1, <1>4, <2>1 DEF ReadOK
  <2>3. op[c].out = Memory!Window(1..(op[c].next - 1), op[c].namespace, op[c].window)
    BY <1>1, <1>4 DEF ReadOK, SoFar
  <2> QED  BY <1>1, <2>2, <2>3 DEF ReadOK
<1>5. CASE ~mock
  <2>1. op[c].next >= op[c].window[2]
    BY <1>5 DEF Returns, RangeReturns, ReadReturns
  <2>2. op[c].next # op[c].window[1] => op[c].next <= op[c].window[2]
    BY <1>1, <1>5 DEF ReadOK
  <2>3. op[c].out = Memory!Window(DOMAIN blobs, op[c].namespace,
                                  <<op[c].window[1], op[c].next>>)
    BY <1>1, <1>5 DEF ReadOK, SoFar
  <2>4. \A i \in DOMAIN blobs : op[c].window[1] <= blobs[i].height =>
           (blobs[i].height < op[c].next <=> blobs[i].height < op[c].window[2])
    BY <1>0, <1>2, <1>3, <2>1, <2>2
  <2>5. op[c].out = Memory!Window(DOMAIN blobs, op[c].namespace, op[c].window)
    BY <2>3, <2>4 DEF Memory!Window
  <2> QED  BY <1>1, <2>5 DEF ReadOK
<1> QED  BY <1>4, <1>5

LEMMA NextAnswerInv == DAInv /\ [Next]_vars => AnswerInv'
<1> SUFFICES ASSUME DAInv, [Next]_vars, NEW x \in Clients,
                    answer'[x] # NoAnswer, answer'[x].over
             PROVE  /\ answer'[x].window[2] <= height'
                    /\ answer'[x].blobs = Memory!Window(DOMAIN blobs,
                                    answer[x].namespace, answer[x].window)'
  BY DEF AnswerInv
<1> USE DEF DAInv
<1>0. answer \in [Clients -> {NoAnswer} \cup Answers]
  BY DEF TypeOK, Answers
\* An answer that stays: its window was over, and stays what it was.
<1>1. ASSUME answer'[x] = answer[x],
             \/ Ticks
             \/ \E ns \in Namespaces, signer \in Signers : Appends(ns, signer)
             \/ UNCHANGED <<height, blobs>>
      PROVE  /\ answer'[x].window[2] <= height'
             /\ answer'[x].blobs = Memory!Window(DOMAIN blobs,
                             answer[x].namespace, answer[x].window)'
  <2>1. /\ answer[x].window[2] <= height
        /\ answer[x].blobs = Memory!Window(DOMAIN blobs,
                                 answer[x].namespace, answer[x].window)
    BY <1>1 DEF AnswerInv
  <2>2. answer[x].window \in WINDOWS
    BY <1>0, <1>1 DEF Answers
  <2>3. answer[x].window[1] \in Nat /\ answer[x].window[2] \in Nat
    BY <2>2, WindowType
  <2>a. height' = height \/ height' = height + 1
    BY <1>1 DEF Ticks, Appends
  <2>b. height \in Nat
    BY DEF TypeOK
  <2>4. answer[x].window[2] <= height'
    BY <2>1, <2>3, <2>a, <2>b
  <2>5. Memory!Window(DOMAIN blobs, answer[x].namespace, answer[x].window)'
          = Memory!Window(DOMAIN blobs, answer[x].namespace, answer[x].window)
    <3>1. CASE \E ns \in Namespaces, signer \in Signers : Appends(ns, signer)
      <4>1. PICK ns \in Namespaces, signer \in Signers : Appends(ns, signer)
        BY <3>1
      <4>2. \A ms, w : w[1] \in Int /\ w[2] \in Int /\ w[2] <= height =>
              Memory!Window(DOMAIN blobs, ms, w)' = Memory!Window(DOMAIN blobs, ms, w)
        BY <4>1, ClosedWindow
      <4>3. answer'[x] = answer[x] /\ UNCHANGED answer
        BY <1>1, <4>1 DEF Appends
      <4> QED  BY <2>1, <2>3, <4>2, <4>3
    <3>2. CASE UNCHANGED blobs
      BY <1>1, <3>2 DEF Memory!Window
    <3> QED  BY <1>1, <3>1, <3>2 DEF Ticks
  <2> QED  BY <1>1, <2>1, <2>4, <2>5
<1>2. ASSUME NEW c \in Clients, Returns(c)
      PROVE  /\ answer'[x].window[2] <= height'
             /\ answer'[x].blobs = Memory!Window(DOMAIN blobs,
                             answer[x].namespace, answer[x].window)'
  <2>1. /\ op[c] \in Reading /\ Return(c) /\ UNCHANGED <<height, blobs>>
        /\ op[c].out = Memory!Window(DOMAIN blobs, op[c].namespace, op[c].window)
        /\ op[c].over => op[c].window[2] <= height
    BY <1>2, ReturnsWhole DEF Returns, Return
  <2>2. CASE x # c
    BY <1>1, <2>1, <2>2, ReturnType
  <2>3. CASE x = c
    <3>1. answer'[x] = [namespace |-> op[c].namespace, window |-> op[c].window,
                        over |-> op[c].over, blobs |-> op[c].out]
      BY <2>1, <2>3, ReturnType
    <3>2. /\ answer'[x].namespace = op[c].namespace /\ answer'[x].window = op[c].window
          /\ answer'[x].blobs = op[c].out /\ op[c].over
      BY <3>1
    <3>3. Memory!Window(DOMAIN blobs, answer[x].namespace, answer[x].window)'
            = Memory!Window(DOMAIN blobs, op[c].namespace, op[c].window)
      BY <2>1, <3>2 DEF Memory!Window
    <3> QED  BY <2>1, <3>2, <3>3
  <2> QED  BY <2>2, <2>3
<1> QED  BY <1>1, <1>2, Steps DEF Ticks, Appends, Calls

LEMMA NextDAInv == DAInv /\ [Next]_vars => DAInv'
BY NextTypeOK, NextLockInv, NextOrderInv, NextReadInv, NextAnswerInv DEF DAInv

LEMMA AlwaysDAInv == Spec => []DAInv
<1>1. Init => DAInv
  BY InitDAInv
<1>2. DAInv /\ [Next]_vars => DAInv'
  BY NextDAInv
<1> QED  BY <1>1, <1>2, PTL DEF Spec

-----------------------------------------------------------------------------
(***************************************************************************)
(* Results.                                                                 *)
(***************************************************************************)

\* Calls, locks and in-flight transactions keep their types.
THEOREM DATypeCorrect == Spec => []TypeOK
<1>1. DAInv => TypeOK
  BY DEF DAInv
<1> QED  BY <1>1, AlwaysDAInv, PTL

\* No two blobs share a position, and positions follow the order of writing.
THEOREM PositionsAreOrdered == Spec => []ChainIsOrdered
<1>1. DAInv => ChainIsOrdered
  BY DEF DAInv, OrderInv
<1> QED  BY <1>1, AlwaysDAInv, PTL

\* What was read of a window after it was over is final, for every backend.
THEOREM ReadsOfClosedWindowsAreFinal == Spec => []ClosedWindowsAreWhole
<1>1. DAInv => ClosedWindowsAreWhole
  BY DEF DAInv, AnswerInv, ClosedWindowsAreWhole
<1> QED  BY <1>1, AlwaysDAInv, PTL

\* A step of a backend is a step of MemoryDA or invisible to it.
LEMMA StepRefines == DAInv /\ [Next]_vars => [Memory!MemoryNext]_(Memory!memoryVars)
<1> SUFFICES ASSUME DAInv, [Next]_vars
             PROVE  Memory!MemoryNext \/ UNCHANGED <<height, blobs, answer>>
  BY DEF Memory!memoryVars
<1> USE DEF DAInv
<1>1. CASE Ticks
  <2>1. Memory!advance
    BY <1>1 DEF Ticks, Memory!advance
  <2> QED  BY <2>1 DEF Memory!MemoryNext
<1>2. ASSUME NEW ns \in Namespaces, NEW signer \in Signers, Appends(ns, signer)
      PROVE  Memory!MemoryNext
  <2>1. Memory!submit(ns, signer)
    BY <1>2 DEF Appends, Memory!submit
  <2> QED  BY <2>1 DEF Memory!MemoryNext
<1>3. ASSUME NEW c \in Clients, Returns(c)
      PROVE  Memory!MemoryNext
  <2>1. /\ op[c] \in Reading
        /\ op[c].out = Memory!Window(DOMAIN blobs, op[c].namespace, op[c].window)
        /\ op[c].over => op[c].window[2] <= height
    BY <1>3, ReturnsWhole
  <2>2. /\ op[c].namespace \in Namespaces /\ op[c].window \in WINDOWS
        /\ op[c].over \in BOOLEAN
    BY <2>1 DEF Reading
  <2>3. Memory!read(c, op[c].namespace, op[c].window, op[c].over)
    BY <1>3, <2>1 DEF Returns, Return, Memory!read
  <2> QED  BY <2>2, <2>3 DEF Memory!MemoryNext
<1>4. CASE UNCHANGED <<height, blobs, answer>>
  BY <1>4
<1> QED  BY <1>1, <1>2, <1>3, <1>4, Steps DEF Calls

\* Both backends implement the atomic open log.
THEOREM BackendsImplementMemoryDA == Spec => ImplementsMemoryDA
<1>1. Init => Memory!MemoryInit
  BY DEF Init
<1>2. DAInv /\ [Next]_vars => [Memory!MemoryNext]_(Memory!memoryVars)
  BY StepRefines
<1> QED  BY <1>1, <1>2, AlwaysDAInv, PTL DEF Spec, ImplementsMemoryDA, Memory!MemorySpec
=============================================================================
