---------------------------- MODULE Buffer_proofs ----------------------------
(***************************************************************************)
(* Theorems about Buffers of any initial size and any lengths: what each   *)
(* operation keeps, what follows for one that is appended to and retrieved *)
(* from only, the way TcpConnection uses outBuffer_, and, where one thread *)
(* reads, which bytes the buffer has.                                      *)
(***************************************************************************)
EXTENDS Buffer, TLAPS

Fields == {"data", "size", "capacity", "readIndex_", "writeIndex_"}

(* A buffer with its indices in place.                                     *)
Sound(b) ==
  /\ DOMAIN b = Fields
  /\ b.size \in Nat /\ b.capacity \in Nat
  /\ b.readIndex_ \in Int /\ b.writeIndex_ \in Int
  /\ InRange(b)

(* The move to the front frees what was read and keeps what was not.       *)
LEMMA CompactSound ==
  ASSUME NEW b, Sound(b)
  PROVE  /\ Sound(Compact(b))
         /\ ReadbleBytes(Compact(b)) = ReadbleBytes(b)
         /\ WriteableBytes(Compact(b)) = WriteableBytes(b) + b.readIndex_
BY DEF Compact, Sound, InRange, ReadbleBytes, WriteableBytes, Fields

(* Growing to writeIndex_ + len leaves the indices where they are.         *)
LEMMA ResizeSound ==
  ASSUME NEW b, Sound(b), NEW n \in Nat, n > b.capacity
  PROVE  /\ Sound(Resize(b, n))
         /\ ReadbleBytes(Resize(b, n)) = ReadbleBytes(b)
         /\ WriteableBytes(Resize(b, n)) >= n - b.writeIndex_
BY DEF Resize, NewCapacity, Sound, InRange, ReadbleBytes, WriteableBytes, Fields

(* ensureWritebale makes the room it is asked for, so append's own test    *)
(* never turns bytes away.                                                 *)
LEMMA EnsureMakesRoom ==
  ASSUME NEW b, Sound(b), NEW len \in Nat
  PROVE  /\ Sound(EnsureWritebale(b, len))
         /\ ReadbleBytes(EnsureWritebale(b, len)) = ReadbleBytes(b)
         /\ WriteableBytes(EnsureWritebale(b, len)) >= len
<1>1. WriteableBytes(b) \in Int /\ b.readIndex_ \in Int
  BY DEF Sound, WriteableBytes
<1>2. CASE len <= WriteableBytes(b)
  BY <1>1, <1>2 DEF EnsureWritebale
<1>3. CASE len > WriteableBytes(b) /\ len - WriteableBytes(b) < b.readIndex_
  <2>1. EnsureWritebale(b, len) = Compact(b)
    BY <1>1, <1>3 DEF EnsureWritebale
  <2> QED
    BY <1>1, <1>3, <2>1, CompactSound
<1>4. CASE len > WriteableBytes(b) /\ ~(len - WriteableBytes(b) < b.readIndex_)
  <2> DEFINE n == b.writeIndex_ + len
  <2>1. EnsureWritebale(b, len) = Resize(b, n)
    BY <1>1, <1>4 DEF EnsureWritebale
  <2>2. n \in Nat /\ n > b.capacity /\ n - b.writeIndex_ = len
    BY <1>4 DEF Sound, InRange, WriteableBytes
  <2> HIDE DEF n
  <2>3. /\ Sound(Resize(b, n))
        /\ ReadbleBytes(Resize(b, n)) = ReadbleBytes(b)
        /\ WriteableBytes(Resize(b, n)) >= n - b.writeIndex_
    BY <2>2, ResizeSound
  <2> QED
    BY <2>1, <2>2, <2>3, ResizeSound
<1> QED
  BY <1>1, <1>2, <1>3, <1>4

(* append adds all of its bytes.                                           *)
LEMMA AppendCounts ==
  ASSUME NEW b, Sound(b), NEW s, Len(s) \in Nat
  PROVE  /\ Sound(AppendTo(b, s))
         /\ ReadbleBytes(AppendTo(b, s)) = ReadbleBytes(b) + Len(s)
<1> DEFINE room == EnsureWritebale(b, Len(s))
<1>1. /\ Sound(room)
      /\ ReadbleBytes(room) = ReadbleBytes(b)
      /\ WriteableBytes(room) >= Len(s)
  BY EnsureMakesRoom
<1>2. AppendTo(b, s) = Store(room, s)
  BY <1>1 DEF AppendTo
<1> HIDE DEF room
<1>3. /\ Sound(Store(room, s))
      /\ ReadbleBytes(Store(room, s)) = ReadbleBytes(room) + Len(s)
  BY <1>1 DEF Store, Sound, InRange, ReadbleBytes, WriteableBytes, Fields
<1> QED
  BY <1>1, <1>2, <1>3

(* retrieve takes what it says it takes, and never more than there is.     *)
LEMMA RetrieveCounts ==
  ASSUME NEW b, Sound(b), NEW len \in Nat
  PROVE  /\ Sound(Retrieve(b, len))
         /\ Taken(b, len) \in Nat
         /\ ReadbleBytes(Retrieve(b, len)) = ReadbleBytes(b) - Taken(b, len)
BY DEF Retrieve, Taken, Sound, InRange, ReadbleBytes, Fields

-----------------------------------------------------------------------------
(* What holds of the buffers even after the indices have crossed, and of   *)
(* extrabuf: it holds at least the bytes that wait in it.                  *)

Typed(b) ==
  /\ DOMAIN b = Fields
  /\ b.size \in Nat /\ b.capacity \in Nat
  /\ b.readIndex_ \in Int /\ b.writeIndex_ \in Int

Bytes == Threads \X Int

BuffersInv ==
  /\ DOMAIN buffer = Threads
  /\ \A t \in Threads : Typed(buffer[t])
  /\ given \in [Threads -> Nat]
  /\ retrieved \in [Threads -> Int]

ExtraInv ==
  /\ waiting \in [Threads -> Nat]
  /\ extrabuf \in Seq(Bytes)
  /\ \A t \in Threads : waiting[t] <= Len(extrabuf)

BufferInv == BuffersInv /\ ExtraInv

LEMMA SoundWhenInRange ==
  ASSUME NEW b
  PROVE  Sound(b) <=> Typed(b) /\ InRange(b)
BY DEF Sound, Typed

(* The bytes given next, as a sequence.                                    *)
LEMMA NextBytesSeq ==
  ASSUME BufferInv, NEW t \in Threads, NEW skip \in Nat, NEW n \in Nat
  PROVE  /\ NextBytes(t, skip, n) \in Seq(Bytes)
         /\ Len(NextBytes(t, skip, n)) = n
BY DEF BufferInv, BuffersInv, ExtraInv, NextBytes, Bytes

(* Bytes that fit are stored; readFd that fills the vector to its capacity *)
(* ends at its size.                                                       *)
LEMMA StoreCounts ==
  ASSUME NEW b, Sound(b), NEW s, Len(s) \in Nat, Len(s) <= WriteableBytes(b)
  PROVE  /\ Sound(Store(b, s))
         /\ ReadbleBytes(Store(b, s)) = ReadbleBytes(b) + Len(s)
BY DEF Store, Sound, InRange, ReadbleBytes, WriteableBytes, Fields

LEMMA FillUpCounts ==
  ASSUME NEW b, Sound(b), NEW s, Len(s) = WriteableBytes(b)
  PROVE  /\ Typed(FillUp(b, s))
         /\ b.size = b.capacity =>
              /\ InRange(FillUp(b, s))
              /\ ReadbleBytes(FillUp(b, s)) = ReadbleBytes(b) + Len(s)
BY DEF FillUp, Store, Sound, Typed, InRange, ReadbleBytes, WriteableBytes, Fields

(* What CountsKept says of one buffer.                                     *)
Kept(t) ==
  /\ InRange(buffer[t]) /\ Counted(t)
  /\ waiting'[t] > waiting[t] => buffer[t].size = buffer[t].capacity
  => InRange(buffer'[t]) /\ Counted(t)'

(* A step that makes b of the buffer of thread t, gives it g bytes and     *)
(* takes r of them, and keeps count of them.                               *)
Changes(t, b, g, r) ==
  /\ buffer' = [buffer EXCEPT ![t] = b]
  /\ given' = [given EXCEPT ![t] = @ + g]
  /\ retrieved' = [retrieved EXCEPT ![t] = @ + r]

Counts(t, b, g, r) ==
  (waiting'[t] > waiting[t] => buffer[t].size = buffer[t].capacity) =>
     InRange(b) /\ ReadbleBytes(b) = ReadbleBytes(buffer[t]) + g - r

LEMMA OneBufferChanges ==
  ASSUME BufferInv, NEW t \in Threads, NEW b, NEW g \in Nat, NEW r \in Nat,
         Typed(b), Changes(t, b, g, r), Counts(t, b, g, r)
  PROVE  BuffersInv' /\ \A s \in Threads : Kept(s)
<1> USE DEF Changes, Counts
<1>1. \A s \in Threads : given[s] \in Nat /\ retrieved[s] \in Int
  BY DEF BufferInv, BuffersInv, ExtraInv
<1>2. /\ DOMAIN buffer' = Threads
      /\ \A s \in Threads : Typed(buffer'[s])
  BY DEF BufferInv, BuffersInv, ExtraInv
<1>3. /\ given' \in [Threads -> Nat]
      /\ retrieved' \in [Threads -> Int]
  BY <1>1 DEF BufferInv, BuffersInv, ExtraInv
<1>4. ASSUME NEW s \in Threads, s # t
      PROVE  Kept(s)
  BY <1>4 DEF BufferInv, BuffersInv, ExtraInv, Kept, Counted
<1>5. Kept(t)
  <2>1. buffer'[t] = b /\ given'[t] = given[t] + g /\ retrieved'[t] = retrieved[t] + r
    BY DEF BufferInv, BuffersInv, ExtraInv
  <2>2. ReadbleBytes(buffer[t]) \in Int
    BY DEF BufferInv, BuffersInv, ExtraInv, Typed, ReadbleBytes
  <2> QED
    BY <1>1, <2>1, <2>2 DEF Kept, Counted
<1> QED
  BY <1>2, <1>3, <1>4, <1>5 DEF BuffersInv

(* Every step keeps BufferInv, and the counts of every buffer.             *)
LEMMA StepKeepsCounts ==
  ASSUME BufferInv, Next
  PROVE  BufferInv' /\ \A s \in Threads : Kept(s)
<1> USE SizesAssumption
<1>1. \A t \in Threads : Sound(buffer[t])
  BY SoundWhenInRange DEF Next, IndicesInRange, BufferInv, BuffersInv
<1>2. \A t \in Threads : given[t] \in Nat /\ retrieved[t] \in Int /\ waiting[t] \in Nat
  BY DEF BufferInv, BuffersInv, ExtraInv
<1>zero. 0 \in Nat
  OBVIOUS
<1>3. ASSUME NEW t \in Threads, NEW n \in AppendSizes, AppendBytes(t, n)
      PROVE  BufferInv' /\ \A s \in Threads : Kept(s)
  <2> DEFINE s == NextBytes(t, 0, n)
             b == AppendTo(buffer[t], s)
  <2>1. Len(s) = n /\ n \in Nat
    BY NextBytesSeq
  <2>2. Sound(b) /\ ReadbleBytes(b) = ReadbleBytes(buffer[t]) + n
    BY <1>1, <2>1, AppendCounts
  <2>3. buffer' = [buffer EXCEPT ![t] = b] /\ given' = [given EXCEPT ![t] = @ + n]
        /\ UNCHANGED <<extrabuf, waiting, retrieved>>
    BY <1>3 DEF AppendBytes
  <2> HIDE DEF b
  <2>4. retrieved' = [retrieved EXCEPT ![t] = @ + 0]
    BY <1>2, <2>3 DEF BufferInv, BuffersInv, ExtraInv
  <2>5. ReadbleBytes(b) = ReadbleBytes(buffer[t]) + n - 0
    BY <1>1, <2>1, <2>2 DEF Sound, ReadbleBytes
  <2>6. Typed(b) /\ InRange(b)
    BY <2>2, SoundWhenInRange
  <2>7. BuffersInv' /\ \A r \in Threads : Kept(r)
    <3>1. Changes(t, b, n, 0) /\ Counts(t, b, n, 0)
      BY <2>3, <2>4, <2>5, <2>6 DEF Changes, Counts
    <3> QED
      BY <1>zero, <2>1, <2>6, <3>1, OneBufferChanges
  <2>8. ExtraInv'
    BY <2>3 DEF BufferInv, ExtraInv
  <2> QED
    BY <2>7, <2>8 DEF BufferInv
<1>4. ASSUME NEW t \in Threads, NEW n \in ReadSizes, ReadFd(t, n)
      PROVE  BufferInv' /\ \A s \in Threads : Kept(s)
  <2> DEFINE s == NextBytes(t, 0, n)
             b == Store(buffer[t], s)
  <2>1. Len(s) = n /\ n \in Nat
    BY NextBytesSeq
  <2>2. Sound(b) /\ ReadbleBytes(b) = ReadbleBytes(buffer[t]) + n
    BY <1>1, <1>4, <2>1, StoreCounts DEF ReadFd
  <2>3. buffer' = [buffer EXCEPT ![t] = b] /\ given' = [given EXCEPT ![t] = @ + n]
        /\ UNCHANGED <<extrabuf, waiting, retrieved>>
    BY <1>4 DEF ReadFd
  <2> HIDE DEF b
  <2>4. retrieved' = [retrieved EXCEPT ![t] = @ + 0]
    BY <1>2, <2>3 DEF BufferInv, BuffersInv, ExtraInv
  <2>5. ReadbleBytes(b) = ReadbleBytes(buffer[t]) + n - 0
    BY <1>1, <2>1, <2>2 DEF Sound, ReadbleBytes
  <2>6. Typed(b) /\ InRange(b)
    BY <2>2, SoundWhenInRange
  <2>7. BuffersInv' /\ \A r \in Threads : Kept(r)
    <3>1. Changes(t, b, n, 0) /\ Counts(t, b, n, 0)
      BY <2>3, <2>4, <2>5, <2>6 DEF Changes, Counts
    <3> QED
      BY <1>zero, <2>1, <2>6, <3>1, OneBufferChanges
  <2>8. ExtraInv'
    BY <2>3 DEF BufferInv, ExtraInv
  <2> QED
    BY <2>7, <2>8 DEF BufferInv
<1>5. ASSUME NEW t \in Threads, NEW n \in ReadSizes, ReadFdOverflows(t, n)
      PROVE  BufferInv' /\ \A s \in Threads : Kept(s)
  <2> DEFINE fits == WriteableBytes(buffer[t])
             s == NextBytes(t, 0, fits)
             rest == NextBytes(t, fits, n - fits)
             b == FillUp(buffer[t], s)
  <2>1. fits \in Nat /\ n - fits \in Nat \ {0}
    <3>1. fits \in Nat
      BY <1>1 DEF WriteableBytes, Sound, InRange
    <3>2. n \in Nat /\ n \in (fits + 1)..(fits + ExtraSize)
      BY <1>5 DEF ReadFdOverflows
    <3> HIDE DEF fits
    <3> QED
      BY <3>1, <3>2
  <2>2. Len(s) = fits /\ rest \in Seq(Bytes) /\ Len(rest) = n - fits
    BY <2>1, NextBytesSeq
  <2>3. /\ Typed(b)
        /\ buffer[t].size = buffer[t].capacity =>
             InRange(b) /\ ReadbleBytes(b) = ReadbleBytes(buffer[t]) + fits
    BY <1>1, <2>2, FillUpCounts
  <2>4. /\ buffer' = [buffer EXCEPT ![t] = b]
        /\ extrabuf' = rest \o SubSeq(extrabuf, n - fits + 1, Len(extrabuf))
        /\ waiting' = [waiting EXCEPT ![t] = n - fits]
        /\ given' = [given EXCEPT ![t] = @ + fits]
        /\ waiting[t] = 0
        /\ UNCHANGED retrieved
    BY <1>5 DEF ReadFdOverflows
  <2>5. /\ extrabuf' \in Seq(Bytes)
        /\ n - fits <= Len(extrabuf')
        /\ Len(extrabuf) <= Len(extrabuf')
    <3> DEFINE k == n - fits
               old == SubSeq(extrabuf, k + 1, Len(extrabuf))
    <3>1. /\ old \in Seq(Bytes)
          /\ Len(old) = IF k < Len(extrabuf) THEN Len(extrabuf) - k ELSE 0
      BY <2>1 DEF BufferInv, BuffersInv, ExtraInv
    <3>2. extrabuf' \in Seq(Bytes) /\ Len(extrabuf') = Len(rest) + Len(old)
      BY <2>2, <2>4, <3>1
    <3>3. Len(extrabuf) \in Nat
      BY DEF BufferInv, ExtraInv
    <3>4. k \in Nat /\ Len(rest) = k
      BY <2>1, <2>2
    <3> HIDE DEF k, old, rest
    <3>5. k <= Len(extrabuf') /\ Len(extrabuf) <= Len(extrabuf')
      BY <3>1, <3>2, <3>3, <3>4
    <3> QED
      BY <3>2, <3>5 DEF k
  <2>6. buffer[t].size = buffer[t].capacity =>
          InRange(b) /\ ReadbleBytes(b) = ReadbleBytes(buffer[t]) + fits - 0
    BY <1>1, <2>1, <2>3 DEF Sound, ReadbleBytes
  <2> HIDE DEF fits, s, rest, b
  <2>7. retrieved' = [retrieved EXCEPT ![t] = @ + 0]
    BY <1>2, <2>4 DEF BufferInv, BuffersInv, ExtraInv
  <2>8. waiting'[t] > waiting[t]
    BY <1>2, <2>1, <2>4 DEF BufferInv, BuffersInv, ExtraInv
  <2>9. /\ waiting' \in [Threads -> Nat]
        /\ \A r \in Threads : waiting'[r] <= Len(extrabuf')
    <3>1. waiting \in [Threads -> Nat] /\ \A r \in Threads : waiting[r] <= Len(extrabuf)
      BY DEF BufferInv, ExtraInv
    <3>2. Len(extrabuf) \in Nat /\ Len(extrabuf') \in Nat /\ n - fits \in Nat
      BY <2>1, <2>5 DEF BufferInv, ExtraInv
    <3> QED
      BY <2>4, <2>5, <3>1, <3>2
  <2>10. BuffersInv' /\ \A r \in Threads : Kept(r)
    <3>1. Changes(t, b, fits, 0) /\ Counts(t, b, fits, 0)
      BY <2>3, <2>4, <2>6, <2>7, <2>8 DEF Changes, Counts
    <3> QED
      BY <1>zero, <2>1, <2>3, <3>1, OneBufferChanges
  <2> QED
    BY <2>10, <2>5, <2>9 DEF BufferInv, ExtraInv
<1>6. ASSUME NEW t \in Threads, AppendExtra(t)
      PROVE  BufferInv' /\ \A s \in Threads : Kept(s)
  <2> DEFINE n == waiting[t]
             s == SubSeq(extrabuf, 1, n)
             b == AppendTo(buffer[t], s)
  <2>1. n \in Nat /\ Len(s) = n
    BY <1>2 DEF BufferInv, BuffersInv, ExtraInv
  <2>2. Sound(b) /\ ReadbleBytes(b) = ReadbleBytes(buffer[t]) + n
    BY <1>1, <2>1, AppendCounts
  <2>3. /\ buffer' = [buffer EXCEPT ![t] = b]
        /\ given' = [given EXCEPT ![t] = @ + n]
        /\ waiting' = [waiting EXCEPT ![t] = 0]
        /\ UNCHANGED <<extrabuf, retrieved>>
    BY <1>6 DEF AppendExtra
  <2>4. ReadbleBytes(b) = ReadbleBytes(buffer[t]) + n - 0
    BY <1>1, <2>1, <2>2 DEF Sound, ReadbleBytes
  <2> HIDE DEF b
  <2>5. retrieved' = [retrieved EXCEPT ![t] = @ + 0]
    BY <1>2, <2>3 DEF BufferInv, BuffersInv, ExtraInv
  <2>6. /\ waiting' \in [Threads -> Nat]
        /\ \A r \in Threads : waiting'[r] <= Len(extrabuf)
    BY <1>2, <2>3 DEF BufferInv, BuffersInv, ExtraInv
  <2> HIDE DEF n
  <2>7. Typed(b) /\ InRange(b)
    BY <2>2, SoundWhenInRange
  <2>8. BuffersInv' /\ \A r \in Threads : Kept(r)
    <3>1. Changes(t, b, n, 0) /\ Counts(t, b, n, 0)
      BY <2>3, <2>4, <2>5, <2>7 DEF Changes, Counts
    <3> QED
      BY <1>zero, <2>1, <2>7, <3>1, OneBufferChanges
  <2> QED
    BY <2>3, <2>6, <2>8 DEF BufferInv, ExtraInv
<1>7. ASSUME NEW t \in Threads, NEW len \in 0..(MaxBytes + 1), RetrieveBytes(t, len)
      PROVE  BufferInv' /\ \A s \in Threads : Kept(s)
  <2> DEFINE k == Taken(buffer[t], len)
             b == Retrieve(buffer[t], len)
  <2>1. /\ Sound(b)
        /\ k \in Nat
        /\ ReadbleBytes(b) = ReadbleBytes(buffer[t]) - k
    BY <1>1, RetrieveCounts
  <2>2. /\ buffer' = [buffer EXCEPT ![t] = b]
        /\ retrieved' = [retrieved EXCEPT ![t] = @ + k]
        /\ UNCHANGED <<extrabuf, waiting, given>>
    BY <1>7 DEF RetrieveBytes
  <2> HIDE DEF b, k
  <2>3. given' = [given EXCEPT ![t] = @ + 0]
    BY <1>2, <2>2 DEF BufferInv, BuffersInv, ExtraInv
  <2>4. ReadbleBytes(b) = ReadbleBytes(buffer[t]) + 0 - k
    BY <1>1, <2>1 DEF Sound, ReadbleBytes
  <2>5. Typed(b) /\ InRange(b)
    BY <2>1, SoundWhenInRange
  <2>6. BuffersInv' /\ \A r \in Threads : Kept(r)
    <3>1. Changes(t, b, 0, k) /\ Counts(t, b, 0, k)
      BY <2>2, <2>3, <2>4, <2>5 DEF Changes, Counts
    <3> QED
      BY <1>zero, <2>1, <2>5, <3>1, OneBufferChanges
  <2>7. ExtraInv'
    BY <2>2 DEF BufferInv, ExtraInv
  <2> QED
    BY <2>6, <2>7 DEF BufferInv
<1> QED
  BY <1>3, <1>4, <1>5, <1>6, <1>7 DEF Next

(* No operation of any buffer loses count or lets an index out of the      *)
(* memory, but a readFd that overflows a vector with more capacity than    *)
(* size: append and the second half of readFd, which take their room from  *)
(* ensureWritebale, readFd that fits, and retrieve.                        *)
THEOREM CountsAreKept == Spec => CountsKept
<1>1. Init => BufferInv
  BY SizesAssumption DEF Init, BufferInv, BuffersInv, ExtraInv, NewBuffer, Typed, Fields
<1>2. BufferInv /\ [Next]_vars => BufferInv'
  <2>1. CASE UNCHANGED vars
    BY <2>1 DEF vars, BufferInv, BuffersInv, ExtraInv
  <2> QED
    BY <2>1, StepKeepsCounts
<1>3. BufferInv /\ [Next]_vars =>
        [\A t \in Threads :
           /\ InRange(buffer[t]) /\ Counted(t)
           /\ waiting'[t] > waiting[t] => buffer[t].size = buffer[t].capacity
           => InRange(buffer'[t]) /\ Counted(t)']_vars
  BY StepKeepsCounts DEF Kept
<1> QED
  BY <1>1, <1>2, <1>3, PTL DEF Spec, CountsKept

-----------------------------------------------------------------------------
AppendInv ==
  /\ DOMAIN buffer = Threads
  /\ \A t \in Threads : Sound(buffer[t])
  /\ given \in [Threads -> Nat]
  /\ retrieved \in [Threads -> Nat]
  /\ waiting = [t \in Threads |-> 0]
  /\ CountExact

(* A buffer filled by append alone keeps its indices inside its memory and *)
(* counts every byte (append, ensureWritebale, retrieve): the sequence of  *)
(* growths and moves to the front never drops one.                         *)
THEOREM AppendInvariant ==
  ASSUME ReadSizes = {}
  PROVE  Spec => []AppendInv
<1>1. Init => AppendInv
  BY SizesAssumption
  DEF Init, AppendInv, NewBuffer, Sound, InRange, Fields, CountExact, Counted, ReadbleBytes
<1>2. AppendInv /\ [Next]_vars => AppendInv'
  <2> SUFFICES ASSUME AppendInv, [Next]_vars
               PROVE  AppendInv'
    OBVIOUS
  <2>1. ASSUME NEW t \in Threads, NEW n \in AppendSizes, AppendBytes(t, n)
        PROVE  AppendInv'
    <3> DEFINE b == AppendTo(buffer[t], NextBytes(t, 0, n))
    <3>1. n \in Nat
      BY SizesAssumption
    <3>2. Len(NextBytes(t, 0, n)) = n
      BY <3>1 DEF NextBytes
    <3>3. Sound(b) /\ ReadbleBytes(b) = ReadbleBytes(buffer[t]) + n
      BY <3>1, <3>2, AppendCounts DEF AppendInv
    <3> HIDE DEF b
    <3>4. buffer' = [buffer EXCEPT ![t] = b]
      BY <2>1 DEF AppendBytes, b
    <3>5. given' = [given EXCEPT ![t] = @ + n] /\ UNCHANGED <<waiting, retrieved>>
      BY <2>1 DEF AppendBytes
    <3>6. CountExact'
      <4> SUFFICES ASSUME NEW s \in Threads
                   PROVE  ReadbleBytes(buffer'[s]) = given'[s] - retrieved'[s]
        BY DEF CountExact, Counted
      <4>1. CASE s = t
        BY <3>1, <3>3, <3>4, <3>5, <4>1 DEF AppendInv, CountExact, Counted
      <4>2. CASE s # t
        BY <3>4, <3>5, <4>2 DEF AppendInv, CountExact, Counted
      <4> QED
        BY <4>1, <4>2
    <3> QED
      BY <3>1, <3>3, <3>4, <3>5, <3>6 DEF AppendInv
  <2>2. ASSUME NEW t \in Threads, NEW len \in 0..(MaxBytes + 1), RetrieveBytes(t, len)
        PROVE  AppendInv'
    <3> DEFINE b == Retrieve(buffer[t], len)
               k == Taken(buffer[t], len)
    <3>1. len \in Nat
      BY SizesAssumption
    <3>2. /\ Sound(b)
          /\ k \in Nat
          /\ ReadbleBytes(b) = ReadbleBytes(buffer[t]) - k
      BY <3>1, RetrieveCounts DEF AppendInv
    <3>3. buffer' = [buffer EXCEPT ![t] = b]
      BY <2>2 DEF RetrieveBytes
    <3>4. retrieved' = [retrieved EXCEPT ![t] = @ + k] /\ UNCHANGED <<waiting, given>>
      BY <2>2 DEF RetrieveBytes
    <3> HIDE DEF b, k
    <3>5. CountExact'
      <4> SUFFICES ASSUME NEW s \in Threads
                   PROVE  ReadbleBytes(buffer'[s]) = given'[s] - retrieved'[s]
        BY DEF CountExact, Counted
      <4>1. CASE s = t
        BY <3>2, <3>3, <3>4, <4>1 DEF AppendInv, CountExact, Counted
      <4>2. CASE s # t
        BY <3>3, <3>4, <4>2 DEF AppendInv, CountExact, Counted
      <4> QED
        BY <4>1, <4>2
    <3> QED
      BY <3>2, <3>3, <3>4, <3>5 DEF AppendInv
  <2>3. ASSUME NEW t \in Threads, AppendExtra(t)
        PROVE  FALSE
    BY <2>3 DEF AppendExtra, AppendInv
  <2>4. CASE UNCHANGED vars
    BY <2>4 DEF vars, AppendInv, CountExact, Counted
  <2> QED
    BY <2>1, <2>2, <2>3, <2>4 DEF Next
<1> QED
  BY <1>1, <1>2, PTL DEF Spec

(* Its indices stay inside the vector's memory.                            *)
THEOREM AppendInRange ==
  ASSUME ReadSizes = {}
  PROVE  Spec => []IndicesInRange
<1>1. AppendInv => IndicesInRange
  BY DEF AppendInv, Sound, IndicesInRange
<1> QED
  BY <1>1, AppendInvariant, PTL

(* readbleBytes counts the bytes appended and not yet retrieved.           *)
THEOREM AppendCountsExactly ==
  ASSUME ReadSizes = {}
  PROVE  Spec => []CountExact
<1>1. AppendInv => CountExact
  BY DEF AppendInv
<1> QED
  BY <1>1, AppendInvariant, PTL

-----------------------------------------------------------------------------
(* The types, for all threads: a vector is its memory, extrabuf holds what *)
(* waits in it, and what waits is counted against the bound on what is     *)
(* given.                                                                  *)
Roomy(t) == waiting[t] <= Len(extrabuf) /\ given[t] + waiting[t] <= MaxBytes

TypeInv == TypeOK /\ \A t \in Threads : Roomy(t)

LEMMA MemoryKept ==
  ASSUME NEW b, BufferOK(b), InRange(b), NEW s, Len(s) \in Nat
  PROVE  /\ BufferOK(Store(b, s)) /\ BufferOK(FillUp(b, s))
         /\ BufferOK(Compact(b))
         /\ \A n \in Nat : BufferOK(Resize(b, n))
         /\ \A len \in Nat : BufferOK(Retrieve(b, len)) /\ Taken(b, len) \in Nat
<1>1. BufferOK(Store(b, s)) /\ BufferOK(FillUp(b, s)) /\ BufferOK(Compact(b))
  BY DEF BufferOK, InRange, Store, FillUp, Compact, ReadbleBytes
<1>2. ASSUME NEW n \in Nat
      PROVE  BufferOK(Resize(b, n))
  BY DEF BufferOK, InRange, Resize, NewCapacity
<1>3. ASSUME NEW len \in Nat
      PROVE  BufferOK(Retrieve(b, len)) /\ Taken(b, len) \in Nat
  BY DEF BufferOK, InRange, Retrieve, Taken, ReadbleBytes
<1> QED
  BY <1>1, <1>2, <1>3

LEMMA AppendMemoryKept ==
  ASSUME NEW b, BufferOK(b), InRange(b), NEW s, Len(s) \in Nat
  PROVE  BufferOK(AppendTo(b, s))
<1> DEFINE room == EnsureWritebale(b, Len(s))
<1>1. Sound(b)
  BY DEF Sound, BufferOK, Fields
<1>2. Sound(room) /\ WriteableBytes(room) >= Len(s)
  BY <1>1, EnsureMakesRoom
<1>3. BufferOK(room)
  <2>1. b.writeIndex_ + Len(s) \in Nat
    BY DEF BufferOK, InRange
  <2>2. BufferOK(Compact(b)) /\ BufferOK(Resize(b, b.writeIndex_ + Len(s)))
    BY <2>1, MemoryKept
  <2> QED
    BY <2>2 DEF EnsureWritebale
<1>4. AppendTo(b, s) = Store(room, s)
  BY <1>2 DEF AppendTo
<1> HIDE DEF room
<1> QED
  BY <1>2, <1>3, <1>4, MemoryKept DEF Sound

LEMMA TypeStep ==
  ASSUME TypeInv, Next
  PROVE  TypeInv'
<1> USE SizesAssumption
<1>1. /\ DOMAIN buffer = Threads
      /\ \A t \in Threads : BufferOK(buffer[t]) /\ InRange(buffer[t])
  BY DEF Next, IndicesInRange, TypeInv, TypeOK
<1>2. /\ waiting \in [Threads -> 0..ExtraSize]
      /\ given \in [Threads -> 0..MaxBytes]
      /\ retrieved \in [Threads -> Nat]
      /\ extrabuf \in Seq(Threads \X Nat) /\ Len(extrabuf) \in Nat
      /\ \A t \in Threads : Roomy(t)
  BY DEF TypeInv, TypeOK
<1>3. \A t \in Threads : \A skip, n \in Nat :
        /\ NextBytes(t, skip, n) \in Seq(Threads \X Nat)
        /\ Len(NextBytes(t, skip, n)) = n
  BY <1>2 DEF NextBytes
<1>4. ASSUME NEW t \in Threads, NEW b, BufferOK(b), buffer' = [buffer EXCEPT ![t] = b]
      PROVE  DOMAIN buffer' = Threads /\ \A r \in Threads : BufferOK(buffer'[r])
  BY <1>1, <1>4
<1>5. ASSUME NEW t \in Threads, NEW n \in Nat, NEW b, BufferOK(b),
             buffer' = [buffer EXCEPT ![t] = b],
             given' = [given EXCEPT ![t] = @ + n], given[t] + n <= MaxBytes, waiting[t] = 0,
             UNCHANGED <<extrabuf, waiting, retrieved>>
      PROVE  TypeInv'
  <2>1. given' \in [Threads -> 0..MaxBytes]
    BY <1>2, <1>5
  <2>2. \A r \in Threads : Roomy(r)'
    BY <1>2, <1>5 DEF Roomy
  <2> QED
    BY <1>2, <1>4, <1>5, <2>1, <2>2 DEF TypeInv, TypeOK
<1>6. ASSUME NEW t \in Threads, NEW n \in AppendSizes, AppendBytes(t, n)
      PROVE  TypeInv'
  <2> DEFINE s == NextBytes(t, 0, n)
             b == AppendTo(buffer[t], s)
  <2>1. n \in Nat /\ Len(s) = n
    BY <1>3
  <2>2. BufferOK(b)
    BY <1>1, <2>1, AppendMemoryKept
  <2>3. /\ buffer' = [buffer EXCEPT ![t] = b]
        /\ given' = [given EXCEPT ![t] = @ + n]
        /\ given[t] + n <= MaxBytes /\ waiting[t] = 0
        /\ UNCHANGED <<extrabuf, waiting, retrieved>>
    BY <1>6 DEF AppendBytes
  <2> HIDE DEF b
  <2> QED
    BY <1>5, <2>1, <2>2, <2>3
<1>7. ASSUME NEW t \in Threads, NEW n \in ReadSizes, ReadFd(t, n)
      PROVE  TypeInv'
  <2> DEFINE s == NextBytes(t, 0, n)
             b == Store(buffer[t], s)
  <2>1. n \in Nat /\ Len(s) = n
    BY <1>3
  <2>2. BufferOK(b)
    BY <1>1, <2>1, MemoryKept
  <2>3. /\ buffer' = [buffer EXCEPT ![t] = b]
        /\ given' = [given EXCEPT ![t] = @ + n]
        /\ given[t] + n <= MaxBytes /\ waiting[t] = 0
        /\ UNCHANGED <<extrabuf, waiting, retrieved>>
    BY <1>7 DEF ReadFd
  <2> HIDE DEF b
  <2> QED
    BY <1>5, <2>1, <2>2, <2>3
<1>8. ASSUME NEW t \in Threads, NEW n \in ReadSizes, ReadFdOverflows(t, n)
      PROVE  TypeInv'
  <2> DEFINE fits == WriteableBytes(buffer[t])
             s == NextBytes(t, 0, fits)
             rest == NextBytes(t, fits, n - fits)
             old == SubSeq(extrabuf, n - fits + 1, Len(extrabuf))
             b == FillUp(buffer[t], s)
  <2>1. fits \in Nat
    BY <1>1 DEF WriteableBytes, BufferOK, InRange
  <2>2. /\ n \in Nat /\ n \in (fits + 1)..(fits + ExtraSize)
        /\ buffer' = [buffer EXCEPT ![t] = b]
        /\ extrabuf' = rest \o old
        /\ waiting' = [waiting EXCEPT ![t] = n - fits]
        /\ given' = [given EXCEPT ![t] = @ + fits]
        /\ given[t] + n <= MaxBytes
        /\ UNCHANGED retrieved
    BY <1>8 DEF ReadFdOverflows
  <2>3. BufferOK(b)
    BY <1>1, <1>3, <2>1, MemoryKept
  <2> HIDE DEF fits, s, b
  <2>4. n - fits \in 1..ExtraSize /\ n - fits \in Nat
    BY <2>1, <2>2
  <2>5. rest \in Seq(Threads \X Nat) /\ Len(rest) = n - fits
    BY <1>3, <2>1, <2>4
  <2> DEFINE k == n - fits
  <2>6. k \in Nat
    BY <2>4
  <2> HIDE DEF k
  <2>7. /\ SubSeq(extrabuf, k + 1, Len(extrabuf)) \in Seq(Threads \X Nat)
        /\ Len(SubSeq(extrabuf, k + 1, Len(extrabuf))) =
             IF k < Len(extrabuf) THEN Len(extrabuf) - k ELSE 0
    BY <1>2, <2>6
  <2>8. /\ old \in Seq(Threads \X Nat)
        /\ Len(old) = IF k < Len(extrabuf) THEN Len(extrabuf) - k ELSE 0
    BY <2>7 DEF k
  <2> HIDE DEF rest, old
  <2>9. extrabuf' \in Seq(Threads \X Nat) /\ Len(extrabuf') = Len(rest) + Len(old)
    <3> DEFINE S == Threads \X Nat
    <3>1. rest \in Seq(S) /\ old \in Seq(S)
      BY <2>5, <2>8
    <3> HIDE DEF S
    <3>2. extrabuf' \in Seq(S) /\ Len(extrabuf') = Len(rest) + Len(old)
      BY <2>2, <3>1
    <3> QED
      BY <3>2 DEF S
  <2>10. k <= Len(extrabuf') /\ Len(extrabuf) <= Len(extrabuf')
    <3>1. Len(rest) = k
      BY <2>5 DEF k
    <3> QED
      BY <1>2, <2>6, <2>8, <2>9, <3>1
  <2>11. waiting' = [waiting EXCEPT ![t] = k] /\ k \in 0..ExtraSize /\ given[t] + fits + k <= MaxBytes
    BY <1>2, <2>1, <2>2, <2>4 DEF k
  <2>12. /\ waiting' \in [Threads -> 0..ExtraSize]
         /\ given' \in [Threads -> 0..MaxBytes]
         /\ \A r \in Threads : Roomy(r)'
    <3>1. given[t] \in 0..MaxBytes /\ given[t] + fits \in 0..MaxBytes
      BY <1>2, <2>1, <2>6, <2>11
    <3>2. Roomy(t)'
      BY <1>2, <2>2, <2>10, <2>11, <3>1 DEF Roomy
    <3>3. ASSUME NEW r \in Threads, r # t
          PROVE  Roomy(r)'
      <4>1. waiting'[r] = waiting[r] /\ given'[r] = given[r]
        BY <2>2, <2>11, <3>3
      <4>2. Len(extrabuf') \in Nat /\ Len(extrabuf) <= Len(extrabuf')
        BY <2>9, <2>10
      <4> QED
        BY <1>2, <4>1, <4>2 DEF Roomy
    <3> QED
      BY <1>2, <2>2, <2>11, <3>1, <3>2, <3>3
  <2> QED
    BY <1>2, <1>4, <2>2, <2>3, <2>9, <2>12 DEF TypeInv, TypeOK
<1>9. ASSUME NEW t \in Threads, AppendExtra(t)
      PROVE  TypeInv'
  <2> DEFINE s == SubSeq(extrabuf, 1, waiting[t])
             b == AppendTo(buffer[t], s)
  <2>1. waiting[t] \in Nat /\ Len(s) = waiting[t]
    BY <1>2 DEF Roomy
  <2>2. BufferOK(b)
    BY <1>1, <2>1, AppendMemoryKept
  <2>3. /\ buffer' = [buffer EXCEPT ![t] = b]
        /\ given' = [given EXCEPT ![t] = @ + waiting[t]]
        /\ waiting' = [waiting EXCEPT ![t] = 0]
        /\ UNCHANGED <<extrabuf, retrieved>>
    BY <1>9 DEF AppendExtra
  <2> HIDE DEF b
  <2>4. /\ waiting' \in [Threads -> 0..ExtraSize]
        /\ given' \in [Threads -> 0..MaxBytes]
        /\ \A r \in Threads : Roomy(r)'
    BY <1>2, <2>3 DEF Roomy
  <2> QED
    BY <1>2, <1>4, <2>2, <2>3, <2>4 DEF TypeInv, TypeOK
<1>10. ASSUME NEW t \in Threads, NEW len \in 0..(MaxBytes + 1), RetrieveBytes(t, len)
       PROVE  TypeInv'
  <2> DEFINE k == Taken(buffer[t], len)
             b == Retrieve(buffer[t], len)
  <2>1. Len(<<>>) \in Nat /\ len \in Nat
    OBVIOUS
  <2>2. BufferOK(b) /\ k \in Nat
    BY <1>1, <2>1, MemoryKept
  <2>3. /\ buffer' = [buffer EXCEPT ![t] = b]
        /\ retrieved' = [retrieved EXCEPT ![t] = @ + k]
        /\ UNCHANGED <<extrabuf, waiting, given>>
    BY <1>10 DEF RetrieveBytes
  <2> HIDE DEF b, k
  <2>4. retrieved' \in [Threads -> Nat] /\ \A r \in Threads : Roomy(r)'
    BY <1>2, <2>2, <2>3 DEF Roomy
  <2> QED
    BY <1>2, <1>4, <2>2, <2>3, <2>4 DEF TypeInv, TypeOK
<1> QED
  BY <1>6, <1>7, <1>8, <1>9, <1>10 DEF Next

(* A new buffer is all memory and nothing waits.                           *)
LEMMA TypeInit ==
  ASSUME Init
  PROVE  TypeInv
<1>1. BufferOK(NewBuffer)
  BY SizesAssumption DEF NewBuffer, BufferOK
<1>2. <<>> \in Seq(Threads \X Nat) /\ Len(<<>>) = 0
  OBVIOUS
<1> QED
  BY <1>1, <1>2, SizesAssumption DEF Init, TypeInv, TypeOK, Roomy

(* A vector is its memory up to its capacity all the time, whichever of    *)
(* ensureWritebale's ways made room, and readFd's second half finds in     *)
(* extrabuf all it is to append, however the threads take turns.           *)
THEOREM TypeCorrect == Spec => []TypeOK
<1>1. Init => TypeInv
  BY TypeInit
<1>2. TypeInv /\ [Next]_vars => TypeInv'
  <2>1. UNCHANGED vars /\ TypeInv => TypeInv'
    BY DEF vars, TypeInv, TypeOK, Roomy
  <2> QED
    BY <2>1, TypeStep
<1>3. TypeInv => TypeOK
  BY DEF TypeInv
<1> QED
  BY <1>1, <1>2, <1>3, PTL DEF Spec

-----------------------------------------------------------------------------
(* The bytes, of a process with one thread that reads. *)

(* Of the bytes given to thread t, b has those after the first r.          *)
Holds(b, t, r) ==
  \A i \in 1..ReadbleBytes(b) : b.data[b.readIndex_ + i - 1] = <<t, r + i>>

(* s has the bytes given to thread t after the first g.                    *)
Follows(s, t, g) ==
  Len(s) \in Nat /\ \A i \in 1..Len(s) : s[i] = <<t, g + i>>

(* A byte of a buffer, by its place in the memory.                         *)
LEMMA HoldsAt ==
  ASSUME NEW b, BufferOK(b), NEW t, NEW r \in Nat
  PROVE  Holds(b, t, r) <=>
           \A j \in Int : b.readIndex_ <= j /\ j < b.writeIndex_ =>
             b.data[j] = <<t, r + (j - b.readIndex_ + 1)>>
<1>1. b.readIndex_ \in Int /\ b.writeIndex_ \in Int
  BY DEF BufferOK
<1>2. ASSUME Holds(b, t, r), NEW j \in Int, b.readIndex_ <= j, j < b.writeIndex_
      PROVE  b.data[j] = <<t, r + (j - b.readIndex_ + 1)>>
  <2> DEFINE i == j - b.readIndex_ + 1
  <2>1. i \in 1..ReadbleBytes(b) /\ b.readIndex_ + i - 1 = j
    BY <1>1, <1>2 DEF ReadbleBytes
  <2> QED
    BY <1>2, <2>1 DEF Holds
<1>3. ASSUME \A j \in Int : b.readIndex_ <= j /\ j < b.writeIndex_ =>
               b.data[j] = <<t, r + (j - b.readIndex_ + 1)>>,
             NEW i \in 1..ReadbleBytes(b)
      PROVE  b.data[b.readIndex_ + i - 1] = <<t, r + i>>
  <2> DEFINE j == b.readIndex_ + i - 1
  <2>1. /\ j \in Int /\ b.readIndex_ <= j /\ j < b.writeIndex_
        /\ j - b.readIndex_ + 1 = i
    BY <1>1 DEF ReadbleBytes
  <2> QED
    BY <1>3, <2>1
<1> QED
  BY <1>2, <1>3 DEF Holds

(* The bytes that follow go behind the bytes there are.                    *)
LEMMA StoreHolds ==
  ASSUME NEW b, BufferOK(b), InRange(b), NEW t, NEW r \in Nat, Holds(b, t, r),
         NEW s, Follows(s, t, r + ReadbleBytes(b)), Len(s) <= WriteableBytes(b)
  PROVE  Holds(Store(b, s), t, r)
<1> DEFINE c == Store(b, s)
<1>1. BufferOK(c)
  BY MemoryKept DEF Follows
<1>2. /\ b.readIndex_ \in Int /\ b.writeIndex_ \in Int /\ Len(s) \in Nat
      /\ 0 <= b.readIndex_ /\ b.readIndex_ <= b.writeIndex_
      /\ b.writeIndex_ + Len(s) <= b.capacity
      /\ DOMAIN b.data = Cells(b.capacity) /\ b.capacity \in Nat
      /\ ReadbleBytes(b) = b.writeIndex_ - b.readIndex_
  BY DEF BufferOK, InRange, WriteableBytes, Follows, ReadbleBytes
<1>3. /\ c.readIndex_ = b.readIndex_ /\ c.writeIndex_ = b.writeIndex_ + Len(s)
      /\ c.data = [i \in DOMAIN b.data |->
                     IF i \in b.writeIndex_..(b.writeIndex_ + Len(s) - 1)
                     THEN s[i - b.writeIndex_ + 1] ELSE b.data[i]]
  BY DEF Store, BufferOK
<1>4. ASSUME NEW j \in Int, c.readIndex_ <= j, j < c.writeIndex_
      PROVE  c.data[j] = <<t, r + (j - c.readIndex_ + 1)>>
  <2>1. j \in DOMAIN b.data
    BY <1>2, <1>3, <1>4 DEF Cells
  <2>2. CASE j < b.writeIndex_
    <3>1. b.data[j] = <<t, r + (j - b.readIndex_ + 1)>>
      BY <1>3, <1>4, <2>2, HoldsAt
    <3> QED
      BY <1>2, <1>3, <2>1, <2>2, <3>1
  <2>3. CASE j >= b.writeIndex_
    <3> DEFINE i == j - b.writeIndex_ + 1
    <3>1. i \in 1..Len(s) /\ j \in b.writeIndex_..(b.writeIndex_ + Len(s) - 1)
      BY <1>2, <1>3, <1>4, <2>3
    <3>2. s[i] = <<t, r + ReadbleBytes(b) + i>>
      BY <3>1 DEF Follows
    <3>3. r + ReadbleBytes(b) + i = r + (j - b.readIndex_ + 1)
      BY <1>2
    <3>4. c.data[j] = s[i]
      BY <1>3, <2>1, <3>1
    <3> QED
      BY <1>3, <3>2, <3>3, <3>4
  <2> QED
    BY <1>2, <2>2, <2>3
<1> HIDE DEF c
<1>5. Holds(c, t, r)
  BY <1>1, <1>4, HoldsAt
<1> QED
  BY <1>5 DEF c

(* The move to the front takes the bytes along.                            *)
LEMMA CompactHolds ==
  ASSUME NEW b, BufferOK(b), InRange(b), NEW t, NEW r \in Nat, Holds(b, t, r)
  PROVE  Holds(Compact(b), t, r)
<1> DEFINE c == Compact(b) n == ReadbleBytes(b)
<1>1. /\ b.readIndex_ \in Int /\ b.writeIndex_ \in Int
      /\ 0 <= b.readIndex_ /\ b.readIndex_ <= b.writeIndex_
      /\ b.writeIndex_ <= b.capacity /\ n = b.writeIndex_ - b.readIndex_
      /\ DOMAIN b.data = Cells(b.capacity) /\ b.capacity \in Nat
  BY DEF BufferOK, InRange, ReadbleBytes
<1>2. /\ c.readIndex_ = 0 /\ c.writeIndex_ = n
      /\ c.data = [i \in DOMAIN b.data |-> IF i < n THEN b.data[b.readIndex_ + i]
                                                    ELSE b.data[i]]
  BY DEF Compact, BufferOK
<1> HIDE DEF n
<1>3. ReadbleBytes(c) = n
  BY <1>1, <1>2 DEF ReadbleBytes
<1> HIDE DEF c
<1>4. ASSUME NEW i \in 1..n
      PROVE  c.data[c.readIndex_ + i - 1] = <<t, r + i>>
  <2>1. i - 1 \in DOMAIN b.data /\ i - 1 < n
    BY <1>1 DEF Cells
  <2>2. c.data[i - 1] = b.data[b.readIndex_ + (i - 1)]
    BY <1>2, <2>1
  <2>3. b.data[b.readIndex_ + i - 1] = <<t, r + i>>
    BY DEF Holds, n
  <2>4. b.readIndex_ + (i - 1) = b.readIndex_ + i - 1 /\ c.readIndex_ + i - 1 = i - 1
    BY <1>1, <1>2
  <2> QED
    BY <2>2, <2>3, <2>4
<1>5. Holds(c, t, r)
  BY <1>3, <1>4 DEF Holds
<1> QED
  BY <1>5 DEF c

(* Growth keeps them where they are.                                       *)
LEMMA ResizeHolds ==
  ASSUME NEW b, BufferOK(b), InRange(b), b.size = b.capacity, NEW t, NEW r \in Nat,
         Holds(b, t, r), NEW n \in Nat, n > b.capacity
  PROVE  Holds(Resize(b, n), t, r)
<1> DEFINE c == Resize(b, n)
           cap == NewCapacity(b.size, n)
<1>1. /\ b.readIndex_ \in Int /\ b.writeIndex_ \in Int
      /\ 0 <= b.readIndex_ /\ b.readIndex_ <= b.writeIndex_
      /\ b.writeIndex_ <= b.size /\ b.size \in Nat
      /\ cap \in Nat /\ b.size <= cap
  BY DEF BufferOK, InRange, NewCapacity
<1>2. /\ c.readIndex_ = b.readIndex_ /\ c.writeIndex_ = b.writeIndex_
      /\ c.data = [i \in Cells(cap) |-> IF i < b.size THEN b.data[i] ELSE Nul]
  BY DEF Resize, BufferOK
<1>3. BufferOK(c)
  <2>1. Len(<<>>) \in Nat
    OBVIOUS
  <2> QED
    BY <2>1, MemoryKept
<1> HIDE DEF c, cap
<1>4. ASSUME NEW j \in Int, c.readIndex_ <= j, j < c.writeIndex_
      PROVE  c.data[j] = <<t, r + (j - c.readIndex_ + 1)>>
  <2>1. j \in Cells(cap) /\ j < b.size
    BY <1>1, <1>2, <1>4 DEF Cells
  <2>2. b.data[j] = <<t, r + (j - b.readIndex_ + 1)>>
    BY <1>2, <1>4, HoldsAt
  <2> QED
    BY <1>2, <2>1, <2>2
<1>5. Holds(c, t, r)
  BY <1>3, <1>4, HoldsAt
<1> QED
  BY <1>5 DEF c

(* append keeps the bytes and adds its own, whichever way it makes room.   *)
LEMMA AppendHolds ==
  ASSUME NEW b, BufferOK(b), InRange(b), b.size = b.capacity, NEW t, NEW r \in Nat,
         Holds(b, t, r), NEW s, Follows(s, t, r + ReadbleBytes(b))
  PROVE  Holds(AppendTo(b, s), t, r)
<1> DEFINE len == Len(s)
           room == EnsureWritebale(b, len)
<1>1. Sound(b) /\ len \in Nat
  BY DEF Sound, BufferOK, Fields, Follows
<1>2. Sound(room) /\ ReadbleBytes(room) = ReadbleBytes(b) /\ WriteableBytes(room) >= len
  BY <1>1, EnsureMakesRoom
<1>3. AppendTo(b, s) = Store(room, s)
  BY <1>2 DEF AppendTo
<1>4. WriteableBytes(b) \in Int /\ b.readIndex_ \in Int
  BY <1>1 DEF Sound, WriteableBytes
<1>5. Holds(room, t, r) /\ BufferOK(room)
  <2>1. CASE len <= WriteableBytes(b)
    BY <1>1, <1>4, <2>1 DEF EnsureWritebale
  <2>2. CASE len > WriteableBytes(b) /\ len - WriteableBytes(b) < b.readIndex_
    <3>1. room = Compact(b)
      BY <1>1, <1>4, <2>2 DEF EnsureWritebale
    <3>2. Len(<<>>) \in Nat
      OBVIOUS
    <3> QED
      BY <3>1, <3>2, CompactHolds, MemoryKept
  <2>3. CASE len > WriteableBytes(b) /\ ~(len - WriteableBytes(b) < b.readIndex_)
    <3> DEFINE n == b.writeIndex_ + len
    <3>1. room = Resize(b, n)
      BY <1>1, <1>4, <2>3 DEF EnsureWritebale
    <3>2. n \in Nat /\ n > b.capacity
      BY <1>1, <2>3 DEF Sound, InRange, WriteableBytes
    <3>3. Len(<<>>) \in Nat
      OBVIOUS
    <3> HIDE DEF n
    <3> QED
      BY <3>1, <3>2, <3>3, ResizeHolds, MemoryKept
  <2> QED
    BY <1>1, <1>4, <2>1, <2>2, <2>3
<1> HIDE DEF room
<1>6. InRange(room) /\ Len(s) <= WriteableBytes(room)
  <2>1. WriteableBytes(room) \in Int
    BY <1>2 DEF Sound, WriteableBytes
  <2> QED
    BY <1>1, <1>2, <2>1 DEF Sound
<1>7. Holds(Store(room, s), t, r)
  BY <1>2, <1>5, <1>6, StoreHolds
<1> QED
  BY <1>3, <1>7

(* readFd that fills a vector of no more than its size stores what fits.   *)
LEMMA FillUpHolds ==
  ASSUME NEW b, BufferOK(b), InRange(b), b.size = b.capacity, NEW t, NEW r \in Nat,
         Holds(b, t, r), NEW s, Follows(s, t, r + ReadbleBytes(b)),
         Len(s) = WriteableBytes(b)
  PROVE  Holds(FillUp(b, s), t, r)
<1> DEFINE c == Store(b, s)
<1>1. b.writeIndex_ \in Int /\ b.capacity \in Int /\ DOMAIN b = Fields
  BY DEF BufferOK, Fields
<1>2. c.writeIndex_ = b.size /\ DOMAIN c = Fields
  <2>1. c.writeIndex_ = b.writeIndex_ + Len(s) /\ DOMAIN c = Fields
    BY <1>1 DEF Store, Fields
  <2>2. Len(s) = b.capacity - b.writeIndex_
    BY DEF WriteableBytes
  <2> HIDE DEF c
  <2> QED
    BY <1>1, <2>1, <2>2
<1>3. Len(s) <= WriteableBytes(b)
  BY <1>1 DEF WriteableBytes
<1>4. Holds(c, t, r)
  BY <1>3, StoreHolds
<1> DEFINE f == FillUp(b, s)
<1>5. f.data = c.data /\ f.readIndex_ = c.readIndex_ /\ f.writeIndex_ = c.writeIndex_
  <2>1. f = [c EXCEPT !.writeIndex_ = b.size]
    BY DEF FillUp
  <2> HIDE DEF c, f
  <2> QED
    BY <1>2, <2>1 DEF Fields
<1> HIDE DEF c, f
<1>6. Holds(f, t, r)
  BY <1>4, <1>5 DEF Holds, ReadbleBytes
<1> QED
  BY <1>6 DEF f

(* retrieve leaves the bytes behind those it takes.                        *)
LEMMA RetrieveHolds ==
  ASSUME NEW b, BufferOK(b), InRange(b), NEW t, NEW r \in Nat, Holds(b, t, r),
         NEW len \in Nat
  PROVE  Holds(Retrieve(b, len), t, r + Taken(b, len))
<1> DEFINE k == Taken(b, len)
           c == Retrieve(b, len)
<1>1. /\ b.readIndex_ \in Int /\ b.writeIndex_ \in Int
      /\ ReadbleBytes(b) \in Nat /\ ReadbleBytes(b) = b.writeIndex_ - b.readIndex_
      /\ DOMAIN b = Fields
  BY DEF BufferOK, InRange, ReadbleBytes, Fields
<1>2. k \in Nat /\ k <= ReadbleBytes(b)
  BY <1>1 DEF Taken
<1>3. CASE k = ReadbleBytes(b)
  <2>1. c.readIndex_ = 0 /\ c.writeIndex_ = 0
    BY <1>1, <1>3 DEF Retrieve, Fields
  <2> QED
    BY <2>1 DEF Holds, ReadbleBytes
<1>4. CASE k # ReadbleBytes(b)
  <2>1. /\ c.readIndex_ = b.readIndex_ + k /\ c.writeIndex_ = b.writeIndex_
        /\ c.data = b.data
    BY <1>1, <1>4 DEF Retrieve, Fields
  <2> HIDE DEF c, k
  <2>2. ASSUME NEW i \in 1..ReadbleBytes(c)
        PROVE  c.data[c.readIndex_ + i - 1] = <<t, r + k + i>>
    <3> DEFINE j == k + i
    <3>1. j \in 1..ReadbleBytes(b)
      BY <1>1, <1>2, <2>1 DEF ReadbleBytes
    <3>2. b.data[b.readIndex_ + j - 1] = <<t, r + j>>
      BY <3>1 DEF Holds
    <3>3. b.readIndex_ + j - 1 = c.readIndex_ + i - 1 /\ r + j = r + k + i
      BY <1>1, <1>2, <2>1
    <3> QED
      BY <2>1, <3>2, <3>3
  <2>3. Holds(c, t, r + k)
    BY <2>2 DEF Holds
  <2> QED
    BY <2>3 DEF c, k
<1> QED
  BY <1>3, <1>4

-----------------------------------------------------------------------------
(* What waits in extrabuf are the bytes that come next, as long as no      *)
(* other thread reads into it.                                             *)
Waits(t) == \A i \in 1..waiting[t] : extrabuf[i] = <<t, given[t] + i>>

BytesInv == TypeInv /\ \A t \in Threads : Waits(t)

(* What a step leaves of a buffer that has its bytes.                      *)
KeepsBytes(t) == Intact(t) /\ buffer[t].size = buffer[t].capacity => Intact(t)'

(* Intact, of a buffer's count and of its bytes.                           *)
LEMMA IntactHolds ==
  ASSUME NEW t
  PROVE  Intact(t) <=> /\ ReadbleBytes(buffer[t]) = given[t] - retrieved[t]
                       /\ Holds(buffer[t], t, retrieved[t])
BY DEF Intact, Holds

(* The bytes given next follow.                                            *)
LEMMA NextFollow ==
  ASSUME NEW t \in Threads, NEW skip \in Nat, NEW n \in Nat, given[t] \in Nat,
         NEW g, g = given[t] + skip
  PROVE  /\ Follows(NextBytes(t, skip, n), t, g)
         /\ NextBytes(t, skip, n) \in Seq(Threads \X Nat)
         /\ Len(NextBytes(t, skip, n)) = n
BY DEF Follows, NextBytes

(* A step that has nothing waiting after it.                               *)
LEMMA NothingWaits ==
  ASSUME NEW t, waiting'[t] = 0
  PROVE  Waits(t)'
BY DEF Waits

(* What a step has to show of the one buffer it changes.                   *)
LEMMA ChangeHolds ==
  ASSUME TypeInv, NEW t \in Threads, NEW b, buffer' = [buffer EXCEPT ![t] = b],
         NEW g, given'[t] = g, NEW r, retrieved'[t] = r,
         Intact(t) /\ buffer[t].size = buffer[t].capacity =>
           ReadbleBytes(b) = g - r /\ Holds(b, t, r)
  PROVE  KeepsBytes(t)
<1>1. buffer'[t] = b
  BY DEF TypeInv, TypeOK
<1> QED
  BY <1>1 DEF KeepsBytes, Intact, Holds

(* The steps of the only thread: the bytes stay, whatever room they need.  *)
LEMMA StepKeepsBytes ==
  ASSUME BytesInv, Next, NEW t \in Threads, \A u \in Threads : u = t
  PROVE  Waits(t)' /\ KeepsBytes(t)
<1> USE SizesAssumption
<1> DEFINE c == buffer[t]
           g == given[t]
           r == retrieved[t]
<1>1. TypeInv /\ BufferOK(c) /\ InRange(c) /\ Sound(c)
  BY DEF Next, IndicesInRange, BytesInv, TypeInv, TypeOK, Sound, BufferOK, Fields
<1>2. /\ g \in Nat /\ r \in Nat /\ waiting[t] \in Nat /\ extrabuf \in Seq(Threads \X Nat)
      /\ DOMAIN waiting = Threads /\ DOMAIN given = Threads /\ DOMAIN retrieved = Threads
      /\ Len(extrabuf) \in Nat /\ waiting[t] <= Len(extrabuf) /\ Waits(t)
  BY DEF BytesInv, TypeInv, TypeOK, Roomy
<1>3. ReadbleBytes(c) \in Nat /\ WriteableBytes(c) \in Nat
  BY <1>1 DEF BufferOK, InRange, ReadbleBytes, WriteableBytes
<1>4. ASSUME Intact(t)
      PROVE  /\ Holds(c, t, r) /\ ReadbleBytes(c) = g - r
             /\ r + ReadbleBytes(c) = g
  BY <1>2, <1>4, IntactHolds
<1>5. \A n \in Nat : /\ Len(NextBytes(t, 0, n)) = n
                    /\ Follows(NextBytes(t, 0, n), t, g)
  <2> TAKE n \in Nat
  <2>1. g = given[t] + 0
    BY <1>2
  <2> QED
    BY <1>2, <2>1, NextFollow
<1>6. ASSUME NEW n \in AppendSizes, AppendBytes(t, n)
      PROVE  Waits(t)' /\ KeepsBytes(t)
  <2> DEFINE s == NextBytes(t, 0, n)
             b == AppendTo(c, s)
  <2>1. n \in Nat /\ Len(s) = n /\ Follows(s, t, g)
    BY <1>5
  <2>2. /\ buffer' = [buffer EXCEPT ![t] = b]
        /\ given'[t] = g + n /\ retrieved'[t] = r /\ waiting'[t] = 0
    BY <1>2, <1>6 DEF AppendBytes
  <2>3. ReadbleBytes(b) = ReadbleBytes(c) + n
    BY <1>1, <2>1, AppendCounts
  <2>4. Intact(t) /\ c.size = c.capacity => Holds(b, t, r)
    BY <1>1, <1>2, <1>4, <2>1, AppendHolds
  <2> HIDE DEF b, s
  <2>5. Intact(t) /\ c.size = c.capacity => ReadbleBytes(b) = (g + n) - r /\ Holds(b, t, r)
    BY <1>2, <1>3, <1>4, <2>1, <2>3, <2>4
  <2> QED
    BY <1>1, <2>2, <2>5, ChangeHolds, NothingWaits
<1>7. ASSUME NEW n \in ReadSizes, ReadFd(t, n)
      PROVE  Waits(t)' /\ KeepsBytes(t)
  <2> DEFINE s == NextBytes(t, 0, n)
             b == Store(c, s)
  <2>1. n \in Nat /\ Len(s) = n /\ Follows(s, t, g)
    BY <1>5
  <2>2. /\ buffer' = [buffer EXCEPT ![t] = b]
        /\ given'[t] = g + n /\ retrieved'[t] = r /\ waiting'[t] = 0
        /\ n <= WriteableBytes(c)
    BY <1>2, <1>7 DEF ReadFd
  <2>3. ReadbleBytes(b) = ReadbleBytes(c) + n
    BY <1>1, <2>1, <2>2, StoreCounts
  <2>4. Intact(t) => Holds(b, t, r)
    BY <1>1, <1>2, <1>4, <2>1, <2>2, StoreHolds
  <2> HIDE DEF b, s
  <2>5. Intact(t) => ReadbleBytes(b) = (g + n) - r /\ Holds(b, t, r)
    BY <1>2, <1>3, <1>4, <2>1, <2>3, <2>4
  <2> QED
    BY <1>1, <2>2, <2>5, ChangeHolds, NothingWaits
<1>8. ASSUME NEW n \in ReadSizes, ReadFdOverflows(t, n)
      PROVE  Waits(t)' /\ KeepsBytes(t)
  <2> DEFINE fits == WriteableBytes(c)
             s == NextBytes(t, 0, fits)
             b == FillUp(c, s)
             rest == NextBytes(t, fits, n - fits)
             old == SubSeq(extrabuf, n - fits + 1, Len(extrabuf))
  <2>1. /\ n \in Nat /\ n \in (fits + 1)..(fits + ExtraSize)
        /\ buffer' = [buffer EXCEPT ![t] = b]
        /\ given'[t] = g + fits /\ retrieved'[t] = r
        /\ waiting'[t] = n - fits /\ extrabuf' = rest \o old
    BY <1>2, <1>8 DEF ReadFdOverflows
  <2>2. Len(s) = fits /\ Follows(s, t, g)
    BY <1>3, <1>5
  <2>3. n - fits \in Nat
    BY <1>3, <2>1
  <2>4. Waits(t)'
    <3> DEFINE k == n - fits
    <3>1. Follows(rest, t, g + fits) /\ Len(rest) = k
      BY <1>2, <1>3, <2>3, NextFollow
    <3>2. rest \in Seq(Threads \X Nat)
      BY <1>2, <1>3, <2>3, NextFollow
    <3>3. old \in Seq(Threads \X Nat)
      BY <1>2, <2>3
    <3> HIDE DEF rest, old, fits, s, b
    <3>4. \A i \in 1..k : (rest \o old)[i] = rest[i]
      BY <3>1, <3>2, <3>3
    <3>5. ASSUME NEW i \in 1..k
          PROVE  extrabuf'[i] = <<t, given'[t] + i>>
      BY <2>1, <3>1, <3>4 DEF Follows
    <3> QED
      BY <2>1, <3>5 DEF Waits
  <2>5. c.size = c.capacity => ReadbleBytes(b) = ReadbleBytes(c) + fits
    BY <1>1, <2>2, FillUpCounts
  <2>6. Intact(t) /\ c.size = c.capacity => Holds(b, t, r)
    BY <1>1, <1>2, <1>4, <2>2, FillUpHolds
  <2> HIDE DEF b, s, fits
  <2>7. fits \in Nat
    BY <1>3 DEF fits
  <2>8. Intact(t) /\ c.size = c.capacity =>
          ReadbleBytes(b) = (g + fits) - r /\ Holds(b, t, r)
    BY <1>2, <1>3, <1>4, <2>7, <2>5, <2>6
  <2> QED
    BY <1>1, <2>1, <2>4, <2>8, ChangeHolds
<1>9. ASSUME AppendExtra(t)
      PROVE  Waits(t)' /\ KeepsBytes(t)
  <2> DEFINE n == waiting[t]
             s == SubSeq(extrabuf, 1, n)
             b == AppendTo(c, s)
  <2>1. Len(s) = n /\ Follows(s, t, g)
    <3>1. Len(s) = n /\ \A i \in 1..n : s[i] = extrabuf[i]
      BY <1>2
    <3> HIDE DEF s
    <3> QED
      BY <1>2, <3>1 DEF Follows, Waits
  <2>2. /\ buffer' = [buffer EXCEPT ![t] = b]
        /\ given'[t] = g + n /\ retrieved'[t] = r /\ waiting'[t] = 0
    BY <1>2, <1>9 DEF AppendExtra
  <2>3. ReadbleBytes(b) = ReadbleBytes(c) + n
    BY <1>1, <1>2, <2>1, AppendCounts
  <2>4. Intact(t) /\ c.size = c.capacity => Holds(b, t, r)
    BY <1>1, <1>2, <1>4, <2>1, AppendHolds
  <2> HIDE DEF b, s
  <2>5. Intact(t) /\ c.size = c.capacity => ReadbleBytes(b) = (g + n) - r /\ Holds(b, t, r)
    BY <1>2, <1>3, <1>4, <2>3, <2>4
  <2> QED
    BY <1>1, <2>2, <2>5, ChangeHolds, NothingWaits
<1>10. ASSUME NEW len \in 0..(MaxBytes + 1), RetrieveBytes(t, len)
      PROVE  Waits(t)' /\ KeepsBytes(t)
  <2> DEFINE k == Taken(c, len)
             b == Retrieve(c, len)
  <2>1. /\ buffer' = [buffer EXCEPT ![t] = b]
        /\ given'[t] = g /\ retrieved'[t] = r + k /\ waiting'[t] = 0
    BY <1>2, <1>10 DEF RetrieveBytes
  <2>2. k \in Nat /\ ReadbleBytes(b) = ReadbleBytes(c) - k
    BY <1>1, RetrieveCounts
  <2>3. Intact(t) => Holds(b, t, r + k)
    BY <1>1, <1>2, <1>4, RetrieveHolds
  <2> HIDE DEF b, k
  <2>4. Intact(t) => ReadbleBytes(b) = g - (r + k) /\ Holds(b, t, r + k)
    BY <1>2, <1>3, <1>4, <2>2, <2>3
  <2> QED
    BY <1>1, <2>1, <2>4, ChangeHolds, NothingWaits
<1> QED
  BY <1>6, <1>7, <1>8, <1>9, <1>10 DEF Next

(* A process with one thread never loses or mixes up a byte while the      *)
(* vector has no capacity beyond its size: not in ensureWritebale's move   *)
(* to the front, not in its growth, not between the halves of a readFd     *)
(* that overflows.                                                         *)
THEOREM FullVectorsKeepBytes ==
  ASSUME \A s, t \in Threads : s = t
  PROVE  Spec => FullVectorKeepsBytes
<1>1. Init => BytesInv
  <2> SUFFICES ASSUME Init PROVE BytesInv
    OBVIOUS
  <2>1. \A t \in Threads : waiting[t] = 0
    BY DEF Init
  <2>2. \A t \in Threads : Waits(t)
    BY <2>1 DEF Waits
  <2> QED
    BY <2>2, TypeInit DEF BytesInv
<1>2. BytesInv /\ [Next]_vars => BytesInv'
  <2>1. UNCHANGED vars /\ BytesInv => BytesInv'
    BY DEF vars, BytesInv, TypeInv, TypeOK, Roomy, Waits
  <2>2. BytesInv /\ Next => BytesInv'
    BY StepKeepsBytes, TypeStep DEF BytesInv
  <2> QED
    BY <2>1, <2>2
<1>3. BytesInv /\ [Next]_vars =>
        [\A t \in Threads :
           Intact(t) /\ buffer[t].size = buffer[t].capacity => Intact(t)']_vars
  BY StepKeepsBytes DEF KeepsBytes
<1> QED
  BY <1>1, <1>2, <1>3, PTL DEF Spec, FullVectorKeepsBytes
=============================================================================
