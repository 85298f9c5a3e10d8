-------------------------------- MODULE Buffer --------------------------------
(***************************************************************************)
(* The Buffers of a process: one for each thread that serves a connection, *)
(* and extrabuf, the static array all of them read into when more bytes    *)
(* arrive than there is room for.                                          *)
(*                                                                         *)
(* A buffer is a record: data, the memory of the vector buffer_, by index; *)
(* size and capacity, those of the vector; and the two indices.  A byte is *)
(* <<t, n>>, the n-th one thread t's buffer was given.                     *)
(***************************************************************************)
EXTENDS Integers, Sequences

CONSTANTS
  Threads,
  InitSize,     \* DEFAULTINITSIZE
  ExtraSize,    \* the size of extrabuf
  AppendSizes,  \* what append is called with
  ReadSizes,    \* what the socket offers to readv
  MaxBytes,     \* Bound: bytes given to a buffer
  Nul           \* a byte nobody gave

ASSUME SizesAssumption ==
  /\ InitSize \in Nat \ {0}
  /\ ExtraSize \in Nat
  /\ AppendSizes \subseteq Nat
  /\ ReadSizes \subseteq Nat
  /\ MaxBytes \in Nat

VARIABLES
  buffer,     \* each thread's buffer
  extrabuf,   \* what the last readv that overflowed left there
  waiting,    \* of each thread: bytes readv put into extrabuf, not yet appended
  given,      \* history: bytes each buffer was given
  retrieved   \* history: bytes retrieved from it

vars == <<buffer, extrabuf, waiting, given, retrieved>>

-----------------------------------------------------------------------------
(* The functions of class Buffer. *)

Cells(n) == 0..(n - 1)

WriteableBytes(b) == b.capacity - b.writeIndex_
ReadbleBytes(b) == b.writeIndex_ - b.readIndex_

(* What vector::resize allocates for n elements when it has to.            *)
NewCapacity(size, n) == IF n > 2 * size THEN n ELSE 2 * size

(* Seeded fault: the capacity raised and no memory taken for it.           *)
FaultNotMoved(b, n) == [b EXCEPT !.size = n, !.capacity = NewCapacity(b.size, n)]

(* vector::resize to more than the capacity: the elements move to new      *)
(* memory, those beyond the old size are made anew.                        *)
Resize(b, n) ==
  LET cap == NewCapacity(b.size, n)
  IN  [b EXCEPT !.size = n, !.capacity = cap,
                !.data = [i \in Cells(cap) |-> IF i < b.size THEN b.data[i] ELSE Nul]]

(* Seeded fault: the last byte left out of the copy.                       *)
FaultShortCopy(b) ==
  [b EXCEPT !.data = [i \in DOMAIN b.data |-> IF i < ReadbleBytes(b) - 1
                                              THEN b.data[b.readIndex_ + i]
                                              ELSE b.data[i]],
            !.writeIndex_ = ReadbleBytes(b),
            !.readIndex_ = 0]

(* The bytes to be read move to the front.                                 *)
Compact(b) ==
  [b EXCEPT !.data = [i \in DOMAIN b.data |-> IF i < ReadbleBytes(b)
                                              THEN b.data[b.readIndex_ + i]
                                              ELSE b.data[i]],
            !.writeIndex_ = ReadbleBytes(b),
            !.readIndex_ = 0]

(* Seeded fault: room made for one byte too few.                           *)
FaultOneShort(b, len) ==
  IF len <= WriteableBytes(b) + 1 THEN b
  ELSE IF len - WriteableBytes(b) < b.readIndex_ THEN Compact(b)
  ELSE Resize(b, b.writeIndex_ + len)

EnsureWritebale(b, len) ==
  IF len <= WriteableBytes(b) THEN b
  ELSE IF len - WriteableBytes(b) < b.readIndex_ THEN Compact(b)
  ELSE Resize(b, b.writeIndex_ + len)

(* The bytes of sequence s stored from writeIndex_ on.                     *)
Store(b, s) ==
  [b EXCEPT !.data = [i \in DOMAIN b.data |->
                        IF i \in b.writeIndex_..(b.writeIndex_ + Len(s) - 1)
                        THEN s[i - b.writeIndex_ + 1] ELSE b.data[i]],
            !.writeIndex_ = @ + Len(s)]

AppendTo(b, s) ==
  LET room == EnsureWritebale(b, Len(s))
  IN  IF WriteableBytes(room) >= Len(s) THEN Store(room, s) ELSE room

(* How much retrieve(len) takes, and what it leaves.                       *)
Taken(b, len) == IF len >= ReadbleBytes(b) THEN ReadbleBytes(b) ELSE len

Retrieve(b, len) ==
  IF Taken(b, len) = ReadbleBytes(b)
  THEN [b EXCEPT !.readIndex_ = 0, !.writeIndex_ = 0]
  ELSE [b EXCEPT !.readIndex_ = @ + Taken(b, len)]

(* What readFd does to a buffer that the bytes of s fill to its capacity.  *)
FillUp(b, s) == [Store(b, s) EXCEPT !.writeIndex_ = b.size]

-----------------------------------------------------------------------------
NewBuffer ==
  [data |-> [i \in Cells(InitSize) |-> Nul], size |-> InitSize,
   capacity |-> InitSize, readIndex_ |-> 0, writeIndex_ |-> 0]

Init ==
  /\ buffer = [t \in Threads |-> NewBuffer]
  /\ extrabuf = <<>>
  /\ waiting = [t \in Threads |-> 0]
  /\ given = [t \in Threads |-> 0]
  /\ retrieved = [t \in Threads |-> 0]

(* The next n bytes for thread t, after those given and skip more.         *)
NextBytes(t, skip, n) == [i \in 1..n |-> <<t, given[t] + skip + i>>]

AppendBytes(t, n) ==
  /\ waiting[t] = 0
  /\ given[t] + n <= MaxBytes
  /\ buffer' = [buffer EXCEPT ![t] = AppendTo(@, NextBytes(t, 0, n))]
  /\ given' = [given EXCEPT ![t] = @ + n]
  /\ UNCHANGED <<extrabuf, waiting, retrieved>>

(* readFd when all the bytes fit.                                          *)
ReadFd(t, n) ==
  /\ waiting[t] = 0
  /\ given[t] + n <= MaxBytes
  /\ n <= WriteableBytes(buffer[t])
  /\ buffer' = [buffer EXCEPT ![t] = Store(@, NextBytes(t, 0, n))]
  /\ given' = [given EXCEPT ![t] = @ + n]
  /\ UNCHANGED <<extrabuf, waiting, retrieved>>

(* readFd when they do not: readv fills the buffer up and puts the rest    *)
(* into extrabuf, and writeIndex_ becomes the vector's size ...            *)
ReadFdOverflows(t, n) ==
  LET fits == WriteableBytes(buffer[t])
  IN  /\ waiting[t] = 0
      /\ given[t] + n <= MaxBytes
      /\ n \in (fits + 1)..(fits + ExtraSize)
      /\ buffer' = [buffer EXCEPT ![t] = FillUp(@, NextBytes(t, 0, fits))]
      /\ extrabuf' = NextBytes(t, fits, n - fits)
                       \o SubSeq(extrabuf, n - fits + 1, Len(extrabuf))
      /\ waiting' = [waiting EXCEPT ![t] = n - fits]
      /\ given' = [given EXCEPT ![t] = @ + fits]
      /\ UNCHANGED retrieved

(* ... and then the rest is appended from there.                           *)
AppendExtra(t) ==
  /\ waiting[t] > 0
  /\ buffer' = [buffer EXCEPT ![t] = AppendTo(@, SubSeq(extrabuf, 1, waiting[t]))]
  /\ given' = [given EXCEPT ![t] = @ + waiting[t]]
  /\ waiting' = [waiting EXCEPT ![t] = 0]
  /\ UNCHANGED <<extrabuf, retrieved>>

RetrieveBytes(t, len) ==
  /\ waiting[t] = 0
  /\ buffer' = [buffer EXCEPT ![t] = Retrieve(@, len)]
  /\ retrieved' = [retrieved EXCEPT ![t] = @ + Taken(buffer[t], len)]
  /\ UNCHANGED <<extrabuf, waiting, given>>

(* The indices stay in order and inside the memory of the vector, whatever *)
(* is appended, read and retrieved, in whatever order.                     *)
InRange(b) ==
  /\ 0 <= b.readIndex_
  /\ b.readIndex_ <= b.writeIndex_
  /\ b.writeIndex_ <= b.capacity
  /\ 1 <= b.size
  /\ b.size <= b.capacity

IndicesInRange == \A t \in Threads : InRange(buffer[t])

(* Once the indices have crossed, what the next operation does to the      *)
(* memory is undefined.                                                    *)
Next ==
  /\ IndicesInRange
  /\ \E t \in Threads :
       \/ \E n \in AppendSizes : AppendBytes(t, n)
       \/ \E n \in ReadSizes : ReadFd(t, n) \/ ReadFdOverflows(t, n)
       \/ AppendExtra(t)
       \/ \E len \in 0..(MaxBytes + 1) : RetrieveBytes(t, len)

Spec == Init /\ [][Next]_vars

-----------------------------------------------------------------------------
(* Properties. *)

BufferOK(b) ==
  /\ b.size \in Nat /\ b.capacity \in Nat
  /\ b.readIndex_ \in Int /\ b.writeIndex_ \in Int
  /\ DOMAIN b.data = Cells(b.capacity)
  /\ DOMAIN b = {"data", "size", "capacity", "readIndex_", "writeIndex_"}

TypeOK ==
  /\ DOMAIN buffer = Threads
  /\ \A t \in Threads : BufferOK(buffer[t])
  /\ extrabuf \in Seq(Threads \X Nat)
  /\ waiting \in [Threads -> 0..ExtraSize]
  /\ given \in [Threads -> 0..MaxBytes]
  /\ retrieved \in [Threads -> Nat]

(* Buffer.h: "how many data in the buffer now".  readbleBytes counts the   *)
(* bytes given and not yet retrieved.                                      *)
Counted(t) == ReadbleBytes(buffer[t]) = given[t] - retrieved[t]
CountExact == \A t \in Threads : Counted(t)

(* No operation loses count of the bytes or moves an index out of the      *)
(* memory, whatever came before it, but one: a readFd that overflows a     *)
(* vector with more capacity than size.  (There writeIndex_ becomes the    *)
(* size while readv filled the capacity.)                                  *)
CountsKept ==
  [][\A t \in Threads :
       /\ InRange(buffer[t]) /\ Counted(t)
       /\ waiting'[t] > waiting[t] => buffer[t].size = buffer[t].capacity
       => InRange(buffer'[t]) /\ Counted(t)']_vars

(* Buffer.h: "retrieve some data which has been apended to buffer".  The   *)
(* bytes to be read are those given and not yet retrieved, in order.       *)
Intact(t) ==
  LET b == buffer[t]
  IN  /\ ReadbleBytes(b) = given[t] - retrieved[t]
      /\ \A i \in 1..ReadbleBytes(b) :
           b.data[b.readIndex_ + i - 1] = <<t, retrieved[t] + i>>

BytesIntact == \A t \in Threads : Intact(t)

(* While the vector has no capacity beyond its size no operation loses or  *)
(* mixes up a byte: not the move to the front, not the growth, not the     *)
(* second half of a readFd that overflows.                                 *)
FullVectorKeepsBytes ==
  [][\A t \in Threads :
       Intact(t) /\ buffer[t].size = buffer[t].capacity => Intact(t)']_vars
=============================================================================
