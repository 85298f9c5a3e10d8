----------------------------- MODULE OutputBuffer -----------------------------
(***************************************************************************)
(* A Buffer that is only appended to and retrieved from, as outBuffer_ is, *)
(* as its owner sees it: bytes, those to be read, with what tells where    *)
(* they lie, readIndex_ and the size and capacity of the vector.  Room is  *)
(* counted in the capacity, but a vector that grows moves only its size:   *)
(* waiting bytes beyond it are lost, and the owner reads Nul for them.     *)
(* (Module Buffer has the memory byte by byte.)                            *)
(***************************************************************************)
EXTENDS Naturals, Sequences

CONSTANTS
  InitSize,   \* DEFAULTINITSIZE
  Nul         \* what the vector's new elements hold

ASSUME InitSizeAssumption == InitSize \in Nat \ {0}

OrNul(byte) == byte \cup {Nul}

Queues(byte) ==
  [bytes : Seq(OrNul(byte)), readIndex_ : Nat, size : Nat, capacity : Nat]

EmptyQueue ==
  [bytes |-> <<>>, readIndex_ |-> 0, size |-> InitSize, capacity |-> InitSize]

Readable(q) == Len(q.bytes)
Used(q) == q.readIndex_ + Readable(q)

(* What vector::resize allocates for n elements when it has to.            *)
GrownCapacity(size, n) == IF n > 2 * size THEN n ELSE 2 * size

(* vector::resize moves the elements, those beyond the old size are new.   *)
Moved(q) ==
  [i \in DOMAIN q.bytes |-> IF q.readIndex_ + i <= q.size THEN q.bytes[i] ELSE Nul]

(* ensureWritebale(len): the bytes move to the front, or the vector grows. *)
MakeRoom(q, len) ==
  IF Used(q) + len <= q.capacity THEN q
  ELSE IF Used(q) + len < q.capacity + q.readIndex_ THEN [q EXCEPT !.readIndex_ = 0]
  ELSE [q EXCEPT !.bytes = Moved(q), !.size = Used(q) + len,
                 !.capacity = GrownCapacity(q.size, Used(q) + len)]

(* append *)
Put(q, s) == [MakeRoom(q, Len(s)) EXCEPT !.bytes = @ \o s]

(* retrieve(n), of no more than there is.                                  *)
Take(q, n) ==
  IF n = Readable(q) THEN [q EXCEPT !.bytes = <<>>, !.readIndex_ = 0]
  ELSE [q EXCEPT !.bytes = SubSeq(@, n + 1, Readable(q)), !.readIndex_ = @ + n]
=============================================================================
