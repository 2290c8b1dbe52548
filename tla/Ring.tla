-------------------------------- MODULE Ring --------------------------------
(***************************************************************************)
(* buffer.h: the circular buffer that the macro BUFFER defines, used by    *)
(* one writer and one reader that interleave between any two accesses.     *)
(***************************************************************************)
EXTENDS Integers

CONSTANTS Size,      \* SIZE, a power of two
          Elements,
          Nothing    \* what is read before anything is

ASSUME SizeAssumption == Size \in Nat /\ Size > 1
ASSUME NothingAssumption == Nothing \notin Elements

VARIABLES
  data, head, tail,
  writer,   \* "push": between the two statements of put
  reader,   \* "pop": between the two statements of get
  c,        \* get: the element read
  got       \* what the last get returned

ring == <<data, head, tail, writer, reader, c, got>>

Slots == 0 .. Size - 1

\* Masking with SIZE - 1.
Masked(n) == n % Size

Used == Masked(head - tail)

IsEmpty == head = tail

\* Mutant: the slot that tells a full buffer from an empty one is used, too.
NeverFull == FALSE

IsFull == Masked(head + 1) = tail

\* put writes to the free slot first, then push waits until there is another.
PutData(e) ==
  /\ writer = "idle"
  /\ data' = [data EXCEPT ![head] = e]
  /\ writer' = "push"
  /\ UNCHANGED <<head, tail, reader, c, got>>

Push ==
  /\ writer = "push"
  /\ ~IsFull
  /\ head' = Masked(head + 1)
  /\ writer' = "idle"
  /\ UNCHANGED <<data, tail, reader, c, got>>

\* get waits for an element and copies it ...
GetData ==
  /\ reader = "idle"
  /\ ~IsEmpty
  /\ c' = data[tail]
  /\ reader' = "pop"
  /\ UNCHANGED <<data, head, tail, writer, got>>

Popped == Masked(tail + 1)

\* ... before pop frees its slot.
Pop ==
  /\ reader = "pop"
  /\ tail' = Popped
  /\ got' = c
  /\ reader' = "idle"
  /\ UNCHANGED <<data, head, writer, c>>

\* The slots of a static array are zero at the start, which no reader sees.
RingInit ==
  /\ data = [i \in Slots |-> Nothing]
  /\ head = 0
  /\ tail = 0
  /\ writer = "idle"
  /\ reader = "idle"
  /\ c = Nothing
  /\ got = Nothing

Writing == Push \/ \E e \in Elements : PutData(e)

Reading == GetData \/ Pop

RingNext == Writing \/ Reading

RingSpec == RingInit /\ [][RingNext]_ring

-----------------------------------------------------------------------------
RingTypeOK ==
  /\ data \in [Slots -> Elements \cup {Nothing}]
  /\ head \in Slots
  /\ tail \in Slots
  /\ writer \in {"idle", "push"}
  /\ reader \in {"idle", "pop"}
  /\ c \in Elements \cup {Nothing}
  /\ got \in Elements \cup {Nothing}

\* With one writer and one reader the buffer is a queue of SIZE - 1 elements: no
\* element is lost, doubled or handed out before it is pushed, although put
\* writes to a slot before it knows of a free one (buffer.h:8-10, 38-40).
Fifo == INSTANCE BoundedFifo WITH
  Capacity <- Size - 1,
  queue <- [i \in 1 .. Used |-> data[Masked(tail + i - 1)]]

FifoSpec == Fifo!Spec
=============================================================================
