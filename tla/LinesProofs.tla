---------------------------- MODULE LinesProofs -----------------------------
(***************************************************************************)
(* Queues, stacks, deques and lists, in arrays and linked, are what their  *)
(* headers promise, a line of elements.  The inductive invariant is that   *)
(* of each class's private data, LinesSound.  For each class these data    *)
(* are first related to a sequence (a ring, an array filled from its       *)
(* start, a chain of nodes); each call is then shown to change that        *)
(* sequence as the line does, by the lemmas of QueueLemmas.                *)
(***************************************************************************)
EXTENDS Lines, QueueLemmas

Cells == Values \cup {garbage}

-----------------------------------------------------------------------------
(* ArrayQueue.                                                             *)

Shape(q) == q = [count |-> q.count, size |-> q.size, in |-> q.in,
                 out |-> q.out, buffer |-> q.buffer]

\* A sound QData is a ring, whose line is the queue.
LEMMA QueueIsRing ==
  ASSUME NEW q
  PROVE  /\ AQ!Ring(q) <=>
              /\ Shape(q)
              /\ RingHolds(q.count, q.size, q.out, q.buffer, Values, Cells)
              /\ q.in = Slot(q.out, q.count + 1, q.size)
         /\ AQ!Ring(q) => AQ!GenArray(q) = RingLine(q.count, q.size, q.out, q.buffer)
<1>1. AQ!GenArray(q) = RingLine(q.count, q.size, q.out, q.buffer)
  BY DEF AQ!GenArray, RingLine, Slot
<1>2. ASSUME AQ!Ring(q)
      PROVE  /\ Shape(q)
             /\ RingHolds(q.count, q.size, q.out, q.buffer, Values, Cells)
             /\ q.in = Slot(q.out, q.count + 1, q.size)
  <2>1. RingHolds(q.count, q.size, q.out, q.buffer, Values, Cells)
    BY <1>2 DEF AQ!Ring, RingHolds, AQ!GenArray, Slot, Cells
  <2>2. q.out + (q.count + 1) - 1 = q.out + q.count
    BY <1>2 DEF AQ!Ring
  <2> QED
    BY <1>2, <2>1, <2>2 DEF AQ!Ring, Slot, Shape
<1>3. ASSUME Shape(q),
             RingHolds(q.count, q.size, q.out, q.buffer, Values, Cells),
             q.in = Slot(q.out, q.count + 1, q.size)
      PROVE  AQ!Ring(q)
  <2>1. q.out + (q.count + 1) - 1 = q.out + q.count
    BY <1>3 DEF RingHolds
  <2>2. q.in \in 0 .. q.size - 1
    BY <1>3, SlotIs DEF RingHolds
  <2>3. \A j \in 1 .. q.count : AQ!GenArray(q)[j] \in Values
    BY <1>1, <1>3, RingElems
  <2>4. q.in = (q.out + q.count) % q.size
    BY <1>3, <2>1 DEF Slot
  <2> QED
    BY <1>3, <2>2, <2>3, <2>4 DEF AQ!Ring, RingHolds, Shape, Cells
<1> QED
  BY <1>1, <1>2, <1>3

\* A new queue is sound, and empty.
LEMMA QueueNew ==
  ASSUME NEW capacity \in Int
  PROVE  /\ AQ!Ring(AQ!NewQueue(capacity))
         /\ AQ!GenArray(AQ!NewQueue(capacity)) = <<>>
BY LinesAssumption DEF AQ!CapacityAssumption, AQ!NewQueue, AQ!Ring, AQ!GenArray

\* An element that is stored in a queue with room is its last.
LEMMA QueueStored ==
  ASSUME NEW q, AQ!Ring(q), q.count < q.size, NEW e \in Values
  PROVE  /\ AQ!Ring(AQ!Stored(q, e))
         /\ AQ!GenArray(AQ!Stored(q, e)) = Append(AQ!GenArray(q), e)
<1> DEFINE r == AQ!Stored(q, e)
           b == [q.buffer EXCEPT ![q.in] = e]
           c == q.count
           n == q.size
           o == q.out
<1>1. /\ Shape(q)
      /\ RingHolds(c, n, o, q.buffer, Values, Cells)
      /\ q.in = Slot(o, c + 1, n)
      /\ AQ!GenArray(q) = RingLine(c, n, o, q.buffer)
  BY QueueIsRing
<1>2. n \in Nat \ {0} /\ c \in 0 .. n - 1 /\ o \in 0 .. n - 1
  BY <1>1 DEF RingHolds
<1>3. /\ RingHolds(c + 1, n, o, b, Values, Cells)
      /\ RingLine(c + 1, n, o, b) = Append(AQ!GenArray(q), e)
  BY <1>1, RingAppend
<1>4. r = [q EXCEPT !.buffer = b, !.in = (q.in + 1) % n, !.count = c + 1]
  BY DEF AQ!Stored
<1>5. (q.in + 1) % n = Slot(o, c + 2, n)
  <2>1. (q.in + 1) % n = Slot(Slot(o, c + 1, n), 2, n)
    BY <1>1, <1>2 DEF Slot
  <2>2. /\ c + 1 \in 1 .. n + 1 /\ 2 \in 1 .. n + 1
        /\ c + 1 + 2 - 1 = c + 2 /\ c + 1 + 2 - 1 <= n + 1
    BY <1>2
  <2> QED
    BY <1>2, <2>1, <2>2, SlotsFrom
<1> HIDE DEF r, b
<1>6. Shape(r) /\ r.count = c + 1 /\ r.size = n /\ r.out = o /\ r.buffer = b
      /\ r.in = (q.in + 1) % n
  BY <1>1, <1>4 DEF Shape
<1>7. c + 1 + 1 = c + 2
  BY <1>2
<1> HIDE DEF c, n, o
<1>8. AQ!Ring(r) /\ AQ!GenArray(r) = RingLine(c + 1, n, o, b)
  BY <1>3, <1>5, <1>6, <1>7, QueueIsRing
<1> QED
  BY <1>3, <1>8 DEF r

\* A larger array has the same queue, and room.
LEMMA QueueGrown ==
  ASSUME NEW q, AQ!Ring(q)
  PROVE  /\ AQ!Ring(AQ!Grown(q))
         /\ AQ!GenArray(AQ!Grown(q)) = AQ!GenArray(q)
         /\ q.count >= q.size => AQ!Grown(q).count < AQ!Grown(q).size
<1> DEFINE c == q.count
           n == q.size
           s == AQ!GenArray(q)
           b == [i \in 0 .. 2 * n - 1 |-> IF i < c THEN s[i + 1] ELSE garbage]
           r == AQ!Grown(q)
<1>1. /\ RingHolds(c, n, q.out, q.buffer, Values, Cells)
      /\ s = RingLine(c, n, q.out, q.buffer)
  BY QueueIsRing
<1>2. n \in Nat \ {0} /\ c \in 0 .. n
  BY <1>1 DEF RingHolds
<1>3. r = [count |-> c, size |-> 2 * n, in |-> c, out |-> 0, buffer |-> b]
  BY DEF AQ!Grown
<1>4. 2 * n \in Nat /\ 2 * n >= n /\ garbage \in Cells
  BY <1>2 DEF Cells
<1>5. /\ RingHolds(c, 2 * n, 0, b, Values, Cells)
      /\ RingLine(c, 2 * n, 0, b) = s
  BY <1>1, <1>4, RingGrow
<1>6. c = Slot(0, c + 1, 2 * n)
  <2>1. /\ 2 * n \in Nat \ {0} /\ 0 \in 0 .. 2 * n - 1 /\ c + 1 \in 1 .. 2 * n + 1
        /\ 0 + (c + 1) - 1 = c /\ c < 2 * n
    BY <1>2
  <2> QED
    BY <2>1, SlotIs
<1>7. c >= n => c < 2 * n
  BY <1>2
<1> HIDE DEF b, r, s
<1>8. Shape(r) /\ r.count = c /\ r.size = 2 * n /\ r.in = c /\ r.out = 0 /\ r.buffer = b
  BY <1>3 DEF Shape
<1>9. AQ!Ring(r) /\ AQ!GenArray(r) = RingLine(c, 2 * n, 0, b)
  BY <1>5, <1>6, <1>8, QueueIsRing
<1> QED
  BY <1>5, <1>7, <1>8, <1>9 DEF r, s

\* A put is one at the end of the line.
LEMMA EnqueueIsPut ==
  ASSUME AQ!RingOK, NEW e \in Values, AQ!Enqueue(e)
  PROVE  AQ!RingOK' /\ AQ!L!PutLast
<1>1. AQ!Ring(self)
  BY DEF AQ!RingOK
<1>2. CASE self.count < self.size /\ self' = AQ!Stored(self, e) /\ ret' = <<"putLast", TRUE>>
  <2>1. AQ!Ring(self') /\ AQ!GenArray(self') = Append(AQ!GenArray(self), e)
    BY <1>1, <1>2, QueueStored
  <2> QED
    BY <1>2, <2>1 DEF AQ!RingOK, AQ!L!PutLast, AQ!L!Put
<1>3. CASE /\ self.count >= self.size
           /\ self' = AQ!Stored(AQ!Grown(self), e) /\ ret' = <<"putLast", TRUE>>
  <2>1. AQ!Ring(self') /\ AQ!GenArray(self') = Append(AQ!GenArray(self), e)
    <3> DEFINE g == AQ!Grown(self)
    <3>1. AQ!Ring(g) /\ AQ!GenArray(g) = AQ!GenArray(self) /\ g.count < g.size
      BY <1>1, <1>3, QueueGrown
    <3> QED
      BY <1>3, <3>1, QueueStored
  <2> QED
    BY <1>3, <2>1 DEF AQ!RingOK, AQ!L!PutLast, AQ!L!Put
<1>4. CASE UNCHANGED self /\ ret' = <<"putLast", FALSE>>
  <2>1. AQ!GenArray(self)' = AQ!GenArray(self)
    BY <1>4
  <2> QED
    BY <1>1, <1>4, <2>1 DEF AQ!RingOK, AQ!L!PutLast, AQ!L!Put
<1> QED
  BY <1>2, <1>3, <1>4 DEF AQ!Enqueue

\* A take removes the first of the line.
LEMMA DequeueIsTake ==
  ASSUME AQ!RingOK, AQ!Dequeue
  PROVE  AQ!RingOK' /\ AQ!L!TakeFirst
<1> DEFINE c == self.count
           n == self.size
           o == self.out
           b == self.buffer
<1>1. /\ AQ!Ring(self)
      /\ Shape(self)
      /\ RingHolds(c, n, o, b, Values, Cells)
      /\ self.in = Slot(o, c + 1, n)
      /\ AQ!GenArray(self) = RingLine(c, n, o, b)
  BY QueueIsRing DEF AQ!RingOK
<1>2. n \in Nat \ {0} /\ c \in 0 .. n /\ o \in 0 .. n - 1
  BY <1>1 DEF RingHolds
<1>3. CASE /\ c > 0
           /\ self' = [self EXCEPT !.out = (o + 1) % n, !.count = c - 1]
           /\ ret' = <<"takeFirst", TRUE, b[o]>>
  <2>1. /\ Shape(self')
        /\ self'.count = c - 1 /\ self'.size = n /\ self'.in = self.in
        /\ self'.out = (o + 1) % n /\ self'.buffer = b
    BY <1>1, <1>3 DEF Shape
  <2>2. (o + 1) % n = Slot(o, 2, n) /\ c - 1 + 1 = c
    BY <1>2 DEF Slot
  <2>3. /\ RingHolds(c - 1, n, Slot(o, 2, n), b, Values, Cells)
        /\ RingLine(c, n, o, b) # <<>>
        /\ RingLine(c, n, o, b)[1] = b[o]
        /\ RingLine(c - 1, n, Slot(o, 2, n), b) = Tail(RingLine(c, n, o, b))
        /\ Slot(Slot(o, 2, n), c, n) = Slot(o, c + 1, n)
    <3> DEFINE k == c - 1
               q == Slot(o, 2, n)
    <3>1. RingHolds(c, n, o, b, Values, Cells) /\ c > 0 /\ k = c - 1 /\ q = Slot(o, 2, n)
      BY <1>1, <1>3
    <3> HIDE DEF c, n, o, b, k, q
    <3>2. /\ RingHolds(k, n, q, b, Values, Cells)
          /\ RingLine(c, n, o, b) # <<>>
          /\ RingLine(c, n, o, b)[1] = b[o]
          /\ RingLine(k, n, q, b) = Tail(RingLine(c, n, o, b))
          /\ Slot(q, c, n) = Slot(o, c + 1, n)
      BY <3>1, RingTail
    <3> QED
      BY <3>2 DEF k, q
  <2>4. /\ RingHolds(self'.count, self'.size, self'.out, self'.buffer, Values, Cells)
        /\ self'.in = Slot(self'.out, self'.count + 1, self'.size)
        /\ RingLine(self'.count, self'.size, self'.out, self'.buffer) =
             Tail(AQ!GenArray(self))
    BY <1>1, <2>1, <2>2, <2>3
  <2>5. AQ!Ring(self') /\ AQ!GenArray(self') = Tail(AQ!GenArray(self))
    <3> DEFINE t == self'
    <3>1. /\ Shape(t)
          /\ RingHolds(t.count, t.size, t.out, t.buffer, Values, Cells)
          /\ t.in = Slot(t.out, t.count + 1, t.size)
          /\ RingLine(t.count, t.size, t.out, t.buffer) = Tail(AQ!GenArray(self))
      BY <2>1, <2>4
    <3> HIDE DEF t
    <3>2. AQ!Ring(t) /\ AQ!GenArray(t) = Tail(AQ!GenArray(self))
      BY <3>1, QueueIsRing
    <3> QED
      BY <3>2 DEF t
  <2> QED
    BY <1>1, <1>3, <2>3, <2>5 DEF AQ!RingOK, AQ!L!TakeFirst
<1>4. CASE c = 0 /\ UNCHANGED self /\ ret' = <<"takeFirst", FALSE>>
  <2>1. AQ!GenArray(self) = <<>>
    BY <1>4 DEF AQ!GenArray
  <2>2. AQ!GenArray(self)' = AQ!GenArray(self)
    BY <1>4
  <2> QED
    BY <1>1, <1>4, <2>1, <2>2 DEF AQ!RingOK, AQ!L!TakeFirst
<1> QED
  BY <1>3, <1>4 DEF AQ!Dequeue

\* What a sound queue tells and gives away is its line.
LEMMA QueueCalls ==
  ASSUME AQ!RingOK, AQ!Next
  PROVE  AQ!RingOK' /\ AQ!L!LineNext
<1> DEFINE s == AQ!GenArray(self)
<1>1. /\ AQ!Ring(self)
      /\ Shape(self)
      /\ RingHolds(self.count, self.size, self.out, self.buffer, Values, Cells)
      /\ s = RingLine(self.count, self.size, self.out, self.buffer)
  BY QueueIsRing DEF AQ!RingOK
<1>2. /\ self.count \in Nat /\ self.size \in Nat \ {0} /\ self.out \in 0 .. self.size - 1
      /\ self.buffer \in [0 .. self.size - 1 -> Cells] /\ Values \subseteq Cells
      /\ s \in [1 .. self.count -> Values]
      /\ \A j \in 1 .. self.count : s[j] = self.buffer[Slot(self.out, j, self.size)]
  BY <1>1, RingElems
<1>3. s \in Seq(Values) /\ Len(s) = self.count /\ (self.count = 0 <=> s = <<>>)
  <2> HIDE DEF s
  <2> QED
    BY <1>2
<1>4. UNCHANGED self => AQ!RingOK' /\ s' = s
  BY <1>1 DEF AQ!RingOK
<1>5. ASSUME NEW v \in Values, AQ!Enqueue(v) PROVE AQ!RingOK' /\ AQ!L!LineNext
  BY <1>5, EnqueueIsPut DEF AQ!L!LineNext
<1>6. CASE AQ!Dequeue
  BY <1>6, DequeueIsTake DEF AQ!L!LineNext
<1>7. CASE AQ!PeekFront
  <2>1. ASSUME self.count > 0 PROVE s[1] = self.buffer[self.out] /\ s # <<>>
    <3>1. 1 \in 1 .. self.count /\ 1 \in 1 .. self.size + 1 /\ self.out + 1 - 1 = self.out
      BY <1>2, <2>1
    <3>2. Slot(self.out, 1, self.size) = self.out
      BY <1>2, <3>1, SlotIs
    <3> QED
      BY <1>2, <1>3, <3>1, <3>2
  <2>2. /\ ret'[1] = "first" /\ s' = s
        /\ ret' = IF s = <<>> THEN <<"first", FALSE>> ELSE <<"first", TRUE, s[1]>>
    <3>1. CASE self.count > 0
      BY <1>4, <1>7, <2>1, <3>1 DEF AQ!PeekFront
    <3>2. CASE ~(self.count > 0)
      BY <1>2, <1>3, <1>4, <1>7, <3>2 DEF AQ!PeekFront
    <3> QED
      BY <3>1, <3>2
  <2>3. AQ!L!PeekFirst
    BY <2>2 DEF AQ!L!PeekFirst
  <2> QED
    BY <1>4, <1>7, <2>3 DEF AQ!PeekFront, AQ!L!LineNext
<1>8. CASE AQ!Clear
  <2> DEFINE r == self'
  <2>1. /\ Shape(r) /\ r.count = 0 /\ r.in = 0 /\ r.out = 0
        /\ r.size = self.size /\ r.buffer = self.buffer
    BY <1>1, <1>8 DEF AQ!Clear, Shape
  <2> HIDE DEF r
  <2>2. /\ RingHolds(0, r.size, 0, r.buffer, Values, Cells)
        /\ RingLine(0, r.size, 0, r.buffer) = <<>>
    <3>1. /\ r.size \in Nat \ {0} /\ 0 \in 0 .. r.size - 1
          /\ r.buffer \in [0 .. r.size - 1 -> Cells] /\ Values \subseteq Cells
      BY <1>2, <2>1
    <3> QED
      BY <3>1, RingEmpty
  <2>3. r.in = Slot(r.out, r.count + 1, r.size)
    BY <1>2, <2>1, SlotIs
  <2>4. AQ!Ring(r) /\ AQ!GenArray(r) = <<>>
    BY <2>1, <2>2, <2>3, QueueIsRing
  <2>5. AQ!L!Empty
    BY <1>8, <2>4 DEF AQ!Clear, AQ!L!Empty, r
  <2> QED
    BY <2>4, <2>5 DEF AQ!RingOK, AQ!L!LineNext, r
<1>9. CASE AQ!Destroy
  <2>1. AQ!Ring(self') /\ AQ!GenArray(self') = <<>>
    BY <1>9, QueueNew, LinesAssumption DEF AQ!Destroy, AQ!CapacityAssumption
  <2>2. AQ!L!Empty
    BY <1>9, <2>1 DEF AQ!Destroy, AQ!L!Empty
  <2> QED
    BY <2>1, <2>2 DEF AQ!RingOK, AQ!L!LineNext
<1>10. CASE AQ!Size
  <2>1. AQ!L!Size
    BY <1>3, <1>4, <1>10 DEF AQ!Size, AQ!L!Size
  <2> QED
    BY <1>4, <1>10, <2>1 DEF AQ!Size, AQ!L!LineNext
<1>11. CASE AQ!ToArray
  <2>1. AQ!L!ToArray
    BY <1>4, <1>11 DEF AQ!ToArray, AQ!L!ToArray
  <2> QED
    BY <1>4, <1>11, <2>1 DEF AQ!ToArray, AQ!L!LineNext
<1>12. CASE AQ!ItCreate
  <2>1. AQ!L!Iterate
    BY <1>3, <1>4, <1>12 DEF AQ!ItCreate, AQ!L!Iterate
  <2> QED
    BY <1>4, <1>12, <2>1 DEF AQ!ItCreate, AQ!L!LineNext
<1> QED
  BY <1>5, <1>6, <1>7, <1>8, <1>9, <1>10, <1>11, <1>12 DEF AQ!Next

-----------------------------------------------------------------------------
(* ArrayDeque.                                                             *)

DequeShape(d) == d = [size |-> d.size, count |-> d.count, head |-> d.head,
                      tail |-> d.tail, buffer |-> d.buffer]

\* Its tail is the slot of the last element.
DequeTail(d) ==
  d.tail \in 0 .. d.size - 1 /\ (d.count > 0 => d.tail = Slot(d.head, d.count, d.size))

\* A sound deque is a ring, whose line is the deque.
LEMMA DequeIsRing ==
  ASSUME NEW d
  PROVE  /\ AD!Ring(d) <=>
              /\ DequeShape(d)
              /\ RingHolds(d.count, d.size, d.head, d.buffer, Values, Cells)
              /\ DequeTail(d)
         /\ AD!Ring(d) => AD!GenArray(d) = RingLine(d.count, d.size, d.head, d.buffer)
<1>1. AD!GenArray(d) = RingLine(d.count, d.size, d.head, d.buffer)
  BY DEF AD!GenArray, RingLine, Slot
<1>2. ASSUME AD!Ring(d)
      PROVE  /\ DequeShape(d)
             /\ RingHolds(d.count, d.size, d.head, d.buffer, Values, Cells)
             /\ DequeTail(d)
  <2>1. RingHolds(d.count, d.size, d.head, d.buffer, Values, Cells)
    BY <1>2 DEF AD!Ring, RingHolds, AD!GenArray, Slot, Cells
  <2> QED
    BY <1>2, <2>1 DEF AD!Ring, Slot, DequeShape, DequeTail
<1>3. ASSUME DequeShape(d),
             RingHolds(d.count, d.size, d.head, d.buffer, Values, Cells),
             DequeTail(d)
      PROVE  AD!Ring(d)
  <2>1. \A j \in 1 .. d.count : AD!GenArray(d)[j] \in Values
    BY <1>1, <1>3, RingElems
  <2>2. d.count > 0 => d.tail = (d.head + d.count - 1) % d.size
    BY <1>3 DEF DequeTail, Slot
  <2> QED
    BY <1>3, <2>1, <2>2 DEF AD!Ring, RingHolds, DequeShape, DequeTail, Cells
<1> QED
  BY <1>1, <1>2, <1>3

\* A new deque is sound, and empty.
LEMMA DequeNew ==
  ASSUME NEW capacity \in Int
  PROVE  /\ AD!Ring(AD!NewDeque(capacity))
         /\ AD!GenArray(AD!NewDeque(capacity)) = <<>>
BY LinesAssumption DEF AQ!CapacityAssumption, AD!NewDeque, AD!Ring, AD!GenArray

\* A larger array has the same deque, and room.
LEMMA DequeGrown ==
  ASSUME NEW d, AD!Ring(d), d.count >= d.size
  PROVE  /\ AD!Ring(AD!ResizeArray(d))
         /\ AD!GenArray(AD!ResizeArray(d)) = AD!GenArray(d)
         /\ AD!ResizeArray(d).count < AD!ResizeArray(d).size
<1> DEFINE c == d.count
           n == d.size
           s == AD!GenArray(d)
           b == [i \in 0 .. 2 * n - 1 |-> IF i < c THEN s[i + 1] ELSE garbage]
           r == AD!ResizeArray(d)
<1>1. /\ RingHolds(c, n, d.head, d.buffer, Values, Cells)
      /\ s = RingLine(c, n, d.head, d.buffer)
  BY DequeIsRing
<1>2. n \in Nat \ {0} /\ c = n
  BY <1>1 DEF RingHolds
<1>3. r = [size |-> 2 * n, count |-> c, head |-> 0, tail |-> c - 1, buffer |-> b]
  BY DEF AD!ResizeArray
<1>4. 2 * n \in Nat /\ 2 * n >= n /\ garbage \in Cells
  BY <1>2 DEF Cells
<1>5. /\ RingHolds(c, 2 * n, 0, b, Values, Cells)
      /\ RingLine(c, 2 * n, 0, b) = s
  BY <1>1, <1>4, RingGrow
<1>6. c - 1 = Slot(0, c, 2 * n) /\ c - 1 \in 0 .. 2 * n - 1
  <2>1. /\ 2 * n \in Nat \ {0} /\ 0 \in 0 .. 2 * n - 1 /\ c \in 1 .. 2 * n + 1
        /\ 0 + c - 1 = c - 1 /\ c - 1 < 2 * n /\ c - 1 \in 0 .. 2 * n - 1
    BY <1>2
  <2> QED
    BY <2>1, SlotIs
<1>7. c < 2 * n
  BY <1>2
<1> HIDE DEF b, r, s
<1>8. /\ DequeShape(r) /\ r.count = c /\ r.size = 2 * n /\ r.head = 0
      /\ r.tail = c - 1 /\ r.buffer = b
  BY <1>3 DEF DequeShape
<1>9. AD!Ring(r) /\ AD!GenArray(r) = RingLine(c, 2 * n, 0, b)
  BY <1>5, <1>6, <1>8, DequeIsRing DEF DequeTail
<1> QED
  BY <1>5, <1>7, <1>8, <1>9 DEF r, s

\* The only element of a deque is put into slot 0.
LEMMA DequeOnly ==
  ASSUME NEW d, AD!Ring(d), d.count = 0, NEW e \in Values
  PROVE  /\ AD!Ring(AD!Only(d, e))
         /\ AD!GenArray(AD!Only(d, e)) = Append(<<>>, e)
<1> DEFINE n == d.size
           b == [d.buffer EXCEPT ![0] = e]
           r == AD!Only(d, e)
<1>1. DequeShape(d) /\ RingHolds(0, n, d.head, d.buffer, Values, Cells)
  BY DequeIsRing
<1>2. /\ n \in Nat \ {0} /\ 0 \in 0 .. n - 1 /\ 0 < n /\ 1 \in 1 .. n + 1
      /\ Values \subseteq Cells /\ d.buffer \in [0 .. n - 1 -> Cells]
      /\ 0 + 1 = 1 /\ 0 + 1 - 1 = 0
  BY <1>1 DEF RingHolds
<1>3. RingHolds(0, n, 0, d.buffer, Values, Cells) /\ RingLine(0, n, 0, d.buffer) = <<>>
  <2>1. /\ n \in Nat \ {0} /\ 0 \in 0 .. n - 1
        /\ Values \subseteq Cells /\ d.buffer \in [0 .. n - 1 -> Cells]
    BY <1>2
  <2> HIDE DEF n
  <2> QED
    BY <2>1, RingEmpty
<1>4. Slot(0, 1, n) = 0
  BY <1>2, SlotIs
<1>5. /\ RingHolds(1, n, 0, b, Values, Cells)
      /\ RingLine(1, n, 0, b) = Append(<<>>, e)
  <2> DEFINE c == 0
             k == 1
  <2>1. b = [d.buffer EXCEPT ![Slot(0, k, n)] = e]
    BY <1>4
  <2>2. RingHolds(c, n, 0, d.buffer, Values, Cells) /\ c < n /\ k = c + 1
    BY <1>2, <1>3
  <2> HIDE DEF b, c, k
  <2>3. /\ RingHolds(k, n, 0, b, Values, Cells)
        /\ RingLine(k, n, 0, b) = Append(RingLine(c, n, 0, d.buffer), e)
    BY <2>1, <2>2, RingAppend
  <2> QED
    BY <1>3, <2>3 DEF c, k
<1>6. r = [d EXCEPT !.head = 0, !.tail = 0, !.buffer = b, !.count = 1]
  BY DEF AD!Only
<1> HIDE DEF b, r
<1>7. /\ DequeShape(r) /\ r.count = 1 /\ r.size = n /\ r.head = 0 /\ r.tail = 0
      /\ r.buffer = b
  BY <1>1, <1>6 DEF DequeShape
<1>8. AD!Ring(r) /\ AD!GenArray(r) = RingLine(1, n, 0, b)
  BY <1>2, <1>4, <1>5, <1>7, DequeIsRing DEF DequeTail
<1> QED
  BY <1>5, <1>8 DEF r

\* With room, an element that is put in front is the first of the deque.
LEMMA DequeFirst ==
  ASSUME NEW d, AD!Ring(d), d.count < d.size, NEW e \in Values
  PROVE  /\ AD!Ring(AD!AsFirst(d, e))
         /\ AD!GenArray(AD!AsFirst(d, e)) = <<e>> \o AD!GenArray(d)
<1> DEFINE c == d.count
           n == d.size
           i == IF d.head = 0 THEN n - 1 ELSE d.head - 1
           b == [d.buffer EXCEPT ![i] = e]
           r == AD!AsFirst(d, e)
<1>1. /\ DequeShape(d)
      /\ RingHolds(c, n, d.head, d.buffer, Values, Cells)
      /\ DequeTail(d)
      /\ AD!GenArray(d) = RingLine(c, n, d.head, d.buffer)
  BY DequeIsRing
<1>2. n \in Nat \ {0} /\ c \in 0 .. n - 1 /\ d.head \in 0 .. n - 1
  BY <1>1 DEF RingHolds
<1>3. CASE c = 0
  <2>1. r = AD!Only(d, e)
    BY <1>3 DEF AD!AsFirst
  <2>2. AD!GenArray(d) = <<>>
    BY <1>3 DEF AD!GenArray
  <2>3. Append(<<>>, e) = <<e>> \o <<>>
    OBVIOUS
  <2> QED
    BY <1>3, <2>1, <2>2, <2>3, DequeOnly
<1>4. CASE c > 0
  <2>1. /\ RingHolds(c + 1, n, i, b, Values, Cells)
        /\ RingLine(c + 1, n, i, b) = <<e>> \o AD!GenArray(d)
        /\ Slot(i, c + 1, n) = Slot(d.head, c, n)
    <3>1. i = (IF d.head = 0 THEN n - 1 ELSE d.head - 1) /\ b = [d.buffer EXCEPT ![i] = e]
      OBVIOUS
    <3>2. RingHolds(c, n, d.head, d.buffer, Values, Cells) /\ c < n /\ c > 0
          /\ AD!GenArray(d) = RingLine(c, n, d.head, d.buffer)
      BY <1>1, <1>4
    <3> DEFINE k == c + 1
    <3>3. k = c + 1
      OBVIOUS
    <3> HIDE DEF b, i, k, c, n
    <3>4. /\ RingHolds(k, n, i, b, Values, Cells)
          /\ RingLine(k, n, i, b) = <<e>> \o RingLine(c, n, d.head, d.buffer)
          /\ Slot(i, k, n) = Slot(d.head, c, n)
      BY SMTT(30), <3>1, <3>2, <3>3, RingCons
    <3> QED
      BY <3>2, <3>4 DEF k
  <2>3. c # 0 /\ c + 1 > 0
    BY <1>2, <1>4
  <2>2. r = [d EXCEPT !.buffer = b, !.head = i, !.count = c + 1]
    BY <2>3 DEF AD!AsFirst
  <2> HIDE DEF b, r, i
  <2>4. /\ DequeShape(r) /\ r.count = c + 1 /\ r.size = n /\ r.head = i
        /\ r.tail = d.tail /\ r.buffer = b
    BY <1>1, <2>2 DEF DequeShape
  <2>5. AD!Ring(r) /\ AD!GenArray(r) = RingLine(c + 1, n, i, b)
    BY <1>1, <1>4, <2>1, <2>4, DequeIsRing DEF DequeTail
  <2> QED
    BY <2>1, <2>5 DEF r
<1> QED
  BY <1>2, <1>3, <1>4

\* With room, an element that is put behind is the last of the deque.
LEMMA DequeLast ==
  ASSUME NEW d, AD!Ring(d), d.count < d.size, NEW e \in Values
  PROVE  /\ AD!Ring(AD!AsLast(d, e))
         /\ AD!GenArray(AD!AsLast(d, e)) = Append(AD!GenArray(d), e)
<1> DEFINE c == d.count
           n == d.size
           o == d.head
           i == IF d.tail + 1 = n THEN 0 ELSE d.tail + 1
           b == [d.buffer EXCEPT ![i] = e]
           r == AD!AsLast(d, e)
<1>1. /\ DequeShape(d)
      /\ RingHolds(c, n, o, d.buffer, Values, Cells)
      /\ DequeTail(d)
      /\ AD!GenArray(d) = RingLine(c, n, o, d.buffer)
  BY DequeIsRing
<1>2. n \in Nat \ {0} /\ c \in 0 .. n - 1 /\ o \in 0 .. n - 1
  BY <1>1 DEF RingHolds
<1>3. CASE c = 0
  <2>1. r = AD!Only(d, e)
    BY <1>3 DEF AD!AsLast
  <2>2. AD!GenArray(d) = <<>>
    BY <1>3 DEF AD!GenArray
  <2> QED
    BY <1>3, <2>1, <2>2, DequeOnly
<1>4. CASE c > 0
  <2>1. i = Slot(o, c + 1, n) /\ i \in 0 .. n - 1
    <3>1. c \in 1 .. n + 1 /\ c + 1 \in 1 .. n + 1
      BY <1>2, <1>4
    <3>2. /\ o + c - 1 < n => d.tail = o + c - 1
          /\ o + c - 1 >= n => d.tail = o + c - 1 - n
      BY <1>1, <1>2, <1>4, <3>1, SlotIs DEF DequeTail
    <3>3. /\ o + (c + 1) - 1 < n => Slot(o, c + 1, n) = o + (c + 1) - 1
          /\ o + (c + 1) - 1 >= n => Slot(o, c + 1, n) = o + (c + 1) - 1 - n
          /\ Slot(o, c + 1, n) \in 0 .. n - 1
      BY <1>2, <3>1, SlotIs
    <3> QED
      BY <1>2, <1>4, <3>2, <3>3
  <2> HIDE DEF i
  <2>2. /\ RingHolds(c + 1, n, o, b, Values, Cells)
        /\ RingLine(c + 1, n, o, b) = Append(AD!GenArray(d), e)
    <3>1. b = [d.buffer EXCEPT ![Slot(o, c + 1, n)] = e]
      BY <2>1
    <3> HIDE DEF b
    <3> QED
      BY <1>1, <3>1, RingAppend
  <2>5. c # 0
    BY <1>2, <1>4
  <2>3. r = [d EXCEPT !.buffer = b, !.tail = i, !.count = c + 1]
    BY <2>5 DEF AD!AsLast, i
  <2> HIDE DEF b, r
  <2>4. /\ DequeShape(r) /\ r.count = c + 1 /\ r.size = n /\ r.head = o
        /\ r.tail = i /\ r.buffer = b
    BY <1>1, <2>3 DEF DequeShape
  <2>6. AD!Ring(r) /\ AD!GenArray(r) = RingLine(c + 1, n, o, b)
    BY <2>1, <2>2, <2>4, DequeIsRing DEF DequeTail
  <2> QED
    BY <2>2, <2>6 DEF r
<1> QED
  BY <1>2, <1>3, <1>4

\* What a caller is told that no array is part of.
LEMMA ToldIs ==
  /\ \A op, x : ret' = <<op, x>> => AD!Told' = ret'
  /\ \A op, x, y : ret' = <<op, x, y>> /\ op \notin {"toArray", "iterator"}
                     => AD!Told' = ret'
  /\ \A op : ret' = <<op>> => AD!Told' = ret'
  /\ \A s, n : ret' = <<"toArray", s, n>> => AD!Told' = <<"toArray", s>>
  /\ \A s, n : ret' = <<"iterator", n, s>> => AD!Told' = <<"iterator", Len(s), s>>
<1>1. ASSUME NEW op, NEW x, ret' = <<op, x>> PROVE AD!Told' = ret'
  BY <1>1 DEF AD!Told
<1>2. ASSUME NEW op, NEW x, NEW y, ret' = <<op, x, y>>, op \notin {"toArray", "iterator"}
      PROVE  AD!Told' = ret'
  BY <1>2 DEF AD!Told
<1>3. ASSUME NEW op, ret' = <<op>> PROVE AD!Told' = ret'
  BY <1>3 DEF AD!Told
<1>4. ASSUME NEW s, NEW n, ret' = <<"toArray", s, n>> PROVE AD!Told' = <<"toArray", s>>
  BY <1>4 DEF AD!Told
<1>5. ASSUME NEW s, NEW n, ret' = <<"iterator", n, s>>
      PROVE  AD!Told' = <<"iterator", Len(s), s>>
  BY <1>5 DEF AD!Told
<1> QED
  BY <1>1, <1>2, <1>3, <1>4, <1>5

\* A deque that an element is put into has room for it.
LEMMA RoomIsSame ==
  ASSUME AD!Ring(self), NEW d \in AD!WithRoom
  PROVE  /\ AD!Ring(d)
         /\ AD!GenArray(d) = AD!GenArray(self)
         /\ d.count < d.size
<1>1. self.count \in Int /\ self.size \in Int
  BY DEF AD!Ring
<1>2. CASE self.count < self.size
  BY <1>2 DEF AD!WithRoom
<1>3. CASE self.count >= self.size
  <2>1. d = AD!ResizeArray(self)
    BY <1>1, <1>3 DEF AD!WithRoom
  <2> QED
    BY <1>3, <2>1, DequeGrown
<1> QED
  BY <1>1, <1>2, <1>3

\* An element that is inserted at the front is the first of the line.
LEMMA InsertFirstIsPut ==
  ASSUME AD!DequeOK, NEW e \in Values, AD!InsertFirst(e)
  PROVE  AD!DequeOK' /\ AD!L!PutFirst
<1>1. AD!Ring(self)
  BY DEF AD!DequeOK
<1>2. CASE AD!NoRoom("putFirst")
  <2>1. AD!GenArray(self)' = AD!GenArray(self)
    BY <1>2 DEF AD!NoRoom
  <2>2. AD!Told' = <<"putFirst", FALSE>>
    BY <1>2, ToldIs DEF AD!NoRoom
  <2> QED
    BY <1>1, <1>2, <2>1, <2>2 DEF AD!DequeOK, AD!NoRoom, AD!L!PutFirst, AD!L!Put
<1>3. CASE /\ \E d \in AD!WithRoom : self' = AD!AsFirst(d, e)
           /\ ret' = <<"putFirst", TRUE>>
  <2>1. PICK d \in AD!WithRoom : self' = AD!AsFirst(d, e)
    BY <1>3
  <2>2. AD!Ring(d) /\ AD!GenArray(d) = AD!GenArray(self) /\ d.count < d.size
    BY <1>1, <2>1, RoomIsSame
  <2>3. AD!Ring(self') /\ AD!GenArray(self') = <<e>> \o AD!GenArray(self)
    BY <2>1, <2>2, DequeFirst
  <2>4. AD!Told' = <<"putFirst", TRUE>>
    BY <1>3, ToldIs
  <2> QED
    BY <2>3, <2>4 DEF AD!DequeOK, AD!L!PutFirst, AD!L!Put
<1> QED
  BY <1>2, <1>3 DEF AD!InsertFirst

\* An element that is inserted at the end is the last of the line.
LEMMA InsertLastIsPut ==
  ASSUME AD!DequeOK, NEW e \in Values, AD!InsertLast(e)
  PROVE  AD!DequeOK' /\ AD!L!PutLast
<1>1. AD!Ring(self)
  BY DEF AD!DequeOK
<1>2. CASE AD!NoRoom("putLast")
  <2>1. AD!GenArray(self)' = AD!GenArray(self)
    BY <1>2 DEF AD!NoRoom
  <2>2. AD!Told' = <<"putLast", FALSE>>
    BY <1>2, ToldIs DEF AD!NoRoom
  <2> QED
    BY <1>1, <1>2, <2>1, <2>2 DEF AD!DequeOK, AD!NoRoom, AD!L!PutLast, AD!L!Put
<1>3. CASE /\ \E d \in AD!WithRoom : self' = AD!AsLast(d, e)
           /\ ret' = <<"putLast", TRUE>>
  <2>1. PICK d \in AD!WithRoom : self' = AD!AsLast(d, e)
    BY <1>3
  <2>2. AD!Ring(d) /\ AD!GenArray(d) = AD!GenArray(self) /\ d.count < d.size
    BY <1>1, <2>1, RoomIsSame
  <2>3. AD!Ring(self') /\ AD!GenArray(self') = Append(AD!GenArray(self), e)
    BY <2>1, <2>2, DequeLast
  <2>4. AD!Told' = <<"putLast", TRUE>>
    BY <1>3, ToldIs
  <2> QED
    BY <2>3, <2>4 DEF AD!DequeOK, AD!L!PutLast, AD!L!Put
<1> QED
  BY <1>2, <1>3 DEF AD!InsertLast

\* Without its first element a deque starts at the next slot.
LEMMA RemoveFirstIsTake ==
  ASSUME AD!DequeOK, AD!RemoveFirst
  PROVE  AD!DequeOK' /\ AD!L!RemoveFirst
<1> DEFINE c == self.count
           n == self.size
           o == self.head
           b == self.buffer
<1>1. /\ AD!Ring(self)
      /\ DequeShape(self)
      /\ RingHolds(c, n, o, b, Values, Cells)
      /\ DequeTail(self)
      /\ AD!GenArray(self) = RingLine(c, n, o, b)
  BY DequeIsRing DEF AD!DequeOK
<1>2. n \in Nat \ {0} /\ c \in 0 .. n /\ o \in 0 .. n - 1
  BY <1>1 DEF RingHolds
<1>3. CASE /\ c > 0
           /\ self' = [self EXCEPT !.head = (o + 1) % n, !.count = c - 1]
           /\ ret' = <<"removeFirst", TRUE, b[o]>>
  <2>1. /\ DequeShape(self')
        /\ self'.count = c - 1 /\ self'.size = n /\ self'.tail = self.tail
        /\ self'.head = (o + 1) % n /\ self'.buffer = b
    BY <1>1, <1>3 DEF DequeShape
  <2>2. (o + 1) % n = Slot(o, 2, n)
    BY <1>2 DEF Slot
  <2>3. /\ RingHolds(c - 1, n, Slot(o, 2, n), b, Values, Cells)
        /\ RingLine(c, n, o, b) # <<>>
        /\ RingLine(c, n, o, b)[1] = b[o]
        /\ RingLine(c - 1, n, Slot(o, 2, n), b) = Tail(RingLine(c, n, o, b))
    <3> DEFINE k == c - 1
               q == Slot(o, 2, n)
    <3>1. RingHolds(c, n, o, b, Values, Cells) /\ c > 0 /\ k = c - 1 /\ q = Slot(o, 2, n)
      BY <1>1, <1>3
    <3> HIDE DEF c, n, o, b, k, q
    <3>2. /\ RingHolds(k, n, q, b, Values, Cells)
          /\ RingLine(c, n, o, b) # <<>>
          /\ RingLine(c, n, o, b)[1] = b[o]
          /\ RingLine(k, n, q, b) = Tail(RingLine(c, n, o, b))
      BY <3>1, RingTail
    <3> QED
      BY <3>2 DEF k, q
  <2>4. c - 1 > 0 => Slot(Slot(o, 2, n), c - 1, n) = Slot(o, c, n)
    <3>1. c - 1 > 0 => /\ 2 \in 1 .. n + 1 /\ c - 1 \in 1 .. n + 1
                       /\ 2 + (c - 1) - 1 = c /\ 2 + (c - 1) - 1 <= n + 1
      BY <1>2
    <3> QED
      BY <1>2, <3>1, SlotsFrom
  <2>5. AD!Ring(self') /\ AD!GenArray(self') = Tail(AD!GenArray(self))
    <3> DEFINE t == self'
    <3>1. /\ DequeShape(t)
          /\ RingHolds(t.count, t.size, t.head, t.buffer, Values, Cells)
          /\ RingLine(t.count, t.size, t.head, t.buffer) = Tail(AD!GenArray(self))
      BY <1>1, <2>1, <2>2, <2>3
    <3>2. t.tail \in 0 .. t.size - 1 /\ (t.count > 0 => t.tail = Slot(t.head, t.count, t.size))
      BY <1>1, <1>3, <2>1, <2>2, <2>4 DEF DequeTail
    <3> HIDE DEF t
    <3>3. AD!Ring(t) /\ AD!GenArray(t) = Tail(AD!GenArray(self))
      BY <3>1, <3>2, DequeIsRing DEF DequeTail
    <3> QED
      BY <3>3 DEF t
  <2>6. AD!Told' = <<"removeFirst", TRUE, b[o]>>
    <3>1. ret' = <<"removeFirst", TRUE, b[o]>>
      BY <1>3
    <3> QED
      BY <3>1 DEF AD!Told
  <2> QED
    BY <1>1, <2>3, <2>5, <2>6 DEF AD!DequeOK, AD!L!RemoveFirst
<1>4. CASE c = 0 /\ UNCHANGED self /\ ret' = <<"removeFirst", FALSE>>
  <2>1. AD!GenArray(self) = <<>>
    BY <1>4 DEF AD!GenArray
  <2>2. AD!GenArray(self)' = AD!GenArray(self)
    BY <1>4
  <2>3. AD!Told' = <<"removeFirst", FALSE>>
    BY <1>4, ToldIs
  <2> QED
    BY <1>1, <1>4, <2>1, <2>2, <2>3 DEF AD!DequeOK, AD!L!RemoveFirst
<1> QED
  BY <1>3, <1>4 DEF AD!RemoveFirst

\* Without its last element a deque starts where it did.
LEMMA RemoveLastIsTake ==
  ASSUME AD!DequeOK, AD!RemoveLast
  PROVE  AD!DequeOK' /\ AD!L!TakeLast
<1> DEFINE c == self.count
           n == self.size
           o == self.head
           b == self.buffer
           i == IF self.tail = 0 THEN n - 1 ELSE self.tail - 1
<1>1. /\ AD!Ring(self)
      /\ DequeShape(self)
      /\ RingHolds(c, n, o, b, Values, Cells)
      /\ DequeTail(self)
      /\ AD!GenArray(self) = RingLine(c, n, o, b)
  BY DequeIsRing DEF AD!DequeOK
<1>2. n \in Nat \ {0} /\ c \in 0 .. n /\ o \in 0 .. n - 1
  BY <1>1 DEF RingHolds
<1>3. CASE /\ c > 0
           /\ self' = [self EXCEPT !.tail = i, !.count = c - 1]
           /\ ret' = <<"takeLast", TRUE, b[self.tail]>>
  <2>1. i \in 0 .. n - 1 /\ (c - 1 > 0 => i = Slot(o, c - 1, n))
    <3>1. self.tail \in 0 .. n - 1 /\ self.tail = Slot(o, c, n)
      BY <1>1, <1>3 DEF DequeTail
    <3>2. c \in 1 .. n + 1 /\ (c - 1 > 0 => c - 1 \in 1 .. n + 1)
      BY <1>2, <1>3
    <3>3. /\ o + c - 1 < n => self.tail = o + c - 1
          /\ o + c - 1 >= n => self.tail = o + c - 1 - n
      BY <1>2, <3>1, <3>2, SlotIs
    <3>4. c - 1 > 0 =>
            /\ o + (c - 1) - 1 < n => Slot(o, c - 1, n) = o + (c - 1) - 1
            /\ o + (c - 1) - 1 >= n => Slot(o, c - 1, n) = o + (c - 1) - 1 - n
      BY <1>2, <3>2, SlotIs
    <3> QED
      BY <1>2, <1>3, <3>1, <3>3, <3>4
  <2> HIDE DEF i
  <2>2. /\ DequeShape(self')
        /\ self'.count = c - 1 /\ self'.size = n /\ self'.tail = i
        /\ self'.head = o /\ self'.buffer = b
    BY <1>1, <1>3 DEF DequeShape
  <2>3. /\ RingHolds(c - 1, n, o, b, Values, Cells)
        /\ RingLine(c, n, o, b) # <<>>
        /\ RingLine(c, n, o, b)[c] = b[Slot(o, c, n)]
        /\ RingLine(c - 1, n, o, b) = SubSeq(RingLine(c, n, o, b), 1, c - 1)
    BY <1>1, <1>3, RingFront
  <2>4. Len(AD!GenArray(self)) = c
    BY <1>2 DEF AD!GenArray
  <2>5. AD!Ring(self') /\ AD!GenArray(self') = SubSeq(AD!GenArray(self), 1, c - 1)
    <3> DEFINE t == self'
    <3>1. /\ DequeShape(t)
          /\ RingHolds(t.count, t.size, t.head, t.buffer, Values, Cells)
          /\ RingLine(t.count, t.size, t.head, t.buffer) = SubSeq(AD!GenArray(self), 1, c - 1)
      BY <1>1, <2>2, <2>3
    <3>2. t.tail \in 0 .. t.size - 1 /\ (t.count > 0 => t.tail = Slot(t.head, t.count, t.size))
      BY <2>1, <2>2
    <3> HIDE DEF t
    <3>3. AD!Ring(t) /\ AD!GenArray(t) = SubSeq(AD!GenArray(self), 1, c - 1)
      BY <3>1, <3>2, DequeIsRing DEF DequeTail
    <3> QED
      BY <3>3 DEF t
  <2>6. AD!Told' = <<"takeLast", TRUE, b[self.tail]>>
    <3>1. ret' = <<"takeLast", TRUE, b[self.tail]>>
      BY <1>3
    <3> QED
      BY <3>1 DEF AD!Told
  <2>7. b[self.tail] = AD!GenArray(self)[c]
    BY <1>1, <1>3, <2>3 DEF DequeTail
  <2> QED
    BY <1>1, <2>3, <2>4, <2>5, <2>6, <2>7 DEF AD!DequeOK, AD!L!TakeLast
<1>4. CASE c = 0 /\ UNCHANGED self /\ ret' = <<"takeLast", FALSE>>
  <2>1. AD!GenArray(self) = <<>>
    BY <1>4 DEF AD!GenArray
  <2>2. AD!GenArray(self)' = AD!GenArray(self)
    BY <1>4
  <2>3. AD!Told' = <<"takeLast", FALSE>>
    BY <1>4, ToldIs
  <2> QED
    BY <1>1, <1>4, <2>1, <2>2, <2>3 DEF AD!DequeOK, AD!L!TakeLast
<1> QED
  BY <1>3, <1>4 DEF AD!RemoveLast

\* What a sound deque tells and gives away is its line.
LEMMA DequeCalls ==
  ASSUME AD!DequeOK, AD!Next
  PROVE  AD!DequeOK' /\ AD!L!LineNext
<1> DEFINE s == AD!GenArray(self)
<1>1. /\ AD!Ring(self)
      /\ DequeShape(self)
      /\ RingHolds(self.count, self.size, self.head, self.buffer, Values, Cells)
      /\ DequeTail(self)
      /\ s = RingLine(self.count, self.size, self.head, self.buffer)
  BY DequeIsRing DEF AD!DequeOK
<1>2. /\ self.count \in Nat /\ self.size \in Nat \ {0} /\ self.head \in 0 .. self.size - 1
      /\ self.count <= self.size
      /\ self.buffer \in [0 .. self.size - 1 -> Cells] /\ Values \subseteq Cells
      /\ s \in [1 .. self.count -> Values]
      /\ \A j \in 1 .. self.count : s[j] = self.buffer[Slot(self.head, j, self.size)]
  BY <1>1, RingElems
<1>3. s \in Seq(Values) /\ Len(s) = self.count /\ (self.count = 0 <=> s = <<>>)
  <2> HIDE DEF s
  <2> QED
    BY <1>2
<1>4. UNCHANGED self => AD!DequeOK' /\ s' = s
  BY <1>1 DEF AD!DequeOK
<1>5. ASSUME NEW v \in Values, AD!InsertFirst(v) PROVE AD!DequeOK' /\ AD!L!LineNext
  BY <1>5, InsertFirstIsPut DEF AD!L!LineNext
<1>6. ASSUME NEW v \in Values, AD!InsertLast(v) PROVE AD!DequeOK' /\ AD!L!LineNext
  BY <1>6, InsertLastIsPut DEF AD!L!LineNext
<1>7. CASE AD!RemoveFirst
  BY <1>7, RemoveFirstIsTake DEF AD!L!LineNext
<1>8. CASE AD!RemoveLast
  BY <1>8, RemoveLastIsTake DEF AD!L!LineNext
<1>9. CASE AD!First
  <2>1. AD!Told' = IF s = <<>> THEN <<"first", FALSE>> ELSE <<"first", TRUE, s[1]>>
    <3>1. CASE self.count > 0
      <4>1. 1 \in 1 .. self.count /\ 1 \in 1 .. self.size + 1 /\ self.head + 1 - 1 = self.head
        BY <1>2, <3>1
      <4>2. Slot(self.head, 1, self.size) = self.head
        BY <1>2, <4>1, SlotIs
      <4>3. s[1] = self.buffer[self.head] /\ s # <<>>
        BY <1>2, <1>3, <4>1, <4>2
      <4>4. ret' = <<"first", TRUE, s[1]>>
        BY <1>9, <3>1, <4>3 DEF AD!First
      <4>5. AD!Told' = <<"first", TRUE, s[1]>>
        BY <4>4 DEF AD!Told
      <4> QED
        BY <4>3, <4>5
    <3>2. CASE ~(self.count > 0)
      <4>1. ret' = <<"first", FALSE>> /\ s = <<>>
        <5>1. self.count = 0
          BY <1>2, <3>2
        <5>2. s = <<>>
          BY <1>3, <5>1
        <5> QED
          BY <1>9, <3>2, <5>2 DEF AD!First
      <4> QED
        BY <4>1, ToldIs
    <3> QED
      BY <3>1, <3>2
  <2>2. UNCHANGED self
    BY <1>9 DEF AD!First
  <2>3. AD!L!PeekFirst
    BY <1>4, <2>1, <2>2 DEF AD!L!PeekFirst
  <2> QED
    BY <1>4, <2>2, <2>3 DEF AD!L!LineNext
<1>10. CASE AD!Last
  <2>1. AD!Told' = IF s = <<>> THEN <<"last", FALSE>> ELSE <<"last", TRUE, s[Len(s)]>>
    <3>1. CASE self.count > 0
      <4>1. s[self.count] = self.buffer[self.tail] /\ s # <<>>
        BY <1>1, <1>2, <1>3, <3>1 DEF DequeTail
      <4>2. ret' = <<"last", TRUE, s[Len(s)]>>
        BY <1>3, <1>10, <3>1, <4>1 DEF AD!Last
      <4>3. AD!Told' = <<"last", TRUE, s[Len(s)]>>
        BY <4>2 DEF AD!Told
      <4> QED
        BY <4>1, <4>3
    <3>2. CASE ~(self.count > 0)
      <4>1. ret' = <<"last", FALSE>> /\ s = <<>>
        <5>1. self.count = 0
          BY <1>2, <3>2
        <5>2. s = <<>>
          BY <1>3, <5>1
        <5> QED
          BY <1>10, <3>2, <5>2 DEF AD!Last
      <4> QED
        BY <4>1, ToldIs
    <3> QED
      BY <3>1, <3>2
  <2>2. UNCHANGED self
    BY <1>10 DEF AD!Last
  <2>3. AD!L!PeekLast
    BY <1>4, <2>1, <2>2 DEF AD!L!PeekLast
  <2> QED
    BY <1>4, <2>2, <2>3 DEF AD!L!LineNext
<1>11. CASE AD!Clear
  <2> DEFINE r == self'
  <2>1. /\ DequeShape(r) /\ r.count = 0 /\ r.head = 0 /\ r.tail = 0
        /\ r.size = self.size /\ r.buffer = self.buffer
    BY <1>1, <1>11 DEF AD!Clear, DequeShape
  <2> HIDE DEF r
  <2>2. /\ RingHolds(0, r.size, 0, r.buffer, Values, Cells)
        /\ RingLine(0, r.size, 0, r.buffer) = <<>>
    <3>1. /\ r.size \in Nat \ {0} /\ 0 \in 0 .. r.size - 1
          /\ r.buffer \in [0 .. r.size - 1 -> Cells] /\ Values \subseteq Cells
      BY <1>2, <2>1
    <3> QED
      BY <3>1, RingEmpty
  <2>3. DequeTail(r)
    BY <1>2, <2>1 DEF DequeTail
  <2>4. AD!Ring(r) /\ AD!GenArray(r) = <<>>
    BY <2>1, <2>2, <2>3, DequeIsRing
  <2>5. AD!Told' = <<"clear", s>>
    BY <1>11, ToldIs DEF AD!Clear
  <2>6. AD!L!Empty
    BY <2>4, <2>5 DEF AD!L!Empty, r
  <2> QED
    BY <2>4, <2>6 DEF AD!DequeOK, AD!L!LineNext, r
<1>12. CASE AD!Destroy
  <2>1. AD!Ring(self') /\ AD!GenArray(self') = <<>>
    BY <1>12, DequeNew, LinesAssumption DEF AD!Destroy, AQ!CapacityAssumption
  <2>2. AD!Told' = <<"destroy", s>>
    BY <1>12, ToldIs DEF AD!Destroy
  <2>3. AD!L!Empty
    BY <2>1, <2>2 DEF AD!L!Empty
  <2> QED
    BY <2>1, <2>3 DEF AD!DequeOK, AD!L!LineNext
<1>13. CASE AD!Size
  <2>1. AD!Told' = <<"size", self.count>>
    BY <1>13, ToldIs DEF AD!Size
  <2>2. AD!L!Size
    BY <1>3, <1>4, <1>13, <2>1 DEF AD!Size, AD!L!Size
  <2> QED
    BY <1>4, <1>13, <2>2 DEF AD!Size, AD!L!LineNext
<1>14. CASE AD!ToArray
  <2>1. AD!Told' = <<"toArray", s>> \/ AD!Told' = <<"toArray">>
    BY <1>14, ToldIs DEF AD!ToArray
  <2>2. AD!L!ToArray
    BY <1>4, <1>14, <2>1 DEF AD!ToArray, AD!L!ToArray
  <2> QED
    BY <1>4, <1>14, <2>2 DEF AD!ToArray, AD!L!LineNext
<1>15. CASE AD!ItCreate
  <2>1. AD!Told' = <<"iterator", Len(s), s>> \/ AD!Told' = <<"iterator">>
    BY <1>15, ToldIs DEF AD!ItCreate
  <2>2. AD!L!Iterate
    BY <1>4, <1>15, <2>1 DEF AD!ItCreate, AD!L!Iterate
  <2> QED
    BY <1>4, <1>15, <2>2 DEF AD!ItCreate, AD!L!LineNext
<1> QED
  BY <1>5, <1>6, <1>7, <1>8, <1>9, <1>10, <1>11, <1>12, <1>13, <1>14, <1>15
  DEF AD!Next

-----------------------------------------------------------------------------
(* ArrayStack.                                                             *)

\* A sequence has every element as often as the reversed one.
LEMMA ReversedCounts ==
  ASSUME NEW V, NEW n \in Nat, NEW s \in [1 .. n -> V], NEW t \in [1 .. n -> V],
         \A j \in 1 .. n : t[j] = s[n + 1 - j], NEW v \in V,
         NEW S \in SUBSET (1 .. n), \A i \in 1 .. n : i \in S <=> s[i] = v,
         NEW T \in SUBSET (1 .. n), \A i \in 1 .. n : i \in T <=> t[i] = v
  PROVE  Cardinality(S) = Cardinality(T)
<1> DEFINE f == [i \in S |-> n + 1 - i]
<1>1. IsFiniteSet(S)
  <2>1. IsFiniteSet(1 .. n) /\ S \subseteq 1 .. n
    BY FS_Interval
  <2> QED
    BY <2>1, FS_Subset
<1>2. \A i \in 1 .. n : n + 1 - i \in 1 .. n /\ n + 1 - (n + 1 - i) = i
  OBVIOUS
<1>3. \A i \in S : f[i] \in T /\ f[i] = n + 1 - i
  BY <1>2
<1>4. f \in [S -> T]
  BY <1>3
<1>5. IsInjective(f)
  BY <1>2, <1>3 DEF IsInjective
<1>6. \A k \in T : n + 1 - k \in S /\ f[n + 1 - k] = k
  BY <1>2
<1>7. f \in Bijection(S, T)
  BY <1>4, <1>5, <1>6 DEF Bijection, Injection, Surjection
<1>8. Cardinality(T) = Cardinality(S)
  BY <1>1, <1>7, FS_Bijection DEF ExistsBijection
<1> QED
  BY <1>8

\* The elements of a stack, from the top down.
LEMMA StackLine ==
  ASSUME NEW d, AS!Filled(d)
  PROVE  /\ d.capacity \in Nat \ {0} /\ d.next \in 0 .. d.capacity
         /\ AS!ArrayDupl(d) \in [1 .. d.next -> Values]
         /\ \A j \in 1 .. d.next : AS!ArrayDupl(d)[j] = d.theArray[d.next - j]
         /\ AS!ArrayDupl(d) \in Seq(Values)
         /\ Len(AS!ArrayDupl(d)) = d.next
         /\ d.next = 0 <=> AS!ArrayDupl(d) = <<>>
<1> DEFINE s == AS!ArrayDupl(d)
<1>1. d.capacity \in Nat \ {0} /\ d.next \in 0 .. d.capacity
  BY DEF AS!Filled
<1>2. \A j \in 1 .. d.next : d.next - j \in 0 .. d.next - 1
  BY <1>1
<1>3. /\ s \in [1 .. d.next -> Values]
      /\ \A j \in 1 .. d.next : s[j] = d.theArray[d.next - j]
  BY <1>1, <1>2 DEF AS!ArrayDupl, AS!Filled
<1> HIDE DEF s
<1>4. s \in Seq(Values) /\ Len(s) = d.next /\ (d.next = 0 <=> s = <<>>)
  BY <1>1, <1>3
<1> QED
  BY <1>1, <1>3, <1>4 DEF s

\* A new stack is sound, and empty.
LEMMA StackNew ==
  ASSUME NEW capacity \in Int
  PROVE  /\ AS!Filled(AS!NewStack(capacity))
         /\ AS!ArrayDupl(AS!NewStack(capacity)) = <<>>
BY LinesAssumption DEF AQ!CapacityAssumption, AS!NewStack, AS!Filled, AS!ArrayDupl

\* With room, an element that is stored is the top of the stack.
LEMMA StackStored ==
  ASSUME NEW d, AS!Filled(d), d.next < d.capacity, NEW e \in Values
  PROVE  /\ AS!Filled(AS!Stored(d, e))
         /\ AS!ArrayDupl(AS!Stored(d, e)) = <<e>> \o AS!ArrayDupl(d)
<1> DEFINE n == d.next
           b == [d.theArray EXCEPT ![n] = e]
           r == AS!Stored(d, e)
           s == AS!ArrayDupl(d)
           t == AS!ArrayDupl(r)
<1>1. /\ d = [capacity |-> d.capacity, next |-> n, theArray |-> d.theArray]
      /\ d.capacity \in Nat \ {0} /\ n \in 0 .. d.capacity - 1
      /\ d.theArray \in [0 .. d.capacity - 1 -> Cells]
      /\ \A i \in 0 .. n - 1 : d.theArray[i] \in Values
  BY DEF AS!Filled, Cells
<1>2. r = [d EXCEPT !.theArray = b, !.next = n + 1]
  BY DEF AS!Stored
<1>3. /\ b \in [0 .. d.capacity - 1 -> Cells]
      /\ b[n] = e /\ \A i \in 0 .. n - 1 : b[i] = d.theArray[i]
  BY <1>1 DEF Cells
<1> HIDE DEF b, r
<1>4. /\ r = [capacity |-> r.capacity, next |-> r.next, theArray |-> r.theArray]
      /\ r.capacity = d.capacity /\ r.next = n + 1 /\ r.theArray = b
  BY <1>1, <1>2
<1>5. AS!Filled(r)
  <2>1. n + 1 \in 0 .. d.capacity /\ \A i \in 0 .. n + 1 - 1 : i = n \/ i \in 0 .. n - 1
    BY <1>1
  <2>2. \A i \in 0 .. n + 1 - 1 : b[i] \in Values
    BY <1>1, <1>3, <2>1
  <2> QED
    BY <1>1, <1>3, <1>4, <2>1, <2>2 DEF AS!Filled, Cells
<1>6. /\ n \in Nat /\ s \in [1 .. n -> Values]
      /\ \A j \in 1 .. n : s[j] = d.theArray[n - j]
  BY <1>1, StackLine
<1>7. /\ t \in [1 .. n + 1 -> Values]
      /\ \A j \in 1 .. n + 1 : t[j] = b[n + 1 - j]
  BY SMTT(30), <1>4, <1>5, StackLine
<1> HIDE DEF s, t
<1>8. ASSUME NEW j \in 1 .. n + 1 PROVE t[j] = IF j = 1 THEN e ELSE s[j - 1]
  <2>1. CASE j = 1
    BY <1>3, <1>6, <1>7, <2>1
  <2>2. CASE j # 1
    <3>1. j - 1 \in 1 .. n /\ n + 1 - j = n - (j - 1) /\ n + 1 - j \in 0 .. n - 1
      BY <1>6, <2>2
    <3> QED
      BY <1>3, <1>6, <1>7, <2>2, <3>1
  <2> QED
    BY <2>1, <2>2
<1> HIDE DEF n
<1>9. t = <<e>> \o s
  BY <1>6, <1>7, <1>8, ConsIs
<1> QED
  BY <1>5, <1>9 DEF r, s, t

\* A larger array has the same stack, and room.
LEMMA StackGrown ==
  ASSUME NEW d, AS!Filled(d)
  PROVE  /\ AS!Filled(AS!Grown(d))
         /\ AS!ArrayDupl(AS!Grown(d)) = AS!ArrayDupl(d)
         /\ AS!Grown(d).next < AS!Grown(d).capacity
<1> DEFINE n == d.capacity
           b == [i \in 0 .. 2 * n - 1 |-> IF i < n THEN d.theArray[i] ELSE garbage]
           r == AS!Grown(d)
<1>1. /\ n \in Nat \ {0} /\ d.next \in 0 .. n
      /\ d.theArray \in [0 .. n - 1 -> Cells]
      /\ \A i \in 0 .. d.next - 1 : d.theArray[i] \in Values
  BY DEF AS!Filled, Cells
<1>2. r = [capacity |-> 2 * n, next |-> d.next, theArray |-> b]
  BY DEF AS!Grown
<1>3. /\ b \in [0 .. 2 * n - 1 -> Cells]
      /\ \A i \in 0 .. d.next - 1 : b[i] = d.theArray[i]
  BY <1>1 DEF Cells
<1> HIDE DEF b, r
<1>4. /\ r = [capacity |-> r.capacity, next |-> r.next, theArray |-> r.theArray]
      /\ r.capacity = 2 * n /\ r.next = d.next /\ r.theArray = b
  BY <1>2
<1>5. 2 * n \in Nat \ {0} /\ d.next \in 0 .. 2 * n /\ d.next < 2 * n
  BY <1>1
<1>6. AS!Filled(r)
  BY <1>1, <1>3, <1>4, <1>5 DEF AS!Filled, Cells
<1>7. \A j \in 1 .. d.next : d.next - j \in 0 .. d.next - 1
  BY <1>1
<1>8. AS!ArrayDupl(r) = AS!ArrayDupl(d)
  BY <1>3, <1>4, <1>7 DEF AS!ArrayDupl
<1> QED
  BY <1>4, <1>5, <1>6, <1>8 DEF r

\* A push is a put in front.
LEMMA PushIsPut ==
  ASSUME AS!StackOK, NEW e \in Values, AS!Push(e)
  PROVE  AS!StackOK' /\ AS!L!PutFirst
<1>1. AS!Filled(self)
  BY DEF AS!StackOK
<1>2. CASE self.next < self.capacity /\ self' = AS!Stored(self, e) /\ ret' = <<"putFirst", TRUE>>
  <2>1. AS!Filled(self') /\ AS!ArrayDupl(self') = <<e>> \o AS!ArrayDupl(self)
    BY <1>1, <1>2, StackStored
  <2> QED
    BY <1>2, <2>1 DEF AS!StackOK, AS!L!PutFirst, AS!L!Put
<1>3. CASE self' = AS!Stored(AS!Grown(self), e) /\ ret' = <<"putFirst", TRUE>>
  <2>1. AS!Filled(self') /\ AS!ArrayDupl(self') = <<e>> \o AS!ArrayDupl(self)
    <3> DEFINE g == AS!Grown(self)
    <3>1. AS!Filled(g) /\ AS!ArrayDupl(g) = AS!ArrayDupl(self) /\ g.next < g.capacity
      BY <1>1, StackGrown
    <3> QED
      BY <1>3, <3>1, StackStored
  <2> QED
    BY <1>3, <2>1 DEF AS!StackOK, AS!L!PutFirst, AS!L!Put
<1>4. CASE UNCHANGED self /\ ret' = <<"putFirst", FALSE>>
  <2>1. AS!ArrayDupl(self)' = AS!ArrayDupl(self)
    BY <1>4
  <2> QED
    BY <1>1, <1>4, <2>1 DEF AS!StackOK, AS!L!PutFirst, AS!L!Put
<1> QED
  BY <1>2, <1>3, <1>4 DEF AS!Push

\* A pop takes the first of the line.
LEMMA PopIsTake ==
  ASSUME AS!StackOK, AS!Pop
  PROVE  AS!StackOK' /\ AS!L!TakeFirst
<1> DEFINE n == self.next
           s == AS!ArrayDupl(self)
           t == AS!ArrayDupl(self')
<1>1. AS!Filled(self)
  BY DEF AS!StackOK
<1>2. /\ n \in Nat /\ s \in [1 .. n -> Values]
      /\ \A j \in 1 .. n : s[j] = self.theArray[n - j]
      /\ n = 0 <=> s = <<>>
  BY <1>1, StackLine
<1>3. CASE /\ n > 0
           /\ self' = [self EXCEPT !.next = n - 1]
           /\ ret' = <<"takeFirst", TRUE, self.theArray[n - 1]>>
  <2>1. /\ self' = [capacity |-> self.capacity, next |-> n - 1, theArray |-> self.theArray]
        /\ self'.capacity = self.capacity /\ self'.next = n - 1
        /\ self'.theArray = self.theArray
    BY <1>1, <1>3 DEF AS!Filled
  <2>2. AS!Filled(self')
    <3>1. /\ self.capacity \in Nat \ {0} /\ n \in 0 .. self.capacity
          /\ \A i \in 0 .. n - 1 : self.theArray[i] \in Values
          /\ self.theArray \in [0 .. self.capacity - 1 -> Values \cup {garbage}]
      BY <1>1 DEF AS!Filled
    <3>2. n - 1 \in 0 .. self.capacity /\ \A i \in 0 .. n - 1 - 1 : i \in 0 .. n - 1
      BY <1>3, <3>1
    <3> QED
      BY <2>1, <3>1, <3>2 DEF AS!Filled
  <2>3. /\ t \in [1 .. n - 1 -> Values]
        /\ \A j \in 1 .. n - 1 : t[j] = self.theArray[n - 1 - j]
    BY <2>1, <2>2, StackLine
  <2> HIDE DEF s, t
  <2>4. ASSUME NEW j \in 1 .. n - 1 PROVE t[j] = s[j + 1]
    <3>1. j + 1 \in 1 .. n /\ n - (j + 1) = n - 1 - j
      BY <1>2
    <3> QED
      BY <1>2, <2>3, <3>1
  <2>5. n \in Nat \ {0} /\ s[1] = self.theArray[n - 1]
    BY <1>2, <1>3
  <2>6. t = Tail(s) /\ s # <<>>
    <3> HIDE DEF n
    <3> QED
      BY <1>2, <2>3, <2>4, <2>5, TailIs
  <2>7. ret' = <<"takeFirst", TRUE, s[1]>>
    BY <1>3, <2>5
  <2> QED
    BY <2>2, <2>6, <2>7 DEF AS!StackOK, AS!L!TakeFirst, s, t
<1>4. CASE n <= 0 /\ UNCHANGED self /\ ret' = <<"takeFirst", FALSE>>
  <2>1. s = <<>>
    BY <1>2, <1>4
  <2>2. AS!ArrayDupl(self)' = AS!ArrayDupl(self)
    BY <1>4
  <2> QED
    BY <1>1, <1>4, <2>1, <2>2 DEF AS!StackOK, AS!L!TakeFirst
<1> QED
  BY <1>3, <1>4 DEF AS!Pop

\* Each element of a stack is freed once, from the bottom up.
LEMMA PurgedCounts ==
  ASSUME AS!Filled(self)
  PROVE  /\ Len(AS!Purged(self)) = Len(AS!ArrayDupl(self))
         /\ \A v \in Values :
              AS!L!Count(AS!Purged(self), v) = AS!L!Count(AS!ArrayDupl(self), v)
<1> DEFINE n == self.next
           s == AS!ArrayDupl(self)
           t == AS!Purged(self)
<1>1. n \in Nat
  BY DEF AS!Filled
<1>2. /\ s \in [1 .. n -> Values] /\ Len(s) = n
      /\ \A j \in 1 .. n : s[j] = self.theArray[n - j]
  BY StackLine
<1>3. /\ t \in [1 .. n -> Values]
      /\ \A j \in 1 .. n : t[j] = self.theArray[j - 1]
  <2>1. \A j \in 1 .. n : j - 1 \in 0 .. n - 1
    BY <1>1
  <2> QED
    BY <2>1 DEF AS!Purged, AS!Filled
<1>4. Len(t) = n
  <2> HIDE DEF t
  <2> QED
    BY <1>1, <1>3
<1>5. ASSUME NEW j \in 1 .. n PROVE t[j] = s[n + 1 - j]
  <2>1. n + 1 - j \in 1 .. n /\ n - (n + 1 - j) = j - 1
    BY <1>1
  <2> QED
    BY <1>2, <1>3, <2>1
<1> HIDE DEF n, s, t
<1>6. ASSUME NEW v \in Values PROVE AS!L!Count(t, v) = AS!L!Count(s, v)
  <2> DEFINE S == {i \in DOMAIN s : s[i] = v}
             T == {i \in DOMAIN t : t[i] = v}
  <2>2. /\ S \in SUBSET (1 .. n) /\ \A i \in 1 .. n : i \in S <=> s[i] = v
        /\ T \in SUBSET (1 .. n) /\ \A i \in 1 .. n : i \in T <=> t[i] = v
    BY <1>2, <1>3
  <2>4. /\ n \in Nat /\ s \in [1 .. n -> Values] /\ t \in [1 .. n -> Values]
        /\ \A j \in 1 .. n : t[j] = s[n + 1 - j]
    BY <1>1, <1>2, <1>3, <1>5
  <2> HIDE DEF S, T
  <2>3. Cardinality(S) = Cardinality(T)
    BY <2>4, <2>2, ReversedCounts
  <2>1. Cardinality({i \in DOMAIN s : s[i] = v}) = Cardinality({i \in DOMAIN t : t[i] = v})
    BY <2>3 DEF S, T
  <2> QED
    <3>1. ASSUME NEW X PROVE AS!L!Cardinality(X) = Cardinality(X)
      BY DEF AS!L!Cardinality, Cardinality
    <3> QED
      BY <2>1, <3>1 DEF AS!L!Count
<1> QED
  BY <1>2, <1>4, <1>6 DEF s, t

\* What a sound stack tells and gives away is its line.
LEMMA StackCalls ==
  ASSUME AS!StackOK, AS!Next
  PROVE  AS!StackOK' /\ AS!L!LineNext
<1> DEFINE s == AS!ArrayDupl(self)
<1>1. AS!Filled(self)
  BY DEF AS!StackOK
<1>2. /\ self.next \in Nat /\ self.capacity \in Nat \ {0}
      /\ s \in Seq(Values) /\ Len(s) = self.next /\ (self.next = 0 <=> s = <<>>)
      /\ \A j \in 1 .. self.next : s[j] = self.theArray[self.next - j]
  BY <1>1, StackLine
<1>3. UNCHANGED self => AS!StackOK' /\ s' = s
  BY <1>1 DEF AS!StackOK
<1>4. ASSUME NEW v \in Values, AS!Push(v) PROVE AS!StackOK' /\ AS!L!LineNext
  BY <1>4, PushIsPut DEF AS!L!LineNext
<1>5. CASE AS!Pop
  BY <1>5, PopIsTake DEF AS!L!LineNext
<1>6. CASE AS!Peek
  <2>1. ret' = IF s = <<>> THEN <<"first", FALSE>> ELSE <<"first", TRUE, s[1]>>
    <3>1. CASE self.next > 0
      <4>1. s[1] = self.theArray[self.next - 1] /\ s # <<>>
        BY <1>2, <3>1
      <4> QED
        BY <1>6, <3>1, <4>1 DEF AS!Peek
    <3>2. CASE ~(self.next > 0)
      <4>1. s = <<>>
        BY <1>2, <3>2
      <4> QED
        BY <1>6, <3>2, <4>1 DEF AS!Peek
    <3> QED
      BY <3>1, <3>2
  <2>2. UNCHANGED self
    BY <1>6 DEF AS!Peek
  <2>3. AS!L!PeekFirst
    BY <1>3, <2>1, <2>2 DEF AS!L!PeekFirst
  <2> QED
    BY <1>3, <2>2, <2>3 DEF AS!L!LineNext
<1>7. CASE AS!Clear
  <2>1. /\ self' = [capacity |-> self.capacity, next |-> 0, theArray |-> self.theArray]
        /\ self'.capacity = self.capacity /\ self'.next = 0 /\ self'.theArray = self.theArray
    BY <1>1, <1>7 DEF AS!Clear, AS!Filled
  <2>2. AS!Filled(self') /\ AS!ArrayDupl(self') = <<>>
    BY <1>1, <2>1 DEF AS!Filled, AS!ArrayDupl
  <2>3. AS!L!Empty
    BY <1>1, <1>7, <2>2, PurgedCounts DEF AS!Clear, AS!L!Empty
  <2> QED
    BY <2>2, <2>3 DEF AS!StackOK, AS!L!LineNext
<1>8. CASE AS!Destroy
  <2>1. AS!Filled(self') /\ AS!ArrayDupl(self') = <<>>
    BY <1>8, StackNew, LinesAssumption DEF AS!Destroy, AQ!CapacityAssumption
  <2>2. AS!L!Empty
    BY <1>1, <1>8, <2>1, PurgedCounts DEF AS!Destroy, AS!L!Empty
  <2> QED
    BY <2>1, <2>2 DEF AS!StackOK, AS!L!LineNext
<1>9. CASE AS!Size
  <2>1. AS!L!Size
    BY <1>2, <1>3, <1>9 DEF AS!Size, AS!L!Size
  <2> QED
    BY <1>3, <1>9, <2>1 DEF AS!Size, AS!L!LineNext
<1>10. CASE AS!ToArray
  <2>1. AS!L!ToArray
    BY <1>3, <1>10 DEF AS!ToArray, AS!L!ToArray
  <2> QED
    BY <1>3, <1>10, <2>1 DEF AS!ToArray, AS!L!LineNext
<1>11. CASE AS!ItCreate
  <2>1. AS!L!Iterate
    BY <1>2, <1>3, <1>11 DEF AS!ItCreate, AS!L!Iterate
  <2> QED
    BY <1>3, <1>11, <2>1 DEF AS!ItCreate, AS!L!LineNext
<1> QED
  BY <1>4, <1>5, <1>6, <1>7, <1>8, <1>9, <1>10, <1>11 DEF AS!Next

-----------------------------------------------------------------------------
(* ArrayList.                                                              *)

\* A sequence recognised as another one without one of its elements.
LEMMA RemoveIs ==
  ASSUME NEW S, NEW s \in Seq(S), NEW i \in 0 .. Len(s) - 1,
         NEW t \in Seq(S), Len(t) = Len(s) - 1,
         \A j \in 1 .. Len(t) : t[j] = IF j <= i THEN s[j] ELSE s[j + 1]
  PROVE  t = SubSeq(s, 1, i) \o SubSeq(s, i + 2, Len(s))
<1> DEFINE n == Len(s)
           a == SubSeq(s, 1, i)
           b == SubSeq(s, i + 2, n)
           r == a \o b
<1>1. s \in Seq(S) /\ Len(s) = n /\ n \in Nat
  OBVIOUS
<1>2. /\ a \in Seq(S) /\ Len(a) = i
      /\ \A j \in 1 .. i : a[j] = s[j]
  BY <1>1
<1>3. /\ b \in Seq(S) /\ Len(b) = n - i - 1
      /\ \A j \in 1 .. n - i - 1 : b[j] = s[j + i + 1]
  BY <1>1
<1> HIDE DEF a, b
<1>4. /\ r \in Seq(S) /\ Len(r) = n - 1
      /\ \A j \in 1 .. i : r[j] = s[j]
      /\ \A j \in 1 .. n - i - 1 : r[i + j] = b[j]
  <2>1. /\ r \in Seq(S) /\ Len(r) = Len(a) + Len(b)
        /\ \A j \in 1 .. Len(a) : r[j] = a[j]
        /\ \A j \in 1 .. Len(b) : r[Len(a) + j] = b[j]
    <3>1. a \in Seq(S) /\ b \in Seq(S)
      BY <1>2, <1>3
    <3> QED
      BY <3>1, ConcatElems
  <2> HIDE DEF r
  <2> QED
    BY <1>2, <1>3, <2>1
<1> HIDE DEF r
<1>5. ASSUME NEW j \in 1 .. n - 1 PROVE r[j] = t[j]
  <2>1. CASE j <= i
    BY <1>4, <2>1
  <2>2. CASE j > i
    <3> DEFINE k == j - i
    <3>1. k \in 1 .. n - i - 1 /\ i + k = j /\ k + i + 1 = j + 1 /\ ~(j <= i)
      BY <2>2
    <3>2. t[j] = s[k + i + 1]
      BY <3>1
    <3> HIDE DEF k
    <3>3. r[i + k] = b[k] /\ b[k] = s[k + i + 1]
      BY <1>3, <1>4, <3>1
    <3> QED
      BY <3>1, <3>2, <3>3
  <2> QED
    BY <2>1, <2>2
<1>6. t \in Seq(S) /\ Len(t) = n - 1
  OBVIOUS
<1>7. t = r
  <2>1. \A k \in Nat : Len(r) = k /\ Len(t) = k /\ (\A j \in 1 .. k : r[j] = t[j]) => t = r
    BY SMTT(30), <1>4, <1>6
  <2> QED
    BY <1>4, <1>5, <1>6, <2>1
<1> QED
  BY <1>1, <1>7 DEF r, a, b

\* The elements of a list, from position 0 on.
LEMMA ListLine ==
  ASSUME NEW d, AL!Filled(d)
  PROVE  /\ d = [capacity |-> d.capacity, size |-> d.size, theArray |-> d.theArray]
         /\ d.capacity \in Nat \ {0} /\ d.size \in 0 .. d.capacity
         /\ d.theArray \in [0 .. d.capacity - 1 -> Cells]
         /\ AL!ArrayDupl(d) \in [1 .. d.size -> Values]
         /\ \A j \in 1 .. d.size : AL!ArrayDupl(d)[j] = d.theArray[j - 1]
         /\ AL!ArrayDupl(d) \in Seq(Values)
         /\ Len(AL!ArrayDupl(d)) = d.size
         /\ d.size = 0 <=> AL!ArrayDupl(d) = <<>>
<1> DEFINE s == AL!ArrayDupl(d)
<1>1. /\ d = [capacity |-> d.capacity, size |-> d.size, theArray |-> d.theArray]
      /\ d.capacity \in Nat \ {0} /\ d.size \in 0 .. d.capacity
      /\ d.theArray \in [0 .. d.capacity - 1 -> Cells]
      /\ \A i \in 0 .. d.size - 1 : d.theArray[i] \in Values
  BY DEF AL!Filled, Cells
<1>2. \A j \in 1 .. d.size : j - 1 \in 0 .. d.size - 1
  BY <1>1
<1>3. /\ s \in [1 .. d.size -> Values]
      /\ \A j \in 1 .. d.size : s[j] = d.theArray[j - 1]
  BY <1>1, <1>2 DEF AL!ArrayDupl
<1> HIDE DEF s
<1>4. s \in Seq(Values) /\ Len(s) = d.size /\ (d.size = 0 <=> s = <<>>)
  BY <1>1, <1>3
<1> QED
  BY <1>1, <1>3, <1>4 DEF s

\* An array with room for n elements, which it has, is a list of them.
LEMMA ListOf ==
  ASSUME NEW n \in Nat, NEW t \in [1 .. n -> Values], NEW d,
         d = [capacity |-> d.capacity, size |-> d.size, theArray |-> d.theArray],
         d.capacity \in Nat \ {0}, d.size = n, n <= d.capacity,
         d.theArray \in [0 .. d.capacity - 1 -> Cells],
         \A j \in 1 .. n : d.theArray[j - 1] = t[j]
  PROVE  AL!Filled(d) /\ AL!ArrayDupl(d) = t
<1>1. \A i \in 0 .. n - 1 : i + 1 \in 1 .. n /\ i + 1 - 1 = i
  OBVIOUS
<1>2. \A i \in 0 .. d.size - 1 : d.theArray[i] \in Values
  BY <1>1
<1>3. AL!Filled(d)
  BY <1>2 DEF AL!Filled, Cells
<1>4. AL!ArrayDupl(d) = t
  BY DEF AL!ArrayDupl
<1> QED
  BY <1>3, <1>4

\* A new list is sound, and empty.
LEMMA ListNew ==
  ASSUME NEW capacity \in Int
  PROVE  /\ AL!Filled(AL!NewList(capacity))
         /\ AL!ArrayDupl(AL!NewList(capacity)) = <<>>
BY LinesAssumption DEF AQ!CapacityAssumption, AL!NewList, AL!Filled, AL!ArrayDupl

\* An array of another capacity that its elements fit in has the same list.
LEMMA ListRealloc ==
  ASSUME NEW d, AL!Filled(d), NEW k \in Nat \ {0}, d.size <= k
  PROVE  /\ AL!Filled(AL!Realloc(d, k))
         /\ AL!ArrayDupl(AL!Realloc(d, k)) = AL!ArrayDupl(d)
         /\ AL!Realloc(d, k).capacity = k /\ AL!Realloc(d, k).size = d.size
<1> DEFINE n == d.capacity
           b == [i \in 0 .. k - 1 |-> IF i < n THEN d.theArray[i] ELSE garbage]
           r == AL!Realloc(d, k)
           s == AL!ArrayDupl(d)
           c == d.size
<1>1. /\ d = [capacity |-> n, size |-> c, theArray |-> d.theArray]
      /\ n \in Nat \ {0} /\ c \in 0 .. n
      /\ d.theArray \in [0 .. n - 1 -> Cells]
      /\ s \in [1 .. c -> Values]
      /\ \A j \in 1 .. c : s[j] = d.theArray[j - 1]
  BY ListLine
<1>2. r = [d EXCEPT !.capacity = k, !.theArray = b]
  BY DEF AL!Realloc
<1>3. b \in [0 .. k - 1 -> Cells]
  BY <1>1 DEF Cells
<1>4. \A j \in 1 .. c : b[j - 1] = s[j]
  BY <1>1
<1> HIDE DEF b, r, s
<1>5. /\ r = [capacity |-> r.capacity, size |-> r.size, theArray |-> r.theArray]
      /\ r.capacity = k /\ r.size = c /\ r.theArray = b
  BY <1>1, <1>2
<1>6. AL!Filled(r) /\ AL!ArrayDupl(r) = s
  <2>1. c \in Nat /\ c <= k
    BY <1>1
  <2>2. r.size = c /\ c <= r.capacity /\ r.capacity \in Nat \ {0}
    BY <1>5, <2>1
  <2>3. r.theArray \in [0 .. r.capacity - 1 -> Cells]
    BY <1>3, <1>5
  <2>4. \A j \in 1 .. c : r.theArray[j - 1] = s[j]
    BY <1>4, <1>5
  <2>5. r = [capacity |-> r.capacity, size |-> r.size, theArray |-> r.theArray]
        /\ s \in [1 .. c -> Values]
    BY <1>1, <1>5
  <2> HIDE DEF c
  <2> QED
    BY <2>1, <2>2, <2>3, <2>4, <2>5, ListOf
<1> QED
  BY <1>5, <1>6 DEF r, s

\* A list that an element is put into has room for it.
LEMMA ListRoom ==
  ASSUME AL!Filled(self), NEW d \in AL!WithRoom
  PROVE  /\ AL!Filled(d)
         /\ AL!ArrayDupl(d) = AL!ArrayDupl(self)
         /\ d.size < d.capacity /\ d.size = self.size
<1>1. self.size \in 0 .. self.capacity /\ self.capacity \in Nat \ {0}
  BY DEF AL!Filled
<1>2. CASE self.capacity > self.size
  BY <1>2 DEF AL!WithRoom
<1>3. CASE self.capacity <= self.size
  <2>1. d = AL!Realloc(self, 2 * self.capacity)
    BY <1>1, <1>3 DEF AL!WithRoom
  <2>2. /\ 2 * self.capacity \in Nat \ {0} /\ self.size <= 2 * self.capacity
        /\ self.size < 2 * self.capacity
    BY <1>1
  <2> QED
    BY <2>1, <2>2, ListRealloc
<1> QED
  BY <1>1, <1>2, <1>3

\* An added element is the last of the line.
LEMMA AddIsPut ==
  ASSUME AL!Filled(self), NEW e \in Values, AL!Add(e)
  PROVE  AL!ListOK' /\ AL!L!PutLast
<1>1. AL!Filled(self)
  OBVIOUS
<1>2. CASE AL!NoRoom("putLast")
  <2>1. AL!ArrayDupl(self)' = AL!ArrayDupl(self)
    BY <1>2 DEF AL!NoRoom
  <2> QED
    BY <1>1, <1>2, <2>1 DEF AL!ListOK, AL!NoRoom, AL!L!PutLast, AL!L!Put
<1>3. ASSUME NEW d \in AL!WithRoom,
             self' = [d EXCEPT !.theArray[d.size] = e, !.size = @ + 1],
             ret' = <<"putLast", TRUE>>
      PROVE  AL!ListOK' /\ AL!L!PutLast
  <2> DEFINE n == d.size
             b == [d.theArray EXCEPT ![n] = e]
             s == AL!ArrayDupl(d)
             t == [j \in 1 .. n + 1 |-> IF j = n + 1 THEN e ELSE s[j]]
             r == self'
  <2>1. AL!Filled(d) /\ s = AL!ArrayDupl(self) /\ n < d.capacity
    BY <1>1, ListRoom
  <2>2. /\ d = [capacity |-> d.capacity, size |-> n, theArray |-> d.theArray]
        /\ d.capacity \in Nat \ {0} /\ n \in 0 .. d.capacity
        /\ d.theArray \in [0 .. d.capacity - 1 -> Cells]
        /\ s \in [1 .. n -> Values]
        /\ \A j \in 1 .. n : s[j] = d.theArray[j - 1]
    BY <2>1, ListLine
  <2>3. r = [d EXCEPT !.theArray = b, !.size = n + 1]
    BY <1>3
  <2> HIDE DEF s
  <2>4. /\ t \in [1 .. n + 1 -> Values]
        /\ \A j \in 1 .. n + 1 : t[j] = IF j = n + 1 THEN e ELSE s[j]
    BY <2>2
  <2>5. /\ b \in [0 .. d.capacity - 1 -> Cells]
        /\ \A j \in 1 .. n + 1 : b[j - 1] = t[j]
    BY <2>1, <2>2 DEF Cells
  <2> HIDE DEF b, t, r
  <2>6. /\ r = [capacity |-> r.capacity, size |-> r.size, theArray |-> r.theArray]
        /\ r.capacity = d.capacity /\ r.size = n + 1 /\ r.theArray = b
    BY <2>2, <2>3
  <2>7. n \in Nat /\ n + 1 \in Nat /\ n + 1 <= d.capacity
    BY <2>1, <2>2
  <2>8. AL!Filled(r) /\ AL!ArrayDupl(r) = t
    <3> DEFINE m == n + 1
    <3>1. /\ m \in Nat /\ t \in [1 .. m -> Values]
          /\ r.capacity \in Nat \ {0} /\ r.size = m /\ m <= r.capacity
          /\ r.theArray \in [0 .. r.capacity - 1 -> Cells]
          /\ \A j \in 1 .. m : r.theArray[j - 1] = t[j]
      BY <2>2, <2>4, <2>5, <2>6, <2>7
    <3> HIDE DEF m
    <3> QED
      BY <2>6, <3>1, ListOf
  <2>9. t = Append(s, e)
    <3> HIDE DEF n
    <3> QED
      BY <2>2, <2>4, <2>7, AppendIs
  <2> QED
    BY <1>3, <2>1, <2>8, <2>9 DEF AL!ListOK, AL!L!PutLast, AL!L!Put, r
<1> QED
  BY <1>2, <1>3 DEF AL!Add

\* An insertion shifts the elements from its position on.
LEMMA InsertIsInsert ==
  ASSUME AL!Filled(self), NEW i \in Nat, NEW e \in Values, AL!Insert(i, e)
  PROVE  AL!ListOK' /\ AL!L!Insert
<1>1. AL!Filled(self) /\ self.size \in Nat
  BY DEF AL!ListOK, AL!Filled
<1>2. CASE UNCHANGED self /\ ret' = <<"insert", FALSE>>
  <2>1. AL!ArrayDupl(self)' = AL!ArrayDupl(self)
    BY <1>2
  <2>2. 0 \in 0 .. Len(AL!ArrayDupl(self))
    BY <1>1, ListLine
  <2> QED
    BY <1>1, <1>2, <2>1, <2>2 DEF AL!ListOK, AL!L!Insert, AL!L!Put
<1>3. ASSUME i <= self.size,
             NEW d \in AL!WithRoom,
             self' = [d EXCEPT !.size = @ + 1,
               !.theArray = [j \in DOMAIN @ |->
                 IF j = i THEN e ELSE IF j \in i + 1 .. d.size THEN @[j - 1] ELSE @[j]]],
             ret' = <<"insert", TRUE>>
      PROVE  AL!ListOK' /\ AL!L!Insert
  <2> DEFINE n == d.size
             c == d.capacity
             a == d.theArray
             b == [j \in 0 .. c - 1 |->
                     IF j = i THEN e ELSE IF j \in i + 1 .. n THEN a[j - 1] ELSE a[j]]
             s == AL!ArrayDupl(d)
             t == [j \in 1 .. n + 1 |->
                     IF j <= i THEN s[j] ELSE IF j = i + 1 THEN e ELSE s[j - 1]]
             r == self'
  <2>1. AL!Filled(d) /\ s = AL!ArrayDupl(self) /\ n < c /\ n = self.size
    BY <1>1, <1>3, ListRoom
  <2>2. /\ d = [capacity |-> c, size |-> n, theArray |-> a]
        /\ c \in Nat \ {0} /\ n \in 0 .. c
        /\ a \in [0 .. c - 1 -> Cells]
        /\ s \in [1 .. n -> Values]
        /\ \A j \in 1 .. n : s[j] = a[j - 1]
        /\ Len(s) = n
    BY <2>1, ListLine
  <2>3. r = [d EXCEPT !.size = n + 1, !.theArray = b]
    <3>1. DOMAIN a = 0 .. c - 1
      BY <2>2
    <3> QED
      BY <1>3, <3>1
  <2>4. i \in 0 .. n
    BY <1>1, <1>3, <2>1
  <2> HIDE DEF s
  <2>5. /\ t \in [1 .. n + 1 -> Values]
        /\ \A j \in 1 .. n + 1 :
             t[j] = IF j <= i THEN s[j] ELSE IF j = i + 1 THEN e ELSE s[j - 1]
    BY <2>2, <2>4
  <2>6. b \in [0 .. c - 1 -> Cells]
    BY <2>1, <2>2, <2>4 DEF Cells
  <2>7. ASSUME NEW j \in 1 .. n + 1 PROVE b[j - 1] = t[j]
    <3>1. j - 1 \in 0 .. c - 1
      BY <2>1, <2>2
    <3>2. CASE j <= i
      BY <2>2, <2>4, <2>5, <3>1, <3>2
    <3>3. CASE j = i + 1
      BY <2>2, <2>4, <2>5, <3>1, <3>3
    <3>4. CASE j > i + 1
      <4>1. /\ j - 1 \in i + 1 .. n /\ j - 1 # i /\ j - 1 \in 1 .. n
            /\ ~(j <= i) /\ j # i + 1
        BY <2>2, <2>4, <3>4
      <4>2. b[j - 1] = a[j - 1 - 1]
        BY <3>1, <4>1
      <4>3. t[j] = s[j - 1] /\ s[j - 1] = a[j - 1 - 1]
        BY <2>2, <2>5, <4>1
      <4> QED
        BY <4>2, <4>3
    <3> QED
      BY <2>4, <3>2, <3>3, <3>4
  <2> HIDE DEF b, t, r
  <2>8. /\ r = [capacity |-> r.capacity, size |-> r.size, theArray |-> r.theArray]
        /\ r.capacity = c /\ r.size = n + 1 /\ r.theArray = b
    BY <2>2, <2>3
  <2>9. AL!Filled(r) /\ AL!ArrayDupl(r) = t
    <3> DEFINE m == n + 1
    <3>1. /\ m \in Nat /\ t \in [1 .. m -> Values]
          /\ r.capacity \in Nat \ {0} /\ r.size = m /\ m <= r.capacity
          /\ r.theArray \in [0 .. r.capacity - 1 -> Cells]
          /\ \A j \in 1 .. m : r.theArray[j - 1] = t[j]
      BY <2>1, <2>2, <2>5, <2>6, <2>7, <2>8
    <3> HIDE DEF m
    <3> QED
      BY <2>8, <3>1, ListOf
  <2>10. t = SubSeq(s, 1, i) \o <<e>> \o SubSeq(s, i + 1, Len(s))
    <3>1. s \in Seq(Values) /\ Len(s) = n
      BY <2>2
    <3>2. t \in Seq(Values) /\ Len(t) = n + 1
      BY <2>2, <2>5
    <3>3. i \in 0 .. Len(s) /\ Len(t) = Len(s) + 1
      BY <2>4, <3>1, <3>2
    <3>4. \A j \in 1 .. Len(t) :
            t[j] = IF j <= i THEN s[j] ELSE IF j = i + 1 THEN e ELSE s[j - 1]
      BY <2>5, <3>2
    <3> QED
      BY <3>1, <3>2, <3>3, <3>4, InsertIs
  <2>11. i \in 0 .. Len(s)
    BY <2>2, <2>4
  <2> QED
    BY <1>3, <2>1, <2>9, <2>10, <2>11 DEF AL!ListOK, AL!L!Insert, AL!L!Put, r
<1> QED
  BY <1>2, <1>3 DEF AL!Insert, AL!NoRoom

\* A removal shifts the elements behind its position.
LEMMA RemoveIsRemove ==
  ASSUME AL!Filled(self), NEW i \in Int, AL!Remove(i)
  PROVE  AL!ListOK' /\ (AL!L!Remove \/ AL!L!Misplaced)
<1> DEFINE n == self.size
           c == self.capacity
           a == self.theArray
           s == AL!ArrayDupl(self)
<1>1. AL!Filled(self)
  OBVIOUS
<1>2. /\ self = [capacity |-> c, size |-> n, theArray |-> a]
      /\ c \in Nat \ {0} /\ n \in 0 .. c
      /\ a \in [0 .. c - 1 -> Cells]
      /\ s \in [1 .. n -> Values]
      /\ \A j \in 1 .. n : s[j] = a[j - 1]
      /\ Len(s) = n
  BY <1>1, ListLine
<1>3. CASE ~AL!Occupied(i) /\ UNCHANGED self /\ ret' = <<"remove", i, FALSE>>
  <2>1. AL!ArrayDupl(self)' = AL!ArrayDupl(self)
    BY <1>3
  <2>2. i \notin 0 .. Len(s) - 1
    BY <1>2, <1>3 DEF AL!Occupied
  <2> QED
    BY <1>1, <1>3, <2>1, <2>2 DEF AL!ListOK, AL!L!Misplaced, AL!L!Occupied
<1>4. CASE /\ AL!Occupied(i)
           /\ self' = [self EXCEPT !.size = @ - 1,
                !.theArray = [j \in DOMAIN @ |->
                  IF j \in i .. self.size - 2 THEN @[j + 1] ELSE @[j]]]
           /\ ret' = <<"remove", i, TRUE, self.theArray[i]>>
  <2> DEFINE b == [j \in 0 .. c - 1 |-> IF j \in i .. n - 2 THEN a[j + 1] ELSE a[j]]
             t == [j \in 1 .. n - 1 |-> IF j <= i THEN s[j] ELSE s[j + 1]]
             r == self'
  <2>1. i \in 0 .. n - 1 /\ n \in Nat \ {0}
    BY <1>2, <1>4 DEF AL!Occupied
  <2>2. r = [self EXCEPT !.size = n - 1, !.theArray = b]
    <3>1. DOMAIN a = 0 .. c - 1
      BY <1>2
    <3> QED
      BY <1>4, <3>1
  <2> HIDE DEF s
  <2>3. /\ t \in [1 .. n - 1 -> Values]
        /\ \A j \in 1 .. n - 1 : t[j] = IF j <= i THEN s[j] ELSE s[j + 1]
    <3>1. \A j \in 1 .. n - 1 : j \in 1 .. n /\ j + 1 \in 1 .. n
      BY <2>1
    <3>2. \A j \in 1 .. n : s[j] \in Values
      BY <1>2
    <3>3. \A j \in 1 .. n - 1 : s[j] \in Values /\ s[j + 1] \in Values
      BY <3>1, <3>2
    <3>4. t \in [1 .. n - 1 -> Values]
      BY <3>3
    <3>5. \A j \in 1 .. n - 1 : t[j] = IF j <= i THEN s[j] ELSE s[j + 1]
      OBVIOUS
    <3> HIDE DEF t
    <3> QED
      BY <3>4, <3>5
  <2>4. b \in [0 .. c - 1 -> Cells]
    <3>1. \A j \in 0 .. c - 1 : j \in i .. n - 2 => j + 1 \in 0 .. c - 1
      BY <1>2, <2>1
    <3>2. \A j \in 0 .. c - 1 : a[j] \in Cells /\ (j \in i .. n - 2 => a[j + 1] \in Cells)
      BY <1>2, <3>1
    <3> QED
      BY <3>2
  <2>5. ASSUME NEW j \in 1 .. n - 1 PROVE b[j - 1] = t[j]
    <3>1. j - 1 \in 0 .. c - 1 /\ j \in 1 .. n /\ j + 1 \in 1 .. n
      BY <1>2
    <3>2. CASE j <= i
      <4>1. j - 1 \notin i .. n - 2
        BY <2>1, <3>2
      <4> QED
        BY <1>2, <2>3, <3>1, <3>2, <4>1
    <3>3. CASE j > i
      <4>1. j - 1 \in i .. n - 2 /\ j - 1 + 1 = j + 1 - 1 /\ ~(j <= i)
        BY <1>2, <2>1, <3>3
      <4>2. b[j - 1] = a[j - 1 + 1]
        BY <3>1, <4>1
      <4>3. t[j] = s[j + 1] /\ s[j + 1] = a[j + 1 - 1]
        BY <1>2, <2>3, <3>1, <4>1
      <4> QED
        BY <4>1, <4>2, <4>3
    <3> QED
      BY <2>1, <3>2, <3>3
  <2> HIDE DEF b, t, r
  <2>6. /\ r = [capacity |-> r.capacity, size |-> r.size, theArray |-> r.theArray]
        /\ r.capacity = c /\ r.size = n - 1 /\ r.theArray = b
    BY <1>2, <2>2
  <2>7. AL!Filled(r) /\ AL!ArrayDupl(r) = t
    <3> DEFINE m == n - 1
    <3>1. /\ m \in Nat /\ t \in [1 .. m -> Values]
          /\ r.capacity \in Nat \ {0} /\ r.size = m /\ m <= r.capacity
          /\ r.theArray \in [0 .. r.capacity - 1 -> Cells]
          /\ \A j \in 1 .. m : r.theArray[j - 1] = t[j]
      BY <1>2, <2>1, <2>3, <2>4, <2>5, <2>6
    <3> HIDE DEF m
    <3> QED
      BY <2>6, <3>1, ListOf
  <2>8. t = SubSeq(s, 1, i) \o SubSeq(s, i + 2, Len(s))
    <3>1. s \in Seq(Values) /\ Len(s) = n
      BY <1>2
    <3>2. t \in Seq(Values) /\ Len(t) = n - 1
      BY <2>1, <2>3
    <3>3. i \in 0 .. Len(s) - 1 /\ Len(t) = Len(s) - 1
      BY <2>1, <3>1, <3>2
    <3>4. \A j \in 1 .. Len(t) : t[j] = IF j <= i THEN s[j] ELSE s[j + 1]
      BY <2>3, <3>2
    <3> QED
      BY <3>1, <3>2, <3>3, <3>4, RemoveIs
  <2>9. i \in 0 .. Len(s) - 1 /\ s[i + 1] = a[i]
    <3>1. i + 1 \in 1 .. n /\ i + 1 - 1 = i
      BY <2>1
    <3> QED
      BY <1>2, <2>1, <3>1
  <2>10. ret' = <<"remove", i, TRUE, s[i + 1]>>
    BY <1>4, <2>9
  <2> QED
    BY <2>7, <2>8, <2>9, <2>10 DEF AL!ListOK, AL!L!Remove, r, s
<1> QED
  BY <1>3, <1>4 DEF AL!Remove

\* A replacement leaves the other elements alone.
LEMMA SetIsSet ==
  ASSUME AL!Filled(self), NEW i \in Int, NEW e \in Values, AL!Set(i, e)
  PROVE  AL!ListOK' /\ (AL!L!Set \/ AL!L!Misplaced)
<1> DEFINE n == self.size
           c == self.capacity
           a == self.theArray
           s == AL!ArrayDupl(self)
<1>1. AL!Filled(self)
  OBVIOUS
<1>2. /\ self = [capacity |-> c, size |-> n, theArray |-> a]
      /\ c \in Nat \ {0} /\ n \in 0 .. c
      /\ a \in [0 .. c - 1 -> Cells]
      /\ s \in [1 .. n -> Values]
      /\ \A j \in 1 .. n : s[j] = a[j - 1]
      /\ Len(s) = n
  BY <1>1, ListLine
<1>3. CASE ~AL!Occupied(i) /\ UNCHANGED self /\ ret' = <<"set", i, FALSE>>
  <2>1. AL!ArrayDupl(self)' = AL!ArrayDupl(self)
    BY <1>3
  <2>2. i \notin 0 .. Len(s) - 1
    BY <1>2, <1>3 DEF AL!Occupied
  <2> QED
    BY <1>1, <1>3, <2>1, <2>2 DEF AL!ListOK, AL!L!Misplaced, AL!L!Occupied
<1>4. CASE /\ AL!Occupied(i)
           /\ self' = [self EXCEPT !.theArray[i] = e]
           /\ ret' = <<"set", i, TRUE, self.theArray[i]>>
  <2> DEFINE b == [a EXCEPT ![i] = e]
             t == [s EXCEPT ![i + 1] = e]
             r == self'
  <2>1. i \in 0 .. n - 1 /\ i + 1 \in 1 .. n /\ i + 1 - 1 = i /\ i \in 0 .. c - 1
    BY <1>2, <1>4 DEF AL!Occupied
  <2>2. r = [self EXCEPT !.theArray = b]
    BY <1>4
  <2> HIDE DEF s
  <2>3. t \in [1 .. n -> Values] /\ b \in [0 .. c - 1 -> Cells]
    BY <1>2, <2>1 DEF Cells
  <2>4. \A j \in 1 .. n : b[j - 1] = t[j]
    BY <1>2, <2>1
  <2>5. s[i + 1] = a[i]
    BY <1>2, <2>1
  <2> HIDE DEF b, r
  <2>6. /\ r = [capacity |-> r.capacity, size |-> r.size, theArray |-> r.theArray]
        /\ r.capacity = c /\ r.size = n /\ r.theArray = b
    BY <1>2, <2>2
  <2>7. AL!Filled(r) /\ AL!ArrayDupl(r) = t
    <3>1. n \in Nat /\ n <= r.capacity
      BY <1>2, <2>6
    <3> HIDE DEF t
    <3> QED
      BY <1>2, <2>3, <2>4, <2>6, <3>1, ListOf
  <2>8. ret' = <<"set", i, TRUE, s[i + 1]>> /\ i \in 0 .. Len(s) - 1
    BY <1>2, <1>4, <2>1, <2>5
  <2> QED
    BY <2>7, <2>8 DEF AL!ListOK, AL!L!Set, r, s
<1> QED
  BY <1>3, <1>4 DEF AL!Set

\* What a list with an array tells and gives away is its line.
LEMMA FilledCalls ==
  ASSUME AL!Filled(self), AL!Next
  PROVE  AL!ListOK' /\ AL!L!LineNext
<1> DEFINE s == AL!ArrayDupl(self)
<1>1. AL!Filled(self)
  OBVIOUS
<1>2. /\ self.size \in Nat /\ self.capacity \in Nat \ {0} /\ self.size <= self.capacity
      /\ s \in Seq(Values) /\ Len(s) = self.size
      /\ \A j \in 1 .. self.size : s[j] = self.theArray[j - 1]
  BY <1>1, ListLine
<1>3. UNCHANGED self => AL!ListOK' /\ s' = s
  BY <1>1 DEF AL!ListOK
<1>4. ASSUME NEW v \in Values, AL!Add(v) PROVE AL!ListOK' /\ AL!L!LineNext
  BY <1>4, AddIsPut DEF AL!L!LineNext
<1>5. ASSUME NEW i \in 0 .. self.size + 1, NEW v \in Values, AL!Insert(i, v)
      PROVE  AL!ListOK' /\ AL!L!LineNext
  <2>1. i \in Nat
    BY <1>2
  <2> QED
    BY <1>5, <2>1, InsertIsInsert DEF AL!L!LineNext
<1>6. ASSUME NEW i \in 0 .. self.size + 1, NEW v \in Values, AL!Set(i, v)
      PROVE  AL!ListOK' /\ AL!L!LineNext
  <2>1. i \in Int
    BY <1>2
  <2> QED
    BY <1>6, <2>1, SetIsSet DEF AL!L!LineNext
<1>7. ASSUME NEW i \in -1 .. self.size + 1, AL!Remove(i)
      PROVE  AL!ListOK' /\ AL!L!LineNext
  <2>1. i \in Int
    BY <1>2
  <2> QED
    BY <1>7, <2>1, RemoveIsRemove DEF AL!L!LineNext
<1>8. ASSUME NEW i \in -1 .. self.size + 1, AL!Get(i)
      PROVE  AL!ListOK' /\ AL!L!LineNext
  <2>1. UNCHANGED self
    BY <1>8 DEF AL!Get
  <2>2. i \in Int /\ (i \in 0 .. Len(s) - 1 <=> AL!Occupied(i))
    BY <1>2 DEF AL!Occupied
  <2>3. ret' = IF i \in 0 .. Len(s) - 1 THEN <<"get", i, TRUE, s[i + 1]>>
               ELSE <<"get", i, FALSE>>
    <3>1. CASE AL!Occupied(i)
      <4>1. i + 1 \in 1 .. self.size /\ i + 1 - 1 = i
        BY <1>2, <2>2, <3>1
      <4>2. s[i + 1] = self.theArray[i]
        BY <1>2, <4>1
      <4> QED
        BY <1>8, <2>2, <3>1, <4>2 DEF AL!Get
    <3>2. CASE ~AL!Occupied(i)
      BY <1>8, <2>2, <3>2 DEF AL!Get
    <3> QED
      BY <3>1, <3>2
  <2>4. ret'[1] = "get" /\ ret'[2] = i
    BY <2>3
  <2>5. AL!L!Get
    BY <1>3, <2>1, <2>3, <2>4 DEF AL!L!Get, AL!L!Occupied
  <2> QED
    BY <1>3, <2>1, <2>5 DEF AL!L!LineNext
<1>9. ASSUME NEW n \in 0 .. MAXSIZE, AL!EnsureCapacity(n)
      PROVE  AL!ListOK' /\ AL!L!LineNext
  <2>1. AL!ListOK' /\ s' = s
    <3>1. CASE self.capacity < n /\ self' = AL!Realloc(self, n)
      <4>1. n \in Nat \ {0} /\ self.size <= n
        BY <1>2, <3>1
      <4>2. AL!Filled(AL!Realloc(self, n)) /\ AL!ArrayDupl(AL!Realloc(self, n)) = s
        BY <1>1, <4>1, ListRealloc
      <4> QED
        BY <3>1, <4>2 DEF AL!ListOK
    <3>2. CASE UNCHANGED self
      BY <1>3, <3>2
    <3> QED
      BY <1>9, <3>1, <3>2 DEF AL!EnsureCapacity
  <2>2. ret'[1] = "ensureCapacity"
    <3>1. CASE ret' = <<"ensureCapacity", TRUE>>
      BY <3>1
    <3>2. CASE ret' = <<"ensureCapacity", FALSE>>
      BY <3>2
    <3> QED
      BY <1>9, <3>1, <3>2 DEF AL!EnsureCapacity
  <2>3. AL!L!Resize
    BY <2>1, <2>2 DEF AL!L!Resize
  <2> QED
    BY <2>1, <2>3 DEF AL!L!LineNext
<1>10. CASE AL!TrimToSize
  <2>1. AL!ListOK' /\ s' = s
    <3>1. CASE self.size > 0 /\ self' = AL!Realloc(self, self.size)
      <4>1. self.size \in Nat \ {0} /\ self.size <= self.size
        BY <1>2, <3>1
      <4>2. /\ AL!Filled(AL!Realloc(self, self.size))
            /\ AL!ArrayDupl(AL!Realloc(self, self.size)) = s
        BY <1>1, <4>1, ListRealloc
      <4> QED
        BY <3>1, <4>2 DEF AL!ListOK
    <3>2. CASE UNCHANGED self
      BY <1>3, <3>2
    <3>3. CASE self.size = 0 /\ self' = [self EXCEPT !.theArray = <<>>]
      <4> DEFINE r == self'
      <4>1. self = [capacity |-> self.capacity, size |-> self.size,
                    theArray |-> self.theArray]
        BY <1>1 DEF AL!Filled
      <4>2. /\ r = [capacity |-> r.capacity, size |-> 0, theArray |-> <<>>]
            /\ r.capacity = self.capacity /\ r.size = 0
        BY <3>3, <4>1
      <4> HIDE DEF r
      <4>3. AL!Trimmed(r) /\ AL!ArrayDupl(r) = <<>>
        BY <1>2, <4>2 DEF AL!Trimmed, AL!ArrayDupl
      <4>4. s = <<>>
        BY <1>2, <3>3 DEF AL!ArrayDupl
      <4> QED
        BY <4>3, <4>4 DEF AL!ListOK, r
    <3> QED
      BY <1>10, <3>1, <3>2, <3>3 DEF AL!TrimToSize
  <2>2. ret'[1] = "trimToSize"
    <3>1. CASE ret' = <<"trimToSize", TRUE>>
      BY <3>1
    <3>2. CASE ret' = <<"trimToSize", FALSE>>
      BY <3>2
    <3> QED
      BY <1>10, <3>1, <3>2 DEF AL!TrimToSize
  <2>3. AL!L!Resize
    BY <2>1, <2>2 DEF AL!L!Resize
  <2> QED
    BY <2>1, <2>3 DEF AL!L!LineNext
<1>11. CASE AL!Clear
  <2> DEFINE b == [j \in DOMAIN self.theArray |->
                     IF j < self.size THEN garbage ELSE self.theArray[j]]
             r == self'
  <2>1. r = [self EXCEPT !.size = 0, !.theArray = b]
    BY <1>11 DEF AL!Clear
  <2>2. b \in [0 .. self.capacity - 1 -> Values \cup {garbage}]
    BY <1>1 DEF AL!Filled
  <2> HIDE DEF b, r
  <2>3. /\ r = [capacity |-> r.capacity, size |-> r.size, theArray |-> r.theArray]
        /\ r.capacity = self.capacity /\ r.size = 0 /\ r.theArray = b
    BY <1>1, <2>1 DEF AL!Filled
  <2>4. AL!Filled(r) /\ AL!ArrayDupl(r) = <<>>
    BY <1>2, <2>2, <2>3 DEF AL!Filled, AL!ArrayDupl
  <2>5. AL!L!Empty
    BY <1>11, <2>4 DEF AL!Clear, AL!L!Empty, r
  <2> QED
    BY <2>4, <2>5 DEF AL!ListOK, AL!L!LineNext, r
<1>12. CASE AL!Destroy
  <2>1. AL!Filled(self') /\ AL!ArrayDupl(self') = <<>>
    BY <1>12, ListNew DEF AL!Destroy
  <2>2. AL!L!Empty
    BY <1>12, <2>1 DEF AL!Destroy, AL!L!Empty
  <2> QED
    BY <2>1, <2>2 DEF AL!ListOK, AL!L!LineNext
<1>13. CASE AL!Size
  <2>1. AL!L!Size
    BY <1>2, <1>3, <1>13 DEF AL!Size, AL!L!Size
  <2> QED
    BY <1>3, <1>13, <2>1 DEF AL!Size, AL!L!LineNext
<1>14. CASE AL!ToArray
  <2>1. AL!L!ToArray
    BY <1>3, <1>14 DEF AL!ToArray, AL!L!ToArray
  <2> QED
    BY <1>3, <1>14, <2>1 DEF AL!ToArray, AL!L!LineNext
<1>15. CASE AL!ItCreate
  <2>1. AL!L!Iterate
    BY <1>2, <1>3, <1>15 DEF AL!ItCreate, AL!L!Iterate
  <2> QED
    BY <1>3, <1>15, <2>1 DEF AL!ItCreate, AL!L!LineNext
<1> QED
  BY <1>4, <1>5, <1>6, <1>7, <1>8, <1>9, <1>10, <1>11, <1>12, <1>13, <1>14, <1>15
  DEF AL!Next

\* So is what an empty list tells whose array was freed: only calls that
\* need no array are made.
LEMMA TrimmedCalls ==
  ASSUME AL!Trimmed(self), AL!Next
  PROVE  AL!ListOK' /\ AL!L!LineNext
<1> DEFINE s == AL!ArrayDupl(self)
<1>1. /\ self = [capacity |-> self.capacity, size |-> 0, theArray |-> <<>>]
      /\ self.capacity \in Nat \ {0} /\ self.size = 0 /\ self.theArray = <<>>
  BY DEF AL!Trimmed
<1>2. s = <<>> /\ Len(s) = 0 /\ ~AL!HasArray(self)
  BY <1>1 DEF AL!ArrayDupl, AL!HasArray
<1>3. UNCHANGED self => AL!ListOK' /\ s' = s
  <2>1. UNCHANGED self => AL!Trimmed(self')
    OBVIOUS
  <2> QED
    BY <2>1 DEF AL!ListOK
<1>4. AL!WithRoom = {}
  BY <1>2 DEF AL!WithRoom
<1>5. ASSUME NEW op, AL!NoRoom(op) PROVE FALSE
  BY <1>1, <1>5 DEF AL!NoRoom
<1>6. ASSUME NEW v \in Values, AL!Add(v) PROVE FALSE
  BY <1>4, <1>5, <1>6 DEF AL!Add
<1>7. ASSUME NEW i \in 0 .. self.size + 1, NEW v \in Values, AL!Insert(i, v)
      PROVE  AL!ListOK' /\ AL!L!LineNext
  <2>1. UNCHANGED self /\ ret' = <<"insert", FALSE>>
    BY <1>4, <1>5, <1>7 DEF AL!Insert
  <2>2. AL!L!Insert
    <3>1. ret'[1] = "insert" /\ s' = s /\ 0 \in 0 .. Len(s)
      BY <1>2, <1>3, <2>1
    <3> QED
      BY <2>1, <3>1 DEF AL!L!Insert, AL!L!Put
  <2> QED
    BY <1>3, <2>1, <2>2 DEF AL!L!LineNext
<1>8. \A i \in Int : ~AL!Occupied(i)
  BY <1>1 DEF AL!Occupied
<1>9. ASSUME NEW i \in 0 .. self.size + 1, NEW v \in Values, AL!Set(i, v)
      PROVE  AL!ListOK' /\ AL!L!LineNext
  <2>1. i \in Int
    BY <1>1
  <2>2. UNCHANGED self /\ ret' = <<"set", i, FALSE>>
    BY <1>8, <1>9, <2>1 DEF AL!Set
  <2>3. AL!L!Misplaced
    BY <1>2, <1>3, <2>1, <2>2 DEF AL!L!Misplaced, AL!L!Occupied
  <2> QED
    BY <1>3, <2>2, <2>3 DEF AL!L!LineNext
<1>10. ASSUME NEW i \in -1 .. self.size + 1, AL!Remove(i)
       PROVE  AL!ListOK' /\ AL!L!LineNext
  <2>1. i \in Int
    BY <1>1
  <2>2. UNCHANGED self /\ ret' = <<"remove", i, FALSE>>
    BY <1>8, <1>10, <2>1 DEF AL!Remove
  <2>3. AL!L!Misplaced
    BY <1>2, <1>3, <2>1, <2>2 DEF AL!L!Misplaced, AL!L!Occupied
  <2> QED
    BY <1>3, <2>2, <2>3 DEF AL!L!LineNext
<1>11. ASSUME NEW i \in -1 .. self.size + 1, AL!Get(i)
       PROVE  AL!ListOK' /\ AL!L!LineNext
  <2>1. i \in Int
    BY <1>1
  <2>2. UNCHANGED self /\ ret' = <<"get", i, FALSE>>
    BY <1>8, <1>11, <2>1 DEF AL!Get
  <2>3. ret'[1] = "get" /\ ret'[2] = i
    BY <2>2
  <2>4. i \notin 0 .. Len(s) - 1
    BY <1>2, <2>1
  <2>5. AL!L!Get
    <3> HIDE DEF s
    <3>1. s' = s
      BY <1>3, <2>2
    <3>2. ret' = IF i \in 0 .. Len(s) - 1 THEN <<"get", i, TRUE, s[i + 1]>>
                 ELSE <<"get", i, FALSE>>
      BY <2>2, <2>4
    <3> QED
      BY <2>3, <3>1, <3>2 DEF AL!L!Get, AL!L!Occupied, s
  <2> QED
    BY <1>3, <2>2, <2>5 DEF AL!L!LineNext
<1>12. ASSUME NEW n \in 0 .. MAXSIZE, AL!EnsureCapacity(n)
       PROVE  AL!ListOK' /\ AL!L!LineNext
  <2>1. UNCHANGED self /\ ret' = <<"ensureCapacity", TRUE>>
    BY <1>2, <1>12 DEF AL!EnsureCapacity
  <2>2. AL!L!Resize
    BY <1>3, <2>1 DEF AL!L!Resize
  <2> QED
    BY <1>3, <2>1, <2>2 DEF AL!L!LineNext
<1>13. CASE AL!TrimToSize \/ AL!Destroy
  BY <1>2, <1>13 DEF AL!TrimToSize, AL!Destroy
<1>14. CASE AL!Clear
  <2> DEFINE r == self'
  <2>1. [j \in DOMAIN self.theArray |->
           IF j < self.size THEN garbage ELSE self.theArray[j]] = <<>>
    BY <1>1
  <2>2. r = [self EXCEPT !.size = 0, !.theArray = <<>>]
    BY <1>14, <2>1 DEF AL!Clear
  <2> HIDE DEF r
  <2>3. /\ r = [capacity |-> r.capacity, size |-> 0, theArray |-> <<>>]
        /\ r.capacity = self.capacity /\ r.size = 0
    BY <1>1, <2>2
  <2>4. AL!Trimmed(r) /\ AL!ArrayDupl(r) = <<>>
    BY <1>1, <2>3 DEF AL!Trimmed, AL!ArrayDupl
  <2>5. AL!L!Empty
    BY <1>14, <2>4 DEF AL!Clear, AL!L!Empty, r
  <2> QED
    BY <2>4, <2>5 DEF AL!ListOK, AL!L!LineNext, r
<1>15. CASE AL!Size
  <2>1. AL!L!Size
    BY <1>1, <1>2, <1>3, <1>15 DEF AL!Size, AL!L!Size
  <2> QED
    BY <1>3, <1>15, <2>1 DEF AL!Size, AL!L!LineNext
<1>16. CASE AL!ToArray
  <2>1. AL!L!ToArray
    BY <1>3, <1>16 DEF AL!ToArray, AL!L!ToArray
  <2> QED
    BY <1>3, <1>16, <2>1 DEF AL!ToArray, AL!L!LineNext
<1>17. CASE AL!ItCreate
  <2>1. AL!L!Iterate
    BY <1>1, <1>2, <1>3, <1>17 DEF AL!ItCreate, AL!L!Iterate
  <2> QED
    BY <1>3, <1>17, <2>1 DEF AL!ItCreate, AL!L!LineNext
<1> QED
  BY <1>6, <1>7, <1>9, <1>10, <1>11, <1>12, <1>13, <1>14, <1>15, <1>16, <1>17
  DEF AL!Next

\* What a sound list tells and gives away is its line.
LEMMA ListCalls ==
  ASSUME AL!ListOK, AL!Next
  PROVE  AL!ListOK' /\ AL!L!LineNext
BY FilledCalls, TrimmedCalls DEF AL!ListOK

-----------------------------------------------------------------------------
(* LListQueue.                                                             *)

\* The walk of the queue is that of the lemmas.
LEMMA QueueWalk ==
  ASSUME NEW s, NEW first, NEW link, NEW nodes, NEW end
  PROVE  /\ LQ!IsChain(s, first, link, nodes, end) <=> IsChain(s, first, link, nodes, end)
         /\ LQ!Chain(first, link, nodes, end) = Chain(first, link, nodes, end)
BY DEF LQ!IsChain, IsChain, LQ!Chain, Chain

\* A queue is sound when some sequence of nodes is its list; that sequence
\* is then the one the walk finds.
LEMMA QueueOfNodes ==
  ASSUME NEW d, NEW s,
         d = [count |-> d.count, head |-> d.head, tail |-> d.tail,
              heap |-> d.heap, next |-> d.next, value |-> d.value],
         IsChain(s, d.head, d.next, d.heap, NULL),
         d.count = Len(s),
         d.tail = IF s = <<>> THEN NULL ELSE s[Len(s)],
         d.heap \subseteq Nodes,
         d.next \in [Nodes -> Nodes \cup {NULL, garbage}],
         d.value \in [Nodes -> Cells],
         \A p \in d.heap : d.value[p] \in Values,
         \A p \in Nodes \ d.heap : d.next[p] = garbage
  PROVE  LQ!Holds(d) /\ LQ!ListNodes(d) = s
<1>1. LQ!ListNodes(d) = s
  <2>1. Chain(d.head, d.next, d.heap, NULL) = s
    BY ChainIs
  <2> QED
    BY <2>1, QueueWalk DEF LQ!ListNodes
<1>2. LQ!IsChain(s, d.head, d.next, d.heap, NULL)
  BY QueueWalk
<1> QED
  BY <1>1, <1>2 DEF LQ!Holds, Cells

\* What a sound queue's nodes are, and the elements in them.
LEMMA NodesOfQueue ==
  ASSUME NEW d, LQ!Holds(d)
  PROVE  LET s == LQ!ListNodes(d) IN
         /\ d = [count |-> d.count, head |-> d.head, tail |-> d.tail,
                 heap |-> d.heap, next |-> d.next, value |-> d.value]
         /\ IsChain(s, d.head, d.next, d.heap, NULL)
         /\ d.count = Len(s)
         /\ d.tail = IF s = <<>> THEN NULL ELSE s[Len(s)]
         /\ d.heap \subseteq Nodes
         /\ d.next \in [Nodes -> Nodes \cup {NULL, garbage}]
         /\ d.value \in [Nodes -> Cells]
         /\ \A p \in d.heap : d.value[p] \in Values
         /\ \A p \in Nodes \ d.heap : d.next[p] = garbage
         /\ LQ!GenArray(d) = Along(s, d.value)
         /\ Along(s, d.value) \in Seq(Values)
<1> DEFINE s == LQ!ListNodes(d)
<1>1. IsChain(s, d.head, d.next, d.heap, NULL)
  BY QueueWalk DEF LQ!Holds
<1>2. s \in Seq(d.heap) /\ Len(s) \in Nat /\ DOMAIN s = 1 .. Len(s)
      /\ \A i \in 1 .. Len(s) : s[i] \in d.heap
  BY <1>1 DEF IsChain
<1>3. \A p \in d.heap : d.value[p] \in Values
  BY DEF LQ!Holds
<1>4. LQ!GenArray(d) = Along(s, d.value)
  BY <1>2 DEF LQ!GenArray, Along
<1>5. Along(s, d.value) \in Seq(Values)
  <2>1. Along(s, d.value) = [i \in 1 .. Len(s) |-> d.value[s[i]]]
    BY DEF Along
  <2> HIDE DEF s
  <2>2. Along(s, d.value) \in [1 .. Len(s) -> Values]
    BY <1>2, <1>3, <2>1
  <2> QED
    BY <1>2, <2>2
<1> QED
  BY <1>1, <1>4, <1>5 DEF LQ!Holds, Cells

\* An element that is enqueued is the last of the line.
LEMMA LinkedEnqueueIsPut ==
  ASSUME LQ!ListOK, NEW e \in Values, LQ!Enqueue(e)
  PROVE  LQ!ListOK' /\ LQ!L!PutLast
<1> DEFINE s == LQ!ListNodes(self)
           u == LQ!GenArray(self)
           p == LQ!Malloc(self)
           linked == [self.next EXCEPT ![p] = NULL]
           next == IF self.tail = NULL THEN linked ELSE [linked EXCEPT ![self.tail] = p]
           value == [self.value EXCEPT ![p] = e]
           head == IF self.tail = NULL THEN p ELSE self.head
           r == self'
           t == Append(s, p)
<1>1. LQ!Holds(self)
  BY DEF LQ!ListOK
<1>2. CASE UNCHANGED self /\ ret' = <<"putLast", FALSE>>
  <2>1. LQ!GenArray(self)' = LQ!GenArray(self)
    BY <1>2
  <2> QED
    BY <1>1, <1>2, <2>1 DEF LQ!ListOK, LQ!L!PutLast, LQ!L!Put
<1>3. CASE /\ self.heap # Nodes
           /\ self' = [self EXCEPT !.heap = @ \cup {p}, !.value[p] = e,
                !.next = next, !.head = head, !.tail = p, !.count = @ + 1]
           /\ ret' = <<"putLast", TRUE>>
  <2>1. /\ self = [count |-> self.count, head |-> self.head, tail |-> self.tail,
                    heap |-> self.heap, next |-> self.next, value |-> self.value]
        /\ IsChain(s, self.head, self.next, self.heap, NULL)
        /\ self.count = Len(s)
        /\ self.tail = IF s = <<>> THEN NULL ELSE s[Len(s)]
        /\ self.heap \subseteq Nodes
        /\ self.next \in [Nodes -> Nodes \cup {NULL, garbage}]
        /\ self.value \in [Nodes -> Cells]
        /\ \A q \in self.heap : self.value[q] \in Values
        /\ \A q \in Nodes \ self.heap : self.next[q] = garbage
        /\ u = Along(s, self.value)
        /\ Along(s, self.value) \in Seq(Values)
    BY <1>1, NodesOfQueue
  <2>2. p \in Nodes /\ p \notin self.heap /\ p # NULL
    <3>1. \E q \in Nodes : q \notin self.heap
      BY <1>3, <2>1
    <3>2. NULL \notin Nodes
      BY LinesAssumption DEF LQ!NodesAssumption
    <3> QED
      BY <3>1, <3>2 DEF LQ!Malloc
  <2>3. r = [self EXCEPT !.heap = self.heap \cup {p}, !.value = value,
               !.next = next, !.head = head, !.tail = p, !.count = self.count + 1]
    BY <1>3
  <2> HIDE DEF p, s, u, next, value, head, r
  <2>4. /\ r = [count |-> r.count, head |-> r.head, tail |-> r.tail,
                 heap |-> r.heap, next |-> r.next, value |-> r.value]
        /\ r.count = self.count + 1 /\ r.head = head /\ r.tail = p
        /\ r.heap = self.heap \cup {p} /\ r.next = next /\ r.value = value
    BY <2>1, <2>3
  <2>5. /\ s \in Seq(self.heap) /\ Len(s) \in Nat /\ (s = <<>> <=> Len(s) = 0)
        /\ \A i \in 1 .. Len(s) : s[i] \in self.heap
        /\ \A i, j \in 1 .. Len(s) : s[i] = s[j] => i = j
    BY <2>1 DEF IsChain
  <2>6. self.tail = NULL <=> s = <<>>
    <3>1. s # <<>> => s[Len(s)] \in self.heap
      BY <2>5
    <3>2. NULL \notin self.heap
      BY <2>1 DEF IsChain
    <3> QED
      BY <2>1, <3>1, <3>2
  <2>7. next \in [Nodes -> Nodes \cup {NULL, garbage}] /\ next[p] = NULL
        /\ \A q \in Nodes : q # p =>
             next[q] = IF self.tail # NULL /\ q = self.tail THEN p ELSE self.next[q]
    <3>1. CASE self.tail = NULL
      BY <2>1, <2>2, <3>1 DEF next
    <3>2. CASE self.tail # NULL
      <4>1. self.tail \in self.heap /\ self.tail \in Nodes /\ self.tail # p
        BY <2>1, <2>2, <2>5, <2>6, <3>2
      <4> QED
        BY <2>1, <2>2, <3>2, <4>1 DEF next
    <3> QED
      BY <3>1, <3>2
  <2>8. ASSUME NEW i \in 1 .. Len(s)
        PROVE  next[s[i]] = IF i = Len(s) THEN p ELSE self.next[s[i]]
    <3>1. s[i] \in Nodes /\ s[i] # p /\ s # <<>>
      BY <2>1, <2>2, <2>5
    <3>2. self.tail = s[Len(s)] /\ self.tail # NULL
      BY <2>1, <2>6, <3>1
    <3>3. s[i] = self.tail <=> i = Len(s)
      <4>1. Len(s) \in 1 .. Len(s)
        BY <2>5
      <4> QED
        BY <2>5, <3>2, <4>1
    <3> QED
      BY <2>7, <3>1, <3>2, <3>3
  <2>9. head = IF s = <<>> THEN p ELSE self.head
    BY <2>6 DEF head
  <2>10. IsChain(t, head, next, self.heap \cup {p}, NULL)
    <3>1. /\ IsChain(s, self.head, self.next, self.heap, NULL)
          /\ p \notin self.heap /\ p # NULL /\ next[p] = NULL
          /\ \A i \in 1 .. Len(s) : next[s[i]] = IF i = Len(s) THEN p ELSE self.next[s[i]]
          /\ s = <<>> => head = p
          /\ s # <<>> => head = self.head
      BY <2>1, <2>2, <2>7, <2>8, <2>9
    <3> QED
      BY <3>1, ChainAppend
  <2>11. value \in [Nodes -> Cells] /\ value[p] = e
         /\ \A q \in Nodes : q # p => value[q] = self.value[q]
    BY <2>1, <2>2 DEF value, Cells
  <2>12. Along(t, value) = Append(u, e)
    <3>1. \A i \in 1 .. Len(s) : value[s[i]] = self.value[s[i]]
      BY <2>1, <2>2, <2>5, <2>11
    <3> QED
      BY SMTT(30), <2>1, <2>5, <2>11, <3>1, AlongAppend
  <2>13. t \in Seq(r.heap) /\ Len(t) = Len(s) + 1 /\ t # <<>> /\ t[Len(t)] = p
    <3>1. s \in Seq(r.heap) /\ p \in r.heap
      BY <2>4, <2>5
    <3> QED
      BY <3>1
  <2>14. /\ r.tail = IF t = <<>> THEN NULL ELSE t[Len(t)]
         /\ r.heap \subseteq Nodes
         /\ \A q \in r.heap : r.value[q] \in Values
         /\ \A q \in Nodes \ r.heap : r.next[q] = garbage
    <3>1. /\ r.tail = IF t = <<>> THEN NULL ELSE t[Len(t)]
          /\ r.heap \subseteq Nodes
      BY <2>1, <2>2, <2>4, <2>13
    <3>2. ASSUME NEW q \in r.heap PROVE r.value[q] \in Values
      BY <2>1, <2>2, <2>4, <2>11
    <3>3. ASSUME NEW q \in Nodes \ r.heap PROVE r.next[q] = garbage
      <4>1. q # p /\ q \in Nodes /\ q \notin self.heap
        BY <2>4
      <4>2. self.tail # NULL => self.tail \in self.heap
        BY <2>1, <2>5, <2>6
      <4> QED
        BY <2>1, <2>4, <2>7, <4>1, <4>2
    <3> QED
      BY <3>1, <3>2, <3>3
  <2>15. LQ!Holds(r) /\ LQ!ListNodes(r) = t
    <3>1. r.count = Len(t)
      BY <2>1, <2>4, <2>13
    <3>2. IsChain(t, r.head, r.next, r.heap, NULL)
      BY <2>4, <2>10
    <3>3. r.next \in [Nodes -> Nodes \cup {NULL, garbage}] /\ r.value \in [Nodes -> Cells]
      BY <2>4, <2>7, <2>11
    <3> HIDE DEF t
    <3> QED
      BY <2>4, <2>14, <3>1, <3>2, <3>3, QueueOfNodes
  <2>16. LQ!GenArray(r) = Append(u, e)
    <3>1. LQ!GenArray(r) = Along(t, r.value)
      BY <2>15, NodesOfQueue
    <3> QED
      BY <2>4, <2>12, <3>1
  <2> QED
    BY <1>3, <2>15, <2>16 DEF LQ!ListOK, LQ!L!PutLast, LQ!L!Put, r, u
<1> QED
  BY <1>2, <1>3 DEF LQ!Enqueue

\* A new linked queue is sound, and empty.
LEMMA LinkedNew == LQ!Holds(LQ!NewQueue) /\ LQ!GenArray(LQ!NewQueue) = <<>>
<1> DEFINE r == LQ!NewQueue
           s == <<>>
<1>1. /\ r = [count |-> r.count, head |-> r.head, tail |-> r.tail,
              heap |-> r.heap, next |-> r.next, value |-> r.value]
      /\ r.count = 0 /\ r.head = NULL /\ r.tail = NULL /\ r.heap = {}
      /\ r.next = [p \in Nodes |-> garbage] /\ r.value = [p \in Nodes |-> garbage]
  BY DEF LQ!NewQueue
<1> HIDE DEF r
<1>2. IsChain(s, r.head, r.next, r.heap, NULL)
  BY <1>1, ChainNone
<1>3. /\ r.count = Len(s)
      /\ r.tail = IF s = <<>> THEN NULL ELSE s[Len(s)]
      /\ r.heap \subseteq Nodes
      /\ r.next \in [Nodes -> Nodes \cup {NULL, garbage}]
      /\ r.value \in [Nodes -> Cells]
      /\ \A p \in r.heap : r.value[p] \in Values
      /\ \A p \in Nodes \ r.heap : r.next[p] = garbage
  BY <1>1 DEF Cells
<1> HIDE DEF s
<1>4. LQ!Holds(r) /\ LQ!ListNodes(r) = s
  BY <1>1, <1>2, <1>3, QueueOfNodes
<1>5. LQ!GenArray(r) = Along(s, r.value)
  BY <1>4, NodesOfQueue
<1>6. Along(s, r.value) = <<>>
  BY DEF Along, s
<1> QED
  BY <1>4, <1>5, <1>6 DEF r

\* The first element is taken, and its node freed.
LEMMA LinkedDequeueIsTake ==
  ASSUME LQ!ListOK, LQ!Dequeue
  PROVE  LQ!ListOK' /\ LQ!L!TakeFirst
<1> DEFINE s == LQ!ListNodes(self)
           u == LQ!GenArray(self)
           p == self.head
           next == [self.next EXCEPT ![p] = garbage]
           value == [self.value EXCEPT ![p] = garbage]
           head == self.next[p]
           tail == IF self.next[p] = NULL THEN NULL ELSE self.tail
           heap == self.heap \ {p}
           r == self'
           t == Tail(s)
<1>1. LQ!Holds(self)
  BY DEF LQ!ListOK
<1>2. /\ self = [count |-> self.count, head |-> self.head, tail |-> self.tail,
                 heap |-> self.heap, next |-> self.next, value |-> self.value]
      /\ IsChain(s, self.head, self.next, self.heap, NULL)
      /\ self.count = Len(s)
      /\ self.tail = IF s = <<>> THEN NULL ELSE s[Len(s)]
      /\ self.heap \subseteq Nodes
      /\ self.next \in [Nodes -> Nodes \cup {NULL, garbage}]
      /\ self.value \in [Nodes -> Cells]
      /\ \A q \in self.heap : self.value[q] \in Values
      /\ \A q \in Nodes \ self.heap : self.next[q] = garbage
      /\ u = Along(s, self.value)
      /\ Along(s, self.value) \in Seq(Values)
  BY <1>1, NodesOfQueue
<1>3. /\ s \in Seq(self.heap) /\ Len(s) \in Nat /\ (s = <<>> <=> Len(s) = 0)
      /\ \A i \in 1 .. Len(s) : s[i] \in self.heap
      /\ \A i, j \in 1 .. Len(s) : s[i] = s[j] => i = j
  BY <1>2 DEF IsChain
<1>4. u = <<>> <=> s = <<>>
  <2> HIDE DEF s, u
  <2> QED
    BY <1>2, <1>3, AlongElems
<1>5. CASE self.count <= 0 /\ UNCHANGED self /\ ret' = <<"takeFirst", FALSE>>
  <2>1. LQ!GenArray(self)' = LQ!GenArray(self)
    BY <1>5
  <2>2. u = <<>>
    <3> HIDE DEF s, u
    <3> QED
      BY <1>2, <1>3, <1>4, <1>5
  <2>3. ret'[1] = "takeFirst"
    BY <1>5
  <2> QED
    BY <1>1, <1>5, <2>1, <2>2, <2>3 DEF LQ!ListOK, LQ!L!TakeFirst
<1>6. CASE /\ self.count > 0
           /\ self' = [self EXCEPT !.head = head, !.tail = tail,
                !.count = @ - 1, !.heap = @ \ {p},
                !.next[p] = garbage, !.value[p] = garbage]
           /\ ret' = <<"takeFirst", TRUE, self.value[self.head]>>
  <2>1. r = [self EXCEPT !.head = head, !.tail = tail, !.count = self.count - 1,
               !.heap = heap, !.next = next, !.value = value]
    BY <1>6
  <2> HIDE DEF s, u, p, next, value, head, tail, heap, r
  <2>2. /\ r = [count |-> r.count, head |-> r.head, tail |-> r.tail,
                heap |-> r.heap, next |-> r.next, value |-> r.value]
        /\ r.count = self.count - 1 /\ r.head = head /\ r.tail = tail
        /\ r.heap = heap /\ r.next = next /\ r.value = value
    BY <1>2, <2>1
  <2>3. s # <<>> /\ 1 \in 1 .. Len(s)
    BY <1>2, <1>3, <1>6
  <2>4. p = s[1] /\ p \in self.heap /\ p \in Nodes
    <3>1. p = s[1]
      BY <1>2, <2>3 DEF IsChain, p
    <3> QED
      BY <1>2, <1>3, <2>3, <3>1
  <2>5. ASSUME NEW q \in Nodes, q # p
        PROVE  next[q] = self.next[q] /\ value[q] = self.value[q]
    BY <1>2, <2>5 DEF next, value
  <2>6. ASSUME NEW i \in 2 .. Len(s) PROVE s[i] # p /\ s[i] \in Nodes
    <3>1. i \in 1 .. Len(s) /\ i # 1
      BY <1>3
    <3> QED
      BY <1>2, <1>3, <2>3, <2>4, <3>1
  <2>7. \A i \in 2 .. Len(s) : next[s[i]] = self.next[s[i]]
    BY <2>5, <2>6
  <2>8. /\ head = NULL <=> Len(s) = 1
        /\ IsChain(t, head, next, heap, NULL)
    <3>1. /\ IsChain(s, p, self.next, self.heap, NULL) /\ s # <<>>
          /\ \A i \in 2 .. Len(s) : next[s[i]] = self.next[s[i]]
      BY <1>2, <2>3, <2>7 DEF p
    <3>2. self.next[p] = NULL <=> Len(s) = 1
      BY <3>1, ChainHead
    <3>3. IsChain(Tail(s), self.next[p], next, self.heap \ {p}, NULL)
      BY <3>1, ChainTail
    <3> QED
      BY <3>2, <3>3 DEF head, heap
  <2>9. Along(t, value) = Tail(u)
    <3>1. \A i \in 2 .. Len(s) : value[s[i]] = self.value[s[i]]
      BY <2>5, <2>6
    <3>2. s \in Seq(self.heap) /\ s # <<>> /\ Along(s, self.value) \in Seq(Values)
          /\ t = Tail(s) /\ u = Along(s, self.value)
      BY <1>2, <1>3, <2>3
    <3>3. Along(Tail(s), value) = Tail(Along(s, self.value))
      BY <3>1, <3>2, AlongTail
    <3> QED
      BY <3>2, <3>3
  <2>10. /\ t \in Seq(self.heap) /\ Len(t) = Len(s) - 1 /\ (t = <<>> <=> Len(s) = 1)
         /\ Len(s) > 1 => t[Len(t)] = s[Len(s)]
    <3>1. s \in Seq(self.heap) /\ s # <<>>
      BY <1>3, <2>3
    <3>2. t \in Seq(self.heap) /\ Len(t) = Len(s) - 1
          /\ \A i \in 1 .. Len(s) - 1 : t[i] = s[i + 1]
      BY <3>1
    <3> HIDE DEF t
    <3>3. t = <<>> <=> Len(s) = 1
      BY <1>3, <3>2
    <3>4. Len(s) > 1 => t[Len(t)] = s[Len(s)]
      BY <1>3, <3>2
    <3> QED
      BY <3>2, <3>3, <3>4
  <2>11. next \in [Nodes -> Nodes \cup {NULL, garbage}] /\ value \in [Nodes -> Cells]
    BY <1>2 DEF next, value, Cells
  <2>12. /\ r.count = Len(t)
         /\ r.tail = IF t = <<>> THEN NULL ELSE t[Len(t)]
         /\ r.heap \subseteq Nodes
    <3>1. tail = IF t = <<>> THEN NULL ELSE t[Len(t)]
      <4>1. CASE Len(s) = 1
        BY <2>8, <2>10, <4>1 DEF tail, head
      <4>2. CASE Len(s) # 1
        <5>1. t # <<>> /\ t[Len(t)] = s[Len(s)]
          BY <1>3, <2>3, <2>10, <4>2
        <5>2. tail = self.tail
          BY <2>8, <4>2 DEF tail, head
        <5> QED
          BY <1>2, <2>3, <5>1, <5>2
      <4> QED
        BY <4>1, <4>2
    <3> QED
      BY <1>2, <2>2, <2>10, <3>1 DEF heap
  <2>13. ASSUME NEW q \in r.heap PROVE r.value[q] \in Values
    <3>1. q \in Nodes /\ q # p /\ q \in self.heap
      BY <1>2, <2>2 DEF heap
    <3> QED
      BY <1>2, <2>2, <2>5, <3>1
  <2>14. ASSUME NEW q \in Nodes \ r.heap PROVE r.next[q] = garbage
    <3>1. CASE q = p
      BY <1>2, <2>2, <2>4, <3>1 DEF next
    <3>2. CASE q # p
      <4>1. q \notin self.heap
        BY <2>2, <3>2 DEF heap
      <4> QED
        BY <1>2, <2>2, <2>5, <3>2, <4>1
    <3> QED
      BY <3>1, <3>2
  <2> HIDE DEF t
  <2>15. LQ!Holds(r) /\ LQ!ListNodes(r) = t
    <3>1. /\ IsChain(t, r.head, r.next, r.heap, NULL)
          /\ r.next \in [Nodes -> Nodes \cup {NULL, garbage}] /\ r.value \in [Nodes -> Cells]
      BY <2>2, <2>8, <2>11
    <3> QED
      BY <2>2, <2>12, <2>13, <2>14, <3>1, QueueOfNodes
  <2>16. LQ!GenArray(r) = Tail(u)
    <3>1. LQ!GenArray(r) = Along(t, r.value)
      BY <2>15, NodesOfQueue
    <3> QED
      BY <2>2, <2>9, <3>1
  <2>17. u # <<>> /\ u[1] = self.value[p]
    <3>1. u[1] = self.value[s[1]]
      BY <1>2, <1>3, <2>3, AlongElems
    <3> QED
      BY <1>4, <2>3, <2>4, <3>1
  <2>18. ret' = <<"takeFirst", TRUE, u[1]>>
    BY <1>6, <2>17 DEF p
  <2>19. ret'[1] = "takeFirst"
    BY <2>18
  <2> QED
    BY <2>15, <2>16, <2>17, <2>18, <2>19 DEF LQ!ListOK, LQ!L!TakeFirst, r, u
<1> QED
  BY <1>5, <1>6 DEF LQ!Dequeue

\* What a sound linked queue tells and gives away is its line.
LEMMA LinkedQueueCalls ==
  ASSUME LQ!ListOK, LQ!Next
  PROVE  LQ!ListOK' /\ LQ!L!LineNext
<1> DEFINE s == LQ!ListNodes(self)
           u == LQ!GenArray(self)
<1>1. LQ!Holds(self)
  BY DEF LQ!ListOK
<1>2. /\ IsChain(s, self.head, self.next, self.heap, NULL)
      /\ self.count = Len(s)
      /\ u = Along(s, self.value)
      /\ Along(s, self.value) \in Seq(Values)
  BY <1>1, NodesOfQueue
<1>3. self.count = Len(u) /\ self.count \in Nat /\ (u = <<>> <=> self.count = 0)
      /\ (self.count > 0 => u[1] = self.value[self.head])
  <2>1. s \in Seq(self.heap) /\ (s # <<>> => self.head = s[1])
        /\ (s = <<>> <=> Len(s) = 0) /\ Len(s) \in Nat
    BY <1>2 DEF IsChain
  <2> HIDE DEF s, u
  <2>2. /\ Len(s) \in Nat /\ Len(Along(s, self.value)) = Len(s)
        /\ \A i \in 1 .. Len(s) : Along(s, self.value)[i] = self.value[s[i]]
        /\ Along(s, self.value) = <<>> <=> s = <<>>
    BY <1>2, <2>1, AlongElems
  <2>3. ASSUME self.count > 0 PROVE u[1] = self.value[self.head]
    <3>1. 1 \in 1 .. Len(s) /\ s # <<>>
      BY <1>2, <2>1, <2>3
    <3> QED
      BY <1>2, <2>1, <2>2, <3>1
  <2> QED
    BY <1>2, <2>1, <2>2, <2>3
<1>4. UNCHANGED self => LQ!ListOK' /\ u' = u
  BY <1>1 DEF LQ!ListOK
<1>5. ASSUME NEW v \in Values, LQ!Enqueue(v) PROVE LQ!ListOK' /\ LQ!L!LineNext
  BY <1>5, LinkedEnqueueIsPut DEF LQ!L!LineNext
<1>6. CASE LQ!Dequeue
  BY <1>6, LinkedDequeueIsTake DEF LQ!L!LineNext
<1>7. ASSUME NEW op \in {"clear", "destroy"}, LQ!Clear(op)
      PROVE  LQ!ListOK' /\ LQ!L!LineNext
  <2>1. LQ!Holds(self') /\ LQ!GenArray(self') = <<>>
    BY <1>7, LinkedNew DEF LQ!Clear
  <2>2. ret' = <<op, u>>
    BY <1>7 DEF LQ!Clear
  <2>3. ret'[1] \in {"clear", "destroy"} /\ ret'[2] = u
    BY <2>2
  <2>4. LQ!L!Empty
    BY <2>1, <2>3 DEF LQ!L!Empty
  <2> QED
    BY <2>1, <2>4 DEF LQ!ListOK, LQ!L!LineNext
<1>8. CASE LQ!PeekFront
  <2>1. UNCHANGED self
    BY <1>8 DEF LQ!PeekFront
  <2>2. ret' = IF u = <<>> THEN <<"first", FALSE>> ELSE <<"first", TRUE, u[1]>>
    <3>1. CASE self.count > 0
      <4>1. u # <<>>
        BY <1>3, <3>1
      <4>2. ret' = <<"first", TRUE, u[1]>>
        BY <1>3, <1>8, <3>1 DEF LQ!PeekFront
      <4> QED
        BY <4>1, <4>2
    <3>2. CASE ~(self.count > 0)
      <4>1. u = <<>>
        BY <1>3, <3>2
      <4>2. ret' = <<"first", FALSE>>
        BY <1>8, <3>2 DEF LQ!PeekFront
      <4> QED
        BY <4>1, <4>2
    <3> QED
      BY <3>1, <3>2
  <2>3. ret'[1] = "first"
    BY <2>2
  <2>4. LQ!L!PeekFirst
    BY <1>4, <2>1, <2>2, <2>3 DEF LQ!L!PeekFirst
  <2> QED
    BY <1>4, <2>1, <2>4 DEF LQ!L!LineNext
<1>9. CASE LQ!Size
  <2>1. LQ!L!Size
    BY <1>3, <1>4, <1>9 DEF LQ!Size, LQ!L!Size
  <2> QED
    BY <1>4, <1>9, <2>1 DEF LQ!Size, LQ!L!LineNext
<1>10. CASE LQ!ToArray
  <2>1. LQ!L!ToArray
    BY <1>4, <1>10 DEF LQ!ToArray, LQ!L!ToArray
  <2> QED
    BY <1>4, <1>10, <2>1 DEF LQ!ToArray, LQ!L!LineNext
<1>11. CASE LQ!ItCreate
  <2>1. LQ!L!Iterate
    BY <1>3, <1>4, <1>11 DEF LQ!ItCreate, LQ!L!Iterate
  <2> QED
    BY <1>4, <1>11, <2>1 DEF LQ!ItCreate, LQ!L!LineNext
<1> QED
  BY <1>5, <1>6, <1>7, <1>8, <1>9, <1>10, <1>11 DEF LQ!Next

(* LListStack.                                                             *)

\* The walk of the stack is that of the lemmas.
LEMMA StackWalk ==
  ASSUME NEW s, NEW first, NEW link, NEW nodes, NEW end
  PROVE  /\ LS!IsChain(s, first, link, nodes, end) <=> IsChain(s, first, link, nodes, end)
         /\ LS!Chain(first, link, nodes, end) = Chain(first, link, nodes, end)
BY DEF LS!IsChain, IsChain, LS!Chain, Chain

\* A stack is sound when some sequence of nodes is its list; that sequence
\* is then the one the walk finds.
LEMMA StackOfNodes ==
  ASSUME NEW d, NEW s,
         d = [count |-> d.count, head |-> d.head,
              heap |-> d.heap, next |-> d.next, value |-> d.value],
         IsChain(s, d.head, d.next, d.heap, NULL),
         d.count = Len(s),
         d.heap \subseteq Nodes,
         d.next \in [Nodes -> Nodes \cup {NULL, garbage}],
         d.value \in [Nodes -> Cells],
         \A p \in d.heap : d.value[p] \in Values,
         \A p \in Nodes \ d.heap : d.next[p] = garbage
  PROVE  LS!Holds(d) /\ LS!ListNodes(d) = s
<1>1. LS!ListNodes(d) = s
  <2>1. Chain(d.head, d.next, d.heap, NULL) = s
    BY ChainIs
  <2> QED
    BY <2>1, StackWalk DEF LS!ListNodes
<1>2. LS!IsChain(s, d.head, d.next, d.heap, NULL)
  BY StackWalk
<1> QED
  BY <1>1, <1>2 DEF LS!Holds, Cells

\* What a sound stack's nodes are, and the elements in them.
LEMMA NodesOfStack ==
  ASSUME NEW d, LS!Holds(d)
  PROVE  LET s == LS!ListNodes(d) IN
         /\ d = [count |-> d.count, head |-> d.head,
                 heap |-> d.heap, next |-> d.next, value |-> d.value]
         /\ IsChain(s, d.head, d.next, d.heap, NULL)
         /\ d.count = Len(s)
         /\ d.heap \subseteq Nodes
         /\ d.next \in [Nodes -> Nodes \cup {NULL, garbage}]
         /\ d.value \in [Nodes -> Cells]
         /\ \A p \in d.heap : d.value[p] \in Values
         /\ \A p \in Nodes \ d.heap : d.next[p] = garbage
         /\ LS!GenArray(d) = Along(s, d.value)
         /\ Along(s, d.value) \in Seq(Values)
<1> DEFINE s == LS!ListNodes(d)
<1>1. IsChain(s, d.head, d.next, d.heap, NULL)
  BY StackWalk DEF LS!Holds
<1>2. s \in Seq(d.heap) /\ Len(s) \in Nat /\ DOMAIN s = 1 .. Len(s)
      /\ \A i \in 1 .. Len(s) : s[i] \in d.heap
  BY <1>1 DEF IsChain
<1>3. \A p \in d.heap : d.value[p] \in Values
  BY DEF LS!Holds
<1>4. LS!GenArray(d) = Along(s, d.value)
  BY <1>2 DEF LS!GenArray, Along
<1>5. Along(s, d.value) \in Seq(Values)
  <2>1. Along(s, d.value) = [i \in 1 .. Len(s) |-> d.value[s[i]]]
    BY DEF Along
  <2> HIDE DEF s
  <2>2. Along(s, d.value) \in [1 .. Len(s) -> Values]
    BY <1>2, <1>3, <2>1
  <2> QED
    BY <1>2, <2>2
<1> QED
  BY <1>1, <1>4, <1>5 DEF LS!Holds, Cells

\* A new linked stack is sound, and empty.
LEMMA LinkedStackNew == LS!Holds(LS!NewStack) /\ LS!GenArray(LS!NewStack) = <<>>
<1> DEFINE r == LS!NewStack
           s == <<>>
<1>1. /\ r = [count |-> r.count, head |-> r.head,
              heap |-> r.heap, next |-> r.next, value |-> r.value]
      /\ r.count = 0 /\ r.head = NULL /\ r.heap = {}
      /\ r.next = [p \in Nodes |-> garbage] /\ r.value = [p \in Nodes |-> garbage]
  BY DEF LS!NewStack
<1> HIDE DEF r
<1>2. IsChain(s, r.head, r.next, r.heap, NULL)
  BY <1>1, ChainNone
<1>3. /\ r.count = Len(s)
      /\ r.heap \subseteq Nodes
      /\ r.next \in [Nodes -> Nodes \cup {NULL, garbage}]
      /\ r.value \in [Nodes -> Cells]
      /\ \A p \in r.heap : r.value[p] \in Values
      /\ \A p \in Nodes \ r.heap : r.next[p] = garbage
  BY <1>1 DEF Cells
<1> HIDE DEF s
<1>4. LS!Holds(r) /\ LS!ListNodes(r) = s
  BY <1>1, <1>2, <1>3, StackOfNodes
<1>5. LS!GenArray(r) = Along(s, r.value)
  BY <1>4, NodesOfStack
<1>6. Along(s, r.value) = <<>>
  BY DEF Along, s
<1> QED
  BY <1>4, <1>5, <1>6 DEF r

\* An element that is pushed is the first of the line.
LEMMA LinkedPushIsPut ==
  ASSUME LS!ListOK, NEW e \in Values, LS!Push(e)
  PROVE  LS!ListOK' /\ LS!L!PutFirst
<1> DEFINE s == LS!ListNodes(self)
           u == LS!GenArray(self)
           p == LS!Malloc(self)
           next == [self.next EXCEPT ![p] = self.head]
           value == [self.value EXCEPT ![p] = e]
           r == self'
           t == <<p>> \o s
<1>1. LS!Holds(self)
  BY DEF LS!ListOK
<1>2. CASE UNCHANGED self /\ ret' = <<"putFirst", FALSE>>
  <2>1. LS!GenArray(self)' = LS!GenArray(self)
    BY <1>2
  <2> QED
    BY <1>1, <1>2, <2>1 DEF LS!ListOK, LS!L!PutFirst, LS!L!Put
<1>3. CASE /\ self.heap # Nodes
           /\ self' = [self EXCEPT !.heap = @ \cup {p}, !.value[p] = e,
                !.next[p] = self.head, !.head = p, !.count = @ + 1]
           /\ ret' = <<"putFirst", TRUE>>
  <2>1. /\ self = [count |-> self.count, head |-> self.head,
                    heap |-> self.heap, next |-> self.next, value |-> self.value]
        /\ IsChain(s, self.head, self.next, self.heap, NULL)
        /\ self.count = Len(s)
        /\ self.heap \subseteq Nodes
        /\ self.next \in [Nodes -> Nodes \cup {NULL, garbage}]
        /\ self.value \in [Nodes -> Cells]
        /\ \A q \in self.heap : self.value[q] \in Values
        /\ \A q \in Nodes \ self.heap : self.next[q] = garbage
        /\ u = Along(s, self.value)
        /\ Along(s, self.value) \in Seq(Values)
    BY <1>1, NodesOfStack
  <2>2. p \in Nodes /\ p \notin self.heap /\ p # NULL
    <3>1. \E q \in Nodes : q \notin self.heap
      BY <1>3, <2>1
    <3>2. NULL \notin Nodes
      BY LinesAssumption DEF LQ!NodesAssumption
    <3> QED
      BY <3>1, <3>2 DEF LS!Malloc
  <2>3. r = [self EXCEPT !.heap = self.heap \cup {p}, !.value = value,
               !.next = next, !.head = p, !.count = self.count + 1]
    BY <1>3
  <2> HIDE DEF p, s, u, next, value, r
  <2>4. /\ r = [count |-> r.count, head |-> r.head,
                 heap |-> r.heap, next |-> r.next, value |-> r.value]
        /\ r.count = self.count + 1 /\ r.head = p
        /\ r.heap = self.heap \cup {p} /\ r.next = next /\ r.value = value
    BY <2>1, <2>3
  <2>5. /\ s \in Seq(self.heap) /\ Len(s) \in Nat
        /\ \A i \in 1 .. Len(s) : s[i] \in self.heap
        /\ self.head \in Nodes \cup {NULL}
    <3>1. /\ s \in Seq(self.heap) /\ Len(s) \in Nat
          /\ \A i \in 1 .. Len(s) : s[i] \in self.heap
      BY <2>1 DEF IsChain
    <3>2. s # <<>> => self.head \in self.heap
      BY <2>1, ChainHead
    <3>3. s = <<>> => self.head = NULL
      BY <2>1 DEF IsChain
    <3> QED
      BY <2>1, <3>1, <3>2, <3>3
  <2>6. /\ next \in [Nodes -> Nodes \cup {NULL, garbage}] /\ next[p] = self.head
        /\ \A q \in Nodes : q # p => next[q] = self.next[q]
    BY <2>1, <2>2, <2>5 DEF next
  <2>7. value \in [Nodes -> Cells] /\ value[p] = e
        /\ \A q \in Nodes : q # p => value[q] = self.value[q]
    BY <2>1, <2>2 DEF value, Cells
  <2>8. ASSUME NEW i \in 1 .. Len(s)
        PROVE  next[s[i]] = self.next[s[i]] /\ value[s[i]] = self.value[s[i]]
    <3>1. s[i] \in Nodes /\ s[i] # p
      BY <2>1, <2>2, <2>5
    <3> QED
      BY <2>6, <2>7, <3>1
  <2>9. IsChain(t, p, next, self.heap \cup {p}, NULL)
    <3>1. /\ IsChain(s, self.head, self.next, self.heap, NULL)
          /\ p \notin self.heap /\ p # NULL /\ next[p] = self.head
          /\ \A i \in 1 .. Len(s) : next[s[i]] = self.next[s[i]]
      BY <2>1, <2>2, <2>6, <2>8
    <3> QED
      BY <3>1, ChainCons
  <2>10. Along(t, value) = <<e>> \o u
    <3>1. \A i \in 1 .. Len(s) : value[s[i]] = self.value[s[i]]
      BY <2>8
    <3>2. /\ s \in Seq(self.heap) /\ Along(s, self.value) \in Seq(Values)
          /\ value[p] \in Values
      BY <2>1, <2>5, <2>7
    <3>3. Along(<<p>> \o s, value) = <<value[p]>> \o Along(s, self.value)
      BY SMTT(30), <3>1, <3>2, AlongCons
    <3> QED
      BY <2>1, <2>7, <3>3
  <2>11. Len(t) = Len(s) + 1
    <3>1. s \in Seq(r.heap) /\ p \in r.heap
      BY <2>4, <2>5
    <3>2. <<p>> \in Seq(r.heap) /\ Len(<<p>>) = 1
      BY <3>1, SingleElem
    <3>3. Len(t) = Len(<<p>>) + Len(s)
      BY <3>1, <3>2, ConcatElems
    <3> HIDE DEF t
    <3> QED
      BY <2>5, <3>2, <3>3
  <2> HIDE DEF t
  <2>12. ASSUME NEW q \in r.heap PROVE r.value[q] \in Values
    BY <2>1, <2>2, <2>4, <2>7
  <2>13. ASSUME NEW q \in Nodes \ r.heap PROVE r.next[q] = garbage
    BY <2>1, <2>4, <2>6
  <2>14. LS!Holds(r) /\ LS!ListNodes(r) = t
    <3>1. r.count = Len(t) /\ r.heap \subseteq Nodes
      BY <2>1, <2>2, <2>4, <2>11
    <3>2. IsChain(t, r.head, r.next, r.heap, NULL)
      BY <2>4, <2>9
    <3>3. r.next \in [Nodes -> Nodes \cup {NULL, garbage}] /\ r.value \in [Nodes -> Cells]
      BY <2>4, <2>6, <2>7
    <3> QED
      BY <2>4, <2>12, <2>13, <3>1, <3>2, <3>3, StackOfNodes
  <2>15. LS!GenArray(r) = <<e>> \o u
    <3>1. LS!GenArray(r) = Along(t, r.value)
      BY <2>14, NodesOfStack
    <3> QED
      BY <2>4, <2>10, <3>1
  <2> QED
    BY <1>3, <2>14, <2>15 DEF LS!ListOK, LS!L!PutFirst, LS!L!Put, r, u
<1> QED
  BY <1>2, <1>3 DEF LS!Push

\* The first element is taken, and its node freed.
LEMMA LinkedPopIsTake ==
  ASSUME LS!ListOK, LS!Pop
  PROVE  LS!ListOK' /\ LS!L!TakeFirst
<1> DEFINE s == LS!ListNodes(self)
           u == LS!GenArray(self)
           p == self.head
           next == [self.next EXCEPT ![p] = garbage]
           value == [self.value EXCEPT ![p] = garbage]
           head == self.next[p]
           heap == self.heap \ {p}
           r == self'
           t == Tail(s)
<1>1. LS!Holds(self)
  BY DEF LS!ListOK
<1>2. /\ self = [count |-> self.count, head |-> self.head,
                 heap |-> self.heap, next |-> self.next, value |-> self.value]
      /\ IsChain(s, self.head, self.next, self.heap, NULL)
      /\ self.count = Len(s)
      /\ self.heap \subseteq Nodes
      /\ self.next \in [Nodes -> Nodes \cup {NULL, garbage}]
      /\ self.value \in [Nodes -> Cells]
      /\ \A q \in self.heap : self.value[q] \in Values
      /\ \A q \in Nodes \ self.heap : self.next[q] = garbage
      /\ u = Along(s, self.value)
      /\ Along(s, self.value) \in Seq(Values)
  BY <1>1, NodesOfStack
<1>3. /\ s \in Seq(self.heap) /\ Len(s) \in Nat /\ (s = <<>> <=> Len(s) = 0)
      /\ \A i \in 1 .. Len(s) : s[i] \in self.heap
      /\ \A i, j \in 1 .. Len(s) : s[i] = s[j] => i = j
  BY <1>2 DEF IsChain
<1>4. u = <<>> <=> s = <<>>
  <2> HIDE DEF s, u
  <2> QED
    BY <1>2, <1>3, AlongElems
<1>5. CASE self.count <= 0 /\ UNCHANGED self /\ ret' = <<"takeFirst", FALSE>>
  <2>1. LS!GenArray(self)' = LS!GenArray(self)
    BY <1>5
  <2>2. u = <<>>
    <3> HIDE DEF s, u
    <3> QED
      BY <1>2, <1>3, <1>4, <1>5
  <2>3. ret'[1] = "takeFirst"
    BY <1>5
  <2> QED
    BY <1>1, <1>5, <2>1, <2>2, <2>3 DEF LS!ListOK, LS!L!TakeFirst
<1>6. CASE /\ self.count > 0
           /\ self' = [self EXCEPT !.head = head,
                !.count = @ - 1, !.heap = @ \ {p},
                !.next[p] = garbage, !.value[p] = garbage]
           /\ ret' = <<"takeFirst", TRUE, self.value[self.head]>>
  <2>1. r = [self EXCEPT !.head = head, !.count = self.count - 1,
               !.heap = heap, !.next = next, !.value = value]
    BY <1>6
  <2> HIDE DEF s, u, p, next, value, head, heap, r
  <2>2. /\ r = [count |-> r.count, head |-> r.head,
                heap |-> r.heap, next |-> r.next, value |-> r.value]
        /\ r.count = self.count - 1 /\ r.head = head 
        /\ r.heap = heap /\ r.next = next /\ r.value = value
    BY <1>2, <2>1
  <2>3. s # <<>> /\ 1 \in 1 .. Len(s)
    BY <1>2, <1>3, <1>6
  <2>4. p = s[1] /\ p \in self.heap /\ p \in Nodes
    <3>1. p = s[1]
      BY <1>2, <2>3 DEF IsChain, p
    <3> QED
      BY <1>2, <1>3, <2>3, <3>1
  <2>5. ASSUME NEW q \in Nodes, q # p
        PROVE  next[q] = self.next[q] /\ value[q] = self.value[q]
    BY <1>2, <2>5 DEF next, value
  <2>6. ASSUME NEW i \in 2 .. Len(s) PROVE s[i] # p /\ s[i] \in Nodes
    <3>1. i \in 1 .. Len(s) /\ i # 1
      BY <1>3
    <3> QED
      BY <1>2, <1>3, <2>3, <2>4, <3>1
  <2>7. \A i \in 2 .. Len(s) : next[s[i]] = self.next[s[i]]
    BY <2>5, <2>6
  <2>8. /\ head = NULL <=> Len(s) = 1
        /\ IsChain(t, head, next, heap, NULL)
    <3>1. /\ IsChain(s, p, self.next, self.heap, NULL) /\ s # <<>>
          /\ \A i \in 2 .. Len(s) : next[s[i]] = self.next[s[i]]
      BY <1>2, <2>3, <2>7 DEF p
    <3>2. self.next[p] = NULL <=> Len(s) = 1
      BY <3>1, ChainHead
    <3>3. IsChain(Tail(s), self.next[p], next, self.heap \ {p}, NULL)
      BY <3>1, ChainTail
    <3> QED
      BY <3>2, <3>3 DEF head, heap
  <2>9. Along(t, value) = Tail(u)
    <3>1. \A i \in 2 .. Len(s) : value[s[i]] = self.value[s[i]]
      BY <2>5, <2>6
    <3> QED
      BY <1>2, <1>3, <2>3, <3>1, AlongTail
  <2>10. /\ t \in Seq(self.heap) /\ Len(t) = Len(s) - 1 /\ (t = <<>> <=> Len(s) = 1)
         /\ Len(s) > 1 => t[Len(t)] = s[Len(s)]
    <3>1. s \in Seq(self.heap) /\ s # <<>>
      BY <1>3, <2>3
    <3>2. t \in Seq(self.heap) /\ Len(t) = Len(s) - 1
          /\ \A i \in 1 .. Len(s) - 1 : t[i] = s[i + 1]
      BY <3>1
    <3> HIDE DEF t
    <3>3. t = <<>> <=> Len(s) = 1
      BY <1>3, <3>2
    <3>4. Len(s) > 1 => t[Len(t)] = s[Len(s)]
      BY <1>3, <3>2
    <3> QED
      BY <3>2, <3>3, <3>4
  <2>11. next \in [Nodes -> Nodes \cup {NULL, garbage}] /\ value \in [Nodes -> Cells]
    BY <1>2 DEF next, value, Cells
  <2>12. r.count = Len(t) /\ r.heap \subseteq Nodes
    BY <1>2, <2>2, <2>10 DEF heap
  <2>13. ASSUME NEW q \in r.heap PROVE r.value[q] \in Values
    <3>1. q \in Nodes /\ q # p /\ q \in self.heap
      BY <1>2, <2>2 DEF heap
    <3> QED
      BY <1>2, <2>2, <2>5, <3>1
  <2>14. ASSUME NEW q \in Nodes \ r.heap PROVE r.next[q] = garbage
    <3>1. CASE q = p
      BY <1>2, <2>2, <2>4, <3>1 DEF next
    <3>2. CASE q # p
      <4>1. q \notin self.heap
        BY <2>2, <3>2 DEF heap
      <4> QED
        BY <1>2, <2>2, <2>5, <3>2, <4>1
    <3> QED
      BY <3>1, <3>2
  <2> HIDE DEF t
  <2>15. LS!Holds(r) /\ LS!ListNodes(r) = t
    <3>1. /\ IsChain(t, r.head, r.next, r.heap, NULL)
          /\ r.next \in [Nodes -> Nodes \cup {NULL, garbage}] /\ r.value \in [Nodes -> Cells]
      BY <2>2, <2>8, <2>11
    <3> QED
      BY <2>2, <2>12, <2>13, <2>14, <3>1, StackOfNodes
  <2>16. LS!GenArray(r) = Tail(u)
    <3>1. LS!GenArray(r) = Along(t, r.value)
      BY <2>15, NodesOfStack
    <3> QED
      BY <2>2, <2>9, <3>1
  <2>17. u # <<>> /\ u[1] = self.value[p]
    <3>1. u[1] = self.value[s[1]]
      BY <1>2, <1>3, <2>3, AlongElems
    <3> QED
      BY <1>4, <2>3, <2>4, <3>1
  <2>18. ret' = <<"takeFirst", TRUE, u[1]>>
    BY <1>6, <2>17 DEF p
  <2>19. ret'[1] = "takeFirst"
    BY <2>18
  <2> QED
    BY <2>15, <2>16, <2>17, <2>18, <2>19 DEF LS!ListOK, LS!L!TakeFirst, r, u
<1> QED
  BY <1>5, <1>6 DEF LS!Pop

\* What a sound linked stack tells and gives away is its line.
LEMMA LinkedStackCalls ==
  ASSUME LS!ListOK, LS!Next
  PROVE  LS!ListOK' /\ LS!L!LineNext
<1> DEFINE s == LS!ListNodes(self)
           u == LS!GenArray(self)
<1>1. LS!Holds(self)
  BY DEF LS!ListOK
<1>2. /\ IsChain(s, self.head, self.next, self.heap, NULL)
      /\ self.count = Len(s)
      /\ u = Along(s, self.value)
      /\ Along(s, self.value) \in Seq(Values)
  BY <1>1, NodesOfStack
<1>3. self.count = Len(u) /\ self.count \in Nat /\ (u = <<>> <=> self.count = 0)
      /\ (self.count > 0 => u[1] = self.value[self.head])
  <2>1. s \in Seq(self.heap) /\ (s # <<>> => self.head = s[1])
        /\ (s = <<>> <=> Len(s) = 0) /\ Len(s) \in Nat
    BY <1>2 DEF IsChain
  <2> HIDE DEF s, u
  <2>2. /\ Len(s) \in Nat /\ Len(Along(s, self.value)) = Len(s)
        /\ \A i \in 1 .. Len(s) : Along(s, self.value)[i] = self.value[s[i]]
        /\ Along(s, self.value) = <<>> <=> s = <<>>
    BY <1>2, <2>1, AlongElems
  <2>3. ASSUME self.count > 0 PROVE u[1] = self.value[self.head]
    <3>1. 1 \in 1 .. Len(s) /\ s # <<>>
      BY <1>2, <2>1, <2>3
    <3> QED
      BY <1>2, <2>1, <2>2, <3>1
  <2> QED
    BY <1>2, <2>1, <2>2, <2>3
<1>4. UNCHANGED self => LS!ListOK' /\ u' = u
  BY <1>1 DEF LS!ListOK
<1>5. ASSUME NEW v \in Values, LS!Push(v) PROVE LS!ListOK' /\ LS!L!LineNext
  BY <1>5, LinkedPushIsPut DEF LS!L!LineNext
<1>6. CASE LS!Pop
  BY <1>6, LinkedPopIsTake DEF LS!L!LineNext
<1>7. ASSUME NEW op \in {"clear", "destroy"}, LS!Clear(op)
      PROVE  LS!ListOK' /\ LS!L!LineNext
  <2>1. LS!Holds(self') /\ LS!GenArray(self') = <<>>
    BY <1>7, LinkedStackNew DEF LS!Clear
  <2>2. ret' = <<op, u>>
    BY <1>7 DEF LS!Clear
  <2>3. ret'[1] \in {"clear", "destroy"} /\ ret'[2] = u
    BY <2>2
  <2>4. LS!L!Empty
    BY <2>1, <2>3 DEF LS!L!Empty
  <2> QED
    BY <2>1, <2>4 DEF LS!ListOK, LS!L!LineNext
<1>8. CASE LS!Peek
  <2>1. UNCHANGED self
    BY <1>8 DEF LS!Peek
  <2>2. ret' = IF u = <<>> THEN <<"first", FALSE>> ELSE <<"first", TRUE, u[1]>>
    <3>1. CASE self.count > 0
      <4>1. u # <<>>
        BY <1>3, <3>1
      <4>2. ret' = <<"first", TRUE, u[1]>>
        BY <1>3, <1>8, <3>1 DEF LS!Peek
      <4> QED
        BY <4>1, <4>2
    <3>2. CASE ~(self.count > 0)
      <4>1. u = <<>>
        BY <1>3, <3>2
      <4>2. ret' = <<"first", FALSE>>
        BY <1>8, <3>2 DEF LS!Peek
      <4> QED
        BY <4>1, <4>2
    <3> QED
      BY <3>1, <3>2
  <2>3. ret'[1] = "first"
    BY <2>2
  <2>4. LS!L!PeekFirst
    BY <1>4, <2>1, <2>2, <2>3 DEF LS!L!PeekFirst
  <2> QED
    BY <1>4, <2>1, <2>4 DEF LS!L!LineNext
<1>9. CASE LS!Size
  <2>1. LS!L!Size
    BY <1>3, <1>4, <1>9 DEF LS!Size, LS!L!Size
  <2> QED
    BY <1>4, <1>9, <2>1 DEF LS!Size, LS!L!LineNext
<1>10. CASE LS!ToArray
  <2>1. LS!L!ToArray
    BY <1>4, <1>10 DEF LS!ToArray, LS!L!ToArray
  <2> QED
    BY <1>4, <1>10, <2>1 DEF LS!ToArray, LS!L!LineNext
<1>11. CASE LS!ItCreate
  <2>1. LS!L!Iterate
    BY <1>3, <1>4, <1>11 DEF LS!ItCreate, LS!L!Iterate
  <2> QED
    BY <1>4, <1>11, <2>1 DEF LS!ItCreate, LS!L!LineNext
<1> QED
  BY <1>5, <1>6, <1>7, <1>8, <1>9, <1>10, <1>11 DEF LS!Next

-----------------------------------------------------------------------------
(* LListDeque.                                                             *)

Links == Nodes \cup {NULL}

\* A deque is sound when some sequences of nodes are its list forwards and
\* backwards; those sequences are then the ones the walks find.
LEMMA DequeOfNodes ==
  ASSUME NEW d, NEW s, NEW t,
         d = [size |-> d.size, heap |-> d.heap, next |-> d.next,
              prev |-> d.prev, element |-> d.element],
         Doubly(s, t, d.next, d.prev, d.heap, NULL),
         d.size = Len(s),
         d.heap \subseteq Nodes,
         d.next \in [Links -> Links \cup {garbage}],
         d.prev \in [Links -> Links \cup {garbage}],
         d.element \in [Nodes -> Cells],
         \A p \in d.heap : d.element[p] \in Values,
         \A p \in Nodes \ d.heap : d.next[p] = garbage
  PROVE  LD!Holds(d) /\ LD!Walk(d.next, d) = s
<1>1. /\ IsChain(s, d.next[NULL], d.next, d.heap, NULL)
      /\ IsChain(t, d.prev[NULL], d.prev, d.heap, NULL)
      /\ Len(t) = Len(s)
      /\ \A i \in 1 .. Len(s) : t[i] = s[Len(s) + 1 - i]
  BY DEF Doubly
<1>2. /\ Chain(d.next[NULL], d.next, d.heap, NULL) = s
      /\ Chain(d.prev[NULL], d.prev, d.heap, NULL) = t
  BY <1>1, ChainIs
<1>3. LD!Walk(d.next, d) = s /\ LD!Walk(d.prev, d) = t
  BY <1>2 DEF LD!Walk, LD!Chain, Chain
<1>4. /\ LD!IsChain(s, d.next[NULL], d.next, d.heap, NULL)
      /\ LD!IsChain(t, d.prev[NULL], d.prev, d.heap, NULL)
  BY <1>1 DEF LD!IsChain, IsChain
<1> QED
  BY <1>1, <1>3, <1>4 DEF LD!Holds, Cells, Links

\* What a sound deque's nodes are, and the elements in them.
LEMMA NodesOfDeque ==
  ASSUME NEW d, LD!Holds(d)
  PROVE  LET s == LD!Walk(d.next, d)
             t == LD!Walk(d.prev, d) IN
         /\ d = [size |-> d.size, heap |-> d.heap, next |-> d.next,
                 prev |-> d.prev, element |-> d.element]
         /\ Doubly(s, t, d.next, d.prev, d.heap, NULL)
         /\ d.size = Len(s)
         /\ d.heap \subseteq Nodes
         /\ d.next \in [Links -> Links \cup {garbage}]
         /\ d.prev \in [Links -> Links \cup {garbage}]
         /\ d.element \in [Nodes -> Cells]
         /\ \A p \in d.heap : d.element[p] \in Values
         /\ \A p \in Nodes \ d.heap : d.next[p] = garbage
         /\ LD!GenArray(d) = Along(s, d.element)
         /\ Along(s, d.element) \in Seq(Values)
<1> DEFINE s == LD!Walk(d.next, d)
           t == LD!Walk(d.prev, d)
<1>1. Doubly(s, t, d.next, d.prev, d.heap, NULL)
  <2>1. /\ LD!IsChain(s, d.next[NULL], d.next, d.heap, NULL)
        /\ LD!IsChain(t, d.prev[NULL], d.prev, d.heap, NULL)
        /\ Len(t) = Len(s)
        /\ \A i \in 1 .. Len(s) : t[i] = s[Len(s) + 1 - i]
    BY DEF LD!Holds
  <2> HIDE DEF s, t
  <2> QED
    BY <2>1 DEF LD!IsChain, IsChain, Doubly
<1>2. s \in Seq(d.heap) /\ Len(s) \in Nat /\ DOMAIN s = 1 .. Len(s)
      /\ \A i \in 1 .. Len(s) : s[i] \in d.heap
  <2>1. IsChain(s, d.next[NULL], d.next, d.heap, NULL)
    BY <1>1 DEF Doubly
  <2> HIDE DEF s
  <2> QED
    BY <2>1, ChainElems
<1>3. \A p \in d.heap : d.element[p] \in Values
  BY DEF LD!Holds
<1>4. LD!GenArray(d) = Along(s, d.element)
  BY <1>2 DEF LD!GenArray, Along
<1>5. Along(s, d.element) \in Seq(Values)
  <2>1. Along(s, d.element) = [i \in 1 .. Len(s) |-> d.element[s[i]]]
    BY DEF Along
  <2> HIDE DEF s
  <2>2. Along(s, d.element) \in [1 .. Len(s) -> Values]
    BY <1>2, <1>3, <2>1
  <2> QED
    BY <1>2, <2>2
<1> QED
  BY <1>1, <1>4, <1>5 DEF LD!Holds, Cells, Links

\* A new linked deque is sound, and empty.
LEMMA LinkedDequeNew == LD!Holds(LD!NewDeque) /\ LD!GenArray(LD!NewDeque) = <<>>
<1> DEFINE r == LD!NewDeque
           s == <<>>
           l == [p \in Links |-> IF p = NULL THEN NULL ELSE garbage]
<1>1. /\ r = [size |-> r.size, heap |-> r.heap, next |-> r.next,
              prev |-> r.prev, element |-> r.element]
      /\ r.size = 0 /\ r.heap = {} /\ r.next = l /\ r.prev = l
      /\ r.element = [p \in Nodes |-> garbage]
  BY DEF LD!NewDeque, Links
<1> HIDE DEF r
<1>2. l \in [Links -> Links \cup {garbage}] /\ l[NULL] = NULL
      /\ \A p \in Nodes : p # NULL => l[p] = garbage
  BY DEF Links
<1> HIDE DEF l
<1>3. NULL \notin Nodes
  BY LinesAssumption DEF LQ!NodesAssumption
<1>4. IsChain(s, NULL, l, {}, NULL)
  BY ChainNone
<1>5. Doubly(s, s, r.next, r.prev, r.heap, NULL)
  BY <1>1, <1>2, <1>4 DEF Doubly
<1>6. /\ r.size = Len(s)
      /\ r.heap \subseteq Nodes
      /\ r.next \in [Links -> Links \cup {garbage}]
      /\ r.prev \in [Links -> Links \cup {garbage}]
      /\ r.element \in [Nodes -> Cells]
      /\ \A p \in r.heap : r.element[p] \in Values
      /\ \A p \in Nodes \ r.heap : r.next[p] = garbage
  BY <1>1, <1>2, <1>3 DEF Cells
<1> HIDE DEF s
<1>7. LD!Holds(r) /\ LD!Walk(r.next, r) = s
  BY <1>1, <1>5, <1>6, DequeOfNodes
<1>8. LD!GenArray(r) = Along(s, r.element)
  BY <1>7, NodesOfDeque
<1>9. Along(s, r.element) = <<>>
  BY DEF Along, s
<1> QED
  BY <1>7, <1>8, <1>9 DEF r

\* What two entries of links set at once leave.
LEMMA TwoUpdates ==
  ASSUME NEW S, NEW T, NEW h \in [S -> T \cup {garbage}],
         NEW a \in S, NEW x \in T, NEW b \in S, NEW y \in T, a # b,
         NEW g, g = [h EXCEPT ![a] = x, ![b] = y]
  PROVE  /\ g \in [S -> T \cup {garbage}]
         /\ g[a] = x /\ g[b] = y
         /\ \A q \in S : q # a /\ q # b => g[q] = h[q]
OBVIOUS

\* An element that is inserted at the front is the first of the line.
LEMMA LinkedInsertFirstIsPut ==
  ASSUME LD!ListOK, NEW e \in Values, LD!InsertFirst(e)
  PROVE  LD!ListOK' /\ LD!L!PutFirst
<1> DEFINE s == LD!Walk(self.next, self)
           t == LD!Walk(self.prev, self)
           u == LD!GenArray(self)
           p == LD!Malloc(self)
           f == self.next[NULL]
           next == [self.next EXCEPT ![p] = self.next[NULL], ![NULL] = p]
           prev == [self.prev EXCEPT ![p] = NULL, ![self.next[NULL]] = p]
           element == [self.element EXCEPT ![p] = e]
           heap == self.heap \cup {p}
           r == self'
           a == <<p>> \o s
           b == Append(t, p)
<1>1. LD!Holds(self)
  BY DEF LD!ListOK
<1>2. CASE UNCHANGED self /\ ret' = <<"putFirst", FALSE>>
  <2>1. LD!GenArray(self)' = LD!GenArray(self)
    BY <1>2
  <2> QED
    BY <1>1, <1>2, <2>1 DEF LD!ListOK, LD!L!PutFirst, LD!L!Put
<1>3. CASE /\ self.heap # Nodes
           /\ self' = LD!Inserted(NULL, self.next[NULL], e)
           /\ ret' = <<"putFirst", TRUE>>
  <2>1. /\ self = [size |-> self.size, heap |-> self.heap, next |-> self.next,
                   prev |-> self.prev, element |-> self.element]
        /\ Doubly(s, t, self.next, self.prev, self.heap, NULL)
        /\ self.size = Len(s)
        /\ self.heap \subseteq Nodes
        /\ self.next \in [Links -> Links \cup {garbage}]
        /\ self.prev \in [Links -> Links \cup {garbage}]
        /\ self.element \in [Nodes -> Cells]
        /\ \A q \in self.heap : self.element[q] \in Values
        /\ \A q \in Nodes \ self.heap : self.next[q] = garbage
        /\ u = Along(s, self.element)
        /\ Along(s, self.element) \in Seq(Values)
    BY <1>1, NodesOfDeque
  <2>2. p \in Nodes /\ p \notin self.heap /\ p # NULL /\ NULL \notin Nodes
    <3>1. \E q \in Nodes : q \notin self.heap
      BY <1>3, <2>1
    <3>2. NULL \notin Nodes
      BY LinesAssumption DEF LQ!NodesAssumption
    <3> QED
      BY <3>1, <3>2 DEF LD!Malloc
  <2>3. r = [self EXCEPT !.heap = heap, !.element = element,
               !.next = next, !.prev = prev, !.size = self.size + 1]
    <3> DEFINE l == LD!Link(self, NULL, p, self.next[NULL])
    <3>1. l = [self EXCEPT !.next = next, !.prev = prev]
      BY DEF LD!Link
    <3>2. r = [l EXCEPT !.heap = @ \cup {p}, !.element[p] = e, !.size = @ + 1]
      BY <1>3 DEF LD!Inserted
    <3> HIDE DEF l, next, prev, p, r
    <3> QED
      BY <2>1, <3>1, <3>2
  <2> HIDE DEF p, s, t, u, next, prev, element, heap, r, f, a, b
  <2>4. /\ r = [size |-> r.size, heap |-> r.heap, next |-> r.next,
                prev |-> r.prev, element |-> r.element]
        /\ r.size = self.size + 1 /\ r.heap = heap /\ r.next = next
        /\ r.prev = prev /\ r.element = element
    BY <2>1, <2>3
  <2>5. Doubly(s, t, self.next, self.prev, self.heap, NULL)
    BY <2>1
  <2>6. f \in Links /\ f # p /\ NULL \in Links /\ p \in Links
        /\ (f \in self.heap \/ f = NULL) /\ self.heap \subseteq Links
    <3>1. self.next[NULL] \in self.heap \cup {NULL}
      BY <2>5, DoublyHead
    <3> QED
      BY <2>1, <2>2, <3>1 DEF Links, f
  <2>61. /\ self.next \in [Links -> Links \cup {garbage}]
         /\ self.prev \in [Links -> Links \cup {garbage}]
         /\ p \in Links /\ f \in Links /\ NULL \in Links /\ p # NULL /\ p # f
    BY <2>1, <2>2, <2>6
  <2>7. /\ next \in [Links -> Links \cup {garbage}]
        /\ next[p] = f /\ next[NULL] = p
        /\ \A q \in Links : q # p /\ q # NULL => next[q] = self.next[q]
    <3>1. next = [self.next EXCEPT ![p] = f, ![NULL] = p]
      BY DEF next, f
    <3> QED
      BY <2>61, <3>1, TwoUpdates
  <2>8. /\ prev \in [Links -> Links \cup {garbage}]
        /\ prev[p] = NULL /\ prev[f] = p
        /\ \A q \in Links : q # p /\ q # f => prev[q] = self.prev[q]
    <3>1. prev = [self.prev EXCEPT ![p] = NULL, ![f] = p]
      BY DEF prev, f
    <3> QED
      BY <2>61, <3>1, TwoUpdates
  <2>9. Doubly(<<p>> \o s, Append(t, p), next, prev, heap, NULL)
    <3> DEFINE fore == self.next
               back == self.prev
               nodes == self.heap
    <3>1. /\ Doubly(s, t, fore, back, nodes, NULL)
          /\ p \notin nodes /\ p # NULL
          /\ next[p] = fore[NULL] /\ next[NULL] = p
          /\ prev[p] = NULL /\ prev[fore[NULL]] = p
      BY <2>2, <2>5, <2>7, <2>8 DEF f
    <3>2. ASSUME NEW q \in nodes PROVE next[q] = fore[q]
      BY <2>1, <2>2, <2>6, <2>7
    <3>3. ASSUME NEW q \in nodes \cup {NULL}, q # fore[NULL] PROVE prev[q] = back[q]
      BY <2>1, <2>2, <2>6, <2>8, <3>3 DEF f
    <3> HIDE DEF fore, back, nodes
    <3>4. Doubly(<<p>> \o s, Append(t, p), next, prev, nodes \cup {p}, NULL)
      BY <3>1, <3>2, <3>3, DoublyPut
    <3> QED
      BY <3>4 DEF heap, nodes
  <2>10. Doubly(a, b, next, prev, heap, NULL)
    BY <2>9 DEF a, b
  <2>11. /\ s \in Seq(self.heap) /\ Len(s) \in Nat
         /\ \A i \in 1 .. Len(s) : s[i] \in self.heap
    <3>1. IsChain(s, self.next[NULL], self.next, self.heap, NULL)
      BY <2>1 DEF Doubly
    <3> QED
      BY <3>1, ChainElems
  <2>12. element \in [Nodes -> Cells] /\ element[p] = e
         /\ \A q \in Nodes : q # p => element[q] = self.element[q]
    BY <2>1, <2>2 DEF element, Cells
  <2>13. Along(a, element) = <<e>> \o u
    <3> DEFINE old == self.element
    <3>1. \A i \in 1 .. Len(s) : element[s[i]] = old[s[i]]
      BY <2>1, <2>2, <2>11, <2>12
    <3>2. /\ s \in Seq(self.heap) /\ Along(s, old) \in Seq(Values)
          /\ element[p] \in Values
      BY <2>1, <2>11, <2>12
    <3> HIDE DEF old
    <3>3. Along(<<p>> \o s, element) = <<element[p]>> \o Along(s, old)
      BY <3>1, <3>2, AlongCons
    <3> QED
      BY <2>1, <2>12, <3>3 DEF a, old
  <2>14. Len(a) = Len(s) + 1
    <3>1. s \in Seq(heap) /\ p \in heap
      BY <2>11 DEF heap
    <3>2. <<p>> \in Seq(heap) /\ Len(<<p>>) = 1
      BY <3>1, SingleElem
    <3>3. Len(a) = Len(<<p>>) + Len(s)
      BY <3>1, <3>2, ConcatElems DEF a
    <3> QED
      BY <2>11, <3>2, <3>3
  <2>15. ASSUME NEW q \in r.heap PROVE r.element[q] \in Values
    BY <2>1, <2>2, <2>4, <2>12 DEF heap
  <2>16. ASSUME NEW q \in Nodes \ r.heap PROVE r.next[q] = garbage
    <3>1. q # p /\ q # NULL /\ q # f /\ q \in Links /\ q \notin self.heap
      BY <2>2, <2>4, <2>6 DEF heap, Links
    <3> QED
      BY <2>1, <2>4, <2>7, <2>8, <3>1
  <2>17. LD!Holds(r) /\ LD!Walk(r.next, r) = a
    <3>1. r.size = Len(a) /\ r.heap \subseteq Nodes
      BY <2>1, <2>2, <2>4, <2>14 DEF heap
    <3>2. Doubly(a, b, r.next, r.prev, r.heap, NULL)
      BY <2>4, <2>10
    <3>3. /\ r.next \in [Links -> Links \cup {garbage}]
          /\ r.prev \in [Links -> Links \cup {garbage}]
          /\ r.element \in [Nodes -> Cells]
      BY <2>4, <2>7, <2>8, <2>12
    <3> QED
      BY <2>4, <2>15, <2>16, <3>1, <3>2, <3>3, DequeOfNodes
  <2>18. LD!GenArray(r) = <<e>> \o u
    <3>1. LD!GenArray(r) = Along(a, r.element)
      BY <2>17, NodesOfDeque
    <3> QED
      BY <2>4, <2>13, <3>1
  <2> QED
    BY <1>3, <2>17, <2>18 DEF LD!ListOK, LD!L!PutFirst, LD!L!Put, r, u
<1> QED
  BY <1>2, <1>3 DEF LD!InsertFirst

\* An element that is inserted at the end is the last of the line.
LEMMA LinkedInsertLastIsPut ==
  ASSUME LD!ListOK, NEW e \in Values, LD!InsertLast(e)
  PROVE  LD!ListOK' /\ LD!L!PutLast
<1> DEFINE s == LD!Walk(self.next, self)
           t == LD!Walk(self.prev, self)
           u == LD!GenArray(self)
           p == LD!Malloc(self)
           f == self.prev[NULL]
           next == [self.next EXCEPT ![p] = NULL, ![self.prev[NULL]] = p]
           prev == [self.prev EXCEPT ![p] = self.prev[NULL], ![NULL] = p]
           element == [self.element EXCEPT ![p] = e]
           heap == self.heap \cup {p}
           r == self'
           a == Append(s, p)
           b == <<p>> \o t
<1>1. LD!Holds(self)
  BY DEF LD!ListOK
<1>2. CASE UNCHANGED self /\ ret' = <<"putLast", FALSE>>
  <2>1. LD!GenArray(self)' = LD!GenArray(self)
    BY <1>2
  <2> QED
    BY <1>1, <1>2, <2>1 DEF LD!ListOK, LD!L!PutLast, LD!L!Put
<1>3. CASE /\ self.heap # Nodes
           /\ self' = LD!Inserted(self.prev[NULL], NULL, e)
           /\ ret' = <<"putLast", TRUE>>
  <2>1. /\ self = [size |-> self.size, heap |-> self.heap, next |-> self.next,
                   prev |-> self.prev, element |-> self.element]
        /\ Doubly(s, t, self.next, self.prev, self.heap, NULL)
        /\ self.size = Len(s)
        /\ self.heap \subseteq Nodes
        /\ self.next \in [Links -> Links \cup {garbage}]
        /\ self.prev \in [Links -> Links \cup {garbage}]
        /\ self.element \in [Nodes -> Cells]
        /\ \A q \in self.heap : self.element[q] \in Values
        /\ \A q \in Nodes \ self.heap : self.next[q] = garbage
        /\ u = Along(s, self.element)
        /\ Along(s, self.element) \in Seq(Values)
    BY <1>1, NodesOfDeque
  <2>2. p \in Nodes /\ p \notin self.heap /\ p # NULL /\ NULL \notin Nodes
    <3>1. \E q \in Nodes : q \notin self.heap
      BY <1>3, <2>1
    <3>2. NULL \notin Nodes
      BY LinesAssumption DEF LQ!NodesAssumption
    <3> QED
      BY <3>1, <3>2 DEF LD!Malloc
  <2>3. r = [self EXCEPT !.heap = heap, !.element = element,
               !.next = next, !.prev = prev, !.size = self.size + 1]
    <3> DEFINE l == LD!Link(self, self.prev[NULL], p, NULL)
    <3>1. l = [self EXCEPT !.next = next, !.prev = prev]
      BY DEF LD!Link
    <3>2. r = [l EXCEPT !.heap = @ \cup {p}, !.element[p] = e, !.size = @ + 1]
      BY <1>3 DEF LD!Inserted
    <3> HIDE DEF l, next, prev, p, r
    <3> QED
      BY <2>1, <3>1, <3>2
  <2> HIDE DEF p, s, t, u, next, prev, element, heap, r, f, a, b
  <2>4. /\ r = [size |-> r.size, heap |-> r.heap, next |-> r.next,
                prev |-> r.prev, element |-> r.element]
        /\ r.size = self.size + 1 /\ r.heap = heap /\ r.next = next
        /\ r.prev = prev /\ r.element = element
    BY <2>1, <2>3
  <2>5. Doubly(t, s, self.prev, self.next, self.heap, NULL)
    BY <2>1, DoublySame
  <2>6. f \in Links /\ f # p /\ NULL \in Links /\ p \in Links
        /\ (f \in self.heap \/ f = NULL) /\ self.heap \subseteq Links
    <3>1. self.prev[NULL] \in self.heap \cup {NULL}
      BY <2>5, DoublyHead
    <3> QED
      BY <2>1, <2>2, <3>1 DEF Links, f
  <2>61. /\ self.next \in [Links -> Links \cup {garbage}]
         /\ self.prev \in [Links -> Links \cup {garbage}]
         /\ p \in Links /\ f \in Links /\ NULL \in Links /\ p # NULL /\ p # f
    BY <2>1, <2>2, <2>6
  <2>7. /\ prev \in [Links -> Links \cup {garbage}]
        /\ prev[p] = f /\ prev[NULL] = p
        /\ \A q \in Links : q # p /\ q # NULL => prev[q] = self.prev[q]
    <3>1. prev = [self.prev EXCEPT ![p] = f, ![NULL] = p]
      BY DEF prev, f
    <3> QED
      BY <2>61, <3>1, TwoUpdates
  <2>8. /\ next \in [Links -> Links \cup {garbage}]
        /\ next[p] = NULL /\ next[f] = p
        /\ \A q \in Links : q # p /\ q # f => next[q] = self.next[q]
    <3>1. next = [self.next EXCEPT ![p] = NULL, ![f] = p]
      BY DEF next, f
    <3> QED
      BY <2>61, <3>1, TwoUpdates
  <2>9. Doubly(<<p>> \o t, Append(s, p), prev, next, heap, NULL)
    <3> DEFINE fore == self.prev
               back == self.next
               nodes == self.heap
    <3>1. /\ Doubly(t, s, fore, back, nodes, NULL)
          /\ p \notin nodes /\ p # NULL
          /\ prev[p] = fore[NULL] /\ prev[NULL] = p
          /\ next[p] = NULL /\ next[fore[NULL]] = p
      BY <2>2, <2>5, <2>7, <2>8 DEF f
    <3>2. ASSUME NEW q \in nodes PROVE prev[q] = fore[q]
      BY <2>1, <2>2, <2>6, <2>7
    <3>3. ASSUME NEW q \in nodes \cup {NULL}, q # fore[NULL] PROVE next[q] = back[q]
      BY <2>1, <2>2, <2>6, <2>8, <3>3 DEF f
    <3> HIDE DEF fore, back, nodes
    <3>4. Doubly(<<p>> \o t, Append(s, p), prev, next, nodes \cup {p}, NULL)
      BY <3>1, <3>2, <3>3, DoublyPut
    <3> QED
      BY <3>4 DEF heap, nodes
  <2>10. Doubly(a, b, next, prev, heap, NULL)
    BY <2>9, DoublySame DEF a, b
  <2>11. /\ s \in Seq(self.heap) /\ Len(s) \in Nat
         /\ \A i \in 1 .. Len(s) : s[i] \in self.heap
    <3>1. IsChain(s, self.next[NULL], self.next, self.heap, NULL)
      BY <2>1 DEF Doubly
    <3> QED
      BY <3>1, ChainElems
  <2>12. element \in [Nodes -> Cells] /\ element[p] = e
         /\ \A q \in Nodes : q # p => element[q] = self.element[q]
    BY <2>1, <2>2 DEF element, Cells
  <2>13. Along(a, element) = Append(u, e)
    <3>1. ASSUME NEW i \in 1 .. Len(s) PROVE element[s[i]] = self.element[s[i]]
      BY <2>1, <2>2, <2>11, <2>12
    <3>2. /\ s \in Seq(self.heap) /\ Along(s, self.element) \in Seq(Values)
          /\ element[p] \in Values
          /\ \A i \in 1 .. Len(s) : element[s[i]] = self.element[s[i]]
      BY <2>1, <2>11, <2>12, <3>1
    <3>3. Along(Append(s, p), element) = Append(Along(s, self.element), element[p])
      BY <3>2, AlongAppend
    <3> QED
      BY <2>1, <2>12, <3>3 DEF a
  <2>14. Len(a) = Len(s) + 1
    <3>1. s \in Seq(heap) /\ p \in heap
      BY <2>11 DEF heap
    <3> QED
      BY <2>11, <3>1 DEF a
  <2>15. ASSUME NEW q \in r.heap PROVE r.element[q] \in Values
    BY <2>1, <2>2, <2>4, <2>12 DEF heap
  <2>16. ASSUME NEW q \in Nodes \ r.heap PROVE r.next[q] = garbage
    <3>1. q # p /\ q # NULL /\ q # f /\ q \in Links /\ q \notin self.heap
      BY <2>2, <2>4, <2>6 DEF heap, Links
    <3> QED
      BY <2>1, <2>4, <2>7, <2>8, <3>1
  <2>17. LD!Holds(r) /\ LD!Walk(r.next, r) = a
    <3>1. r.size = Len(a) /\ r.heap \subseteq Nodes
      BY <2>1, <2>2, <2>4, <2>14 DEF heap
    <3>2. Doubly(a, b, r.next, r.prev, r.heap, NULL)
      BY <2>4, <2>10
    <3>3. /\ r.next \in [Links -> Links \cup {garbage}]
          /\ r.prev \in [Links -> Links \cup {garbage}]
          /\ r.element \in [Nodes -> Cells]
      BY <2>4, <2>7, <2>8, <2>12
    <3> QED
      BY <2>4, <2>15, <2>16, <3>1, <3>2, <3>3, DequeOfNodes
  <2>18. LD!GenArray(r) = Append(u, e)
    <3>1. LD!GenArray(r) = Along(a, r.element)
      BY <2>17, NodesOfDeque
    <3> QED
      BY <2>4, <2>13, <3>1
  <2> QED
    BY <1>3, <2>17, <2>18 DEF LD!ListOK, LD!L!PutLast, LD!L!Put, r, u
<1> QED
  BY <1>2, <1>3 DEF LD!InsertLast

\* What an entry of links leaves that is set, and one that is freed.
LEMMA UpdatedAndFreed ==
  ASSUME NEW S, NEW T, NEW h \in [S -> T \cup {garbage}],
         NEW a \in S, NEW x \in T, NEW b \in S, a # b,
         NEW g, g = [[h EXCEPT ![a] = x] EXCEPT ![b] = garbage]
  PROVE  /\ g \in [S -> T \cup {garbage}]
         /\ g[b] = garbage /\ g[a] = x
         /\ \A q \in S : q # b /\ q # a => g[q] = h[q]
OBVIOUS

\* The first element is taken, and its node freed.
LEMMA LinkedRemoveFirstIsTake ==
  ASSUME LD!ListOK, LD!RemoveFirst
  PROVE  LD!ListOK' /\ LD!L!RemoveFirst
<1> DEFINE s == LD!Walk(self.next, self)
           t == LD!Walk(self.prev, self)
           u == LD!GenArray(self)
           p == self.next[NULL]
           f == self.next[p]
           next == [[self.next EXCEPT ![NULL] = f] EXCEPT ![p] = garbage]
           prev == [[self.prev EXCEPT ![f] = NULL] EXCEPT ![p] = garbage]
           element == [self.element EXCEPT ![p] = garbage]
           heap == self.heap \ {p}
           r == self'
           a == Tail(s)
           b == SubSeq(t, 1, Len(t) - 1)
<1>1. LD!Holds(self)
  BY DEF LD!ListOK
<1>2. /\ self = [size |-> self.size, heap |-> self.heap, next |-> self.next,
                 prev |-> self.prev, element |-> self.element]
      /\ Doubly(s, t, self.next, self.prev, self.heap, NULL)
      /\ self.size = Len(s)
      /\ self.heap \subseteq Nodes
      /\ self.next \in [Links -> Links \cup {garbage}]
      /\ self.prev \in [Links -> Links \cup {garbage}]
      /\ self.element \in [Nodes -> Cells]
      /\ \A q \in self.heap : self.element[q] \in Values
      /\ \A q \in Nodes \ self.heap : self.next[q] = garbage
      /\ u = Along(s, self.element)
      /\ Along(s, self.element) \in Seq(Values)
  BY <1>1, NodesOfDeque
<1>3. Doubly(s, t, self.next, self.prev, self.heap, NULL)
  BY <1>2
<1> HIDE DEF s, t, u, next, prev, element, heap, a, b
<1>4. /\ s \in Seq(self.heap) /\ Len(s) \in Nat /\ (s = <<>> <=> Len(s) = 0)
      /\ \A i \in 1 .. Len(s) : s[i] \in self.heap
      /\ \A i, j \in 1 .. Len(s) : s[i] = s[j] => i = j
  <2>1. IsChain(s, self.next[NULL], self.next, self.heap, NULL)
    BY <1>2 DEF Doubly
  <2> QED
    BY <2>1, ChainElems
<1>5. u = <<>> <=> s = <<>>
  BY <1>2, <1>4, AlongElems
<1>6. p = NULL <=> s = <<>>
  BY <1>3, DoublyHead
<1>7. CASE p = NULL /\ UNCHANGED self /\ ret' = <<"removeFirst", FALSE>>
  <2>1. LD!GenArray(self)' = LD!GenArray(self)
    BY <1>7
  <2>2. ret'[1] = "removeFirst"
    BY <1>7
  <2>3. LD!GenArray(self) = <<>>
    BY <1>5, <1>6, <1>7 DEF u
  <2> QED
    BY <1>1, <1>7, <2>1, <2>2, <2>3 DEF LD!ListOK, LD!L!RemoveFirst
<1>8. CASE /\ p # NULL
           /\ self' = LD!Removed(p)
           /\ ret' = <<"removeFirst", TRUE, self.element[p]>>
  <2>1. /\ s # <<>> /\ NULL \notin Nodes /\ p \in self.heap
        /\ f \in self.heap \cup {NULL} /\ self.prev[p] = NULL
    <3>1. NULL \notin Nodes
      BY LinesAssumption DEF LQ!NodesAssumption
    <3>2. s # <<>>
      BY <1>6, <1>8
    <3> QED
      BY <1>3, <3>1, <3>2, DoublyHead
  <2>2. p = s[1] /\ p # f
    <3>1. p = s[1]
      BY <1>3, <2>1, DoublyHead
    <3>2. Len(s) = 1 => f = NULL
      BY <1>3, <1>4, <2>1, DoublyHead
    <3>3. Len(s) # 1 => f = s[2]
      BY <1>3, <1>4, <2>1, DoublyHead
    <3>4. CASE Len(s) = 1
      BY <1>8, <3>1, <3>2, <3>4
    <3>5. CASE Len(s) # 1
      <4>1. 1 \in 1 .. Len(s) /\ 2 \in 1 .. Len(s) /\ Len(s) \in 1 .. Len(s)
            /\ Len(s) - 1 \in 1 .. Len(s) /\ Len(s) # Len(s) - 1
        <5>1. Len(s) \in Nat /\ Len(s) # 0 /\ Len(s) # 1
          BY <1>4, <2>1, <3>5
        <5> QED
          BY SMTT(30), <5>1
      <4> QED
        BY <1>4, <3>1, <3>3, <3>5, <4>1
    <3> QED
      BY <3>1, <3>4, <3>5
  <2>3. r = [self EXCEPT !.heap = heap, !.element = element,
               !.next = next, !.prev = prev, !.size = self.size - 1]
    <3> DEFINE l == LD!Unlink(self, p)
               m == LD!Free(l, p)
    <3>1. l = [self EXCEPT !.next = [self.next EXCEPT ![NULL] = f],
                           !.prev = [self.prev EXCEPT ![f] = NULL]]
      BY <1>2, <2>1 DEF LD!Unlink
    <3>2. m = [l EXCEPT !.heap = @ \ {p}, !.element[p] = garbage,
                        !.next[p] = garbage, !.prev[p] = garbage]
      BY DEF LD!Free
    <3>3. r = [m EXCEPT !.size = @ - 1]
      BY <1>8 DEF LD!Removed
    <3> HIDE DEF l, m, p, r, f
    <3>4. /\ l.next = [self.next EXCEPT ![NULL] = f]
          /\ l.prev = [self.prev EXCEPT ![f] = NULL]
          /\ l.heap = self.heap /\ l.element = self.element /\ l.size = self.size
          /\ l = [size |-> l.size, heap |-> l.heap, next |-> l.next,
                  prev |-> l.prev, element |-> l.element]
      BY <1>2, <3>1
    <3>5. /\ m.next = next /\ m.prev = prev
          /\ m.heap = heap /\ m.element = element /\ m.size = self.size
          /\ m = [size |-> m.size, heap |-> m.heap, next |-> m.next,
                  prev |-> m.prev, element |-> m.element]
      BY <3>2, <3>4 DEF heap, element, next, prev
    <3> QED
      BY <1>2, <3>3, <3>5
  <2> HIDE DEF p, f, r
  <2>4. /\ r = [size |-> r.size, heap |-> r.heap, next |-> r.next,
                prev |-> r.prev, element |-> r.element]
        /\ r.size = self.size - 1 /\ r.heap = heap /\ r.next = next
        /\ r.prev = prev /\ r.element = element
    BY <1>2, <2>3
  <2>5. /\ self.next \in [Links -> Links \cup {garbage}]
        /\ self.prev \in [Links -> Links \cup {garbage}]
        /\ p \in Links /\ f \in Links /\ NULL \in Links /\ p # NULL /\ p # f
    BY <1>2, <1>8, <2>1, <2>2 DEF Links
  <2>6. /\ next \in [Links -> Links \cup {garbage}]
        /\ next[p] = garbage /\ next[NULL] = f
        /\ \A q \in Links : q # p /\ q # NULL => next[q] = self.next[q]
    <3>1. next = [[self.next EXCEPT ![NULL] = f] EXCEPT ![p] = garbage]
      BY DEF next
    <3> QED
      BY <2>5, <3>1, UpdatedAndFreed
  <2>7. /\ prev \in [Links -> Links \cup {garbage}]
        /\ prev[p] = garbage /\ prev[f] = NULL
        /\ \A q \in Links : q # p /\ q # f => prev[q] = self.prev[q]
    <3>1. prev = [[self.prev EXCEPT ![f] = NULL] EXCEPT ![p] = garbage]
      BY DEF prev
    <3> QED
      BY <2>5, <3>1, UpdatedAndFreed
  <2>8. s # <<>>
    BY <1>3, <2>1, DoublyHead
  <2>9. Doubly(Tail(s), SubSeq(t, 1, Len(t) - 1), next, prev, heap, NULL)
    <3> DEFINE fore == self.next
               back == self.prev
               nodes == self.heap
    <3>1. /\ Doubly(s, t, fore, back, nodes, NULL) /\ s # <<>>
          /\ p = fore[NULL]
          /\ next[NULL] = fore[p] /\ prev[fore[p]] = NULL
      BY <1>3, <2>6, <2>7, <2>8 DEF f, p
    <3>2. ASSUME NEW q \in nodes, q # p PROVE next[q] = fore[q]
      BY <1>2, <2>1, <2>6, <3>2 DEF Links
    <3>3. ASSUME NEW q \in nodes \cup {NULL}, q # p, q # fore[p] PROVE prev[q] = back[q]
      <4>1. q \in Links /\ q # f
        BY <1>2, <3>3 DEF Links, f
      <4> QED
        BY <2>7, <3>3, <4>1
    <3> HIDE DEF fore, back, nodes
    <3>4. Doubly(Tail(s), SubSeq(t, 1, Len(t) - 1), next, prev, nodes \ {p}, NULL)
      BY <3>1, <3>2, <3>3, DoublyTake
    <3> QED
      BY <3>4 DEF heap, nodes
  <2>10. Doubly(a, b, next, prev, heap, NULL)
    BY <2>9 DEF a, b
  <2>11. /\ element \in [Nodes -> Cells]
         /\ \A q \in Nodes : q # p => element[q] = self.element[q]
    BY <1>2, <2>1 DEF element, Cells
  <2>12. Along(a, element) = Tail(u)
    <3>1. ASSUME NEW i \in 2 .. Len(s) PROVE element[s[i]] = self.element[s[i]]
      <4>1. i \in 1 .. Len(s) /\ 1 \in 1 .. Len(s) /\ i # 1
        BY <1>4
      <4> QED
        BY <1>2, <1>4, <2>2, <2>11, <4>1
    <3>2. /\ s \in Seq(self.heap) /\ s # <<>> /\ Along(s, self.element) \in Seq(Values)
          /\ \A i \in 2 .. Len(s) : element[s[i]] = self.element[s[i]]
      BY <1>2, <1>4, <2>1, <3>1
    <3>3. Along(Tail(s), element) = Tail(Along(s, self.element))
      BY <3>2, AlongTail
    <3> QED
      BY <1>2, <1>4, <3>3, AlongElems DEF a
  <2>13. Len(a) = Len(s) - 1
    BY <1>4, <2>1 DEF a
  <2>14. ASSUME NEW q \in r.heap PROVE r.element[q] \in Values
    BY <1>2, <2>4, <2>11 DEF heap
  <2>15. ASSUME NEW q \in Nodes \ r.heap PROVE r.next[q] = garbage
    <3>1. CASE q = p
      BY <2>4, <2>6, <2>7, <3>1
    <3>2. CASE q # p
      <4>1. q \notin self.heap /\ q # NULL /\ q # f /\ q \in Links
        BY <2>1, <2>4, <3>2 DEF heap, Links
      <4> QED
        BY <1>2, <2>4, <2>6, <2>7, <3>2, <4>1
    <3> QED
      BY <3>1, <3>2
  <2>16. LD!Holds(r) /\ LD!Walk(r.next, r) = a
    <3>1. r.size = Len(a) /\ r.heap \subseteq Nodes
      BY <1>2, <2>4, <2>13 DEF heap
    <3>2. Doubly(a, b, r.next, r.prev, r.heap, NULL)
      BY <2>4, <2>10
    <3>3. /\ r.next \in [Links -> Links \cup {garbage}]
          /\ r.prev \in [Links -> Links \cup {garbage}]
          /\ r.element \in [Nodes -> Cells]
      BY <2>4, <2>6, <2>7, <2>11
    <3> QED
      BY <2>4, <2>14, <2>15, <3>1, <3>2, <3>3, DequeOfNodes
  <2>17. LD!GenArray(r) = Tail(u)
    <3>1. LD!GenArray(r) = Along(a, r.element)
      BY <2>16, NodesOfDeque
    <3> QED
      BY <2>4, <2>12, <3>1
  <2>18. u # <<>> /\ u[1] = self.element[p]
    <3>1. /\ 1 \in 1 .. Len(s) /\ Len(s) \in 1 .. Len(s)
      BY <1>4, <2>1
    <3>2. Len(u) = Len(s) /\ \A i \in 1 .. Len(s) : u[i] = self.element[s[i]]
      BY <1>2, <1>4, AlongElems
    <3> QED
      BY <1>5, <2>1, <2>2, <3>1, <3>2
  <2>19. ret' = <<"removeFirst", TRUE, u[1]>>
    BY <1>8, <2>18 DEF p
  <2>20. ret'[1] = "removeFirst"
    BY <2>19
  <2> QED
    BY <2>16, <2>17, <2>18, <2>19, <2>20 DEF LD!ListOK, LD!L!RemoveFirst, r, u
<1> QED
  BY <1>7, <1>8 DEF LD!RemoveFirst

\* The last element is taken, and its node freed.
LEMMA LinkedRemoveLastIsTake ==
  ASSUME LD!ListOK, LD!RemoveLast
  PROVE  LD!ListOK' /\ LD!L!TakeLast
<1> DEFINE s == LD!Walk(self.next, self)
           t == LD!Walk(self.prev, self)
           u == LD!GenArray(self)
           p == self.prev[NULL]
           f == self.prev[p]
           prev == [[self.prev EXCEPT ![NULL] = f] EXCEPT ![p] = garbage]
           next == [[self.next EXCEPT ![f] = NULL] EXCEPT ![p] = garbage]
           element == [self.element EXCEPT ![p] = garbage]
           heap == self.heap \ {p}
           r == self'
           a == SubSeq(s, 1, Len(s) - 1)
           b == Tail(t)
<1>1. LD!Holds(self)
  BY DEF LD!ListOK
<1>2. /\ self = [size |-> self.size, heap |-> self.heap, next |-> self.next,
                 prev |-> self.prev, element |-> self.element]
      /\ Doubly(s, t, self.next, self.prev, self.heap, NULL)
      /\ self.size = Len(s)
      /\ self.heap \subseteq Nodes
      /\ self.next \in [Links -> Links \cup {garbage}]
      /\ self.prev \in [Links -> Links \cup {garbage}]
      /\ self.element \in [Nodes -> Cells]
      /\ \A q \in self.heap : self.element[q] \in Values
      /\ \A q \in Nodes \ self.heap : self.next[q] = garbage
      /\ u = Along(s, self.element)
      /\ Along(s, self.element) \in Seq(Values)
  BY <1>1, NodesOfDeque
<1>3. Doubly(t, s, self.prev, self.next, self.heap, NULL)
  BY <1>2, DoublySame
<1> HIDE DEF s, t, u, prev, next, element, heap, a, b
<1>4. /\ s \in Seq(self.heap) /\ Len(s) \in Nat /\ (s = <<>> <=> Len(s) = 0)
      /\ \A i \in 1 .. Len(s) : s[i] \in self.heap
      /\ \A i, j \in 1 .. Len(s) : s[i] = s[j] => i = j
  <2>1. IsChain(s, self.next[NULL], self.next, self.heap, NULL)
    BY <1>2 DEF Doubly
  <2> QED
    BY <2>1, ChainElems
<1>5. u = <<>> <=> s = <<>>
  BY <1>2, <1>4, AlongElems
<1>6. p = NULL <=> s = <<>>
  BY <1>3, DoublyHead
<1>7. CASE p = NULL /\ UNCHANGED self /\ ret' = <<"takeLast", FALSE>>
  <2>1. LD!GenArray(self)' = LD!GenArray(self)
    BY <1>7
  <2>2. ret'[1] = "takeLast"
    BY <1>7
  <2>3. LD!GenArray(self) = <<>>
    BY <1>5, <1>6, <1>7 DEF u
  <2> QED
    BY <1>1, <1>7, <2>1, <2>2, <2>3 DEF LD!ListOK, LD!L!TakeLast
<1>8. CASE /\ p # NULL
           /\ self' = LD!Removed(p)
           /\ ret' = <<"takeLast", TRUE, self.element[p]>>
  <2>1. /\ s # <<>> /\ NULL \notin Nodes /\ p \in self.heap
        /\ f \in self.heap \cup {NULL} /\ self.next[p] = NULL
    <3>1. NULL \notin Nodes
      BY LinesAssumption DEF LQ!NodesAssumption
    <3>2. s # <<>>
      BY <1>6, <1>8
    <3> QED
      BY <1>3, <3>1, <3>2, DoublyHead
  <2>2. p = s[Len(s)] /\ p # f
    <3>1. /\ Len(t) = Len(s) /\ t # <<>> /\ p = t[1]
          /\ Len(s) = 1 => f = NULL
          /\ Len(s) # 1 => f = t[2]
          /\ \A i \in 1 .. Len(s) : t[i] = s[Len(s) + 1 - i]
      <4>1. Len(t) = Len(s) /\ \A i \in 1 .. Len(s) : t[i] = s[Len(s) + 1 - i]
        BY <1>2 DEF Doubly
      <4>2. /\ t # <<>> /\ p = t[1]
            /\ Len(t) = 1 => f = NULL
            /\ Len(t) # 1 => f = t[2]
        BY <1>3, <1>8, DoublyHead
      <4> QED
        BY <4>1, <4>2
    <3>2. 1 \in 1 .. Len(s) /\ Len(s) \in 1 .. Len(s) /\ Len(s) + 1 - 1 = Len(s)
      BY <1>4, <2>1
    <3>3. CASE Len(s) = 1
      BY <1>8, <3>1, <3>2, <3>3
    <3>4. CASE Len(s) # 1
      <4>1. 2 \in 1 .. Len(s) /\ Len(s) - 1 \in 1 .. Len(s) /\ Len(s) # Len(s) - 1
            /\ Len(s) + 1 - 2 = Len(s) - 1
        <5>1. Len(s) \in Nat /\ Len(s) # 0 /\ Len(s) # 1
          BY <1>4, <2>1, <3>4
        <5> DEFINE n == Len(s)
        <5>2. n \in Nat /\ n # 0 /\ n # 1
          BY <5>1
        <5> HIDE DEF n
        <5>3. 2 \in 1 .. n /\ n - 1 \in 1 .. n /\ n # n - 1 /\ n + 1 - 2 = n - 1
          BY <5>2
        <5> QED
          BY <5>3 DEF n
      <4> QED
        BY SMTT(30), <1>4, <3>1, <3>2, <3>4, <4>1
    <3> QED
      BY <3>3, <3>4
  <2>3. r = [self EXCEPT !.heap = heap, !.element = element,
               !.next = next, !.prev = prev, !.size = self.size - 1]
    <3> DEFINE l == LD!Unlink(self, p)
               m == LD!Free(l, p)
    <3>1. l = [self EXCEPT !.prev = [self.prev EXCEPT ![NULL] = f],
                           !.next = [self.next EXCEPT ![f] = NULL]]
      BY <1>2, <2>1 DEF LD!Unlink
    <3>2. m = [l EXCEPT !.heap = @ \ {p}, !.element[p] = garbage,
                        !.next[p] = garbage, !.prev[p] = garbage]
      BY DEF LD!Free
    <3>3. r = [m EXCEPT !.size = @ - 1]
      BY <1>8 DEF LD!Removed
    <3> HIDE DEF l, m, p, r, f
    <3>4. /\ l.prev = [self.prev EXCEPT ![NULL] = f]
          /\ l.next = [self.next EXCEPT ![f] = NULL]
          /\ l.heap = self.heap /\ l.element = self.element /\ l.size = self.size
          /\ l = [size |-> l.size, heap |-> l.heap, next |-> l.next,
                  prev |-> l.prev, element |-> l.element]
      BY <1>2, <3>1
    <3>5. /\ m.next = next /\ m.prev = prev
          /\ m.heap = heap /\ m.element = element /\ m.size = self.size
          /\ m = [size |-> m.size, heap |-> m.heap, next |-> m.next,
                  prev |-> m.prev, element |-> m.element]
      BY <3>2, <3>4 DEF heap, element, next, prev
    <3> QED
      BY <1>2, <3>3, <3>5
  <2> HIDE DEF p, f, r
  <2>4. /\ r = [size |-> r.size, heap |-> r.heap, next |-> r.next,
                prev |-> r.prev, element |-> r.element]
        /\ r.size = self.size - 1 /\ r.heap = heap /\ r.next = next
        /\ r.prev = prev /\ r.element = element
    BY <1>2, <2>3
  <2>5. /\ self.next \in [Links -> Links \cup {garbage}]
        /\ self.prev \in [Links -> Links \cup {garbage}]
        /\ p \in Links /\ f \in Links /\ NULL \in Links /\ p # NULL /\ p # f
    BY <1>2, <1>8, <2>1, <2>2 DEF Links
  <2>6. /\ prev \in [Links -> Links \cup {garbage}]
        /\ prev[p] = garbage /\ prev[NULL] = f
        /\ \A q \in Links : q # p /\ q # NULL => prev[q] = self.prev[q]
    <3>1. prev = [[self.prev EXCEPT ![NULL] = f] EXCEPT ![p] = garbage]
      BY DEF prev
    <3> QED
      BY <2>5, <3>1, UpdatedAndFreed
  <2>7. /\ next \in [Links -> Links \cup {garbage}]
        /\ next[p] = garbage /\ next[f] = NULL
        /\ \A q \in Links : q # p /\ q # f => next[q] = self.next[q]
    <3>1. next = [[self.next EXCEPT ![f] = NULL] EXCEPT ![p] = garbage]
      BY DEF next
    <3> QED
      BY <2>5, <3>1, UpdatedAndFreed
  <2>8. t # <<>>
    BY <1>3, <2>1, DoublyHead
  <2>9. Doubly(Tail(t), SubSeq(s, 1, Len(s) - 1), prev, next, heap, NULL)
    <3> DEFINE fore == self.prev
               back == self.next
               nodes == self.heap
    <3>1. /\ Doubly(t, s, fore, back, nodes, NULL) /\ t # <<>>
          /\ p = fore[NULL]
          /\ prev[NULL] = fore[p] /\ next[fore[p]] = NULL
      BY <1>3, <2>6, <2>7, <2>8 DEF f, p
    <3>2. ASSUME NEW q \in nodes, q # p PROVE prev[q] = fore[q]
      BY <1>2, <2>1, <2>6, <3>2 DEF Links
    <3>3. ASSUME NEW q \in nodes \cup {NULL}, q # p, q # fore[p] PROVE next[q] = back[q]
      <4>1. q \in Links /\ q # f
        BY <1>2, <3>3 DEF Links, f
      <4> QED
        BY <2>7, <3>3, <4>1
    <3> HIDE DEF fore, back, nodes
    <3>4. Doubly(Tail(t), SubSeq(s, 1, Len(s) - 1), prev, next, nodes \ {p}, NULL)
      BY <3>1, <3>2, <3>3, DoublyTake
    <3> QED
      BY <3>4 DEF heap, nodes
  <2>10. Doubly(a, b, next, prev, heap, NULL)
    BY <2>9, DoublySame DEF a, b
  <2>11. /\ element \in [Nodes -> Cells]
         /\ \A q \in Nodes : q # p => element[q] = self.element[q]
    BY <1>2, <2>1 DEF element, Cells
  <2>12. Along(a, element) = SubSeq(u, 1, Len(u) - 1)
    <3>1. ASSUME NEW i \in 1 .. Len(s) - 1 PROVE element[s[i]] = self.element[s[i]]
      <4>1. i \in 1 .. Len(s) /\ Len(s) \in 1 .. Len(s) /\ i # Len(s)
        BY <1>4
      <4> QED
        BY <1>2, <1>4, <2>2, <2>11, <4>1
    <3>2. /\ s \in Seq(self.heap) /\ s # <<>> /\ Along(s, self.element) \in Seq(Values)
          /\ \A i \in 1 .. Len(s) - 1 : element[s[i]] = self.element[s[i]]
      BY <1>2, <1>4, <2>1, <3>1
    <3>3. Along(SubSeq(s, 1, Len(s) - 1), element) = SubSeq(Along(s, self.element), 1, Len(s) - 1)
      BY <3>2, AlongFront
    <3> QED
      BY <1>2, <1>4, <3>3, AlongElems DEF a
  <2>13. Len(a) = Len(s) - 1
    BY <1>4, <2>1, FrontElems DEF a
  <2>14. ASSUME NEW q \in r.heap PROVE r.element[q] \in Values
    BY <1>2, <2>4, <2>11 DEF heap
  <2>15. ASSUME NEW q \in Nodes \ r.heap PROVE r.next[q] = garbage
    <3>1. CASE q = p
      BY <2>4, <2>6, <2>7, <3>1
    <3>2. CASE q # p
      <4>1. q \notin self.heap /\ q # NULL /\ q # f /\ q \in Links
        BY <2>1, <2>4, <3>2 DEF heap, Links
      <4> QED
        BY <1>2, <2>4, <2>6, <2>7, <3>2, <4>1
    <3> QED
      BY <3>1, <3>2
  <2>16. LD!Holds(r) /\ LD!Walk(r.next, r) = a
    <3>1. r.size = Len(a) /\ r.heap \subseteq Nodes
      BY <1>2, <2>4, <2>13 DEF heap
    <3>2. Doubly(a, b, r.next, r.prev, r.heap, NULL)
      BY <2>4, <2>10
    <3>3. /\ r.next \in [Links -> Links \cup {garbage}]
          /\ r.prev \in [Links -> Links \cup {garbage}]
          /\ r.element \in [Nodes -> Cells]
      BY <2>4, <2>6, <2>7, <2>11
    <3> QED
      BY <2>4, <2>14, <2>15, <3>1, <3>2, <3>3, DequeOfNodes
  <2>17. LD!GenArray(r) = SubSeq(u, 1, Len(u) - 1)
    <3>1. LD!GenArray(r) = Along(a, r.element)
      BY <2>16, NodesOfDeque
    <3> QED
      BY <2>4, <2>12, <3>1
  <2>18. u # <<>> /\ u[Len(u)] = self.element[p]
    <3>1. /\ 1 \in 1 .. Len(s) /\ Len(s) \in 1 .. Len(s)
      BY <1>4, <2>1
    <3>2. Len(u) = Len(s) /\ \A i \in 1 .. Len(s) : u[i] = self.element[s[i]]
      BY <1>2, <1>4, AlongElems
    <3> QED
      BY <1>5, <2>1, <2>2, <3>1, <3>2
  <2>19. ret' = <<"takeLast", TRUE, u[Len(u)]>>
    BY <1>8, <2>18 DEF p
  <2>20. ret'[1] = "takeLast"
    BY <2>19
  <2> QED
    BY <2>16, <2>17, <2>18, <2>19, <2>20 DEF LD!ListOK, LD!L!TakeLast, r, u
<1> QED
  BY <1>7, <1>8 DEF LD!RemoveLast

\* What a sound linked deque tells and gives away is its line.
LEMMA LinkedDequeCalls ==
  ASSUME LD!ListOK, LD!Next
  PROVE  LD!ListOK' /\ LD!L!LineNext
<1> DEFINE s == LD!Walk(self.next, self)
           t == LD!Walk(self.prev, self)
           u == LD!GenArray(self)
           p == self.next[NULL]
           q == self.prev[NULL]
<1>1. LD!Holds(self)
  BY DEF LD!ListOK
<1>2. /\ Doubly(s, t, self.next, self.prev, self.heap, NULL)
      /\ self.size = Len(s)
      /\ u = Along(s, self.element)
      /\ Along(s, self.element) \in Seq(Values)
  BY <1>1, NodesOfDeque
<1>3. Doubly(t, s, self.prev, self.next, self.heap, NULL)
  <2> HIDE DEF s, t, u
  <2> QED
    BY <1>2, DoublySame
<1>4. /\ s \in Seq(self.heap) /\ Len(s) \in Nat /\ (s = <<>> <=> Len(s) = 0)
      /\ (p = NULL <=> s = <<>>) /\ (s # <<>> => p = s[1])
      /\ (q = NULL <=> t = <<>>) /\ (t = <<>> <=> s = <<>>)
      /\ (s # <<>> => q = s[Len(s)])
  <2> HIDE DEF s, t, u
  <2>1. /\ s \in Seq(self.heap) /\ Len(s) \in Nat /\ (s = <<>> <=> Len(s) = 0)
        /\ (p = NULL <=> s = <<>>) /\ (s # <<>> => p = s[1]) /\ (t = <<>> <=> s = <<>>)
    BY <1>2, DoublyHead
  <2>2. (q = NULL <=> t = <<>>) /\ (t # <<>> => q = s[Len(s)])
    BY <1>3, DoublyHead
  <2> QED
    BY <2>1, <2>2
<1>5. /\ self.size = Len(u) /\ self.size \in Nat
      /\ (u = <<>> <=> p = NULL) /\ (u = <<>> <=> q = NULL)
      /\ (u # <<>> => u[1] = self.element[p] /\ u[Len(u)] = self.element[q])
  <2> HIDE DEF s, t, u, p, q
  <2>1. /\ Len(Along(s, self.element)) = Len(s)
        /\ \A i \in 1 .. Len(s) : Along(s, self.element)[i] = self.element[s[i]]
        /\ Along(s, self.element) = <<>> <=> s = <<>>
    BY <1>2, <1>4, AlongElems
  <2>2. ASSUME u # <<>> PROVE u[1] = self.element[p] /\ u[Len(u)] = self.element[q]
    <3>1. 1 \in 1 .. Len(s) /\ Len(s) \in 1 .. Len(s) /\ s # <<>>
      BY <1>2, <1>4, <2>1, <2>2
    <3> QED
      BY <1>2, <1>4, <2>1, <3>1
  <2> QED
    BY <1>2, <1>4, <2>1, <2>2
<1>6. UNCHANGED self => LD!ListOK' /\ u' = u
  BY <1>1 DEF LD!ListOK
<1>7. ASSUME NEW v \in Values, LD!InsertFirst(v) \/ LD!InsertLast(v)
      PROVE  LD!ListOK' /\ LD!L!LineNext
  <2>1. CASE LD!InsertFirst(v)
    BY <2>1, LinkedInsertFirstIsPut DEF LD!L!LineNext
  <2>2. CASE LD!InsertLast(v)
    BY <2>2, LinkedInsertLastIsPut DEF LD!L!LineNext
  <2> QED
    BY <1>7, <2>1, <2>2
<1>8. CASE LD!RemoveFirst
  BY <1>8, LinkedRemoveFirstIsTake DEF LD!L!LineNext
<1>9. CASE LD!RemoveLast
  BY <1>9, LinkedRemoveLastIsTake DEF LD!L!LineNext
<1>10. ASSUME NEW op \in {"clear", "destroy"}, LD!Clear(op)
       PROVE  LD!ListOK' /\ LD!L!LineNext
  <2>1. LD!Holds(self') /\ LD!GenArray(self') = <<>>
    BY <1>10, LinkedDequeNew DEF LD!Clear
  <2>2. ret' = <<op, u>>
    BY <1>10 DEF LD!Clear
  <2>3. ret'[1] \in {"clear", "destroy"} /\ ret'[2] = u
    BY <2>2
  <2>4. LD!L!Empty
    BY <2>1, <2>3 DEF LD!L!Empty
  <2> QED
    BY <2>1, <2>4 DEF LD!ListOK, LD!L!LineNext
<1>11. CASE LD!First
  <2>1. UNCHANGED self
    BY <1>11 DEF LD!First
  <2>2. ret' = IF u = <<>> THEN <<"first", FALSE>> ELSE <<"first", TRUE, u[1]>>
    BY <1>5, <1>11 DEF LD!First
  <2>3. ret'[1] = "first"
    BY <2>2
  <2>4. LD!L!PeekFirst
    BY <1>6, <2>1, <2>2, <2>3 DEF LD!L!PeekFirst
  <2> QED
    BY <1>6, <2>1, <2>4 DEF LD!L!LineNext
<1>12. CASE LD!Last
  <2>1. UNCHANGED self
    BY <1>12 DEF LD!Last
  <2>2. ret' = IF u = <<>> THEN <<"last", FALSE>> ELSE <<"last", TRUE, u[Len(u)]>>
    BY <1>5, <1>12 DEF LD!Last
  <2>3. ret'[1] = "last"
    BY <2>2
  <2>4. LD!L!PeekLast
    BY <1>6, <2>1, <2>2, <2>3 DEF LD!L!PeekLast
  <2> QED
    BY <1>6, <2>1, <2>4 DEF LD!L!LineNext
<1>13. CASE LD!Size
  <2>1. LD!L!Size
    BY <1>5, <1>6, <1>13 DEF LD!Size, LD!L!Size
  <2> QED
    BY <1>6, <1>13, <2>1 DEF LD!Size, LD!L!LineNext
<1>14. CASE LD!ToArray
  <2>1. LD!L!ToArray
    BY <1>6, <1>14 DEF LD!ToArray, LD!L!ToArray
  <2> QED
    BY <1>6, <1>14, <2>1 DEF LD!ToArray, LD!L!LineNext
<1>15. CASE LD!ItCreate
  <2>1. LD!L!Iterate
    BY <1>5, <1>6, <1>15 DEF LD!ItCreate, LD!L!Iterate
  <2> QED
    BY <1>6, <1>15, <2>1 DEF LD!ItCreate, LD!L!LineNext
<1> QED
  BY <1>7, <1>8, <1>9, <1>10, <1>11, <1>12, <1>13, <1>14, <1>15 DEF LD!Next

-----------------------------------------------------------------------------
(* Queues, stacks, deques and lists together.                              *)

\* A new object is well formed.
LEMMA LinesNew == CreateLine => LinesSound
<1> SUFFICES ASSUME CreateLine PROVE LinesSound
  OBVIOUS
<1>0. Capacities \subseteq Int
  BY LinesAssumption DEF AQ!CapacityAssumption
<1>1. ASSUME kind = "ArrayQueue" PROVE AQ!RingOK
  <2>1. \E capacity \in Capacities : self = AQ!NewQueue(capacity)
    BY <1>1 DEF CreateLine, AQ!Init
  <2> QED
    BY <1>0, <2>1, QueueNew DEF AQ!RingOK
<1>2. ASSUME kind = "LListQueue" PROVE LQ!ListOK
  BY <1>2, LinkedNew DEF CreateLine, LQ!Init, LQ!ListOK
<1>3. ASSUME kind = "ArrayStack" PROVE AS!StackOK
  <2>1. \E capacity \in Capacities : self = AS!NewStack(capacity)
    BY <1>3 DEF CreateLine, AS!Init
  <2> QED
    BY <1>0, <2>1, StackNew DEF AS!StackOK
<1>4. ASSUME kind = "LListStack" PROVE LS!ListOK
  BY <1>4, LinkedStackNew DEF CreateLine, LS!Init, LS!ListOK
<1>5. ASSUME kind = "ArrayDeque" PROVE AD!DequeOK
  <2>1. \E capacity \in Capacities : self = AD!NewDeque(capacity)
    BY <1>5 DEF CreateLine, AD!Init
  <2> QED
    BY <1>0, <2>1, DequeNew DEF AD!DequeOK
<1>6. ASSUME kind = "LListDeque" PROVE LD!ListOK
  BY <1>6, LinkedDequeNew DEF CreateLine, LD!Init, LD!ListOK
<1>7. ASSUME kind = "ArrayList" PROVE AL!ListOK
  <2>1. \E capacity \in Capacities : self = AL!NewList(capacity)
    BY <1>7 DEF CreateLine, AL!Init
  <2> QED
    BY <1>0, <2>1, ListNew DEF AL!ListOK
<1> QED
  BY <1>1, <1>2, <1>3, <1>4, <1>5, <1>6, <1>7 DEF LinesSound

\* A call of a well formed object is one of its line, and leaves it so.
LEMMA LinesCalled ==
  ASSUME LinesSound, CallLine, UNCHANGED kind
  PROVE  LinesSound' /\ StepIsLine
<1>1. ASSUME kind = "ArrayQueue" PROVE AQ!RingOK' /\ AQ!StepIsLine
  <2>1. AQ!RingOK /\ AQ!Next
    BY <1>1 DEF CallLine, LinesSound
  <2> QED
    BY <2>1, QueueCalls DEF AQ!StepIsLine
<1>2. ASSUME kind = "LListQueue" PROVE LQ!ListOK' /\ LQ!StepIsLine
  <2>1. LQ!ListOK /\ LQ!Next
    BY <1>2 DEF CallLine, LinesSound
  <2> QED
    BY <2>1, LinkedQueueCalls DEF LQ!StepIsLine
<1>3. ASSUME kind = "ArrayStack" PROVE AS!StackOK' /\ AS!StepIsLine
  <2>1. AS!StackOK /\ AS!Next
    BY <1>3 DEF CallLine, LinesSound
  <2> QED
    BY <2>1, StackCalls DEF AS!StepIsLine
<1>4. ASSUME kind = "LListStack" PROVE LS!ListOK' /\ LS!StepIsLine
  <2>1. LS!ListOK /\ LS!Next
    BY <1>4 DEF CallLine, LinesSound
  <2> QED
    BY <2>1, LinkedStackCalls DEF LS!StepIsLine
<1>5. ASSUME kind = "ArrayDeque" PROVE AD!DequeOK' /\ AD!StepIsLine
  <2>1. AD!DequeOK /\ AD!Next
    BY <1>5 DEF CallLine, LinesSound
  <2> QED
    BY <2>1, DequeCalls DEF AD!StepIsLine
<1>6. ASSUME kind = "LListDeque" PROVE LD!ListOK' /\ LD!StepIsLine
  <2>1. LD!ListOK /\ LD!Next
    BY <1>6 DEF CallLine, LinesSound
  <2> QED
    BY <2>1, LinkedDequeCalls DEF LD!StepIsLine
<1>7. ASSUME kind = "ArrayList" PROVE AL!ListOK' /\ AL!StepIsLine
  <2>1. AL!ListOK /\ AL!Next
    BY <1>7 DEF CallLine, LinesSound
  <2> QED
    BY <2>1, ListCalls DEF AL!StepIsLine
<1>8. kind' = kind
  OBVIOUS
<1> QED
  BY <1>1, <1>2, <1>3, <1>4, <1>5, <1>6, <1>7, <1>8 DEF LinesSound, StepIsLine

\* A step that leaves the object and what was told is none of its line.
LEMMA LinesLeft ==
  ASSUME UNCHANGED <<kind, self, ret>>
  PROVE  (LinesSound' <=> LinesSound) /\ StepIsLine
<1>1. LinesSound' <=> LinesSound
  BY DEF LinesSound, AQ!RingOK, LQ!ListOK, AS!StackOK, LS!ListOK, AD!DequeOK,
         LD!ListOK, AL!ListOK
<1>2. UNCHANGED <<AQ!GenArray(self), LQ!GenArray(self), AS!ArrayDupl(self),
                  LS!GenArray(self), AD!GenArray(self), LD!GenArray(self),
                  AL!ArrayDupl(self), ret>>
  OBVIOUS
<1> QED
  BY <1>1, <1>2
     DEF StepIsLine, AQ!StepIsLine, LQ!StepIsLine, AS!StepIsLine, LS!StepIsLine,
         AD!StepIsLine, LD!StepIsLine, AL!StepIsLine
=============================================================================
