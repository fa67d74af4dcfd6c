------------------------------ MODULE IoProofs ------------------------------
(***************************************************************************)
(* What is proved about io.c and the calls that reach it.                  *)
(*                                                                         *)
(* Keyboard: the circular buffer implements a bounded queue, for every     *)
(* BUFF_SIZE.  TypeOK is inductive, and its clause on the full flag is     *)
(* what makes the two readings of head = tail, full and empty, agree with  *)
(* the queue.                                                              *)
(*                                                                         *)
(* Console: a write is one text and a dump one matrix, for every screen,   *)
(* page, block and word.  A loop takes the screen through one state for    *)
(* each index (the lemmas Scan...).  What the states of printk hold is an  *)
(* induction along the text: the cursor is where the reference has it      *)
(* (CursorAt) and a cell shows the last character written there (CellAt).  *)
(* The blocks of a write stop at states of one such chain (BlocksWritten). *)
(***************************************************************************)
EXTENDS Console, Keyboard, QueueLemmas

(* Quotients and remainders by a divisor that need not be a constant. *)
LEMMA Divide ==
    ASSUME NEW d \in Nat \ {0}, NEW a \in Nat
    PROVE  /\ a \div d \in Nat /\ a % d \in 0 .. d - 1
           /\ a = d * (a \div d) + (a % d)
OBVIOUS

(* The quotient grows with the dividend. *)
LEMMA DivideMonotone ==
    ASSUME NEW d \in Nat \ {0}, NEW a \in Nat, NEW b \in Nat, a <= b
    PROVE  a \div d <= b \div d
OBVIOUS

(* A page further is in a later page. *)
LEMMA DivideLess ==
    ASSUME NEW d \in Nat \ {0}, NEW a \in Nat, NEW b \in Nat, a + d <= b
    PROVE  a \div d < b \div d
OBVIOUS

(* A quotient and a remainder make one dividend. *)
LEMMA Quotient ==
    ASSUME NEW d \in Nat \ {0}, NEW q \in Nat, NEW r \in 0 .. d - 1
    PROVE  (q * d + r) \div d = q /\ (q * d + r) % d = r
OBVIOUS

(* No more than a page further is in the same page or in the next. *)
LEMMA NextQuotient ==
    ASSUME NEW d \in Nat \ {0}, NEW a \in Nat, NEW b \in a .. a + d
    PROVE  b \div d \in {a \div d, (a \div d) + 1}
<1> DEFINE q == a \div d
           r == a % d
<1>0. q \in Nat /\ r \in 0 .. d - 1 /\ a = d * q + r
  BY Divide
<1> HIDE DEF q, r
<1>1. q \in Nat /\ r \in 0 .. d - 1 /\ a = q * d + r
  BY <1>0
<1>2. CASE b < (q + 1) * d
  <2>1. b - q * d \in 0 .. d - 1 /\ b = q * d + (b - q * d)
    BY <1>1, <1>2
  <2>2. b \div d = q
    BY <1>1, <2>1, Quotient
  <2> QED
    BY <2>2 DEF q
<1>3. CASE ~(b < (q + 1) * d)
  <2>1. b - (q + 1) * d \in 0 .. d - 1 /\ b = (q + 1) * d + (b - (q + 1) * d)
    BY <1>1, <1>3
  <2>2. b \div d = q + 1
    BY <1>1, <2>1, Quotient
  <2> QED
    BY <2>2 DEF q
<1> QED
  BY <1>2, <1>3

(* A remainder of a number below two divisors, without the remainder. *)
LEMMA RemainderBelow ==
    ASSUME NEW d \in Nat \ {0}, NEW a \in 0 .. 2 * d - 1
    PROVE  a % d = IF a < d THEN a ELSE a - d
OBVIOUS

(* The remainder of the next number. *)
LEMMA NextRemainder ==
    ASSUME NEW d \in Nat \ {0}, NEW a \in Nat
    PROVE  (a + 1) % d = IF (a % d) + 1 = d THEN 0 ELSE (a % d) + 1
<1> DEFINE q == a \div d
           r == a % d
<1>1. q \in Nat /\ r \in 0 .. d - 1 /\ a = d * q + r
  BY Divide
<1>2. CASE r + 1 = d
  <2>1. a + 1 = (q + 1) * d + 0
    BY <1>1, <1>2
  <2> HIDE DEF q, r
  <2>2. ((q + 1) * d + 0) % d = 0
    BY <1>1, Quotient
  <2> QED
    BY <2>1, <2>2, <1>2 DEF r
<1>3. CASE r + 1 # d
  <2>1. a + 1 = q * d + (r + 1) /\ r + 1 \in 0 .. d - 1
    BY <1>1, <1>3
  <2> HIDE DEF q, r
  <2>2. (q * d + (r + 1)) % d = r + 1
    BY <1>1, <2>1, Quotient
  <2> QED
    BY <2>1, <2>2, <1>3 DEF r
<1> QED
  BY <1>2, <1>3

-----------------------------------------------------------------------------
(* The keyboard *)

(* The index after i is an index. *)
LEMMA FollowingSlot ==
    ASSUME NEW i \in Slots
    PROVE  /\ Following(i) \in Slots
           /\ Following(i) = IF i = BUFF_SIZE - 1 THEN 0 ELSE i + 1
<1> DEFINE x == i + 1
<1>1. BUFF_SIZE \in Nat \ {0} /\ x \in 0 .. 2 * BUFF_SIZE - 1
  BY KeyboardAssumption DEF Slots
<1> HIDE DEF x
<1>2. x % BUFF_SIZE = IF x < BUFF_SIZE THEN x ELSE x - BUFF_SIZE
  BY <1>1, RemainderBelow
<1> QED
  BY <1>1, <1>2 DEF Slots, Following, x

(* The slot of the i-th key. *)
SlotOf(i) == IF tail + i - 1 < BUFF_SIZE THEN tail + i - 1 ELSE tail + i - 1 - BUFF_SIZE

(* The keys in the buffer are Count characters, the i-th of them i - 1 slots after tail. *)
Layout ==
    /\ Count \in 0 .. BUFF_SIZE
    /\ Count = 0 <=> head = tail /\ IsFull_Flag # 1
    /\ Count = BUFF_SIZE <=> IsFull_Flag = 1
    /\ keys \in Seq(Chars) /\ Len(keys) = Count
    /\ \A i \in 1 .. Count : keys[i] = circular_buff[SlotOf(i)]

(* The layout follows from the types of the indices and of the flag. *)
LEMMA KeysAt == TypeOK => Layout
<1> SUFFICES ASSUME TypeOK PROVE Layout
  OBVIOUS
<1>1. /\ BUFF_SIZE \in Nat \ {0} /\ head \in Slots /\ tail \in Slots /\ IsFull_Flag \in {0, 1}
      /\ IsFull_Flag = 1 => head = tail
      /\ circular_buff \in [Slots -> Chars]
  BY KeyboardAssumption DEF TypeOK
<1>2. /\ Count \in 0 .. BUFF_SIZE
      /\ Count = 0 <=> head = tail /\ IsFull_Flag # 1
      /\ Count = BUFF_SIZE <=> IsFull_Flag = 1
  BY <1>1 DEF Count, Slots
<1>3. ASSUME NEW i \in 1 .. Count
      PROVE  /\ (tail + i - 1) % BUFF_SIZE = SlotOf(i)
             /\ (tail + i - 1) % BUFF_SIZE \in Slots
  <2> DEFINE x == tail + i - 1
  <2>1. x \in 0 .. 2 * BUFF_SIZE - 1
    BY <1>1, <1>2 DEF Slots
  <2> HIDE DEF x
  <2>2. x % BUFF_SIZE = IF x < BUFF_SIZE THEN x ELSE x - BUFF_SIZE
    BY <1>1, <2>1, RemainderBelow
  <2> QED
    BY <1>1, <2>1, <2>2 DEF Slots, SlotOf, x
<1> DEFINE n == Count
<1>4. keys = [i \in 1 .. n |-> circular_buff[(tail + i - 1) % BUFF_SIZE]]
  BY DEF keys
<1> HIDE DEF n
<1>5. n \in Nat /\ \A i \in 1 .. n : circular_buff[(tail + i - 1) % BUFF_SIZE] \in Chars
  BY <1>1, <1>2, <1>3 DEF n
<1>6. keys \in Seq(Chars) /\ Len(keys) = n
  BY <1>4, <1>5
<1> QED
  BY <1>2, <1>3, <1>4, <1>6 DEF n, Layout

(* The initial state, and every step, keep the types and the meaning of the full flag. *)
LEMMA TypeInductive == (Init => TypeOK) /\ (TypeOK /\ [Next]_vars => TypeOK')
<1>1. Init => TypeOK
  BY KeyboardAssumption DEF Init, TypeOK, Slots
<1>2. ASSUME TypeOK, NEW c \in Chars, write_to_buffer(c), UNCHANGED <<got, ret>>
      PROVE  TypeOK'
  BY <1>2, FollowingSlot DEF TypeOK, write_to_buffer
<1>3. ASSUME TypeOK, read_from_buffer
      PROVE  TypeOK'
  BY <1>3, FollowingSlot DEF TypeOK, read_from_buffer
<1>3b. TypeOK /\ BadAddress => TypeOK'
  BY DEF TypeOK, BadAddress
<1>4. ASSUME NEW i \in 0 .. CODES - 1
      PROVE  char_map_at(i) \subseteq Chars
  BY KeyboardAssumption DEF char_map_at
<1>5. TypeOK /\ UNCHANGED vars => TypeOK'
  BY DEF TypeOK, vars
<1> QED
  BY <1>1, <1>2, <1>3, <1>3b, <1>4, <1>5 DEF Next, keyboard_routine, sys_get_key

(* A stored key is the last of the queue. *)
LEMMA WriteIsType ==
    ASSUME TypeOK, TypeOK', NEW c \in Chars, write_to_buffer(c), UNCHANGED <<got, ret>>
    PROVE  Fifo!Type(c)
<1>1. /\ BUFF_SIZE \in Nat \ {0} /\ head \in Slots /\ tail \in Slots
      /\ circular_buff \in [Slots -> Chars]
      /\ IsFull_Flag = 0 /\ tail' = tail
      /\ circular_buff' = [circular_buff EXCEPT ![head] = c]
      /\ head' = IF head = BUFF_SIZE - 1 THEN 0 ELSE head + 1
      /\ IsFull_Flag' = IF head' = tail THEN 1 ELSE 0
  BY KeyboardAssumption, FollowingSlot DEF TypeOK, write_to_buffer
<1>2. Count < BUFF_SIZE /\ Count' = Count + 1 /\ Count \in Nat
  BY <1>1 DEF Count, Slots
<1>3. head = IF tail + Count < BUFF_SIZE THEN tail + Count ELSE tail + Count - BUFF_SIZE
  BY <1>1 DEF Count, Slots
<1> DEFINE k == keys
           n == Count
           S(i) == SlotOf(i)
<1>4. /\ k \in Seq(Chars) /\ Len(k) = n
      /\ \A i \in 1 .. n : k[i] = circular_buff[S(i)]
  BY KeysAt DEF Layout
<1> Layout'
  BY KeysAt, PTL
<1>5. /\ k' \in Seq(Chars) /\ Len(k') = n + 1
      /\ \A i \in 1 .. n + 1 : k'[i] = circular_buff'[S(i)]
  BY <1>1, <1>2 DEF Layout, SlotOf
<1>6. \A i \in 1 .. n : S(i) \in Slots /\ S(i) # head
  BY <1>1, <1>2, <1>3 DEF Slots, SlotOf
<1>7. S(n + 1) = head
  BY <1>1, <1>2, <1>3 DEF SlotOf
<1>8. \A i \in 1 .. n : k'[i] = k[i]
  BY <1>1, <1>2, <1>4, <1>5, <1>6
<1>9. k'[n + 1] = c
  BY <1>1, <1>2, <1>5, <1>7
<1> HIDE DEF k, n, S
<1>10. k' = Append(k, c)
  BY <1>2, <1>4, <1>5, <1>8, <1>9 DEF n
<1> QED
  BY <1>2, <1>4, <1>10 DEF k, n, Fifo!Type

(* A read takes the first of the queue, or finds it empty. *)
LEMMA ReadIsGet ==
    ASSUME TypeOK, TypeOK', read_from_buffer
    PROVE  Fifo!Get \/ Fifo!NoKey
<1> DEFINE k == keys
           n == Count
           S(i) == SlotOf(i)
<1>1. /\ BUFF_SIZE \in Nat \ {0} /\ head \in Slots /\ tail \in Slots
      /\ circular_buff \in [Slots -> Chars] /\ IsFull_Flag \in {0, 1}
  BY KeyboardAssumption DEF TypeOK
<1>2. /\ k \in Seq(Chars) /\ Len(k) = n /\ n \in 0 .. BUFF_SIZE
      /\ n = 0 <=> head = tail /\ IsFull_Flag # 1
      /\ \A i \in 1 .. n : k[i] = circular_buff[S(i)]
  BY KeysAt DEF Layout
<1>3. CASE head = tail /\ IsFull_Flag # 1
  <2>1. /\ ret' = -1
        /\ UNCHANGED <<circular_buff, head, tail, IsFull_Flag, got>>
    BY <1>3 DEF read_from_buffer
  <2>2. k' = k
    BY <2>1 DEF keys, Count
  <2> HIDE DEF k, n
  <2>3. k = <<>>
    BY <1>2, <1>3
  <2> QED
    BY <2>1, <2>2, <2>3 DEF k, Fifo!NoKey
<1>4. CASE ~(head = tail /\ IsFull_Flag # 1)
  <2>1. /\ got' = circular_buff[tail] /\ ret' = 0 /\ IsFull_Flag' = 0
        /\ tail' = IF tail = BUFF_SIZE - 1 THEN 0 ELSE tail + 1
        /\ UNCHANGED <<circular_buff, head>>
    BY <1>1, <1>4, FollowingSlot DEF read_from_buffer
  <2>2. n \in Nat \ {0} /\ n' = n - 1
    BY <1>1, <1>2, <1>4, <2>1 DEF Count, Slots, TypeOK
  <2>3. /\ k' \in Seq(Chars) /\ Len(k') = n - 1
        /\ \A i \in 1 .. n - 1 : k'[i] = circular_buff[S(i)']
    <3>1. Layout'
      BY KeysAt, PTL
    <3> QED
      BY <2>2, <3>1, <2>1 DEF Layout
  <2>4. \A i \in 1 .. n - 1 : S(i)' = S(i + 1)
    BY <1>1, <1>2, <2>1, <2>2 DEF Slots, SlotOf
  <2>5. \A i \in 1 .. n - 1 : k'[i] = k[i + 1]
    BY <1>2, <2>2, <2>3, <2>4
  <2>6. k[1] = circular_buff[tail]
    BY <1>1, <1>2, <2>2 DEF Slots, SlotOf
  <2> HIDE DEF k, n, S
  <2>7. k # <<>> /\ Head(k) = circular_buff[tail]
    BY <1>2, <2>2, <2>6
  <2>8. k' = Tail(k)
    BY <1>2, <2>2, <2>3, <2>5
  <2> QED
    BY <2>1, <2>7, <2>8 DEF k, Fifo!Get
<1> QED
  BY <1>3, <1>4

(* The types of the keyboard's variables, and: the flag is up only when head has reached tail. *)
THEOREM KeyboardTypes == Spec => []TypeOK
BY TypeInductive, PTL DEF Spec

(* get_key delivers the keys that were stored, in the order in which they were typed. *)
THEOREM BufferIsFifo == Spec => ImplementsFifo
<1>1. Init => Fifo!FifoInit
  <2> SUFFICES ASSUME Init PROVE Fifo!FifoInit
    OBVIOUS
  <2> DEFINE k == keys
  <2>1. TypeOK /\ Count = 0 /\ got = NUL /\ ret = 0
    BY TypeInductive DEF Init, Count
  <2>2. k \in Seq(Chars) /\ Len(k) = 0
    BY <2>1, KeysAt DEF Layout
  <2> HIDE DEF k
  <2>3. k = <<>>
    BY <2>2
  <2> QED
    BY <2>1, <2>3 DEF k, Fifo!FifoInit
<1>2. TypeOK /\ TypeOK' /\ [Next]_vars => [Fifo!FifoNext]_(Fifo!fvars)
  <2> SUFFICES ASSUME TypeOK, TypeOK', [Next]_vars
               PROVE  [Fifo!FifoNext]_(Fifo!fvars)
    OBVIOUS
  <2>1. CASE keyboard_routine
    <3>1. PICK i \in 0 .. CODES - 1 : \E c \in char_map_at(i) : write_to_buffer(c)
      BY <2>1 DEF keyboard_routine
    <3>2. PICK c \in char_map_at(i) : write_to_buffer(c)
      BY <3>1
    <3>3. c \in Chars
      BY <3>2, KeyboardAssumption DEF char_map_at
    <3> QED
      BY <2>1, <3>2, <3>3, WriteIsType DEF keyboard_routine, Fifo!FifoNext
  <2>2. CASE sys_get_key
    <3>1. CASE read_from_buffer
      BY <3>1, ReadIsGet DEF Fifo!FifoNext
    <3>2. CASE BadAddress
      <4>1. UNCHANGED <<keys, got>> /\ ret' = -14
        BY <3>2 DEF BadAddress, keys, Count
      <4> QED
        BY <4>1 DEF Fifo!BadCall, Fifo!FifoNext
    <3> QED
      BY <2>2, <3>1, <3>2 DEF sys_get_key
  <2>3. CASE UNCHANGED vars
    BY <2>3 DEF vars, Fifo!fvars, keys, Count
  <2> QED
    BY <2>1, <2>2, <2>3 DEF Next
<1> QED
  BY <1>1, <1>2, KeyboardTypes, PTL DEF Spec, ImplementsFifo, Fifo!FifoSpec

-----------------------------------------------------------------------------
(* The console *)

(* What the screen can show: the bytes of the memory, and those of the message. *)
Byte == {Memory[a] : a \in Int}
Shown == Byte \cup Range(FaultMessage)
Shades == (Shown \X (Shown \cup {Green})) \cup {Blank}
Consoles == [x : 0 .. NUM_COLUMNS - 1, y : 0 .. NUM_ROWS - 1, screen : [Cells -> Shades]]
Kernels == [con : Consoles, halted : BOOLEAN]

(* One character: the cursor goes on, and the screen changes where it was. *)
Steps(c, d, char) ==
    /\ d \in Consoles
    /\ d.x = IF char = NL \/ c.x + 1 = NUM_COLUMNS THEN 0 ELSE c.x + 1
    /\ d.y = IF d.x # 0 THEN c.y ELSE IF c.y + 1 = NUM_ROWS THEN 0 ELSE c.y + 1
    /\ \A cell \in Cells :
          d.screen[cell] = IF char # NL /\ cell = <<c.y, c.x>> THEN <<char, Green>>
                           ELSE c.screen[cell]

(* A newline: the cursor goes to the start of the next row. *)
LEMMA NewLine ==
    ASSUME NEW c \in Consoles
    PROVE  /\ newline(c) \in Consoles
           /\ newline(c).x = 0
           /\ newline(c).y = IF c.y + 1 = NUM_ROWS THEN 0 ELSE c.y + 1
           /\ newline(c).screen = c.screen
<1> DEFINE y1 == (c.y + 1) % NUM_ROWS
<1>1. NUM_ROWS \in Nat \ {0} /\ NUM_COLUMNS \in Nat \ {0}
  BY ScreenAssumption
<1>2. c.y \in 0 .. NUM_ROWS - 1
  BY DEF Consoles
<1>3. y1 = IF c.y + 1 = NUM_ROWS THEN 0 ELSE c.y + 1
  BY ONLY <1>1, <1>2, RemainderBelow
<1>4. newline(c) = [c EXCEPT !.x = 0, !.y = y1]
  BY DEF newline
<1>5. y1 \in 0 .. NUM_ROWS - 1 /\ 0 \in 0 .. NUM_COLUMNS - 1
  BY <1>1, <1>2, <1>3
<1> HIDE DEF y1
<1> QED
  BY <1>3, <1>4, <1>5 DEF Consoles

(* A cell that is written, and the cursor after it. *)
LEMMA Put ==
    ASSUME NEW c \in Consoles, NEW cell \in Shades
    PROVE  /\ put(c, cell) \in Consoles
           /\ put(c, cell).x = IF c.x + 1 = NUM_COLUMNS THEN 0 ELSE c.x + 1
           /\ put(c, cell).y = IF put(c, cell).x # 0 THEN c.y
                               ELSE IF c.y + 1 = NUM_ROWS THEN 0 ELSE c.y + 1
           /\ \A place \in Cells : put(c, cell).screen[place] =
                  IF place = <<c.y, c.x>> THEN cell ELSE c.screen[place]
<1> DEFINE w == [c EXCEPT !.screen[<<c.y, c.x>>] = cell]
<1>1. NUM_ROWS \in Nat \ {0} /\ NUM_COLUMNS \in Nat \ {0}
  BY ScreenAssumption
<1>2. c.x \in 0 .. NUM_COLUMNS - 1 /\ c.y \in 0 .. NUM_ROWS - 1 /\ <<c.y, c.x>> \in Cells
  BY DEF Consoles, Cells
<1>3. w \in Consoles /\ w.x = c.x /\ w.y = c.y
  BY <1>2 DEF Consoles
<1>4. \A place \in Cells :
         w.screen[place] = IF place = <<c.y, c.x>> THEN cell ELSE c.screen[place]
  BY <1>2 DEF Consoles
<1>5. put(c, cell) = IF c.x + 1 >= NUM_COLUMNS THEN newline(w) ELSE [w EXCEPT !.x = @ + 1]
  BY DEF put
<1> HIDE DEF w
<1>6. CASE c.x + 1 >= NUM_COLUMNS
  <2>1. /\ newline(w) \in Consoles /\ newline(w).x = 0 /\ newline(w).screen = w.screen
        /\ newline(w).y = IF w.y + 1 = NUM_ROWS THEN 0 ELSE w.y + 1
    BY <1>3, NewLine
  <2> QED
    BY <2>1, <1>1, <1>2, <1>3, <1>4, <1>5, <1>6
<1>7. CASE ~(c.x + 1 >= NUM_COLUMNS)
  <2> DEFINE v == [w EXCEPT !.x = @ + 1]
  <2>1. c.x + 1 \in 0 .. NUM_COLUMNS - 1 /\ c.x + 1 # 0 /\ c.x + 1 # NUM_COLUMNS
    BY <1>1, <1>2, <1>7
  <2>2. v \in Consoles /\ v.x = c.x + 1 /\ v.y = w.y /\ v.screen = w.screen
    BY <1>3, <2>1 DEF Consoles
  <2>3. put(c, cell) = v
    BY <1>5, <1>7
  <2> HIDE DEF v
  <2> QED
    BY <2>1, <2>2, <2>3, <1>3, <1>4
<1> QED
  BY <1>6, <1>7

(* printc is such a step. *)
LEMMA Printc ==
    ASSUME NEW c \in Consoles, NEW char \in Shown
    PROVE  Steps(c, printc(c, char), char)
<1>1. CASE char = NL
  <2>1. printc(c, char) = newline(c)
    BY <1>1 DEF printc
  <2> QED
    BY <1>1, <2>1, NewLine DEF Steps
<1>2. CASE char # NL
  <2>1. printc(c, char) = put(c, <<char, Green>>)
    BY <1>2 DEF printc
  <2>2. <<char, Green>> \in Shades
    BY DEF Shades
  <2> QED
    BY <1>2, <2>1, <2>2, Put DEF Steps
<1> QED
  BY <1>1, <1>2

(* f goes from b through each step of printk to what it comes to. *)
LEMMA ScanText ==
    ASSUME NEW b \in Consoles, NEW is, Len(is) \in Nat,
           \A t \in Consoles, k \in 1 .. Len(is) : printc(t, is[k]) \in Consoles
    PROVE  \E f : /\ f[0] = b /\ f[Len(is)] = printk(b, is)
                  /\ \A k \in 0 .. Len(is) : f[k] \in Consoles
                  /\ \A k \in 1 .. Len(is) : f[k] = printc(f[k - 1], is[k])
<1> DEFINE n == Len(is)
           g == [k \in 1 .. n |-> [t \in Consoles |-> printc(t, is[k])]]
           Step(f) == [k \in 0 .. n |->
              IF k = 0 THEN b ELSE CHOOSE r \in {printc(t, is[k]) : t \in {f[k - 1]}} : TRUE]
           after == CHOOSE f : f = Step(f)
<1> HIDE DEF n
<1>1. n \in Nat
  BY DEF n
<1>2. g \in [1 .. n -> [Consoles -> Consoles]]
  BY DEF n
<1>3. PICK f0 \in [0 .. n -> Consoles] : Iterated(f0, g, b, n)
  <2> HIDE DEF g
  <2> QED
    BY <1>1, <1>2, Iterates
<1>4. \A f : \A k \in 0 .. n : Step(f)[k] = IF k = 0 THEN b ELSE printc(f[k - 1], is[k])
  <2> SUFFICES ASSUME NEW f, NEW k \in 0 .. n
               PROVE  Step(f)[k] = IF k = 0 THEN b ELSE printc(f[k - 1], is[k])
    OBVIOUS
  <2>1. {printc(t, is[k]) : t \in {f[k - 1]}} = {printc(f[k - 1], is[k])}
    OBVIOUS
  <2>2. \A r : (CHOOSE q \in {r} : TRUE) = r
    OBVIOUS
  <2> QED
    BY <2>1, <2>2
<1>5. f0 = Step(f0)
  <2>1. \A k \in 1 .. n : f0[k] = g[k][f0[k - 1]] /\ f0[k - 1] \in Consoles
    <3> HIDE DEF g
    <3> QED
      BY <1>1, <1>3 DEF Iterated
  <2>2. \A k \in 1 .. n : f0[k] = printc(f0[k - 1], is[k])
    <3>1. \A k \in 1 .. n, t \in Consoles : g[k][t] = printc(t, is[k])
      OBVIOUS
    <3> HIDE DEF g, Step
    <3> QED
      BY ONLY <2>1, <3>1
  <2>3. ASSUME NEW k \in 0 .. n PROVE f0[k] = Step(f0)[k]
    <3>1. f0[0] = b
      BY <1>3 DEF Iterated
    <3>2. Step(f0)[k] = IF k = 0 THEN b ELSE printc(f0[k - 1], is[k])
      BY <1>4
    <3> HIDE DEF Step, g
    <3>3. CASE k = 0
      BY ONLY <3>1, <3>2, <3>3
    <3>4. CASE k \in 1 .. n
      <4>1. k # 0
        BY <3>4
      <4> QED
        BY ONLY <2>2, <3>2, <3>4, <4>1
    <3> QED
      BY <1>1, <3>3, <3>4
  <2> QED
    BY <2>3
<1>6. after = Step(after)
  BY <1>5
<1>7. printk(b, is) = after[n]
  BY DEF Scan, printk, n
<1>8. after[0] = b /\ \A k \in 1 .. n : after[k] = printc(after[k - 1], is[k])
  <2> HIDE DEF after, Step
  <2>1. \A k \in 0 .. n : Step(after)[k] = IF k = 0 THEN b ELSE printc(after[k - 1], is[k])
    BY ONLY <1>4, Zenon
  <2>2. \A k \in 0 .. n : after[k] = IF k = 0 THEN b ELSE printc(after[k - 1], is[k])
    BY ONLY <1>6, <2>1, Zenon
  <2>3. 0 \in 0 .. n /\ \A k \in 1 .. n : k \in 0 .. n /\ k # 0
    BY <1>1
  <2> QED
    BY ONLY <2>2, <2>3
<1>9. \A k \in 0 .. n : after[k] \in Consoles
  <2> DEFINE S == {k \in 0 .. n : after[k] \in Consoles}
  <2> HIDE DEF after
  <2>1. 0 \in S
    BY <1>1, <1>8
  <2>2. ASSUME NEW k \in 0 .. n - 1, k \in S PROVE k + 1 \in S
    <3>1. k + 1 \in 1 .. n /\ k + 1 \in 0 .. n /\ k + 1 - 1 = k
      BY <1>1
    <3>2. after[k + 1] = printc(after[k], is[k + 1])
      BY <1>8, <3>1
    <3>3. printc(after[k], is[k + 1]) \in Consoles
      BY <2>2, <3>1 DEF n
    <3> QED
      BY <3>1, <3>2, <3>3
  <2> HIDE DEF S
  <2>3. 0 .. n \subseteq S
    BY <1>1, <2>1, <2>2, UpTo
  <2> QED
    BY <2>3 DEF S
<1> QED
  <2> HIDE DEF after
  <2> QED
    BY <1>7, <1>8, <1>9 DEF n

(* f[k] is what sys_write has made after k blocks. *)
Writes(f, addr, size) ==
    LET is == Blocks(addr, size)
    IN  /\ f[0] = [con |-> con, halted |-> FALSE] /\ f[Len(is)] = PrintBlocks(addr, size)
        /\ \A k \in 0 .. Len(is) : f[k] \in Kernels
        /\ \A k \in 1 .. Len(is) : f[k] = WriteBlock(f[k - 1], is[k])

(* There is such an f. *)
LEMMA ScanBlocks ==
    ASSUME con \in Consoles, NEW addr, NEW size, Len(Blocks(addr, size)) \in Nat,
           \A t \in Kernels, k \in 1 .. Len(Blocks(addr, size)) :
              WriteBlock(t, Blocks(addr, size)[k]) \in Kernels
    PROVE  \E f : Writes(f, addr, size)
<1> DEFINE is == Blocks(addr, size)
           b == [con |-> con, halted |-> FALSE]
<1>b. b \in Kernels
  BY DEF Kernels
<1>0. Len(is) \in Nat /\ \A t \in Kernels, k \in 1 .. Len(is) : WriteBlock(t, is[k]) \in Kernels
  OBVIOUS
<1> HIDE DEF is, b
<1> DEFINE n == Len(is)
           g == [k \in 1 .. n |-> [t \in Kernels |-> WriteBlock(t, is[k])]]
           Step(f) == [k \in 0 .. n |->
              IF k = 0 THEN b ELSE CHOOSE r \in {WriteBlock(t, is[k]) : t \in {f[k - 1]}} : TRUE]
           after == CHOOSE f : f = Step(f)
<1> HIDE DEF n
<1>1. n \in Nat
  BY <1>0 DEF n
<1>2. g \in [1 .. n -> [Kernels -> Kernels]]
  BY <1>0 DEF n
<1>3. PICK f0 \in [0 .. n -> Kernels] : Iterated(f0, g, b, n)
  <2> HIDE DEF g
  <2> QED
    BY <1>b, <1>1, <1>2, Iterates
<1>4. \A f : \A k \in 0 .. n : Step(f)[k] = IF k = 0 THEN b ELSE WriteBlock(f[k - 1], is[k])
  <2> SUFFICES ASSUME NEW f, NEW k \in 0 .. n
               PROVE  Step(f)[k] = IF k = 0 THEN b ELSE WriteBlock(f[k - 1], is[k])
    OBVIOUS
  <2>1. {WriteBlock(t, is[k]) : t \in {f[k - 1]}} = {WriteBlock(f[k - 1], is[k])}
    OBVIOUS
  <2>2. \A r : (CHOOSE q \in {r} : TRUE) = r
    OBVIOUS
  <2> QED
    BY <2>1, <2>2
<1>5. f0 = Step(f0)
  <2>1. \A k \in 1 .. n : f0[k] = g[k][f0[k - 1]] /\ f0[k - 1] \in Kernels
    <3> HIDE DEF g
    <3> QED
      BY <1>1, <1>3 DEF Iterated
  <2>2. \A k \in 1 .. n : f0[k] = WriteBlock(f0[k - 1], is[k])
    <3>1. \A k \in 1 .. n, t \in Kernels : g[k][t] = WriteBlock(t, is[k])
      OBVIOUS
    <3> HIDE DEF g, Step
    <3> QED
      BY ONLY <2>1, <3>1
  <2>3. ASSUME NEW k \in 0 .. n PROVE f0[k] = Step(f0)[k]
    <3>1. f0[0] = b
      BY <1>3 DEF Iterated
    <3>2. Step(f0)[k] = IF k = 0 THEN b ELSE WriteBlock(f0[k - 1], is[k])
      BY <1>4
    <3> HIDE DEF Step, g
    <3>3. CASE k = 0
      BY ONLY <3>1, <3>2, <3>3
    <3>4. CASE k \in 1 .. n
      <4>1. k # 0
        BY <3>4
      <4> QED
        BY ONLY <2>2, <3>2, <3>4, <4>1
    <3> QED
      BY <1>1, <3>3, <3>4
  <2> QED
    BY <2>3
<1>6. after = Step(after)
  BY <1>5
<1>7. PrintBlocks(addr, size) = after[n]
  BY DEF Scan, PrintBlocks, n, is, b
<1>8. after[0] = b /\ \A k \in 1 .. n : after[k] = WriteBlock(after[k - 1], is[k])
  <2> HIDE DEF after, Step
  <2>1. \A k \in 0 .. n : Step(after)[k] = IF k = 0 THEN b ELSE WriteBlock(after[k - 1], is[k])
    BY ONLY <1>4, Zenon
  <2>2. \A k \in 0 .. n : after[k] = IF k = 0 THEN b ELSE WriteBlock(after[k - 1], is[k])
    BY ONLY <1>6, <2>1, Zenon
  <2>3. 0 \in 0 .. n /\ \A k \in 1 .. n : k \in 0 .. n /\ k # 0
    BY <1>1
  <2> QED
    BY ONLY <2>2, <2>3
<1>9. \A k \in 0 .. n : after[k] \in Kernels
  <2> DEFINE S == {k \in 0 .. n : after[k] \in Kernels}
  <2> HIDE DEF after
  <2>1. 0 \in S
    BY <1>b, <1>1, <1>8
  <2>2. ASSUME NEW k \in 0 .. n - 1, k \in S PROVE k + 1 \in S
    <3>1. k + 1 \in 1 .. n /\ k + 1 \in 0 .. n /\ k + 1 - 1 = k
      BY <1>1
    <3>2. after[k + 1] = WriteBlock(after[k], is[k + 1])
      BY <1>8, <3>1
    <3>3. WriteBlock(after[k], is[k + 1]) \in Kernels
      BY <1>0, <2>2, <3>1 DEF n
    <3> QED
      BY <3>1, <3>2, <3>3
  <2> HIDE DEF S
  <2>3. 0 .. n \subseteq S
    BY <1>1, <2>1, <2>2, UpTo
  <2> QED
    BY <2>3 DEF S
<1> QED
  <2> HIDE DEF after
  <2> QED
    BY <1>7, <1>8, <1>9 DEF Writes, n, is, b

(* f[k] is what the loops of sys_dump_screen have made after k cells. *)
Draws(f, addr) ==
    /\ f[0] = [con |-> con, halted |-> FALSE] /\ f[Len(Matrix)] = DrawMatrix(addr)
    /\ \A k \in 0 .. Len(Matrix) : f[k] \in Kernels
    /\ \A k \in 1 .. Len(Matrix) : f[k] = Draw(addr, f[k - 1], Matrix[k])

(* There is such an f. *)
LEMMA ScanMatrix ==
    ASSUME con \in Consoles, NEW addr, Len(Matrix) \in Nat,
           \A t \in Kernels, k \in 1 .. Len(Matrix) : Draw(addr, t, Matrix[k]) \in Kernels
    PROVE  \E f : Draws(f, addr)
<1> DEFINE is == Matrix
           b == [con |-> con, halted |-> FALSE]
<1>b. b \in Kernels
  BY DEF Kernels
<1>0. Len(is) \in Nat /\ \A t \in Kernels, k \in 1 .. Len(is) : Draw(addr, t, is[k]) \in Kernels
  OBVIOUS
<1> HIDE DEF is, b
<1> DEFINE n == Len(is)
           g == [k \in 1 .. n |-> [t \in Kernels |-> Draw(addr, t, is[k])]]
           Step(f) == [k \in 0 .. n |->
              IF k = 0 THEN b ELSE CHOOSE r \in {Draw(addr, t, is[k]) : t \in {f[k - 1]}} : TRUE]
           after == CHOOSE f : f = Step(f)
<1> HIDE DEF n
<1>1. n \in Nat
  BY <1>0 DEF n
<1>2. g \in [1 .. n -> [Kernels -> Kernels]]
  BY <1>0 DEF n
<1>3. PICK f0 \in [0 .. n -> Kernels] : Iterated(f0, g, b, n)
  <2> HIDE DEF g
  <2> QED
    BY <1>b, <1>1, <1>2, Iterates
<1>4. \A f : \A k \in 0 .. n : Step(f)[k] = IF k = 0 THEN b ELSE Draw(addr, f[k - 1], is[k])
  <2> SUFFICES ASSUME NEW f, NEW k \in 0 .. n
               PROVE  Step(f)[k] = IF k = 0 THEN b ELSE Draw(addr, f[k - 1], is[k])
    OBVIOUS
  <2>1. {Draw(addr, t, is[k]) : t \in {f[k - 1]}} = {Draw(addr, f[k - 1], is[k])}
    OBVIOUS
  <2>2. \A r : (CHOOSE q \in {r} : TRUE) = r
    OBVIOUS
  <2> QED
    BY <2>1, <2>2
<1>5. f0 = Step(f0)
  <2>1. \A k \in 1 .. n : f0[k] = g[k][f0[k - 1]] /\ f0[k - 1] \in Kernels
    <3> HIDE DEF g
    <3> QED
      BY <1>1, <1>3 DEF Iterated
  <2>2. \A k \in 1 .. n : f0[k] = Draw(addr, f0[k - 1], is[k])
    <3>1. \A k \in 1 .. n, t \in Kernels : g[k][t] = Draw(addr, t, is[k])
      OBVIOUS
    <3> HIDE DEF g, Step
    <3> QED
      BY ONLY <2>1, <3>1
  <2>3. ASSUME NEW k \in 0 .. n PROVE f0[k] = Step(f0)[k]
    <3>1. f0[0] = b
      BY <1>3 DEF Iterated
    <3>2. Step(f0)[k] = IF k = 0 THEN b ELSE Draw(addr, f0[k - 1], is[k])
      BY <1>4
    <3> HIDE DEF Step, g
    <3>3. CASE k = 0
      BY ONLY <3>1, <3>2, <3>3
    <3>4. CASE k \in 1 .. n
      <4>1. k # 0
        BY <3>4
      <4> QED
        BY ONLY <2>2, <3>2, <3>4, <4>1
    <3> QED
      BY <1>1, <3>3, <3>4
  <2> QED
    BY <2>3
<1>6. after = Step(after)
  BY <1>5
<1>7. DrawMatrix(addr) = after[n]
  BY DEF Scan, DrawMatrix, n, is, b
<1>8. after[0] = b /\ \A k \in 1 .. n : after[k] = Draw(addr, after[k - 1], is[k])
  <2> HIDE DEF after, Step
  <2>1. \A k \in 0 .. n : Step(after)[k] = IF k = 0 THEN b ELSE Draw(addr, after[k - 1], is[k])
    BY ONLY <1>4, Zenon
  <2>2. \A k \in 0 .. n : after[k] = IF k = 0 THEN b ELSE Draw(addr, after[k - 1], is[k])
    BY ONLY <1>6, <2>1, Zenon
  <2>3. 0 \in 0 .. n /\ \A k \in 1 .. n : k \in 0 .. n /\ k # 0
    BY <1>1
  <2> QED
    BY ONLY <2>2, <2>3
<1>9. \A k \in 0 .. n : after[k] \in Kernels
  <2> DEFINE S == {k \in 0 .. n : after[k] \in Kernels}
  <2> HIDE DEF after
  <2>1. 0 \in S
    BY <1>b, <1>1, <1>8
  <2>2. ASSUME NEW k \in 0 .. n - 1, k \in S PROVE k + 1 \in S
    <3>1. k + 1 \in 1 .. n /\ k + 1 \in 0 .. n /\ k + 1 - 1 = k
      BY <1>1
    <3>2. after[k + 1] = Draw(addr, after[k], is[k + 1])
      BY <1>8, <3>1
    <3>3. Draw(addr, after[k], is[k + 1]) \in Kernels
      BY <1>0, <2>2, <3>1 DEF n
    <3> QED
      BY <3>1, <3>2, <3>3
  <2> HIDE DEF S
  <2>3. 0 .. n \subseteq S
    BY <1>1, <2>1, <2>2, UpTo
  <2> QED
    BY <2>3 DEF S
<1> QED
  <2> HIDE DEF after
  <2> QED
    BY <1>7, <1>8, <1>9 DEF Draws, n, is, b

(* f[k] is the screen after k characters of t. *)
Prints(f, c, t) ==
    /\ f[0] = c
    /\ \A k \in 0 .. Len(t) : f[k] \in Consoles
    /\ \A k \in 1 .. Len(t) : f[k] = printc(f[k - 1], t[k])

(* printk takes the screen through such states. *)
LEMMA PrintkPrints ==
    ASSUME NEW c \in Consoles, NEW t \in Seq(Shown)
    PROVE  /\ \E f : Prints(f, c, t) /\ printk(c, t) = f[Len(t)]
           /\ printk(c, t) \in Consoles
<1>1. Len(t) \in Nat /\ \A k \in 1 .. Len(t) : t[k] \in Shown
  OBVIOUS
<1>2. \A d \in Consoles, k \in 1 .. Len(t) : printc(d, t[k]) \in Consoles
  BY <1>1, Printc DEF Steps
<1>3. PICK f : /\ f[0] = c /\ f[Len(t)] = printk(c, t)
               /\ \A k \in 0 .. Len(t) : f[k] \in Consoles
               /\ \A k \in 1 .. Len(t) : f[k] = printc(f[k - 1], t[k])
  BY ONLY <1>1, <1>2, c \in Consoles, ScanText
<1>4. Prints(f, c, t) /\ printk(c, t) = f[Len(t)]
  BY ONLY <1>3 DEF Prints
<1>5. printk(c, t) \in Consoles
  BY ONLY <1>1, <1>3
<1> QED
  BY ONLY <1>4, <1>5

(* There is one way to print a text. *)
LEMMA PrintkIs ==
    ASSUME NEW c \in Consoles, NEW t \in Seq(Shown), NEW f, Prints(f, c, t)
    PROVE  printk(c, t) = f[Len(t)]
<1>1. PICK h : Prints(h, c, t) /\ printk(c, t) = h[Len(t)]
  BY PrintkPrints
<1> DEFINE n == Len(t)
           S == {k \in 0 .. n : f[k] = h[k]}
<1>2. n \in Nat
  OBVIOUS
<1>3. f[0] = c /\ h[0] = c
  BY <1>1 DEF Prints
<1>4. \A k \in 1 .. n : f[k] = printc(f[k - 1], t[k]) /\ h[k] = printc(h[k - 1], t[k])
  BY <1>1 DEF Prints
<1> HIDE DEF n
<1>5. 0 \in S
  BY <1>2, <1>3
<1>6. ASSUME NEW k \in 0 .. n - 1, k \in S PROVE k + 1 \in S
  <2>1. k + 1 \in 1 .. n /\ k + 1 \in 0 .. n /\ k + 1 - 1 = k
    BY <1>2
  <2>2. f[k + 1] = printc(f[k], t[k + 1]) /\ h[k + 1] = printc(h[k], t[k + 1])
    BY <1>4, <2>1
  <2>3. f[k] = h[k]
    BY <1>6
  <2> QED
    BY <2>1, <2>2, <2>3
<1>7. 0 .. n \subseteq S
  <2> HIDE DEF S
  <2> QED
    BY <1>2, <1>5, <1>6, UpTo
<1> QED
  BY <1>1, <1>2, <1>7 DEF n

(* The page fault handler prints its message and stops the kernel. *)
LEMMA PageFault ==
    ASSUME NEW c \in Consoles
    PROVE  page_fault(c) \in Kernels /\ page_fault(c).halted = TRUE
<1>1. FaultMessage \in Seq(Shown)
  <2>1. FaultMessage \in Seq(Range(FaultMessage)) /\ Range(FaultMessage) \subseteq Shown
    BY ScreenAssumption DEF Shown
  <2> QED
    BY <2>1
<1>2. printk(c, FaultMessage) \in Consoles
  BY <1>1, PrintkPrints
<1> QED
  BY <1>2 DEF page_fault, Kernels

(* printcc_xy draws one cell, unless its character is a newline, and leaves the cursor. *)
LEMMA PrintccXy ==
    ASSUME NEW c \in Consoles, NEW mx \in 0 .. NUM_COLUMNS - 1, NEW my \in 0 .. NUM_ROWS - 1,
           NEW cc \in Shown \X Shown
    PROVE  /\ printcc_xy(c, mx, my, cc) \in Consoles
           /\ printcc_xy(c, mx, my, cc).x = c.x
           /\ printcc_xy(c, mx, my, cc).y = c.y
           /\ \A cell \in Cells : printcc_xy(c, mx, my, cc).screen[cell] =
                 IF cell = <<my, mx>> /\ cc[1] # NL THEN cc ELSE c.screen[cell]
<1> DEFINE m == [c EXCEPT !.x = mx, !.y = my]
           d == printcc(m, cc)
           e == [d EXCEPT !.x = c.x, !.y = c.y]
<1>1. m \in Consoles /\ m.x = mx /\ m.y = my /\ m.screen = c.screen
  BY DEF Consoles
<1>2. cc \in Shades
  BY DEF Shades
<1> HIDE DEF m
<1>3. /\ d \in Consoles
      /\ \A cell \in Cells :
            d.screen[cell] = IF cell = <<my, mx>> /\ cc[1] # NL THEN cc ELSE c.screen[cell]
  <2>1. CASE cc[1] = NL
    <3>1. d = newline(m)
      BY <2>1 DEF printcc
    <3>2. newline(m) \in Consoles /\ newline(m).screen = m.screen
      BY <1>1, NewLine
    <3> HIDE DEF d
    <3> QED
      BY <1>1, <2>1, <3>1, <3>2
  <2>2. CASE cc[1] # NL
    <3>1. d = put(m, cc)
      BY <2>2 DEF printcc
    <3>2. /\ put(m, cc) \in Consoles
          /\ \A place \in Cells : put(m, cc).screen[place] =
                IF place = <<m.y, m.x>> THEN cc ELSE m.screen[place]
      BY <1>1, <1>2, Put
    <3> HIDE DEF d
    <3> QED
      BY <1>1, <2>2, <3>1, <3>2
  <2> QED
    BY <2>1, <2>2
<1>4. printcc_xy(c, mx, my, cc) = e
  BY DEF printcc_xy, m
<1> HIDE DEF d
<1>5. e \in Consoles /\ e.x = c.x /\ e.y = c.y /\ e.screen = d.screen
  BY <1>3 DEF Consoles
<1> HIDE DEF e
<1> QED
  BY ONLY <1>3, <1>4, <1>5

(* The last of some positions. *)
LEMMA Last ==
    ASSUME NEW k \in Nat, NEW T \in SUBSET (1 .. k), T # {}
    PROVE  \E j \in T : \A i \in T : i <= j
<1> DEFINE S == {m \in 0 .. k : \A i \in T : i <= k - m}
<1>1. 0 \in S
  OBVIOUS
<1>2. ASSUME \A j \in T : \E i \in T : ~(i <= j),
             NEW m \in 0 .. k - 1, m \in S
      PROVE  m + 1 \in S
  <2>1. \A i \in T : i \in 1 .. k /\ i <= k - m
    BY <1>2
  <2>2. \A i \in T : i # k - m
    BY <1>2, <2>1
  <2> QED
    BY <2>1, <2>2
<1>3. ASSUME \A j \in T : \E i \in T : ~(i <= j)
      PROVE  FALSE
  <2>1. \A m \in 0 .. k - 1 : m \in S => m + 1 \in S
    BY <1>2, <1>3
  <2> HIDE DEF S
  <2>2. 0 .. k \subseteq S
    BY <1>1, <2>1, UpTo
  <2>3. k \in S
    BY <2>2
  <2>4. PICK i \in T : i \in 1 .. k
    OBVIOUS
  <2>5. i <= k - k
    BY <2>3, <2>4 DEF S
  <2> QED
    BY <2>4, <2>5
<1> QED
  BY <1>3

(* The column after one more character. *)
LEMMA ColumnNext ==
    ASSUME NEW s, NEW k \in Nat, NEW c \in 0 .. NUM_COLUMNS - 1
    PROVE  /\ Column(s, 0, c) = c
           /\ Column(s, k, c) \in 0 .. NUM_COLUMNS - 1
           /\ Column(s, k + 1, c) = IF s[k + 1] = NL \/ Column(s, k, c) + 1 = NUM_COLUMNS
                                    THEN 0 ELSE Column(s, k, c) + 1
<1> DEFINE d == NUM_COLUMNS
           Nls(m) == {j \in 1 .. m : s[j] = NL}
           L == LastNewline(s, k)
<1>0. d \in Nat \ {0}
  BY ScreenAssumption
<1>1. d \in Nat \ {0} /\ c \in 0 .. d - 1 /\ c % d = c /\ 0 % d = 0
  <2>1. d \in Nat \ {0} /\ c \in 0 .. d - 1
    BY ScreenAssumption
  <2> HIDE DEF d
  <2> QED
    BY <2>1, RemainderBelow
<1>2. Column(s, 0, c) = c
  BY <1>1 DEF Column
<1>3. (\E j \in 1 .. k : s[j] = NL) => L \in 1 .. k
  <2> SUFFICES ASSUME \E j \in 1 .. k : s[j] = NL PROVE L \in 1 .. k
    OBVIOUS
  <2> DEFINE T == Nls(k)
  <2>1. T \in SUBSET (1 .. k) /\ T # {}
    OBVIOUS
  <2>2. L = CHOOSE j \in T : \A i \in T : i <= j
    BY DEF LastNewline
  <2> HIDE DEF T, L
  <2>3. \E j \in T : \A i \in T : i <= j
    BY <2>1, Last
  <2> QED
    BY <2>1, <2>2, <2>3
<1>4. ASSUME s[k + 1] = NL
      PROVE  Column(s, k + 1, c) = 0
  <2> DEFINE T == Nls(k + 1)
  <2>1. k + 1 \in T /\ \A i \in T : i <= k + 1 /\ i \in Int
    BY <1>4
  <2>2. LastNewline(s, k + 1) = CHOOSE j \in T : \A i \in T : i <= j
    BY DEF LastNewline
  <2>3. \E j \in 1 .. k + 1 : s[j] = NL
    BY <2>1
  <2> HIDE DEF T
  <2>4. LastNewline(s, k + 1) = k + 1
    BY <2>1, <2>2
  <2>5. Column(s, k + 1, c) = (k + 1 - (k + 1)) % d
    BY <2>3, <2>4 DEF Column
  <2>6. k + 1 - (k + 1) = 0
    OBVIOUS
  <2> QED
    BY ONLY <1>1, <2>5, <2>6
<1>5. ASSUME s[k + 1] # NL
      PROVE  /\ (\E j \in 1 .. k + 1 : s[j] = NL) <=> (\E j \in 1 .. k : s[j] = NL)
             /\ LastNewline(s, k + 1) = L
  <2>1. Nls(k + 1) = Nls(k)
    BY <1>5
  <2>2. (\E j \in 1 .. k + 1 : s[j] = NL) <=> (\E j \in 1 .. k : s[j] = NL)
    BY <1>5
  <2> QED
    BY <2>1, <2>2 DEF LastNewline
<1> HIDE DEF L
<1>6. CASE \E j \in 1 .. k : s[j] = NL
  <2> DEFINE a == k - L
  <2>1. a \in Nat /\ (k + 1) - L = a + 1
    BY <1>3, <1>6
  <2>2. Column(s, k, c) = a % d
    BY <1>6 DEF Column, L
  <2>3. s[k + 1] # NL => Column(s, k + 1, c) = (a + 1) % d
    <3>1. s[k + 1] # NL => Column(s, k + 1, c) = ((k + 1) - L) % d
      <4>1. s[k + 1] # NL => /\ \E j \in 1 .. k + 1 : s[j] = NL
                             /\ LastNewline(s, k + 1) = L
        BY ONLY <1>5, <1>6
      <4> QED
        BY ONLY <4>1, Zenon DEF Column
    <3> HIDE DEF a, d
    <3> QED
      BY ONLY <2>1, <3>1, Zenon
  <2> HIDE DEF a, d
  <2>4. (a + 1) % d = (IF (a % d) + 1 = d THEN 0 ELSE (a % d) + 1) /\ a % d \in 0 .. d - 1
    BY ONLY <1>0, <2>1, NextRemainder, Divide
  <2> DEFINE m == a % d
             m1 == (a + 1) % d
  <2>5. Column(s, k, c) = m /\ m1 = (IF m + 1 = d THEN 0 ELSE m + 1) /\ m \in 0 .. d - 1
    BY <2>2, <2>4
  <2>6. CASE s[k + 1] # NL
    <3>1. Column(s, k + 1, c) = m1
      BY <2>3, <2>6
    <3> HIDE DEF m, m1
    <3> QED
      BY ONLY <1>2, <2>5, <2>6, <3>1 DEF d
  <2>7. CASE s[k + 1] = NL
    <3>1. Column(s, k + 1, c) = 0
      BY <1>4, <2>7
    <3> HIDE DEF m, m1
    <3> QED
      BY ONLY <1>2, <2>5, <2>7, <3>1 DEF d
  <2> QED
    BY ONLY <2>6, <2>7
<1>7. CASE ~(\E j \in 1 .. k : s[j] = NL)
  <2> DEFINE a == c + k
  <2>1. a \in Nat /\ c + (k + 1) = a + 1
    BY <1>1
  <2>2. Column(s, k, c) = a % d
    BY <1>7 DEF Column
  <2>3. s[k + 1] # NL => Column(s, k + 1, c) = (a + 1) % d
    <3>1. s[k + 1] # NL => Column(s, k + 1, c) = (c + (k + 1)) % d
      <4>1. s[k + 1] # NL => ~(\E j \in 1 .. k + 1 : s[j] = NL)
        BY ONLY <1>5, <1>7
      <4> QED
        BY ONLY <4>1, Zenon DEF Column
    <3> HIDE DEF a, d
    <3> QED
      BY ONLY <2>1, <3>1, Zenon
  <2> HIDE DEF a, d
  <2>4. (a + 1) % d = (IF (a % d) + 1 = d THEN 0 ELSE (a % d) + 1) /\ a % d \in 0 .. d - 1
    BY ONLY <1>0, <2>1, NextRemainder, Divide
  <2> DEFINE m == a % d
             m1 == (a + 1) % d
  <2>5. Column(s, k, c) = m /\ m1 = (IF m + 1 = d THEN 0 ELSE m + 1) /\ m \in 0 .. d - 1
    BY <2>2, <2>4
  <2>6. CASE s[k + 1] # NL
    <3>1. Column(s, k + 1, c) = m1
      BY <2>3, <2>6
    <3> HIDE DEF m, m1
    <3> QED
      BY ONLY <1>2, <2>5, <2>6, <3>1 DEF d
  <2>7. CASE s[k + 1] = NL
    <3>1. Column(s, k + 1, c) = 0
      BY <1>4, <2>7
    <3> HIDE DEF m, m1
    <3> QED
      BY ONLY <1>2, <2>5, <2>7, <3>1 DEF d
  <2> QED
    BY ONLY <2>6, <2>7
<1> QED
  BY <1>6, <1>7

(* The row after row r. *)
RowAfter(r) == IF r + 1 = NUM_ROWS THEN 0 ELSE r + 1

(* The row after one more character of s, from that after k. *)
RowGoesOn(s, k, c, r) ==
    Row(s, k + 1, r, c) = IF Column(s, k + 1, c) # 0 THEN Row(s, k, r, c)
                          ELSE RowAfter(Row(s, k, r, c))

(* The row goes on where the column is 0. *)
LEMMA RowNext ==
    ASSUME NEW s, NEW k \in Nat, NEW c \in 0 .. NUM_COLUMNS - 1, NEW r \in 0 .. NUM_ROWS - 1
    PROVE  /\ Row(s, 0, r, c) = r
           /\ Row(s, k, r, c) \in 0 .. NUM_ROWS - 1
           /\ RowGoesOn(s, k, c, r)
<1> DEFINE d == NUM_ROWS
           T(m) == {j \in 1 .. m : Column(s, j, c) = 0}
           n(m) == Cardinality(T(m))
           a == r + n(k)
<1>1. d \in Nat \ {0} /\ r \in 0 .. d - 1 /\ r % d = r
  <2>1. d \in Nat \ {0} /\ r \in 0 .. d - 1
    BY ScreenAssumption
  <2> HIDE DEF d
  <2> QED
    BY <2>1, RemainderBelow
<1>2. \A m \in Nat : Row(s, m, r, c) = (r + n(m)) % d
  BY DEF Row
<1>3. T(0) = {} /\ n(0) = 0
  BY FS_EmptySet
<1>4. IsFiniteSet(T(k)) /\ n(k) \in Nat
  <2>1. IsFiniteSet(1 .. k) /\ T(k) \subseteq 1 .. k
    BY FS_Interval
  <2>2. IsFiniteSet(T(k))
    BY <2>1, FS_Subset
  <2> QED
    BY <2>2, FS_CardinalityType
<1>5. a \in Nat
  BY <1>1, <1>4
<1>6. CASE Column(s, k + 1, c) # 0
  <2>1. T(k + 1) = T(k)
    BY <1>6
  <2>2. Row(s, k + 1, r, c) = a % d /\ Row(s, k, r, c) = a % d /\ Row(s, 0, r, c) = (r + 0) % d
    BY <1>2, <1>3, <2>1
  <2> HIDE DEF a, d
  <2>3. a % d \in 0 .. d - 1 /\ r + 0 = r
    BY <1>1, <1>5, Divide
  <2> QED
    BY <1>1, <1>6, <2>2, <2>3 DEF d, RowGoesOn
<1>7. CASE Column(s, k + 1, c) = 0
  <2>1. T(k + 1) = T(k) \cup {k + 1} /\ k + 1 \notin T(k)
    BY <1>7
  <2>2. n(k + 1) = n(k) + 1
    BY <1>4, <2>1, FS_AddElement
  <2>3. r + n(k + 1) = a + 1
    BY <1>1, <1>4, <2>2
  <2>4. /\ Row(s, k + 1, r, c) = (a + 1) % d /\ Row(s, k, r, c) = a % d
        /\ Row(s, 0, r, c) = (r + 0) % d
    BY <1>2, <1>3, <2>3
  <2> HIDE DEF a, d, n, T
  <2>5. d \in Nat \ {0} /\ r + 0 = r
    BY <1>1
  <2>6. (a + 1) % d = (IF (a % d) + 1 = d THEN 0 ELSE (a % d) + 1) /\ a % d \in 0 .. d - 1
    BY ONLY <1>5, <2>5, NextRemainder, Divide
  <2> DEFINE m == a % d
             m1 == (a + 1) % d
  <2>7. /\ Row(s, k, r, c) = m /\ Row(s, k + 1, r, c) = m1 /\ Row(s, 0, r, c) = r
        /\ m1 = (IF m + 1 = d THEN 0 ELSE m + 1) /\ m \in 0 .. d - 1
    BY <1>1, <2>4, <2>5, <2>6
  <2> HIDE DEF m, m1
  <2> QED
    BY ONLY <1>7, <2>7 DEF d, RowAfter, RowGoesOn
<1> QED
  BY <1>6, <1>7

(* The cursor of the reference is the cursor of the code. *)
LEMMA CursorAt ==
    ASSUME NEW c \in Consoles, NEW s \in Seq(Shown), NEW f, Prints(f, c, s)
    PROVE  \A k \in 0 .. Len(s) : /\ f[k].x = Column(s, k, c.x)
                                  /\ f[k].y = Row(s, k, c.y, c.x)
<1> DEFINE n == Len(s)
           S == {k \in 0 .. n : f[k].x = Column(s, k, c.x) /\ f[k].y = Row(s, k, c.y, c.x)}
<1>1. n \in Nat /\ \A k \in 1 .. n : s[k] \in Shown
  OBVIOUS
<1>2. /\ f[0] = c
      /\ \A k \in 0 .. n : f[k] \in Consoles
      /\ \A k \in 1 .. n : f[k] = printc(f[k - 1], s[k])
  BY DEF Prints
<1>3. c.x \in 0 .. NUM_COLUMNS - 1 /\ c.y \in 0 .. NUM_ROWS - 1
  BY DEF Consoles
<1> HIDE DEF n
<1>4. 0 \in S
  <2>1. Column(s, 0, c.x) = c.x /\ Row(s, 0, c.y, c.x) = c.y
    <3>1. 0 \in Nat /\ c.x \in 0 .. NUM_COLUMNS - 1 /\ c.y \in 0 .. NUM_ROWS - 1
      BY <1>3
    <3>2. Column(s, 0, c.x) = c.x
      BY ONLY <3>1, ColumnNext, Zenon
    <3>3. Row(s, 0, c.y, c.x) = c.y
      BY ONLY <3>1, RowNext, Zenon
    <3> QED
      BY ONLY <3>2, <3>3
  <2>2. f[0].x = Column(s, 0, c.x) /\ f[0].y = Row(s, 0, c.y, c.x)
    BY ONLY <1>2, <2>1
  <2>3. 0 \in 0 .. n
    BY <1>1
  <2> QED
    BY ONLY <2>2, <2>3
<1>5. ASSUME NEW k \in 0 .. n - 1, k \in S PROVE k + 1 \in S
  <2>1. k \in Nat /\ k + 1 \in 1 .. n /\ k + 1 \in 0 .. n /\ k + 1 - 1 = k /\ k \in 0 .. n
    BY <1>1
  <2> DEFINE d == f[k]
             e == f[k + 1]
  <2>2. Steps(d, e, s[k + 1])
    <3>1. e = printc(d, s[k + 1]) /\ d \in Consoles /\ s[k + 1] \in Shown
      BY <1>1, <1>2, <2>1
    <3> HIDE DEF d, e
    <3> QED
      BY <3>1, Printc
  <2>3. d.x = Column(s, k, c.x) /\ d.y = Row(s, k, c.y, c.x)
    BY <1>5
  <2>4. Column(s, k + 1, c.x) = IF s[k + 1] = NL \/ Column(s, k, c.x) + 1 = NUM_COLUMNS
                                THEN 0 ELSE Column(s, k, c.x) + 1
    <3>1. k \in Nat /\ c.x \in 0 .. NUM_COLUMNS - 1
      BY <1>3, <2>1
    <3> QED
      BY ONLY <3>1, ColumnNext, Zenon
  <2>5. Row(s, k + 1, c.y, c.x) = IF Column(s, k + 1, c.x) # 0 THEN Row(s, k, c.y, c.x)
                                  ELSE RowAfter(Row(s, k, c.y, c.x))
    <3>1. k \in Nat /\ c.x \in 0 .. NUM_COLUMNS - 1 /\ c.y \in 0 .. NUM_ROWS - 1
      BY <1>3, <2>1
    <3>2. RowGoesOn(s, k, c.x, c.y)
      BY ONLY <3>1, RowNext, Zenon
    <3> QED
      BY ONLY <3>2, Zenon DEF RowGoesOn
  <2> HIDE DEF d, e
  <2>6. e.x = Column(s, k + 1, c.x) /\ e.y = Row(s, k + 1, c.y, c.x)
    <3>1. /\ e.x = IF s[k + 1] = NL \/ d.x + 1 = NUM_COLUMNS THEN 0 ELSE d.x + 1
          /\ e.y = IF e.x # 0 THEN d.y ELSE IF d.y + 1 = NUM_ROWS THEN 0 ELSE d.y + 1
      BY ONLY <2>2 DEF Steps
    <3>2. e.x = Column(s, k + 1, c.x)
      BY ONLY <2>3, <2>4, <3>1
    <3> QED
      BY ONLY <2>3, <2>5, <3>1, <3>2 DEF RowAfter
  <2> QED
    BY <2>1, <2>6 DEF e
<1>6. 0 .. n \subseteq S
  <2> HIDE DEF S
  <2> QED
    BY <1>1, <1>4, <1>5, UpTo
<1> QED
  BY <1>6 DEF n

(* The i-th character of s is written at the cell. *)
Hit(f, s, cell, i) == s[i] # NL /\ <<f[i - 1].y, f[i - 1].x>> = cell

(* The cell shows the last of the first k characters of s that was written there, if one was. *)
Shows(d, c, f, s, cell, k) ==
    \/ /\ \A i \in 1 .. k : ~Hit(f, s, cell, i)
       /\ d.screen[cell] = c.screen[cell]
    \/ \E m \in 1 .. k :
          /\ Hit(f, s, cell, m) /\ \A i \in 1 .. k : Hit(f, s, cell, i) => i <= m
          /\ d.screen[cell] = <<s[m], Green>>

(* After k characters every cell shows the last of them that was written there. *)
LEMMA CellAt ==
    ASSUME NEW c \in Consoles, NEW s \in Seq(Shown), NEW f, Prints(f, c, s), NEW cell \in Cells
    PROVE  \A k \in 0 .. Len(s) : Shows(f[k], c, f, s, cell, k)
<1> DEFINE n == Len(s)
           S == {k \in 0 .. n : Shows(f[k], c, f, s, cell, k)}
<1>1. n \in Nat /\ \A k \in 1 .. n : s[k] \in Shown
  OBVIOUS
<1>2. /\ f[0] = c
      /\ \A k \in 0 .. n : f[k] \in Consoles
      /\ \A k \in 1 .. n : f[k] = printc(f[k - 1], s[k])
  BY DEF Prints
<1> HIDE DEF n
<1>3. 0 \in S
  BY <1>1, <1>2 DEF Shows
<1>4. ASSUME NEW k \in 0 .. n - 1, k \in S PROVE k + 1 \in S
  <2>1. k + 1 \in 1 .. n /\ k + 1 \in 0 .. n /\ k + 1 - 1 = k /\ k \in 0 .. n
    BY <1>1
  <2> DEFINE d == f[k]
             e == f[k + 1]
             H(i) == Hit(f, s, cell, i)
  <2>2. Steps(d, e, s[k + 1])
    <3>1. e = printc(d, s[k + 1]) /\ d \in Consoles /\ s[k + 1] \in Shown
      BY <1>1, <1>2, <2>1
    <3> HIDE DEF d, e
    <3> QED
      BY <3>1, Printc
  <2>3. H(k + 1) <=> s[k + 1] # NL /\ <<d.y, d.x>> = cell
    BY <2>1 DEF Hit
  <2>4. e.screen[cell] = IF H(k + 1) THEN <<s[k + 1], Green>> ELSE d.screen[cell]
    <3> HIDE DEF d, e, H
    <3> QED
      BY ONLY cell \in Cells, <2>2, <2>3 DEF Steps
  <2>5. Shows(d, c, f, s, cell, k)
    BY <1>4
  <2>6. \A i \in 1 .. k + 1 : i = k + 1 \/ i \in 1 .. k
    BY <2>1
  <2>7. \A i \in 1 .. k : i \in 1 .. k + 1 /\ i <= k + 1
    BY <2>1
  <2>8. CASE H(k + 1)
    <3>1. \A i \in 1 .. k + 1 : H(i) => i <= k + 1
      BY <2>1
    <3>2. k + 1 \in 1 .. k + 1
      BY <2>1
    <3> HIDE DEF d, e
    <3> QED
      BY <2>1, <2>4, <2>8, <3>1, <3>2 DEF Shows, e
  <2>9. CASE ~H(k + 1)
    <3>1. CASE (\A i \in 1 .. k : ~H(i)) /\ d.screen[cell] = c.screen[cell]
      <4>1. \A i \in 1 .. k + 1 : ~H(i)
        BY <2>6, <2>9, <3>1
      <4> QED
        BY <2>1, <2>4, <2>9, <3>1, <4>1 DEF Shows
    <3>2. CASE \E m \in 1 .. k : /\ H(m) /\ \A i \in 1 .. k : H(i) => i <= m
                                 /\ d.screen[cell] = <<s[m], Green>>
      <4>1. PICK m \in 1 .. k : /\ H(m) /\ \A i \in 1 .. k : H(i) => i <= m
                                /\ d.screen[cell] = <<s[m], Green>>
        BY <3>2
      <4>2. m \in 1 .. k + 1 /\ \A i \in 1 .. k + 1 : H(i) => i <= m
        BY <2>6, <2>7, <2>9, <4>1
      <4> QED
        BY <2>1, <2>4, <2>9, <4>1, <4>2 DEF Shows
    <3> QED
      BY <2>5, <3>1, <3>2 DEF Shows
  <2> QED
    BY <2>8, <2>9
<1>5. 0 .. n \subseteq S
  <2> HIDE DEF S
  <2> QED
    BY <1>1, <1>3, <1>4, UpTo
<1> QED
  BY <1>5 DEF n

(* printk of s is the text s. *)
LEMMA TextShown ==
    ASSUME con \in Consoles, NEW s \in Seq(Shown), con' = printk(con, s)
    PROVE  ShowsText(s)
<1>1. PICK f : Prints(f, con, s) /\ printk(con, s) = f[Len(s)]
  BY PrintkPrints
<1> DEFINE n == Len(s)
           at == [k \in 0 .. n |-> <<Row(s, k, con.y, con.x), Column(s, k, con.x)>>]
<1>2. n \in Nat /\ con' = f[n]
  BY <1>1
<1>3. \A k \in 0 .. n : at[k] = <<f[k].y, f[k].x>>
  <2>1. \A k \in 0 .. n : f[k].x = Column(s, k, con.x) /\ f[k].y = Row(s, k, con.y, con.x)
    BY <1>1, CursorAt
  <2> QED
    BY <2>1
<1>4. ASSUME NEW cell \in Cells
      PROVE  con'.screen[cell] =
               LET here == {k \in 1 .. n : s[k] # NL /\ at[k - 1] = cell}
               IN  IF here = {} THEN con.screen[cell]
                   ELSE <<s[CHOOSE k \in here : \A j \in here : j <= k], Green>>
  <2> DEFINE here == {k \in 1 .. n : s[k] # NL /\ at[k - 1] = cell}
             H(i) == Hit(f, s, cell, i)
             last == CHOOSE k \in here : \A j \in here : j <= k
  <2>1. here = {k \in 1 .. n : H(k)}
    <3>1. \A k \in 1 .. n : k - 1 \in 0 .. n
      BY <1>2
    <3>2. \A k \in 1 .. n : at[k - 1] = <<f[k - 1].y, f[k - 1].x>>
      BY <1>3, <3>1
    <3> HIDE DEF at
    <3> QED
      BY <3>2 DEF Hit
  <2>2. Shows(con', con, f, s, cell, n)
    <3>1. n \in 0 .. n
      BY <1>2
    <3> QED
      BY <1>1, <1>2, <3>1, CellAt
  <2> HIDE DEF here, n
  <2>3. CASE (\A i \in 1 .. n : ~H(i)) /\ con'.screen[cell] = con.screen[cell]
    <3>1. here = {}
      BY <2>1, <2>3
    <3> QED
      BY <2>3, <3>1 DEF here
  <2>4. CASE \E m \in 1 .. n : /\ H(m) /\ \A i \in 1 .. n : H(i) => i <= m
                               /\ con'.screen[cell] = <<s[m], Green>>
    <3>1. PICK m \in 1 .. n : /\ H(m) /\ \A i \in 1 .. n : H(i) => i <= m
                              /\ con'.screen[cell] = <<s[m], Green>>
      BY <2>4
    <3>2. m \in here /\ \A j \in here : j <= m /\ j \in Int
      BY <2>1, <3>1
    <3>3. last = m
      <4>1. last \in here /\ \A j \in here : j <= last
        BY ONLY <3>2
      <4> HIDE DEF last
      <4> QED
        BY ONLY <3>2, <4>1
    <3> HIDE DEF last
    <3>4. con'.screen[cell] = <<s[last], Green>> /\ here # {}
      BY <3>1, <3>2, <3>3
    <3> QED
      BY <3>4 DEF last, here
  <2> QED
    BY <2>2, <2>3, <2>4 DEF Shows
<1>5. <<con'.y, con'.x>> = at[n]
  <2>1. n \in 0 .. n
    BY <1>2
  <2> HIDE DEF at, n
  <2>2. at[n] = <<f[n].y, f[n].x>>
    BY <1>3, <2>1
  <2> QED
    BY ONLY <1>2, <2>2
<1> HIDE DEF at
<1> QED
  BY <1>4, <1>5 DEF ShowsText, at, n

(* The bytes of a buffer are characters. *)
LEMMA BytesRead ==
    ASSUME NEW a \in Int, NEW n \in Nat
    PROVE  /\ Bytes(a, n) \in Seq(Shown) /\ Len(Bytes(a, n)) = n
           /\ \A k \in 1 .. n : Bytes(a, n)[k] = Memory[a + k - 1]
<1> DEFINE m == [k \in 1 .. n |-> Memory[a + k - 1]]
<1>1. Bytes(a, n) = m
  BY DEF Bytes
<1>2. \A k \in 1 .. n : Memory[a + k - 1] \in Shown
  <2> SUFFICES ASSUME NEW k \in 1 .. n PROVE Memory[a + k - 1] \in Byte
    BY DEF Shown
  <2>1. a + k - 1 \in Int
    OBVIOUS
  <2> QED
    BY <2>1 DEF Byte
<1>3. m \in Seq(Shown) /\ Len(m) = n /\ \A k \in 1 .. n : m[k] = Memory[a + k - 1]
  BY <1>2
<1> HIDE DEF m
<1> QED
  BY <1>1, <1>3

(* The full units of a loop, and what is left for the last one. *)
LEMMA WholeUnits ==
    ASSUME NEW left \in Nat, NEW unit \in Nat \ {0}
    PROVE  /\ Whole(left, unit) \in Nat
           /\ Whole(left, unit) * unit \in 0 .. left
<1> DEFINE q == (left - 1) \div unit
           r == (left - 1) % unit
<1>1. CASE left > unit
  <2>1. left - 1 \in Nat /\ Whole(left, unit) = q
    BY <1>1 DEF Whole
  <2>2. q \in Nat /\ r \in 0 .. unit - 1 /\ left - 1 = unit * q + r
    BY <2>1, Divide
  <2> HIDE DEF q, r
  <2>3. unit * q = q * unit /\ unit * q \in Nat
    BY <2>2
  <2> DEFINE w == q * unit
  <2>4. left - 1 = w + r /\ w \in Nat
    BY <2>2, <2>3
  <2>5. w \in 0 .. left
    <3> HIDE DEF w
    <3> QED
      BY <2>2, <2>4
  <2> QED
    BY <2>1, <2>2, <2>5
<1>2. CASE ~(left > unit)
  BY <1>2 DEF Whole
<1> QED
  BY <1>1, <1>2

(* The copy has the bytes of the buffer, words or not. *)
LEMMA CopyIs ==
    ASSUME NEW a \in Int, NEW n \in Nat
    PROVE  copy_from_user(a, n) = Bytes(a, n)
<1> DEFINE w == Whole(n, WORD) * WORD
           u == Bytes(a, w) \o Bytes(a + w, n - w)
           B == Bytes(a, n)
           P == Bytes(a, w)
           Q == Bytes(a + w, n - w)
<1>1. w \in 0 .. n
  BY ScreenAssumption, WholeUnits
<1>2. copy_from_user(a, n) = u
  BY DEF copy_from_user
<1> HIDE DEF w
<1>3. w \in Nat /\ n - w \in Nat /\ a + w \in Int
  BY <1>1
<1>4. /\ P \in Seq(Shown) /\ Len(P) = w /\ \A k \in 1 .. w : P[k] = Memory[a + k - 1]
      /\ Q \in Seq(Shown) /\ Len(Q) = n - w
      /\ \A k \in 1 .. n - w : Q[k] = Memory[a + w + k - 1]
      /\ B \in Seq(Shown) /\ Len(B) = n /\ \A k \in 1 .. n : B[k] = Memory[a + k - 1]
  BY <1>3, BytesRead
<1>5. u = P \o Q
  OBVIOUS
<1> HIDE DEF u, B, P, Q
<1>6. /\ u \in Seq(Shown) /\ Len(u) = Len(P) + Len(Q)
      /\ \A i \in 1 .. Len(P) + Len(Q) : u[i] = IF i <= Len(P) THEN P[i] ELSE Q[i - Len(P)]
  <2>1. P \in Seq(Shown) /\ Q \in Seq(Shown)
    BY <1>4
  <2> QED
    BY ONLY <1>5, <2>1, JoinTwo
<1>7. Len(u) = n
  BY <1>1, <1>4, <1>6
<1>8. ASSUME NEW i \in 1 .. n PROVE u[i] = B[i]
  <2>1. u[i] = IF i <= w THEN P[i] ELSE Q[i - w]
    BY <1>1, <1>4, <1>6
  <2>2. CASE i <= w
    <3>1. i \in 1 .. w
      BY <1>1, <2>2
    <3> QED
      BY ONLY <1>4, <2>1, <2>2, <3>1, i \in 1 .. n
  <2>3. CASE ~(i <= w)
    <3>1. i - w \in 1 .. n - w /\ a + w + (i - w) - 1 = a + i - 1
      BY <1>1, <2>3
    <3>2. Q[i - w] = Memory[a + w + (i - w) - 1]
      BY <1>4, <3>1
    <3> QED
      BY <1>4, <2>1, <2>3, <3>1, <3>2
  <2> QED
    BY <2>2, <2>3
<1>9. u = B
  <2>1. u \in Seq(Shown) /\ B \in Seq(Shown) /\ Len(u) = n /\ Len(B) = n
    BY <1>4, <1>6, <1>7
  <2>2. u = [i \in 1 .. n |-> u[i]] /\ B = [i \in 1 .. n |-> B[i]]
    BY ONLY <2>1
  <2> QED
    BY ONLY <1>8, <2>2
<1> QED
  BY <1>2, <1>9 DEF B

(* The bytes before block j + 1. *)
Start(size, j) == IF j <= Whole(size, TAM_BUFFER) THEN j * TAM_BUFFER ELSE size

(* The blocks follow each other, from the start of the buffer to its end. *)
LEMMA BlockAt ==
    ASSUME NEW addr \in Int, NEW size \in Nat
    PROVE  /\ Len(Blocks(addr, size)) = Whole(size, TAM_BUFFER) + 1
           /\ Len(Blocks(addr, size)) \in Nat \ {0}
           /\ Start(size, 0) = 0 /\ Start(size, Len(Blocks(addr, size))) = size
           /\ \A j \in 0 .. Len(Blocks(addr, size)) - 1 :
                 /\ Blocks(addr, size)[j + 1].at = addr + Start(size, j)
                 /\ Blocks(addr, size)[j + 1].size = Start(size, j + 1) - Start(size, j)
                 /\ Start(size, j) \in Nat /\ Start(size, j + 1) \in Start(size, j) .. size
<1> DEFINE T == TAM_BUFFER
           full == Whole(size, T)
           bs == [k \in 1 .. full + 1 |-> [at |-> addr + (k - 1) * T,
                                           size |-> IF k <= full THEN T ELSE size - full * T]]
<1>1. T \in Nat \ {0} /\ full \in Nat /\ full * T \in 0 .. size
  BY ScreenAssumption, WholeUnits
<1>2. Blocks(addr, size) = bs
  BY DEF Blocks
<1>3. Len(bs) = full + 1 /\ full + 1 \in Nat \ {0}
  BY <1>1
<1>4. Start(size, 0) = 0 /\ Start(size, full + 1) = size
  <2>1. 0 <= full /\ ~(full + 1 <= full) /\ 0 * T = 0
    BY <1>1
  <2> QED
    BY <2>1 DEF Start
<1>5. ASSUME NEW j \in 0 .. full
      PROVE  /\ bs[j + 1].at = addr + Start(size, j)
             /\ bs[j + 1].size = Start(size, j + 1) - Start(size, j)
             /\ Start(size, j) \in Nat /\ Start(size, j + 1) \in Start(size, j) .. size
  <2>1. j + 1 \in 1 .. full + 1 /\ (j + 1) - 1 = j /\ j \in Nat
    BY <1>1
  <2>2. bs[j + 1].at = addr + j * T /\ bs[j + 1].size = IF j + 1 <= full THEN T ELSE size - full * T
    BY <2>1
  <2>3. Start(size, j) = j * T
    BY <1>1 DEF Start
  <2> DEFINE w == j * T
             v == (j + 1) * T
             z == full * T
  <2>4. w \in Nat /\ v = w + T
    BY <1>1, <2>1
  <2>5. j + 1 <= full => v <= z
    BY <1>1, <2>1
  <2>6. j + 1 <= full => Start(size, j + 1) = v
    BY DEF Start
  <2>7. ~(j + 1 <= full) => Start(size, j + 1) = size /\ z = w
    <3>1. ~(j + 1 <= full) => j = full
      BY <1>1, <2>1
    <3> QED
      BY <3>1 DEF Start
  <2>8. z \in 0 .. size /\ T \in Nat
    BY <1>1
  <2> HIDE DEF w, v, z, T, bs
  <2>9. bs[j + 1].at = addr + w /\ bs[j + 1].size = IF j + 1 <= full THEN T ELSE size - z
    BY <2>2 DEF w, z
  <2>10. Start(size, j) = w
    BY <2>3 DEF w
  <2> QED
    BY ONLY size \in Nat, <2>4, <2>5, <2>6, <2>7, <2>8, <2>9, <2>10
<1> HIDE DEF bs
<1>6. full + 1 - 1 = full
  BY <1>1
<1> QED
  BY <1>1, <1>2, <1>3, <1>4, <1>5, <1>6

(* Printing goes on where it stopped. *)
LEMMA PrintsOn ==
    ASSUME NEW c \in Consoles, NEW addr \in Int, NEW size \in Nat, NEW f,
           Prints(f, c, Bytes(addr, size)),
           NEW i \in Nat, NEW j \in i .. size
    PROVE  /\ f[i] \in Consoles
           /\ printk(f[i], Bytes(addr + i, j - i)) = f[j]
<1> DEFINE m == j - i
           t == Bytes(addr + i, m)
           h == [k \in 0 .. m |-> f[i + k]]
<1>1. /\ \A k \in 0 .. size : f[k] \in Consoles
      /\ \A k \in 1 .. size : f[k] = printc(f[k - 1], Memory[addr + k - 1])
  <2> DEFINE s == Bytes(addr, size)
  <2>1. Len(s) = size /\ \A k \in 1 .. size : s[k] = Memory[addr + k - 1]
    BY BytesRead
  <2>2. /\ \A k \in 0 .. Len(s) : f[k] \in Consoles
        /\ \A k \in 1 .. Len(s) : f[k] = printc(f[k - 1], s[k])
    BY DEF Prints
  <2> HIDE DEF s
  <2> QED
    BY <2>1, <2>2
<1>2. m \in Nat /\ i + m = j /\ i + 0 = i /\ addr + i \in Int /\ i \in 0 .. size
  OBVIOUS
<1>3. t \in Seq(Shown) /\ Len(t) = m /\ \A k \in 1 .. m : t[k] = Memory[addr + i + k - 1]
  BY <1>2, BytesRead
<1>4. /\ \A k \in 0 .. m : i + k \in 0 .. size
      /\ \A k \in 1 .. m : /\ i + k \in 1 .. size /\ k - 1 \in 0 .. m /\ k \in 0 .. m
                           /\ (i + k) - 1 = i + (k - 1)
                           /\ addr + (i + k) - 1 = addr + i + k - 1
  OBVIOUS
<1>5. h[0] = f[i] /\ h[m] = f[j]
  BY <1>2
<1>6. \A k \in 0 .. m : h[k] = f[i + k] /\ h[k] \in Consoles
  BY <1>1, <1>4
<1> HIDE DEF m, t, h
<1>7. ASSUME NEW k \in 1 .. m PROVE h[k] = printc(h[k - 1], t[k])
  <2>1. h[k] = f[i + k] /\ h[k - 1] = f[i + (k - 1)]
    BY <1>4, <1>6
  <2>2. f[i + k] = printc(f[(i + k) - 1], Memory[addr + (i + k) - 1])
    BY <1>1, <1>4
  <2>3. t[k] = Memory[addr + i + k - 1]
    BY <1>3
  <2>4. (i + k) - 1 = i + (k - 1) /\ addr + (i + k) - 1 = addr + i + k - 1
    BY <1>4
  <2> QED
    BY ONLY <2>1, <2>2, <2>3, <2>4
<1>8. Prints(h, f[i], t)
  BY <1>3, <1>5, <1>6, <1>7 DEF Prints
<1>9. f[i] \in Consoles
  BY <1>1, <1>2
<1>10. printk(f[i], t) = h[Len(t)]
  BY ONLY <1>3, <1>8, <1>9, PrintkIs
<1> QED
  BY <1>3, <1>5, <1>9, <1>10 DEF t, m

(* Memory is readable if it is before and after any point. *)
LEMMA ReadableSplit ==
    ASSUME NEW lo \in Nat, NEW mid \in Nat, NEW hi \in Nat, lo <= mid, mid < hi
    PROVE  Readable(lo, hi) <=> Readable(lo, mid) /\ Readable(mid + 1, hi)
<1> DEFINE a == Page(lo)
           b == Page(mid)
           c == Page(mid + 1)
           d == Page(hi)
<1>1. PAGE_SIZE \in Nat \ {0} /\ mid + 1 \in mid .. mid + PAGE_SIZE /\ mid + 1 <= hi
  BY ScreenAssumption
<1>2. a \in Nat /\ b \in Nat /\ c \in Nat /\ d \in Nat /\ a <= b /\ c <= d
  BY <1>1, Divide, DivideMonotone DEF Page
<1>3. c \in {b, b + 1}
  BY <1>1, NextQuotient DEF Page
<1> HIDE DEF a, b, c, d
<1>4. a .. d = (a .. b) \cup (c .. d)
  BY <1>2, <1>3
<1> QED
  BY <1>4 DEF Readable, a, b, c, d

(* A block that is read is printed; one that is not stops the kernel. *)
LEMMA BlockWritten ==
    ASSUME NEW st \in Kernels, NEW b, b.at \in Nat, b.size \in Nat
    PROVE  /\ WriteBlock(st, b) \in Kernels
           /\ st.halted => WriteBlock(st, b) = st
           /\ ~st.halted /\ b.size = 0 => WriteBlock(st, b) = st
           /\ ~st.halted /\ ~WriteBlock(st, b).halted /\ b.size # 0
              => WriteBlock(st, b).con = printk(st.con, Bytes(b.at, b.size))
           /\ ~st.halted => (WriteBlock(st, b).halted <=>
                                b.size # 0 /\ ~Readable(b.at, b.at + b.size - 1))
<1> DEFINE a == b.at
           n == b.size
           w == WriteBlock(st, b)
<1>1. a \in Nat /\ n \in Nat /\ st.con \in Consoles /\ st.halted \in BOOLEAN
  BY DEF Kernels
<1>2. CASE st.halted \/ n = 0
  <2>1. w = st
    BY <1>2 DEF WriteBlock
  <2> QED
    BY <1>2, <2>1
<1>3. CASE ~(st.halted \/ n = 0) /\ Readable(a, a + n - 1)
  <2> DEFINE p == printk(st.con, Bytes(a, n))
  <2>1. copy_from_user(a, n) = Bytes(a, n)
    BY <1>1, CopyIs
  <2>2. Bytes(a, n) \in Seq(Shown)
    <3>1. a \in Int /\ n \in Nat
      BY <1>1
    <3> HIDE DEF a, n
    <3> QED
      BY ONLY <3>1, BytesRead
  <2>3. p \in Consoles
    BY <1>1, <2>2, PrintkPrints
  <2>4. w = [st EXCEPT !.con = printk(st.con, copy_from_user(a, n))]
    BY <1>3 DEF WriteBlock
  <2>5. w = [st EXCEPT !.con = p]
    BY <2>1, <2>4
  <2> HIDE DEF w, p
  <2>6. w \in Kernels /\ w.con = p /\ w.halted = FALSE
    BY <1>1, <1>3, <2>3, <2>5 DEF Kernels
  <2> QED
    BY <1>3, <2>6 DEF w, p
<1>4. CASE ~(st.halted \/ n = 0) /\ ~Readable(a, a + n - 1)
  <2>1. w = page_fault(st.con)
    BY <1>4 DEF WriteBlock
  <2>2. w \in Kernels /\ w.halted = TRUE
    BY <1>1, <2>1, PageFault
  <2> HIDE DEF w
  <2> QED
    BY <1>4, <2>2 DEF w
<1> QED
  BY <1>2, <1>3, <1>4

(* A write that comes to its end has printed its buffer as one text; it does if all of the
   buffer can be read. *)
LEMMA BlocksWritten ==
    ASSUME con \in Consoles, NEW addr \in Nat, NEW size \in Nat
    PROVE  /\ PrintBlocks(addr, size) \in Kernels
           /\ ~PrintBlocks(addr, size).halted
              => PrintBlocks(addr, size).con = printk(con, Bytes(addr, size))
           /\ PrintBlocks(addr, size).halted <=> size # 0 /\ ~Readable(addr, addr + size - 1)
<1> DEFINE b0 == [con |-> con, halted |-> FALSE]
           bs == Blocks(addr, size)
           n == Len(bs)
           S(j) == Start(size, j)
           end == PrintBlocks(addr, size)
           Bad(j) == S(j) # 0 /\ ~Readable(addr, addr + S(j) - 1)
<1>1. /\ n \in Nat \ {0} /\ S(0) = 0 /\ S(n) = size
      /\ \A j \in 0 .. n - 1 : /\ bs[j + 1].at = addr + S(j)
                               /\ bs[j + 1].size = S(j + 1) - S(j)
                               /\ S(j) \in Nat /\ S(j + 1) \in S(j) .. size
  <2>1. addr \in Int
    OBVIOUS
  <2> QED
    BY ONLY <2>1, size \in Nat, BlockAt
<1>2. b0 \in Kernels
  BY DEF Kernels
<1> HIDE DEF n, S
<1>3. ASSUME NEW st \in Kernels, NEW k \in 1 .. n PROVE WriteBlock(st, bs[k]) \in Kernels
  <2>1. k - 1 \in 0 .. n - 1 /\ k - 1 + 1 = k
    BY <1>1
  <2>2. bs[k].at = addr + S(k - 1) /\ bs[k].size = S(k) - S(k - 1)
        /\ S(k - 1) \in Nat /\ S(k) \in S(k - 1) .. size
    BY <1>1, <2>1
  <2> HIDE DEF bs
  <2>3. bs[k].at \in Nat /\ bs[k].size \in Nat
    BY <2>2
  <2> QED
    BY <2>3, BlockWritten
<1>4. PICK f : /\ f[0] = b0 /\ f[n] = end
               /\ \A k \in 0 .. n : f[k] \in Kernels
               /\ \A k \in 1 .. n : f[k] = WriteBlock(f[k - 1], bs[k])
  <2>1. Len(bs) \in Nat
    BY <1>1 DEF n
  <2>2. \A st \in Kernels, k \in 1 .. Len(bs) : WriteBlock(st, bs[k]) \in Kernels
    BY <1>3 DEF n
  <2>3. \E f : Writes(f, addr, size)
    BY ONLY con \in Consoles, <2>1, <2>2, ScanBlocks
  <2> QED
    BY <2>3 DEF Writes, n
<1>5. PICK p : /\ Prints(p, con, Bytes(addr, size))
               /\ printk(con, Bytes(addr, size)) = p[size]
  <2>1. Bytes(addr, size) \in Seq(Shown) /\ Len(Bytes(addr, size)) = size
    <3>1. addr \in Int
      OBVIOUS
    <3> QED
      BY ONLY <3>1, size \in Nat, BytesRead
  <2>2. \E p : Prints(p, con, Bytes(addr, size))
               /\ printk(con, Bytes(addr, size)) = p[Len(Bytes(addr, size))]
    BY <2>1, PrintkPrints
  <2> QED
    BY <2>1, <2>2
<1> HIDE DEF bs, b0, end
<1> DEFINE J(j) == /\ f[j].halted <=> Bad(j)
                   /\ ~f[j].halted => f[j].con = p[S(j)]
           T == {j \in 0 .. n : J(j)}
<1>6. 0 \in T
  <2>1. p[0] = con
    BY <1>5 DEF Prints
  <2> QED
    BY <1>1, <1>4, <2>1 DEF b0
<1>7. ASSUME NEW j \in 0 .. n - 1, j \in T PROVE j + 1 \in T
  <2> DEFINE st == f[j]
             b == bs[j + 1]
             w == WriteBlock(st, b)
  <2>1. j + 1 \in 1 .. n /\ j + 1 \in 0 .. n /\ j \in 0 .. n /\ j + 1 - 1 = j
    BY <1>1
  <2>2. /\ b.at = addr + S(j) /\ b.size = S(j + 1) - S(j)
        /\ S(j) \in Nat /\ S(j + 1) \in S(j) .. size
    BY <1>1
  <2>3. st \in Kernels /\ f[j + 1] = w
    BY <1>4, <2>1
  <2>4. (st.halted <=> Bad(j)) /\ (~st.halted => st.con = p[S(j)])
    BY <1>7
  <2> HIDE DEF b, st
  <2>5. b.at \in Nat /\ b.size \in Nat
    BY <2>2
  <2>6. /\ st.halted => w = st
        /\ ~st.halted /\ b.size = 0 => w = st
        /\ ~st.halted /\ ~w.halted /\ b.size # 0 => w.con = printk(st.con, Bytes(b.at, b.size))
        /\ ~st.halted => (w.halted <=> b.size # 0 /\ ~Readable(b.at, b.at + b.size - 1))
        /\ w.halted \in BOOLEAN
    BY <2>3, <2>5, BlockWritten DEF Kernels
  <2> HIDE DEF w
  <2>7. Bad(j + 1) <=> Bad(j) \/ (b.size # 0 /\ ~Readable(b.at, b.at + b.size - 1))
    <3>1. CASE b.size = 0
      <4>1. S(j + 1) = S(j)
        BY <2>2, <3>1
      <4> QED
        BY <3>1, <4>1
    <3>2. CASE b.size # 0 /\ S(j) = 0
      <4>1. b.at = addr /\ b.at + b.size - 1 = addr + S(j + 1) - 1 /\ S(j + 1) # 0
        BY <2>2, <3>2
      <4> QED
        BY <3>2, <4>1
    <3>3. CASE b.size # 0 /\ S(j) # 0
      <4> DEFINE mid == addr + S(j) - 1
                 hi == addr + S(j + 1) - 1
      <4>1. /\ mid \in Nat /\ hi \in Nat /\ addr <= mid /\ mid < hi /\ S(j + 1) # 0
            /\ b.at = mid + 1 /\ b.at + b.size - 1 = hi
        BY <2>2, <3>3
      <4> HIDE DEF mid, hi
      <4>2. Readable(addr, hi) <=> Readable(addr, mid) /\ Readable(mid + 1, hi)
        BY <4>1, ReadableSplit
      <4> QED
        BY <3>3, <4>1, <4>2 DEF mid, hi
    <3> QED
      BY <3>1, <3>2, <3>3
  <2> HIDE DEF Bad
  <2>8. CASE w.halted
    <3>1. Bad(j + 1)
      BY <2>4, <2>6, <2>7, <2>8
    <3> QED
      BY <2>1, <2>3, <2>8, <3>1
  <2>9. CASE ~w.halted
    <3>0. ~st.halted /\ ~Bad(j + 1)
      BY <2>4, <2>6, <2>7, <2>9
    <3>1. w.con = p[S(j + 1)]
      <4>1. CASE b.size = 0
        <5>1. S(j + 1) = S(j)
          BY <2>2, <4>1
        <5> QED
          BY <2>4, <2>6, <3>0, <4>1, <5>1
      <4>2. CASE b.size # 0
        <5>1. printk(p[S(j)], Bytes(addr + S(j), S(j + 1) - S(j))) = p[S(j + 1)]
          BY <1>5, <2>2, PrintsOn
        <5> QED
          BY <2>2, <2>4, <2>6, <2>9, <3>0, <4>2, <5>1
      <4> QED
        BY <4>1, <4>2
    <3> QED
      BY <2>1, <2>3, <2>9, <3>0, <3>1
  <2> QED
    BY <2>6, <2>8, <2>9
<1>8. 0 .. n \subseteq T
  <2> HIDE DEF T
  <2> QED
    BY <1>1, <1>6, <1>7, UpTo
<1>9. n \in 0 .. n
  BY <1>1
<1>10. J(n)
  BY <1>8, <1>9
<1>11. /\ end \in Kernels
       /\ end.halted <=> size # 0 /\ ~Readable(addr, addr + size - 1)
       /\ ~end.halted => end.con = p[size]
  BY <1>1, <1>4, <1>9, <1>10
<1> QED
  BY <1>5, <1>11 DEF end

(* The position of a cell in the matrix, and the cell at a position. *)
Index(cell) == cell[1] * NUM_COLUMNS + cell[2]

(* A position is of one cell, and a cell of one position. *)
LEMMA CellOf ==
    /\ NUM_ROWS * NUM_COLUMNS \in Nat \ {0}
    /\ \A k \in 0 .. NUM_ROWS * NUM_COLUMNS - 1 :
          /\ k % NUM_COLUMNS \in 0 .. NUM_COLUMNS - 1
          /\ k \div NUM_COLUMNS \in 0 .. NUM_ROWS - 1
          /\ \A cell \in Cells : cell = <<k \div NUM_COLUMNS, k % NUM_COLUMNS>> <=> Index(cell) = k
    /\ \A cell \in Cells : Index(cell) \in 0 .. NUM_ROWS * NUM_COLUMNS - 1
<1> DEFINE d == NUM_COLUMNS
           m == NUM_ROWS
<1>1. d \in Nat \ {0} /\ m \in Nat \ {0}
  BY ScreenAssumption
<1>2. Cells = (0 .. m - 1) \X (0 .. d - 1) /\ \A cell : Index(cell) = cell[1] * d + cell[2]
  BY DEF Cells, Index
<1> HIDE DEF d, m
<1>3. m * d \in Nat \ {0}
  BY <1>1
<1>4. ASSUME NEW i \in 0 .. m - 1, NEW j \in 0 .. d - 1
      PROVE  /\ i * d + j \in 0 .. m * d - 1
             /\ (i * d + j) \div d = i /\ (i * d + j) % d = j
  <2>1. i \in Nat
    BY <1>1
  <2>2. (i * d + j) \div d = i /\ (i * d + j) % d = j
    BY <1>1, <2>1, Quotient
  <2> DEFINE e == m - 1 - i
             x == i * d
             y == e * d
             z == m * d
  <2>3. e \in Nat /\ m = i + e + 1
    BY <1>1
  <2> HIDE DEF e
  <2>4. x \in Nat /\ y \in Nat /\ z = x + y + d
    BY <1>1, <2>1, <2>3
  <2> HIDE DEF x, y, z
  <2>5. x + j \in 0 .. z - 1
    BY <1>1, <2>4
  <2> QED
    BY <2>2, <2>5 DEF x, z
<1>5. ASSUME NEW k \in 0 .. m * d - 1
      PROVE  k % d \in 0 .. d - 1 /\ k \div d \in 0 .. m - 1 /\ k = (k \div d) * d + (k % d)
  <2> DEFINE q == k \div d
             r == k % d
  <2>1. k \in Nat
    BY <1>3
  <2>2. q \in Nat /\ r \in 0 .. d - 1 /\ k = d * q + r
    BY <1>1, <2>1, Divide
  <2> HIDE DEF q, r
  <2>3. d * q = q * d
    BY <1>1, <2>2
  <2>4. q < m
    <3> SUFFICES ASSUME m <= q PROVE FALSE
      BY <1>1, <2>2
    <3> DEFINE e == q - m
               x == m * d
               y == e * d
    <3>1. e \in Nat /\ q = m + e
      BY <1>1, <2>2
    <3> HIDE DEF e
    <3>2. d * q = x + y /\ x \in Nat /\ y \in Nat
      BY <1>1, <3>1
    <3>3. k <= x - 1
      BY <1>3
    <3> HIDE DEF x, y
    <3> QED
      BY <1>1, <2>2, <3>2, <3>3
  <2>5. q \in 0 .. m - 1
    BY <1>1, <2>2, <2>4
  <2> QED
    BY <2>2, <2>3, <2>5 DEF q, r
<1>6. \A cell \in Cells : /\ cell = <<cell[1], cell[2]>>
                          /\ cell[1] \in 0 .. m - 1 /\ cell[2] \in 0 .. d - 1
  BY <1>2
<1>7. ASSUME NEW k \in 0 .. m * d - 1, NEW cell \in Cells
      PROVE  cell = <<k \div d, k % d>> <=> Index(cell) = k
  <2> DEFINE i == cell[1]
             j == cell[2]
             q == k \div d
             r == k % d
  <2>1. i \in 0 .. m - 1 /\ j \in 0 .. d - 1 /\ cell = <<i, j>> /\ Index(cell) = i * d + j
    BY <1>2, <1>6
  <2>2. (i * d + j) \div d = i /\ (i * d + j) % d = j
    BY <1>4, <2>1
  <2>3. k = q * d + r
    BY <1>5
  <2>4. ASSUME Index(cell) = k PROVE cell = <<q, r>>
    <3>1. k = i * d + j
      BY <2>1, <2>4
    <3>2. q = i /\ r = j
      BY <2>2, <3>1
    <3> HIDE DEF i, j, q, r
    <3> QED
      BY <2>1, <3>2
  <2>5. ASSUME cell = <<q, r>> PROVE Index(cell) = k
    <3> HIDE DEF q, r
    <3>1. i = q /\ j = r
      BY <2>5
    <3> HIDE DEF i, j
    <3> QED
      BY <2>1, <2>3, <3>1
  <2> QED
    BY <2>4, <2>5
<1>8. \A cell \in Cells : Index(cell) \in 0 .. m * d - 1
  BY <1>2, <1>4, <1>6
<1> QED
  BY <1>3, <1>5, <1>7, <1>8 DEF m, d

(* One step of the loops of sys_dump_screen: the cell at k is drawn, unless its character is a
   newline or its page is not mapped. *)
LEMMA CellDrawn ==
    ASSUME NEW st \in Kernels, NEW addr \in Int, NEW k \in 0 .. NUM_ROWS * NUM_COLUMNS - 1
    PROVE  /\ Draw(addr, st, k) \in Kernels
           /\ Draw(addr, st, k).halted <=>
                 st.halted \/ ~Readable(addr + 2 * k, addr + 2 * k + 1)
           /\ ~st.halted /\ ~Draw(addr, st, k).halted =>
                 /\ Draw(addr, st, k).con.x = st.con.x
                 /\ Draw(addr, st, k).con.y = st.con.y
                 /\ \A cell \in Cells : Draw(addr, st, k).con.screen[cell] =
                       IF Index(cell) = k /\ Short(addr, k)[1] # NL THEN Short(addr, k)
                       ELSE st.con.screen[cell]
<1> DEFINE w == Draw(addr, st, k)
           mx == k % NUM_COLUMNS
           my == k \div NUM_COLUMNS
           cc == Short(addr, k)
           R == Readable(addr + 2 * k, addr + 2 * k + 1)
           d == printcc_xy(st.con, mx, my, cc)
<1>1. st.con \in Consoles /\ st.halted \in BOOLEAN
  BY DEF Kernels
<1>2. mx \in 0 .. NUM_COLUMNS - 1 /\ my \in 0 .. NUM_ROWS - 1
      /\ \A cell \in Cells : cell = <<my, mx>> <=> Index(cell) = k
  BY CellOf
<1>3. cc \in Shown \X Shown
  <2>1. k \in Int /\ addr + 2 * k \in Int /\ addr + 2 * k + 1 \in Int
    BY CellOf
  <2>2. Memory[addr + 2 * k] \in Shown /\ Memory[addr + 2 * k + 1] \in Shown
    BY <2>1 DEF Shown, Byte
  <2> QED
    BY <2>2 DEF Short
<1>4. w = IF st.halted THEN st ELSE IF R THEN [st EXCEPT !.con = d] ELSE page_fault(st.con)
  BY DEF Draw
<1> HIDE DEF w, mx, my, cc, R
<1>5. /\ d \in Consoles /\ d.x = st.con.x /\ d.y = st.con.y
      /\ \A cell \in Cells :
            d.screen[cell] = IF cell = <<my, mx>> /\ cc[1] # NL THEN cc ELSE st.con.screen[cell]
  BY ONLY <1>1, <1>2, <1>3, PrintccXy
<1> HIDE DEF d
<1>6. CASE st.halted
  <2>1. w = st
    BY <1>4, <1>6
  <2> QED
    BY <1>6, <2>1 DEF w
<1>7. CASE ~st.halted /\ R
  <2>1. w \in Kernels /\ w.con = d /\ w.halted = FALSE
    BY <1>1, <1>4, <1>5, <1>7 DEF Kernels
  <2>2. \A cell \in Cells : w.con.screen[cell] =
           IF Index(cell) = k /\ cc[1] # NL THEN cc ELSE st.con.screen[cell]
    BY <1>2, <1>5, <2>1
  <2> QED
    BY <1>5, <1>7, <2>1, <2>2 DEF w, cc, R
<1>8. CASE ~st.halted /\ ~R
  <2>1. w = page_fault(st.con)
    BY <1>4, <1>8
  <2>2. w \in Kernels /\ w.halted = TRUE
    BY <1>1, <2>1, PageFault
  <2> QED
    BY <1>8, <2>2 DEF w, R
<1> QED
  BY <1>6, <1>7, <1>8

(* A dump that comes to its end has drawn the matrix and left the cursor; it does if all of the
   matrix can be read. *)
LEMMA MatrixDrawn ==
    ASSUME con \in Consoles, NEW addr \in Nat
    PROVE  /\ DrawMatrix(addr) \in Kernels
           /\ ~DrawMatrix(addr).halted =>
                 /\ DrawMatrix(addr).con.x = con.x
                 /\ DrawMatrix(addr).con.y = con.y
                 /\ \A cell \in Cells : DrawMatrix(addr).con.screen[cell] =
                       IF Short(addr, Index(cell))[1] # NL THEN Short(addr, Index(cell))
                       ELSE con.screen[cell]
           /\ DrawMatrix(addr).halted <=>
                 ~Readable(addr, addr + 2 * (NUM_ROWS * NUM_COLUMNS) - 1)
<1> DEFINE b0 == [con |-> con, halted |-> FALSE]
           n == NUM_ROWS * NUM_COLUMNS
           is == Matrix
           end == DrawMatrix(addr)
           R(k) == Readable(addr + 2 * k, addr + 2 * k + 1)
           Bad(j) == j # 0 /\ ~Readable(addr, addr + 2 * j - 1)
<1>1. n \in Nat \ {0} /\ \A cell \in Cells : Index(cell) \in 0 .. n - 1
  BY CellOf
<1> HIDE DEF n
<1>2. Len(is) = n /\ \A k \in 1 .. n : is[k] = k - 1
  <2>1. is = [k \in 1 .. n |-> k - 1]
    BY DEF Matrix, n
  <2> HIDE DEF is
  <2> QED
    BY <1>1, <2>1
<1>3. b0 \in Kernels
  BY DEF Kernels
<1>4. ASSUME NEW st \in Kernels, NEW k \in 1 .. n PROVE Draw(addr, st, is[k]) \in Kernels
  <2>1. k - 1 \in 0 .. n - 1 /\ is[k] = k - 1
    BY <1>1, <1>2
  <2> HIDE DEF is
  <2>2. Draw(addr, st, k - 1) \in Kernels
    BY <2>1, CellDrawn DEF n
  <2> QED
    BY <2>1, <2>2
<1>5. PICK f : /\ f[0] = b0 /\ f[n] = end
               /\ \A k \in 0 .. n : f[k] \in Kernels
               /\ \A k \in 1 .. n : f[k] = Draw(addr, f[k - 1], is[k])
  <2>1. Len(is) \in Nat
    BY <1>1, <1>2
  <2>2. \A st \in Kernels, k \in 1 .. Len(is) : Draw(addr, st, is[k]) \in Kernels
    BY <1>2, <1>4
  <2>3. Len(is) = n
    BY <1>2
  <2>4. \E f : Draws(f, addr)
    <3>1. /\ Len(Matrix) \in Nat
          /\ \A st \in Kernels, k \in 1 .. Len(Matrix) : Draw(addr, st, Matrix[k]) \in Kernels
      BY <2>1, <2>2
    <3> QED
      BY ONLY con \in Consoles, <3>1, ScanMatrix
  <2> QED
    BY <2>3, <2>4 DEF Draws
<1> HIDE DEF is, b0, end, R
<1> DEFINE cc(cell) == Short(addr, Index(cell))
           J(j) == /\ f[j].halted <=> Bad(j)
                   /\ ~f[j].halted =>
                        /\ f[j].con.x = con.x /\ f[j].con.y = con.y
                        /\ \A cell \in Cells : f[j].con.screen[cell] =
                              IF Index(cell) < j /\ cc(cell)[1] # NL THEN cc(cell)
                              ELSE con.screen[cell]
           T == {j \in 0 .. n : J(j)}
<1>6. 0 \in T
  <2>1. f[0].con = con /\ f[0].halted = FALSE
    BY <1>5 DEF b0
  <2>2. \A cell \in Cells : ~(Index(cell) < 0)
    BY <1>1
  <2>3. J(0)
    BY <2>1, <2>2
  <2> QED
    BY <1>1, <2>3
<1>7. ASSUME NEW j \in 0 .. n - 1, j \in T PROVE j + 1 \in T
  <2> DEFINE st == f[j]
             w == Draw(addr, st, j)
  <2>1. j + 1 \in 1 .. n /\ j + 1 \in 0 .. n /\ j \in 0 .. n /\ j + 1 - 1 = j
    BY <1>1
  <2>2. st \in Kernels /\ f[j + 1] = w
    BY <1>2, <1>5, <2>1
  <2>3. J(j)
    BY <1>7
  <2> HIDE DEF st
  <2>4. /\ w.halted <=> st.halted \/ ~R(j)
        /\ ~st.halted /\ ~w.halted =>
              /\ w.con.x = st.con.x /\ w.con.y = st.con.y
              /\ \A cell \in Cells : w.con.screen[cell] =
                    IF Index(cell) = j /\ Short(addr, j)[1] # NL THEN Short(addr, j)
                    ELSE st.con.screen[cell]
    BY <2>2, CellDrawn DEF n, R
  <2> HIDE DEF w
  <2>5. w.halted <=> Bad(j + 1)
    <3>1. CASE j = 0
      <4>1. addr + 2 * j = addr /\ addr + 2 * j + 1 = addr + 2 * (j + 1) - 1 /\ j + 1 # 0
        BY <3>1
      <4> QED
        BY <2>3, <2>4, <3>1, <4>1 DEF st, R
    <3>2. CASE j # 0
      <4> DEFINE mid == addr + 2 * j - 1
                 hi == addr + 2 * (j + 1) - 1
      <4>1. /\ mid \in Nat /\ hi \in Nat /\ addr <= mid /\ mid < hi /\ j + 1 # 0
            /\ addr + 2 * j = mid + 1 /\ addr + 2 * j + 1 = hi
        BY <1>1, <3>2
      <4> HIDE DEF mid, hi
      <4>2. Readable(addr, hi) <=> Readable(addr, mid) /\ Readable(mid + 1, hi)
        BY <4>1, ReadableSplit
      <4>3. st.halted <=> ~Readable(addr, mid)
        BY <2>3, <3>2 DEF st, mid
      <4>4. R(j) <=> Readable(mid + 1, hi)
        BY <4>1 DEF R
      <4>5. Bad(j + 1) <=> ~Readable(addr, hi)
        BY <4>1 DEF hi
      <4> QED
        BY <2>4, <4>2, <4>3, <4>4, <4>5
    <3> QED
      BY <3>1, <3>2
  <2>6. ASSUME ~w.halted
        PROVE  /\ w.con.x = con.x /\ w.con.y = con.y
               /\ \A cell \in Cells : w.con.screen[cell] =
                     IF Index(cell) < j + 1 /\ cc(cell)[1] # NL THEN cc(cell)
                     ELSE con.screen[cell]
    <3>1. ~st.halted
      BY <2>4, <2>6
    <3>2. /\ st.con.x = con.x /\ st.con.y = con.y
          /\ \A cell \in Cells : st.con.screen[cell] =
                IF Index(cell) < j /\ cc(cell)[1] # NL THEN cc(cell) ELSE con.screen[cell]
      BY <2>3, <3>1 DEF st
    <3>3. w.con.x = con.x /\ w.con.y = con.y
      BY <2>4, <2>6, <3>1, <3>2
    <3>4. ASSUME NEW cell \in Cells
          PROVE  w.con.screen[cell] =
                     IF Index(cell) < j + 1 /\ cc(cell)[1] # NL THEN cc(cell)
                     ELSE con.screen[cell]
      <4> DEFINE v == w.con.screen[cell]
                 u == st.con.screen[cell]
                 i == Index(cell)
      <4>1. v = IF i = j /\ Short(addr, j)[1] # NL THEN Short(addr, j) ELSE u
        BY <2>4, <2>6, <3>1
      <4>2. u = IF i < j /\ cc(cell)[1] # NL THEN cc(cell) ELSE con.screen[cell]
        BY <3>2
      <4>3. i \in Int /\ (i < j + 1 <=> i < j \/ i = j) /\ ~(i < j /\ i = j)
        BY <1>1
      <4>4. i = j => cc(cell) = Short(addr, j)
        OBVIOUS
      <4> HIDE DEF v, u, i, cc
      <4>5. v = IF i < j + 1 /\ cc(cell)[1] # NL THEN cc(cell) ELSE con.screen[cell]
        BY ONLY <4>1, <4>2, <4>3, <4>4
      <4> QED
        BY <4>5 DEF v, i
    <3> QED
      BY <3>3, <3>4
  <2>7. J(j + 1)
    BY <2>2, <2>5, <2>6
  <2> QED
    BY <2>1, <2>7
<1>8. 0 .. n \subseteq T
  <2> HIDE DEF T
  <2> QED
    BY <1>1, <1>6, <1>7, UpTo
<1>9. J(n) /\ n \in 0 .. n
  BY <1>1, <1>8
<1>10. \A cell \in Cells : Index(cell) < n
  BY <1>1
<1>11. end \in Kernels /\ end = f[n]
  BY <1>5, <1>9
<1> HIDE DEF cc
<1>12. /\ end.halted <=> ~Readable(addr, addr + 2 * n - 1)
       /\ ~end.halted =>
            /\ end.con.x = con.x /\ end.con.y = con.y
            /\ \A cell \in Cells : end.con.screen[cell] =
                  IF cc(cell)[1] # NL THEN cc(cell) ELSE con.screen[cell]
  BY <1>1, <1>9, <1>10, <1>11
<1> QED
  BY <1>11, <1>12 DEF end, cc, n

(* A buffer that access_ok accepts does not wrap around, and ends in the page after the data
   at the latest. *)
LEMMA Accepted ==
    ASSUME NEW addr \in Buffers, NEW size \in Sizes, size > 0, access_ok(addr, size)
    PROVE  Page(addr) >= USER_FIRST_PAGE /\ Page(addr + size - 1) <= DataEnd
<1> DEFINE A == ADDRESSES
           d == PAGE_SIZE
           e == addr + size
           w == e % A
<1>1. /\ d \in Nat \ {0} /\ A \in Nat \ {0} /\ 2 * d <= A
      /\ addr \in 0 .. A - 1 /\ size \in Int /\ 2 * size < A /\ size > 0
      /\ DataEnd \in Nat
  BY ScreenAssumption DEF DataStart, DataEnd
<1>2. w \div d >= addr \div d /\ addr \div d >= USER_FIRST_PAGE /\ w \div d <= DataEnd
  BY DEF access_ok, Page
<1>3. e \in 0 .. 2 * A - 1 /\ e - 1 \in Nat /\ e \in Nat
  BY <1>1
<1>4. w = IF e < A THEN e ELSE e - A
  <2> HIDE DEF A, e
  <2> QED
    BY ONLY <1>1, <1>3, RemainderBelow
<1>5. CASE e < A
  <2>1. w = e
    BY <1>4, <1>5
  <2> HIDE DEF w
  <2>2. e - 1 <= e
    BY <1>3
  <2> HIDE DEF e
  <2>3. (e - 1) \div d <= e \div d /\ (e - 1) \div d \in Nat /\ e \div d \in Nat
    BY ONLY <1>1, <1>3, <2>2, Divide, DivideMonotone
  <2>4. (e - 1) \div d <= DataEnd
    BY ONLY <1>1, <1>2, <2>1, <2>3
  <2>5. addr + size - 1 = e - 1
    BY <1>1 DEF e
  <2> HIDE DEF d
  <2>6. Page(addr + size - 1) = (e - 1) \div d /\ Page(addr) = addr \div d
    BY ONLY <2>5, Zenon DEF Page, d
  <2> QED
    BY <1>2, <2>4, <2>6
<1>6. CASE ~(e < A)
  <2>1. w \in Nat /\ w + d <= addr /\ addr \in Nat
    BY <1>1, <1>3, <1>4, <1>6
  <2> HIDE DEF w, d
  <2>2. w \div d < addr \div d /\ w \div d \in Nat /\ addr \div d \in Nat
    BY ONLY <1>1, <2>1, Divide, DivideLess
  <2> QED
    BY ONLY <1>2, <2>2
<1> QED
  BY <1>5, <1>6

(* A matrix whose first page is mapped can be read if the page of its last byte is. *)
LEMMA MatrixReadable ==
    ASSUME NEW addr \in Nat, DumpOk(addr)
    PROVE  LET last == addr + 2 * (NUM_ROWS * NUM_COLUMNS) - 1
           IN  Readable(addr, last) <=> Page(last) \in mapped
<1> DEFINE n == NUM_ROWS * NUM_COLUMNS
           last == addr + 2 * n - 1
           q == Page(addr)
<1>1. n \in Nat \ {0} /\ 2 * n <= PAGE_SIZE /\ PAGE_SIZE \in Nat \ {0}
  <2>1. n = NUM_COLUMNS * NUM_ROWS
    BY ScreenAssumption
  <2> QED
    BY <2>1, CellOf, ScreenAssumption
<1> HIDE DEF n
<1>2. last \in addr .. addr + PAGE_SIZE
  BY <1>1
<1> HIDE DEF last
<1>3. Page(last) \in {q, q + 1} /\ q \in Nat
  BY <1>1, <1>2, NextQuotient, Divide DEF Page
<1>4. q \in mapped /\ q >= DataStart /\ DataStart \in Nat
  BY <1>3, ScreenAssumption DEF DumpOk, Lid, DataStart, DataEnd
<1> HIDE DEF q
<1>5. Readable(addr, last) <=> \A p \in q .. Page(last) : p \in mapped
  BY <1>3, <1>4 DEF Readable, q
<1>6. Readable(addr, last) <=> Page(last) \in mapped
  BY <1>3, <1>4, <1>5
<1> QED
  BY <1>6 DEF last, n

(* The cursor is on the screen, and the screen shows characters. *)
ConsoleInv == con \in Consoles

(* A call that is not refused. *)
LEMMA WriteStep ==
    ASSUME NEW addr, NEW size \in Int, size >= 0, access_ok(addr, size), sys_write(1, addr, size)
    PROVE  con' = PrintBlocks(addr, size).con /\ halted' = PrintBlocks(addr, size).halted
<1>1. check_fd(1) = 0
  BY DEF check_fd
<1>2. Refused(1, addr, size) = 0
  BY <1>1 DEF Refused
<1> QED
  BY <1>2 DEF sys_write

(* The cursor and the screen after any number of calls. *)
THEOREM CursorStaysOnScreen == ConsoleSpec => []ConsoleInv
<1>1. ConsoleInit => ConsoleInv
  <2> SUFFICES ASSUME ConsoleInit PROVE con \in Consoles
    BY DEF ConsoleInv
  <2>1. Blank \in Shades
    BY DEF Shades
  <2>2. 0 \in 0 .. NUM_COLUMNS - 1 /\ INIT_ROW \in 0 .. NUM_ROWS - 1
    BY ScreenAssumption
  <2> QED
    BY <2>1, <2>2 DEF ConsoleInit, Consoles
<1>2. ConsoleInv /\ [ConsoleNext]_convars => ConsoleInv'
  <2> SUFFICES ASSUME con \in Consoles, [ConsoleNext]_convars PROVE con' \in Consoles
    BY DEF ConsoleInv
  <2>1. ASSUME NEW fd \in {0, 1}, NEW addr \in Buffers, NEW size \in Sizes,
               sys_write(fd, addr, size)
        PROVE  con' \in Consoles
    <3>1. CASE Refused(fd, addr, size) # 0
      BY <2>1, <3>1 DEF sys_write
    <3>2. CASE Refused(fd, addr, size) = 0
      <4>1. addr \in Nat /\ size \in Nat
        <5>1. size \in Int /\ addr \in Nat
          BY ScreenAssumption
        <5>2. ~(size < 0)
          BY <3>2 DEF Refused, check_fd, EBADF, EINVAL
        <5> QED
          BY <5>1, <5>2
      <4>2. con' = PrintBlocks(addr, size).con
        BY <2>1, <3>2 DEF sys_write
      <4>3. PrintBlocks(addr, size) \in Kernels
        BY <4>1, BlocksWritten
      <4> QED
        BY <4>2, <4>3 DEF Kernels
    <3> QED
      BY <3>1, <3>2
  <2>2. ASSUME NEW addr \in Buffers, sys_dump_screen(addr)
        PROVE  con' \in Consoles
    <3>1. CASE ~DumpOk(addr)
      BY <2>2, <3>1 DEF sys_dump_screen
    <3>2. CASE DumpOk(addr)
      <4>1. addr \in Nat
        BY ScreenAssumption
      <4>2. con' = DrawMatrix(addr).con
        BY <2>2, <3>2 DEF sys_dump_screen
      <4>3. DrawMatrix(addr) \in Kernels
        BY <4>1, MatrixDrawn
      <4> QED
        BY <4>2, <4>3 DEF Kernels
    <3> QED
      BY <3>1, <3>2
  <2>3. CASE Remap
    BY <2>3 DEF Remap
  <2>4. CASE UNCHANGED convars
    BY <2>4 DEF convars
  <2> QED
    BY <2>1, <2>2, <2>3, <2>4 DEF ConsoleNext
<1> QED
  BY <1>1, <1>2, PTL DEF ConsoleSpec

(* A write that returns has printed its buffer, each byte once and in order, whatever the
   sizes of the blocks, of the words and of the screen (sys.c:171-183, utils.c:22-37). *)
THEOREM WritePrintsBuffer == ConsoleSpec => WritesWholeBuffer
<1> DEFINE A == \A addr \in Buffers, size \in Sizes :
                   (/\ result' = size /\ size >= 0 /\ ~halted' /\ access_ok(addr, size)
                    /\ sys_write(1, addr, size)) => ShowsText(Bytes(addr, size))
<1>1. ConsoleInv /\ [ConsoleNext]_convars => [A]_convars
  <2> SUFFICES ASSUME con \in Consoles, NEW addr \in Buffers, NEW size \in Sizes,
                      size >= 0, ~halted', access_ok(addr, size), sys_write(1, addr, size)
               PROVE  ShowsText(Bytes(addr, size))
    BY DEF ConsoleInv
  <2>1. addr \in Nat /\ size \in Nat /\ addr \in Int /\ size \in Int
    BY ScreenAssumption
  <2>2. con' = PrintBlocks(addr, size).con /\ halted' = PrintBlocks(addr, size).halted
    BY <2>1, WriteStep
  <2>3. con' = printk(con, Bytes(addr, size))
    BY <2>1, <2>2, BlocksWritten
  <2>4. Bytes(addr, size) \in Seq(Shown)
    BY <2>1, BytesRead
  <2> QED
    BY <2>3, <2>4, TextShown
<1> QED
  BY <1>1, CursorStaysOnScreen, PTL DEF ConsoleSpec, WritesWholeBuffer

(* A dump that returns has drawn the cells whose character is not a newline, and has left the
   other cells and the cursor (sys.c:389-394). *)
THEOREM DumpDrawsMatrix == ConsoleSpec => DumpShowsMatrix
<1> DEFINE A == \A addr \in Buffers :
                   result' = 0 /\ ~halted' /\ DumpOk(addr) /\ sys_dump_screen(addr) =>
                      /\ con'.x = con.x /\ con'.y = con.y
                      /\ \A cell \in Cells :
                            LET cc == Short(addr, cell[1] * NUM_COLUMNS + cell[2])
                            IN  con'.screen[cell] = IF cc[1] = NL THEN con.screen[cell] ELSE cc
<1>1. ConsoleInv /\ [ConsoleNext]_convars => [A]_convars
  <2> SUFFICES ASSUME con \in Consoles, NEW addr \in Buffers,
                      ~halted', DumpOk(addr), sys_dump_screen(addr)
               PROVE  /\ con'.x = con.x /\ con'.y = con.y
                      /\ \A cell \in Cells :
                            LET cc == Short(addr, cell[1] * NUM_COLUMNS + cell[2])
                            IN  con'.screen[cell] = IF cc[1] = NL THEN con.screen[cell] ELSE cc
    BY DEF ConsoleInv
  <2>1. addr \in Nat
    BY ScreenAssumption
  <2>2. con' = DrawMatrix(addr).con /\ halted' = DrawMatrix(addr).halted
    BY DEF sys_dump_screen
  <2>3. /\ con'.x = con.x /\ con'.y = con.y
        /\ \A cell \in Cells : con'.screen[cell] =
              IF Short(addr, Index(cell))[1] # NL THEN Short(addr, Index(cell))
              ELSE con.screen[cell]
    BY <2>1, <2>2, MatrixDrawn
  <2> QED
    BY <2>3 DEF Index
<1> QED
  BY <1>1, CursorStaysOnScreen, PTL DEF ConsoleSpec, DumpShowsMatrix

(* No accepted buffer wraps around or leaves user memory; a write stops the kernel exactly if a
   page of its buffer is not mapped, and a dump exactly if the page of its last byte is not
   (utils.c:65-86, sys.c:171-183, 378-394). *)
THEOREM KernelStopsWhenItMust == ConsoleSpec => FaultsAreExact
<1> DEFINE W == \A addr \in Buffers, size \in Sizes :
                   result' = size /\ size > 0 /\ access_ok(addr, size)
                   /\ sys_write(1, addr, size) =>
                      /\ Page(addr) >= USER_FIRST_PAGE /\ Page(addr + size - 1) <= DataEnd
                      /\ halted' <=> \E p \in Page(addr) .. Page(addr + size - 1) :
                                        p >= DataStart /\ p \notin mapped
           D == \A addr \in Buffers :
                   DumpOk(addr) /\ sys_dump_screen(addr) =>
                      (halted' <=> Page(addr + 2 * (NUM_ROWS * NUM_COLUMNS) - 1) \notin mapped)
<1>1. ConsoleInv => W
  <2> SUFFICES ASSUME con \in Consoles, NEW addr \in Buffers, NEW size \in Sizes,
                      size > 0, access_ok(addr, size), sys_write(1, addr, size)
               PROVE  /\ Page(addr) >= USER_FIRST_PAGE /\ Page(addr + size - 1) <= DataEnd
                      /\ halted' <=> \E p \in Page(addr) .. Page(addr + size - 1) :
                                        p >= DataStart /\ p \notin mapped
    BY DEF ConsoleInv
  <2>1. /\ addr \in Nat /\ size \in Nat /\ size \in Int /\ size >= 0 /\ size # 0
        /\ addr + size - 1 \in Nat
    BY ScreenAssumption
  <2>2. Page(addr) >= USER_FIRST_PAGE /\ Page(addr + size - 1) <= DataEnd
    BY Accepted
  <2>3. halted' <=> ~Readable(addr, addr + size - 1)
    <3>1. halted' = PrintBlocks(addr, size).halted
      BY <2>1, WriteStep
    <3>2. PrintBlocks(addr, size).halted <=> ~Readable(addr, addr + size - 1)
      BY <2>1, BlocksWritten
    <3> QED
      BY <3>1, <3>2
  <2>4. Page(addr) \in Nat /\ Page(addr + size - 1) \in Nat /\ DataStart \in Nat
    <3>1. PAGE_SIZE \in Nat \ {0} /\ DataStart \in Nat
      BY ScreenAssumption DEF DataStart
    <3> QED
      BY <2>1, <3>1, Divide DEF Page
  <2>5. \A p \in Page(addr) .. Page(addr + size - 1) : p >= DataStart <=> ~(p < DataStart)
    BY <2>4
  <2> QED
    BY <2>2, <2>3, <2>5 DEF Readable
<1>2. ConsoleInv => D
  <2> SUFFICES ASSUME con \in Consoles, NEW addr \in Buffers, DumpOk(addr), sys_dump_screen(addr)
               PROVE  halted' <=> Page(addr + 2 * (NUM_ROWS * NUM_COLUMNS) - 1) \notin mapped
    BY DEF ConsoleInv
  <2>1. addr \in Nat
    BY ScreenAssumption
  <2>2. halted' = DrawMatrix(addr).halted
    BY DEF sys_dump_screen
  <2>3. DrawMatrix(addr).halted <=> ~Readable(addr, addr + 2 * (NUM_ROWS * NUM_COLUMNS) - 1)
    BY <2>1, MatrixDrawn
  <2> QED
    BY <2>1, <2>2, <2>3, MatrixReadable
<1>3. ConsoleInv /\ [ConsoleNext]_convars => [W /\ D]_convars
  BY <1>1, <1>2
<1> QED
  BY <1>3, CursorStaysOnScreen, PTL DEF ConsoleSpec, FaultsAreExact
=============================================================================
