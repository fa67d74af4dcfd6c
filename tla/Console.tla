------------------------------ MODULE Console ------------------------------
(***************************************************************************)
(* The screen of ZeOS and the two system calls that reach it: write        *)
(* (zeos/sys.c, devices.c) prints a user buffer at the cursor, block by    *)
(* block, and dump_screen (zeos/sys.c) draws a matrix that lies in a page  *)
(* of the user.  access_ok (zeos/utils.c) decides which buffers write      *)
(* reads.  A call that reads an unmapped page ends in the page fault       *)
(* handler, which prints a message and loops: the kernel stops.            *)
(*                                                                         *)
(* The pages from the data on that are mapped come from module Kernel;     *)
(* here they change freely between calls.  A live task has its code        *)
(* (CodeIsKept), but not always its data: sys_exit unmaps them under the   *)
(* other threads of the page table.  The bytes of user memory are a        *)
(* constant: a character is a byte, a cell of the screen two bytes.        *)
(***************************************************************************)
EXTENDS Integers, Sequences, FiniteSets, Functions, Loops

CONSTANTS
    NUM_COLUMNS, NUM_ROWS,      \* the screen
    INIT_ROW,                   \* the initial y of io.c
    PAGE_SIZE, ADDRESSES,       \* bytes per page; the address space, a power of two
    USER_FIRST_PAGE,            \* the first page of user code: the kernel has those below
    NUM_PAG_CODE, NUM_PAG_DATA, TOTAL_PAGES,
    WORD, TAM_BUFFER,           \* sizeof(DWord) in copy_from_user; the local buffer of sys_write
    Memory,                     \* the byte at each address
    FaultMessage,               \* what the page fault handler prints
    Buffers, Sizes              \* the arguments of the calls

EBADF == -9
EACCES == -13
EFAULT == -14
EINVAL == -22

NL == "nl"                      \* '\n'
Green == "green"                \* the attribute of printc, 0x0200

DataStart == USER_FIRST_PAGE + NUM_PAG_CODE
DataEnd == DataStart + NUM_PAG_DATA
Cells == (0 .. NUM_ROWS - 1) \X (0 .. NUM_COLUMNS - 1)

ASSUME ScreenAssumption ==
    /\ NUM_COLUMNS \in Nat \ {0} /\ NUM_ROWS \in Nat \ {0} /\ INIT_ROW \in 0 .. NUM_ROWS - 1
    /\ PAGE_SIZE \in Nat \ {0} /\ WORD \in Nat \ {0} /\ TAM_BUFFER \in Nat \ {0}
    /\ 2 * (NUM_COLUMNS * NUM_ROWS) <= PAGE_SIZE   \* a matrix fits in a page
    /\ ADDRESSES \in Nat /\ 2 * PAGE_SIZE <= ADDRESSES
    /\ USER_FIRST_PAGE \in Nat /\ NUM_PAG_CODE \in Nat /\ NUM_PAG_DATA \in Nat
    /\ FaultMessage \in Seq(Range(FaultMessage))
    /\ Buffers \subseteq 0 .. ADDRESSES - 1
    /\ \A size \in Sizes : size \in Int /\ 2 * size < ADDRESSES    \* an int is signed

VARIABLES
    con,        \* x, y and the video memory
    mapped,     \* the pages with a frame, of those from DataStart on
    result,     \* what the last call returned
    halted      \* the page fault handler loops

convars == <<con, mapped, result, halted>>

Page(addr) == addr \div PAGE_SIZE

-----------------------------------------------------------------------------
(* The screen (io.c) *)

newline(c) == [c EXCEPT !.x = 0, !.y = (@ + 1) % NUM_ROWS]

put(c, cell) ==
    LET written == [c EXCEPT !.screen[<<c.y, c.x>>] = cell]
    IN  IF c.x + 1 >= NUM_COLUMNS THEN newline(written) ELSE [written EXCEPT !.x = @ + 1]

printc(c, char) == IF char = NL THEN newline(c) ELSE put(c, <<char, Green>>)
printcc(c, cc) == IF cc[1] = NL THEN newline(c) ELSE put(c, cc)

(* Mutant of printcc_xy: the cursor is not restored. *)
printcc_xy_Moves(c, mx, my, cc) == printcc([c EXCEPT !.x = mx, !.y = my], cc)

printcc_xy(c, mx, my, cc) ==
    [printcc([c EXCEPT !.x = mx, !.y = my], cc) EXCEPT !.x = c.x, !.y = c.y]

(* printk, and sys_write_console of devices.c: their loops print every character. *)
printk(c, string) == Scan(printc, c, string)

(* page_fault_routine: the message, then while(1). *)
page_fault(c) == [con |-> printk(c, FaultMessage), halted |-> TRUE]

-----------------------------------------------------------------------------
(* User memory (utils.c) *)

check_fd(fd) == IF fd # 1 THEN EBADF ELSE 0

(* Mutant of access_ok: no test for a buffer that wraps around the address space. *)
access_ok_Wraps(addr, size) ==
    Page(addr) >= USER_FIRST_PAGE /\ Page((addr + size) % ADDRESSES) <= DataEnd

(* access_ok(VERIFY_READ, addr, size).  The test of VERIFY_WRITE, when it fails, falls
   through to this one, which accepts all that it accepts: the type makes no difference. *)
access_ok(addr, size) ==
    LET ini == Page(addr)
        fin == Page((addr + size) % ADDRESSES)
    IN  fin >= ini /\ ini >= USER_FIRST_PAGE /\ fin <= DataEnd

Readable(lo, hi) ==
    \A p \in Page(lo) .. Page(hi) : p < DataStart \/ p \in mapped

Bytes(addr, size) == [k \in 1 .. size |-> Memory[addr + k - 1]]

(* The iterations of "while (left > unit) left -= unit". *)
Whole(left, unit) == IF left > unit THEN (left - 1) \div unit ELSE 0

(* What copy_from_user leaves at dest: words while more than a word is left, then bytes. *)
copy_from_user(addr, size) ==
    LET words == Whole(size, WORD) * WORD
    IN  Bytes(addr, words) \o Bytes(addr + words, size - words)

-----------------------------------------------------------------------------
(* sys_write *)

(* Mutant of Blocks: the buffer is not advanced. *)
Blocks_Same(addr, size) ==
    LET full == Whole(size, TAM_BUFFER)
    IN  [k \in 1 .. full + 1 |->
            [at |-> addr, size |-> IF k <= full THEN TAM_BUFFER ELSE size - full * TAM_BUFFER]]

(* The blocks the loop copies and prints, the last one of what is left. *)
Blocks(addr, size) ==
    LET full == Whole(size, TAM_BUFFER)
    IN  [k \in 1 .. full + 1 |->
            [at |-> addr + (k - 1) * TAM_BUFFER,
             size |-> IF k <= full THEN TAM_BUFFER ELSE size - full * TAM_BUFFER]]

(* The screen after a block, unless the copy of this one or of an earlier one faults. *)
WriteBlock(st, b) ==
    IF st.halted \/ b.size = 0 THEN st
    ELSE IF Readable(b.at, b.at + b.size - 1)
         THEN [st EXCEPT !.con = printk(@, copy_from_user(b.at, b.size))]
         ELSE page_fault(st.con)

(* The loop, and the block after it. *)
PrintBlocks(addr, size) ==
    Scan(WriteBlock, [con |-> con, halted |-> FALSE], Blocks(addr, size))

Refused(fd, addr, size) ==
    IF check_fd(fd) # 0 THEN check_fd(fd)
    ELSE IF size < 0 THEN EINVAL
    ELSE IF access_ok(addr, size) THEN 0 ELSE EFAULT

sys_write(fd, addr, size) ==
    /\ ~halted
    /\ IF Refused(fd, addr, size) # 0
       THEN result' = Refused(fd, addr, size) /\ UNCHANGED <<con, halted>>
       ELSE LET end == PrintBlocks(addr, size)
            IN  con' = end.con /\ halted' = end.halted /\ result' = size
    /\ UNCHANGED mapped

-----------------------------------------------------------------------------
(* sys_dump_screen *)

Lid(addr) == Page(addr)

(* The cells in the order of the two loops: cell k is at row k \div NUM_COLUMNS. *)
Matrix == [k \in 1 .. NUM_ROWS * NUM_COLUMNS |-> k - 1]
Short(addr, k) == <<Memory[addr + 2 * k], Memory[addr + 2 * k + 1]>>

(* The range of lid, and its frame: get_frame is 0 for a page that is not mapped. *)
DumpOk(addr) == Lid(addr) >= DataEnd /\ Lid(addr) < TOTAL_PAGES /\ Lid(addr) \in mapped

(* printcc_xy of cell k, unless reading it, or an earlier one, faults. *)
Draw(addr, st, k) ==
    IF st.halted THEN st
    ELSE IF Readable(addr + 2 * k, addr + 2 * k + 1)
         THEN [st EXCEPT !.con = printcc_xy(@, k % NUM_COLUMNS, k \div NUM_COLUMNS,
                                            Short(addr, k))]
         ELSE page_fault(st.con)

(* The two loops. *)
DrawMatrix(addr) ==
    LET DrawAt(st, k) == Draw(addr, st, k)
    IN  Scan(DrawAt, [con |-> con, halted |-> FALSE], Matrix)

sys_dump_screen(addr) ==
    /\ ~halted
    /\ IF ~DumpOk(addr)
       THEN result' = EACCES /\ UNCHANGED <<con, halted>>
       ELSE LET end == DrawMatrix(addr)
            IN  con' = end.con /\ halted' = end.halted /\ result' = 0
    /\ UNCHANGED mapped

(* Between the calls, by module Kernel: alloc, dealloc, the exit of a thread of this page table
   or a fork that fails on it, or a switch to another one.  One page at a time. *)
Remap ==
    /\ ~halted
    /\ \E p \in DataStart .. TOTAL_PAGES - 1 :
          mapped' = IF p \in mapped THEN mapped \ {p} ELSE mapped \cup {p}
    /\ UNCHANGED <<con, result, halted>>

Blank == <<"blank", "blank">>

ConsoleInit ==
    /\ con = [x |-> 0, y |-> INIT_ROW, screen |-> [cell \in Cells |-> Blank]]
    /\ mapped = DataStart .. DataEnd - 1
    /\ result = 0
    /\ halted = FALSE

ConsoleNext ==
    \/ \E fd \in {0, 1}, addr \in Buffers, size \in Sizes : sys_write(fd, addr, size)
    \/ \E addr \in Buffers : sys_dump_screen(addr)
    \/ Remap

ConsoleSpec == ConsoleInit /\ [][ConsoleNext]_convars

-----------------------------------------------------------------------------
(* Properties *)

(* Reference: where the cursor is after the first k characters of s, written from <<r, c>>.
   The column counts from the last newline; a row is taken wherever the column is 0. *)
LastNewline(s, k) ==
    LET nls == {j \in 1 .. k : s[j] = NL} IN CHOOSE j \in nls : \A i \in nls : i <= j
Column(s, k, c) ==
    IF \E j \in 1 .. k : s[j] = NL
    THEN (k - LastNewline(s, k)) % NUM_COLUMNS
    ELSE (c + k) % NUM_COLUMNS
Row(s, k, r, c) == (r + Cardinality({j \in 1 .. k : Column(s, j, c) = 0})) % NUM_ROWS

(* screen' is the screen with s written from the cursor: a cell shows the last character
   that was written when the cursor was there. *)
ShowsText(s) ==
    LET at == [k \in 0 .. Len(s) |-> <<Row(s, k, con.y, con.x), Column(s, k, con.x)>>]
    IN  /\ <<con'.y, con'.x>> = at[Len(s)]
        /\ \A cell \in Cells :
              LET here == {k \in 1 .. Len(s) : s[k] # NL /\ at[k - 1] = cell}
              IN  con'.screen[cell] =
                    IF here = {} THEN con.screen[cell]
                    ELSE <<s[CHOOSE k \in here : \A j \in here : j <= k], Green>>

(* A write that returns has printed its buffer, each byte once and in order, as if it had
   been one block: the blocks of 512 bytes and the words of the copy do not show
   (sys.c:171-183, utils.c:22-37). *)
WritesWholeBuffer ==
    [][\A addr \in Buffers, size \in Sizes :
          (/\ result' = size /\ size >= 0 /\ ~halted' /\ access_ok(addr, size)
           /\ sys_write(1, addr, size)) => ShowsText(Bytes(addr, size))]_convars

(* A dump that returns shows the matrix, but for the cells whose character is a newline,
   which stay, and the text that follows goes on where it was (sys.c:389-394). *)
DumpShowsMatrix ==
    [][\A addr \in Buffers :
          result' = 0 /\ ~halted' /\ DumpOk(addr) /\ sys_dump_screen(addr) =>
             /\ con'.x = con.x /\ con'.y = con.y
             /\ \A cell \in Cells :
                   LET cc == Short(addr, cell[1] * NUM_COLUMNS + cell[2])
                   IN  con'.screen[cell] = IF cc[1] = NL THEN con.screen[cell] ELSE cc]_convars

(* The kernel stops on a call exactly when it must.  access_ok keeps a write in user memory, but
   asks for no page table: the write of a buffer halts if one of its pages is not mapped, be it
   of the data, which another thread's sys_exit unmaps (sys.c:201-205), or the page after them,
   which access_ok lets through (utils.c:70, 82).  A dump halts if the page of the last byte of
   its matrix is not mapped: only that of the first is tested (sys.c:378-394).  No block, word or
   cell reads beyond the buffer or the matrix, and none of either stays unread. *)
FaultsAreExact ==
    [][/\ \A addr \in Buffers, size \in Sizes :
             result' = size /\ size > 0 /\ access_ok(addr, size) /\ sys_write(1, addr, size) =>
                /\ Page(addr) >= USER_FIRST_PAGE /\ Page(addr + size - 1) <= DataEnd
                /\ halted' <=> \E p \in Page(addr) .. Page(addr + size - 1) :
                                  p >= DataStart /\ p \notin mapped
       /\ \A addr \in Buffers :
             DumpOk(addr) /\ sys_dump_screen(addr) =>
                (halted' <=> Page(addr + 2 * (NUM_ROWS * NUM_COLUMNS) - 1) \notin mapped)]_convars

=============================================================================
