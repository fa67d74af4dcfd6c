----------------------------- MODULE MCConsole -----------------------------
EXTENDS Console

(* The characters of a page, with newlines, in a pattern whose period divides
   neither a line, a block nor a page. *)
Pattern == <<"a", "b", "nl", "b", "a">>
MCMemory == [addr \in 0 .. ADDRESSES - 1 |-> Pattern[1 + (addr % 5)]]

(* Around the ends of the pages, and of the address space; 8 is two whole blocks. *)
MCBuffers == {15, 17, 46, 48, 58, 127}
MCSizes == {-1, 0, 3, 8, 31}
MCFaultMessage == <<"f">>
=============================================================================
