------------------------------ MODULE Strings ------------------------------
(* The string items of a message (the item loop of extended_transfer): the  *)
(* strings described by the sender's message registers are copied, one      *)
(* after the other, into the buffers described by the receiver's buffer     *)
(* registers.  A string is one item or several (compound), an item is a     *)
(* header followed by pointers to substrings of one length; a buffer has    *)
(* the same form.  The sizes of substrings and of the pieces of a buffer    *)
(* need not agree, so a string is copied in parts.                          *)
(*                                                                          *)
(* A page stands for the memory behind one pointer.  Left out: items that   *)
(* are not strings, and copies clipped at the end of the user area.         *)
EXTENDS Naturals, Sequences, SequencesExt

CONSTANT NumBR          \* IPC_NUM_BR: buffer registers 0 .. NumBR - 1

ASSUME StringsAssumption == NumBR \in Nat

\* A register: the header of an item, or a pointer.
Header(item, compound, more) ==
    [len |-> item.len, ptrs |-> item.ptrs, compound |-> compound,
     more |-> more, page |-> <<>>]
Pointer(page) == [len |-> 0, ptrs |-> 1, compound |-> FALSE, more |-> FALSE,
                  page |-> page]
\* What a register that nobody has set reads as.
Unset == Pointer(<<>>)
Reg(regs, i) == IF i \in 1..Len(regs) THEN regs[i] ELSE Unset

\* The locals of extended_transfer: src, sptr, slen are src_idx, src_ptridx,
\* src_len, and buf, dptr, dlen their counterparts for br_idx; `copied' is
\* total_len and misc.ipc_copy.copy_length.  Of the ipc_copy that is going on,
\* `done' says how far it is, and `fault' is copy_fault - copy_start_src, or
\* copy_fault - copy_start_dst for a fault in a copy area.
NoTransfer == [step |-> "none", src |-> 1, sptr |-> 1, slen |-> 0, buf |-> 1,
               dptr |-> 1, dlen |-> 0, accept |-> FALSE, copied |-> 0,
               done |-> 0, fault |-> 0]
StartTransfer(accepts) == [NoTransfer EXCEPT !.step = "item", !.accept = accepts]
Overflow(x) == [x EXCEPT !.step = "overflow"]

\* CHECK_MR_IDX and CHECK_BR_IDX.  The message's registers are 1 .. Len(m): both
\* let one more pass than there are.
MrTooLarge(m, i) == i > Len(m) + 1
BrTooLarge(i) == i > NumBR

\* The next item of the message, if any.
NextItem(x, m, b) ==
    LET item == Reg(m, x.src)
        buffer == Reg(b, x.buf)
    IN  CASE x.src > Len(m) -> [x EXCEPT !.step = "done"]
          [] x.src <= Len(m) /\ (\/ ~x.accept \/ MrTooLarge(m, x.src + item.ptrs)
                                 \/ BrTooLarge(x.buf + buffer.ptrs)) -> Overflow(x)
          [] OTHER -> [x EXCEPT !.step = "copy", !.sptr = 1, !.dptr = 1,
                                !.slen = item.len, !.dlen = buffer.len,
                                !.accept = buffer.more, !.done = 0, !.fault = 0]

\* copy_length of the part that is being copied.
PartLength(x) == IF x.dlen < x.slen THEN x.dlen ELSE x.slen

\* Where the next unit comes from, and where it goes.
Source(x, m) == [page |-> Reg(m, x.src + x.sptr).page,
                 at |-> Reg(m, x.src).len - x.slen + x.done]
Target(x, b) == [page |-> Reg(b, x.buf + x.dptr).page,
                 at |-> Reg(b, x.buf).len - x.dlen + x.done]

\* The current substring is exhausted: the next one of the item, or the next
\* item of a compound string, or the string has been copied.
NextSourceMut(x, m) ==
    LET item == Reg(m, x.src)
    IN  CASE x.slen > 0 -> x
          [] x.slen = 0 /\ x.sptr < item.ptrs ->
                [x EXCEPT !.sptr = @ + 1, !.slen = item.len]
          [] OTHER -> [x EXCEPT !.step = "end", !.src = @ + x.sptr + 1]
NextSource(x, m) ==
    LET item == Reg(m, x.src)
        next == x.src + x.sptr + 1
        following == Reg(m, next)
    IN  CASE x.slen > 0 -> x
          [] x.slen = 0 /\ x.sptr < item.ptrs ->
                [x EXCEPT !.sptr = @ + 1, !.slen = item.len]
          [] x.slen = 0 /\ x.sptr >= item.ptrs /\ item.compound ->
                IF MrTooLarge(m, next + 1) \/ MrTooLarge(m, next + following.ptrs)
                THEN Overflow(x)
                ELSE [x EXCEPT !.src = next, !.sptr = 1, !.slen = following.len]
          [] OTHER -> [x EXCEPT !.step = "end", !.src = next]

\* The first buffer behind the (compound) buffer of which i is an item.
SkippedBuffer(b, i) ==
    LET skip[k \in 1..NumBR] ==
            LET next == k + Reg(b, k).ptrs + 1
            IN  IF next < NumBR /\ Reg(b, k).compound THEN skip[next] ELSE next
    IN  skip[i]

\* The string ends: its buffer is left, however much room it has.  Otherwise,
\* if the current piece is full, the next one.
NextTarget(x, b) ==
    LET buffer == Reg(b, x.buf)
        next == x.buf + x.dptr + 1
        following == Reg(b, next)
        skipped == SkippedBuffer(b, x.buf)
    IN  CASE x.step = "overflow" -> x
          [] x.step = "end" -> [x EXCEPT !.step = "item", !.buf = skipped,
                                         !.accept = @ /\ skipped < NumBR]
          [] x.step = "copy" /\ x.dlen > 0 -> x
          [] x.step = "copy" /\ x.dlen = 0 /\ x.dptr < buffer.ptrs ->
                [x EXCEPT !.dptr = @ + 1, !.dlen = buffer.len]
          [] x.step = "copy" /\ x.dlen = 0 /\ x.dptr >= buffer.ptrs /\ buffer.compound ->
                IF BrTooLarge(next + 1) \/ BrTooLarge(next + following.ptrs)
                THEN Overflow(x)
                ELSE [x EXCEPT !.buf = next, !.dptr = 1, !.dlen = following.len]
          [] OTHER -> Overflow(x)

\* A part has been copied: ipc_copy returns, and the loop goes on with the
\* next part.
PartCopied(x, m, b) ==
    LET n == PartLength(x)
        y == [x EXCEPT !.copied = @ + n, !.slen = @ - n, !.dlen = @ - n,
                       !.done = 0, !.fault = 0]
    IN  NextTarget(NextSource(y, m), b)

-----------------------------------------------------------------------------
(* The reference: strings are sequences of items [len, ptrs], and what has  *)
(* to arrive follows from their sizes alone.                                *)

Items == [len : Nat, ptrs : Nat \ {0}]
StringsType == Seq(Seq(Items) \ {<<>>})

\* The registers that describe a sequence of strings.  The pointer k of item
\* j of string i is the page <<i, j, k>>.
ItemRegisters(strings, i, j) ==
    <<Header(strings[i][j], j < Len(strings[i]), i < Len(strings))>>
        \o [k \in 1..strings[i][j].ptrs |-> Pointer(<<i, j, k>>)]
Registers(strings) ==
    FlattenSeq([i \in DOMAIN strings |->
        FlattenSeq([j \in DOMAIN strings[i] |-> ItemRegisters(strings, i, j)])])

\* The memory of string i, unit by unit.
Units(strings, i) ==
    FlattenSeq([j \in DOMAIN strings[i] |->
        FlattenSeq([k \in 1..strings[i][j].ptrs |->
            [n \in 1..strings[i][j].len |->
                [page |-> <<i, j, k>>, at |-> n - 1]]])])

\* String i goes to buffer i; the first string that has no buffer, or not
\* enough room in it, is cut off there and ends the transfer.
Fits(strings, buffers, i) ==
    i <= Len(buffers) /\ Len(Units(strings, i)) <= Len(Units(buffers, i))
AllFit(strings, buffers) == \A i \in DOMAIN strings : Fits(strings, buffers, i)
Placed(strings, buffers, i) ==
    IF \/ i > Len(buffers)
       \/ \E h \in 1..(i - 1) : ~Fits(strings, buffers, h)
    THEN <<>>
    ELSE LET from == Units(strings, i)
             to == Units(buffers, i)
             n == IF Len(from) < Len(to) THEN Len(from) ELSE Len(to)
         IN  [u \in 1..n |-> [from |-> from[u], to |-> to[u]]]
Placement(strings, buffers) ==
    FlattenSeq([i \in DOMAIN strings |-> Placed(strings, buffers, i)])
=============================================================================
