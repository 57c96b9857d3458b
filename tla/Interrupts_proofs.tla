------------------------- MODULE Interrupts_proofs -------------------------
(***************************************************************************)
(* Proofs about Interrupts, for all lines, commands, block sizes and bounds *)
(* on them: the PICs are never left blocked, the handlers are there when     *)
(* their lines need them, and after boot the heap is not entered twice.     *)
(*                                                                         *)
(* MachineInv is the inductive invariant.  Its parts say what the stack     *)
(* looks like (StackOK: handlers above boot or the spin loop, none but the  *)
(* running one before its EOI or in the heap), when interrupts can be on    *)
(* (FlagOK), which handlers boot's progress implies (HandlersSet), and how   *)
(* far the running insertion has moved the heap's end (BlocksOK, InsertOK).  *)
(***************************************************************************)
EXTENDS Interrupts, SequenceTheorems, TLAPS

Codes == {"boot", "irq", "exception", "spin"}
Steps == {"sti", "init_timer", "init_keyboard", "syscall", "start_paging",
          "create_new_page_directory", "init_kernel_shell", "end",
          "eoi", "call", "key", "command", "start_paging_instruction", "wait", "iret",
          "message", "for"}
FrameType ==
  [code: Codes, step: Steps, no: Nat, flag: BOOLEAN, heap: 0 .. 8,
   entry: Nat, location: Nat, reg: Nat]
BlockType == [header: Nat, location: Nat, booted: BOOLEAN]

Handlers == {"NULL", "timer_callback", "keyboard_callback", "thingy",
             "page_fault_interrupt_handler"}
Vectors == LINES \cup {IRQ0, IRQ1, 14, 128}

\* The state of which only the type matters, and the type of the rest.
Rest ==
  /\ buffered \in BOOLEAN /\ paged \in BOOLEAN /\ halted \in BOOLEAN
  /\ number_of_timer_cycles \in Nat /\ OS_MODE \in {"KERNEL_SHELL_MODE", "USER_MODE_ENABLED"}
MachineType ==
  /\ enabled \in BOOLEAN /\ pending \subseteq LINES
  /\ interrupt_handlers \in [Vectors -> Handlers]
  /\ mallocable_address \in Nat

\* What a frame is, at place i of a stack of n.
FrameOK(f, i, n) ==
  /\ f.code \in {"boot", "spin"} <=> i = n
  /\ f.code = "irq" => f.no \in LINES /\ f.flag = TRUE /\ i = n - 1
  /\ f.code # "irq" => f.step # "eoi"
  /\ f.code = "boot" /\ f.heap # 0 => f.step = "create_new_page_directory"
  /\ f.code = "spin" => f.heap = 0 /\ f.step = "for"
  /\ i > 1 => f.step \notin {"eoi", "sti"} /\ (f.heap # 0 => f.code = "boot")
StackOf(s) ==
  /\ s \in Seq(FrameType) /\ Len(s) >= 1
  /\ \A i \in 1 .. Len(s) : FrameOK(s[i], i, Len(s))
StackOK == StackOf(stack)

\* Interrupts are on only in boot behind its sti, and in the spin loop.
FlagOK == enabled => Running.code \in {"boot", "spin"} /\ Running.step # "sti"

HandlersSet ==
  /\ Bottom.code = "boot" /\ Bottom.step \notin {"sti", "init_timer"} =>
       interrupt_handlers[IRQ0] # "NULL"
  /\ Bottom.code = "boot" /\ Bottom.step \notin {"sti", "init_timer", "init_keyboard"} =>
       interrupt_handlers[IRQ1] # "NULL"
  /\ interrupt_handlers[IRQ0] = "NULL" => interrupt_handlers[IRQ1] = "NULL"

\* Where the space of the blocks that have been handed out ends.
Inserting == Running.heap \in 2 .. 8
Floor == IF Inserting THEN Running.entry ELSE mallocable_address
BlocksOK ==
  /\ handed \in Seq(BlockType)
  /\ \A i \in 1 .. Len(handed) : handed[i].booted =>
       /\ Booted
       /\ handed[i].location = handed[i].header + HDR
       /\ handed[i].location + SIZE <= Floor
  /\ \A i, j \in 1 .. Len(handed) :
       i < j /\ handed[i].booted /\ handed[j].booted =>
         handed[i].location + SIZE <= handed[j].header

\* How far the running insertion is, when nothing can have come in between.
InsertOK ==
  Booted /\ Inserting =>
    LET k == Running.heap
        first == Running.entry IN
    /\ k = 2 => mallocable_address = first
    /\ k = 3 => Running.reg = first + HDR
    /\ k = 4 => mallocable_address = first + HDR
    /\ k >= 5 => Running.location = first + HDR
    /\ k = 5 => mallocable_address = first + HDR
    /\ k = 6 => Running.reg = first + HDR + SIZE
    /\ k = 7 => mallocable_address = first + HDR + SIZE
    /\ k = 8 => Running.reg = first + HDR + SIZE + FTR

MachineInv ==
  /\ Rest /\ MachineType /\ StackOK /\ FlagOK
  /\ InServiceOnlyBeforeEoi
  /\ HandlersSet /\ HandlersMeetTheirLines
  /\ BlocksOK /\ InsertOK

---------------------------------------------------------------------------
LEMMA ConstantFacts ==
  /\ LINES \subseteq 32 .. 47 /\ CASCADE \notin LINES
  /\ HDR \in Nat /\ SIZE \in Nat /\ FTR \in Nat /\ BLOCKS \in Nat /\ WAIT \in Nat
BY InterruptConstants DEF IRQ0, CASCADE

LEMMA OneOrMore == \A m \in Nat : m >= 1 => m = 1 \/ m > 1
OBVIOUS

LEMMA StackFacts ==
  ASSUME StackOK
  PROVE  /\ Len(stack) \in Nat /\ Len(stack) >= 1 /\ DOMAIN stack = 1 .. Len(stack)
         /\ stack # <<>>
         /\ \A i \in 1 .. Len(stack) : stack[i] \in FrameType /\ FrameOK(stack[i], i, Len(stack))
         /\ Running \in FrameType /\ FrameOK(Running, 1, Len(stack))
<1>1. Len(stack) \in Nat /\ Len(stack) >= 1 /\ DOMAIN stack = 1 .. Len(stack)
  BY DEF StackOK, StackOf
<1>2. \A i \in 1 .. Len(stack) : stack[i] \in FrameType /\ FrameOK(stack[i], i, Len(stack))
  BY <1>1 DEF StackOK, StackOf
<1>3. stack # <<>> BY <1>1
<1>. QED BY <1>1, <1>2, <1>3 DEF Running

\* The three ways in which a stack changes.
LEMMA BecomesFacts ==
  ASSUME StackOK, NEW f \in FrameType, Becomes(f)
  PROVE  /\ stack' \in Seq(FrameType) /\ Len(stack') = Len(stack) /\ stack'[1] = f
         /\ \A i \in 2 .. Len(stack) : stack'[i] = stack[i]
<1>1. stack \in Seq(FrameType) /\ stack # <<>> BY StackFacts DEF StackOK, StackOf
<1>2. /\ Tail(stack) \in Seq(FrameType) /\ Len(Tail(stack)) = Len(stack) - 1
      /\ \A i \in 1 .. Len(Tail(stack)) : Tail(stack)[i] = stack[i + 1]
  BY <1>1, HeadTailProperties
<1>3. <<f>> \in Seq(FrameType) /\ Len(<<f>>) = 1 /\ <<f>>[1] = f OBVIOUS
<1>4. /\ stack' \in Seq(FrameType) /\ Len(stack') = 1 + Len(Tail(stack))
      /\ \A i \in 1 .. 1 + Len(Tail(stack)) :
           stack'[i] = IF i <= 1 THEN <<f>>[i] ELSE Tail(stack)[i - 1]
  BY <1>2, <1>3, ConcatProperties DEF Becomes
<1>. QED BY <1>1, <1>2, <1>3, <1>4, StackFacts

LEMMA PushFacts ==
  ASSUME StackOK, NEW f \in FrameType, stack' = <<f>> \o stack
  PROVE  /\ stack' \in Seq(FrameType) /\ Len(stack') = Len(stack) + 1 /\ stack'[1] = f
         /\ \A i \in 1 .. Len(stack) : stack'[i + 1] = stack[i]
         /\ \A i \in 2 .. Len(stack') : stack'[i] = stack[i - 1]
<1>1. stack \in Seq(FrameType) BY DEF StackOK, StackOf
<1>2. <<f>> \in Seq(FrameType) /\ Len(<<f>>) = 1 /\ <<f>>[1] = f OBVIOUS
<1>3. /\ stack' \in Seq(FrameType) /\ Len(stack') = 1 + Len(stack)
      /\ \A i \in 1 .. 1 + Len(stack) :
           stack'[i] = IF i <= 1 THEN <<f>>[i] ELSE stack[i - 1]
  BY <1>1, <1>2, ConcatProperties
<1>. QED BY <1>2, <1>3, StackFacts

LEMMA PopFacts ==
  ASSUME StackOK, stack' = Tail(stack), Len(stack) > 1
  PROVE  /\ stack' \in Seq(FrameType) /\ Len(stack') = Len(stack) - 1
         /\ \A i \in 1 .. Len(stack') : stack'[i] = stack[i + 1]
<1>1. stack \in Seq(FrameType) /\ stack # <<>> BY StackFacts DEF StackOK, StackOf
<1>. QED BY <1>1, HeadTailProperties

\* Whether boot is through shows in the frame at the bottom.
LEMMA BootedIs ==
  ASSUME StackOK
  PROVE  /\ Booted <=> (Bottom.code = "boot" => Bottom.step = "end")
         /\ Bottom = stack[Len(stack)] /\ Bottom \in FrameType /\ Bottom.code \in {"boot", "spin"}
<1>. DEFINE n == Len(stack)
<1>1. n \in 1 .. n BY StackFacts
<1>2. Bottom = stack[n] /\ Bottom \in FrameType /\ Bottom.code \in {"boot", "spin"}
  BY <1>1, StackFacts DEF Bottom, FrameOK
<1>3. \A i \in 1 .. n : stack[i].code = "boot" => i = n BY StackFacts DEF FrameOK
<1>. QED BY <1>1, <1>2, <1>3, StackFacts DEF Booted

LEMMA BootedIsNext ==
  ASSUME StackOK'
  PROVE  /\ Booted' <=> (Bottom'.code = "boot" => Bottom'.step = "end")
         /\ Bottom' = stack'[Len(stack')]
<1>. DEFINE n == Len(stack')
<1>1. /\ n \in Nat /\ n >= 1 /\ DOMAIN stack' = 1 .. n
      /\ \A i \in 1 .. n : FrameOK(stack'[i], i, n)
  BY DEF StackOK, StackOf
<1>2. Bottom' = stack'[n] BY DEF Bottom
<1>3. \A i \in 1 .. n : stack'[i].code = "boot" => i = n BY <1>1 DEF FrameOK
<1>4. n \in 1 .. n BY <1>1
<1>5. Booted' <=> \A i \in 1 .. n : stack'[i].code = "boot" => stack'[i].step = "end"
  BY <1>1 DEF Booted
<1>6. Booted' <=> (stack'[n].code = "boot" => stack'[n].step = "end")
  BY <1>3, <1>4, <1>5
<1>. QED BY <1>2, <1>6

---------------------------------------------------------------------------
\* What a kind of step does to the parts of the invariant.

\* The heap's part, for steps that are not in an insertion.
LEMMA HeapStays ==
  ASSUME MachineInv, StackOK', UNCHANGED heap, Booted => Booted',
         Booted => ~Inserting, Booted' => ~Inserting'
  PROVE  BlocksOK' /\ InsertOK'
<1>1. handed' = handed /\ mallocable_address' = mallocable_address BY DEF heap
<1>2. InsertOK' BY DEF InsertOK
<1>3. ASSUME NEW i \in 1 .. Len(handed), handed[i].booted
      PROVE  /\ Booted' /\ handed[i].location = handed[i].header + HDR
             /\ handed[i].location + SIZE <= Floor'
  <2>1. /\ Booted /\ handed[i].location = handed[i].header + HDR
        /\ handed[i].location + SIZE <= Floor
    BY <1>3 DEF MachineInv, BlocksOK
  <2>2. Floor = mallocable_address /\ Floor' = mallocable_address BY <2>1, <1>1 DEF Floor
  <2>. QED BY <2>1, <2>2
<1>4. BlocksOK'
  <2>1. /\ handed \in Seq(BlockType)
        /\ \A i, j \in 1 .. Len(handed) :
             i < j /\ handed[i].booted /\ handed[j].booted =>
               handed[i].location + SIZE <= handed[j].header
    BY DEF MachineInv, BlocksOK
  <2>. QED BY <1>1, <1>3, <2>1 DEF BlocksOK
<1>. QED BY <1>2, <1>4

\* The running frame of a handler goes on, behind its EOI.
LEMMA HandlerGoesOn ==
  ASSUME MachineInv, Running.code = "irq", Running.heap = 0,
         NEW f \in FrameType, Becomes(f), f.code = "irq", f.no = Running.no,
         f.flag = Running.flag, f.step # "eoi", f.heap \in {0, 1},
         inService' = {}, Rest', UNCHANGED <<enabled, pending, interrupt_handlers, heap>>
  PROVE  MachineInv'
<1>. DEFINE n == Len(stack)
<1>1. StackOK BY DEF MachineInv
<1>2. /\ n \in Nat /\ n >= 1
      /\ \A i \in 1 .. n : stack[i] \in FrameType /\ FrameOK(stack[i], i, n)
      /\ Running = stack[1] /\ FrameOK(Running, 1, n)
  BY <1>1, StackFacts DEF Running
<1>3. n > 1
  <2>1. FrameOK(Running, 1, n) /\ n \in Nat /\ n >= 1 BY <1>2
  <2>. QED BY <2>1 DEF FrameOK
<1>4. /\ stack' \in Seq(FrameType) /\ Len(stack') = n /\ stack'[1] = f
      /\ \A i \in 2 .. n : stack'[i] = stack[i]
  BY <1>1, BecomesFacts
<1>5. FrameOK(f, 1, n) BY <1>2, <1>3 DEF FrameOK
<1>6. \A i \in 1 .. n : FrameOK(stack'[i], i, n) BY <1>2, <1>4, <1>5
<1>7. StackOK' BY <1>2, <1>4, <1>6 DEF StackOK, StackOf
<1>8. Running' = f BY <1>4 DEF Running
<1>9. Bottom' = Bottom BY <1>3, <1>4 DEF Bottom
<1>10. ~enabled /\ FlagOK' BY <1>8 DEF MachineInv, FlagOK
<1>11. HandlersSet' BY <1>9 DEF MachineInv, HandlersSet
<1>12. HandlersMeetTheirLines'
  <2>1. DOMAIN stack' = 1 .. n /\ DOMAIN stack = 1 .. n BY <1>2, <1>4
  <2>2. \A i \in 1 .. n : i > 1 => stack'[i] = stack[i] BY <1>2, <1>4
  <2>. QED BY <1>9, <2>1, <2>2 DEF MachineInv, HandlersMeetTheirLines, KeyboardLost
<1>13. Booted' <=> Booted BY <1>1, <1>7, <1>9, BootedIs, BootedIsNext
<1>14. ~Inserting /\ ~Inserting' BY <1>8 DEF Inserting
<1>15. BlocksOK' /\ InsertOK' BY <1>7, <1>13, <1>14, HeapStays
<1>16. MachineType' BY DEF MachineInv, MachineType, heap
<1>17. InServiceOnlyBeforeEoi' BY DEF InServiceOnlyBeforeEoi
<1>. QED BY <1>7, <1>10, <1>11, <1>12, <1>15, <1>16, <1>17 DEF MachineInv

\* kernel_main goes on.
LEMMA BootGoesOn ==
  ASSUME MachineInv, Running.code = "boot", Running.heap = 0, Running.step # "end",
         NEW f \in FrameType, Becomes(f), f.code = "boot", f.step \notin {"sti", "eoi"},
         f.heap = 0 \/ (f.heap = 1 /\ f.step = "create_new_page_directory"),
         enabled' \in BOOLEAN, interrupt_handlers' \in [Vectors -> Handlers],
         f.step \notin {"init_timer"} => interrupt_handlers'[IRQ0] # "NULL",
         f.step \notin {"init_timer", "init_keyboard"} => interrupt_handlers'[IRQ1] # "NULL",
         interrupt_handlers'[IRQ0] = "NULL" => interrupt_handlers'[IRQ1] = "NULL",
         Rest', UNCHANGED <<pic, heap>>
  PROVE  MachineInv'
<1>. DEFINE n == Len(stack)
<1>1. StackOK BY DEF MachineInv
<1>2. n = 1 /\ Running = stack[1] /\ FrameOK(stack[1], 1, 1)
  BY <1>1, StackFacts DEF Running, FrameOK
<1>3. stack' \in Seq(FrameType) /\ Len(stack') = 1 /\ stack'[1] = f
  BY <1>1, <1>2, BecomesFacts
<1>4. FrameOK(f, 1, 1) BY <1>2 DEF FrameOK
<1>5. StackOK' BY <1>3, <1>4 DEF StackOK, StackOf
<1>6. Running' = f /\ Bottom' = f BY <1>3 DEF Running, Bottom
<1>7. FlagOK' BY <1>6 DEF FlagOK
<1>8. HandlersSet' BY <1>6 DEF HandlersSet
<1>9. HandlersMeetTheirLines' BY <1>3 DEF HandlersMeetTheirLines
<1>10. inService = {} /\ inService' = {}
  BY DEF MachineInv, InServiceOnlyBeforeEoi, pic
<1>11. InServiceOnlyBeforeEoi' BY <1>10 DEF InServiceOnlyBeforeEoi
<1>12. ~Booted BY <1>1, <1>2, BootedIs
<1>13. ~Inserting /\ ~Inserting' BY <1>6 DEF Inserting
<1>14. BlocksOK' /\ InsertOK' BY <1>5, <1>12, <1>13, HeapStays
<1>15. MachineType' BY DEF MachineInv, MachineType, heap, pic
<1>. QED BY <1>5, <1>7, <1>8, <1>9, <1>11, <1>14, <1>15 DEF MachineInv

\* A frame is put above the running one, by the CPU.
LEMMA FramePushed ==
  ASSUME MachineInv, Running.step \notin {"eoi", "sti"}, Running.heap # 0 => Running.code = "boot",
         NEW f \in FrameType, stack' = <<f>> \o stack, enabled' = FALSE,
         f.code \in {"irq", "exception"}, f.heap = 0, f.code = "irq" => f.no \in LINES /\ f.flag = TRUE,
         f.code = "irq" => Running.code \in {"boot", "spin"},
         f.code # "irq" => f.step # "eoi",
         Running.code = "irq" /\ Running.step = "call" /\ Running.no \in {IRQ0, IRQ1} =>
           interrupt_handlers[Running.no] = "NULL",
         Running.step = "create_new_page_directory" \/ Running.heap = 0,
         pending' \subseteq LINES, InServiceOnlyBeforeEoi',
         UNCHANGED <<interrupt_handlers, shell, heap, paged, halted>>
  PROVE  MachineInv'
<1>. DEFINE n == Len(stack)
<1>1. StackOK BY DEF MachineInv
<1>2. /\ n \in Nat /\ n >= 1
      /\ \A i \in 1 .. n : stack[i] \in FrameType /\ FrameOK(stack[i], i, n)
      /\ Running = stack[1] /\ FrameOK(Running, 1, n)
  BY <1>1, StackFacts DEF Running
<1>3. /\ stack' \in Seq(FrameType) /\ Len(stack') = n + 1 /\ stack'[1] = f
      /\ \A i \in 1 .. n : stack'[i + 1] = stack[i]
      /\ \A i \in 2 .. n + 1 : stack'[i] = stack[i - 1]
  BY <1>1, PushFacts
<1>4. FrameOK(f, 1, n + 1) BY <1>2 DEF FrameOK
<1>5. ASSUME NEW i \in 2 .. n + 1 PROVE FrameOK(stack'[i], i, n + 1)
  <2>1. stack'[i] = stack[i - 1] /\ FrameOK(stack[i - 1], i - 1, n) BY <1>2, <1>3
  <2>2. CASE i = 2 BY <2>1, <2>2, <1>2 DEF FrameOK
  <2>3. CASE i > 2 BY <2>1, <2>3, <1>2 DEF FrameOK
  <2>. QED BY <2>2, <2>3
<1>6. \A i \in 1 .. n + 1 : FrameOK(stack'[i], i, n + 1) BY <1>2, <1>3, <1>4, <1>5
<1>7. StackOK' BY <1>2, <1>3, <1>6 DEF StackOK, StackOf
<1>8. Running' = f BY <1>3 DEF Running
<1>9. Bottom' = Bottom BY <1>2, <1>3 DEF Bottom
<1>10. FlagOK' BY DEF FlagOK
<1>11. HandlersSet' BY <1>9 DEF MachineInv, HandlersSet
<1>12. HandlersMeetTheirLines'
  <2>1. DOMAIN stack' = 1 .. n + 1 /\ DOMAIN stack = 1 .. n BY <1>2, <1>3
  <2>2. SUFFICES ASSUME NEW i \in 1 .. n + 1, i > 1, stack'[i].code = "irq",
                        stack'[i].step = "call", stack'[i].no \in {IRQ0, IRQ1}
                 PROVE  Bottom.step \in {"init_timer", "init_keyboard"} \/ KeyboardLost
    BY <1>9, <2>1 DEF HandlersMeetTheirLines, KeyboardLost
  <2>3. CASE i = 2
    <3>1. stack'[i] = Running BY <1>2, <1>3, <2>3
    <3>2. interrupt_handlers[Running.no] = "NULL" BY <3>1, <2>2
    <3>3. interrupt_handlers[IRQ1] = "NULL" BY <3>1, <3>2, <2>2 DEF MachineInv, HandlersSet
    <3>4. n > 1 /\ Bottom = stack[n]
      <4>1. FrameOK(Running, 1, n) /\ n \in Nat /\ n >= 1 /\ Running.code = "irq"
        BY <1>2, <3>1, <2>2
      <4>2. n # 1 BY <4>1, Zenon DEF FrameOK
      <4>3. n > 1 BY <4>1, <4>2, OneOrMore, Zenon
      <4>. QED BY <4>3, Zenon DEF Bottom
    <3>5. Bottom.code \in {"boot", "spin"} /\ Bottom.step # "sti"
      BY <1>2, <3>4 DEF FrameOK
    <3>. QED BY <3>3, <3>5 DEF MachineInv, HandlersSet, KeyboardLost
  <2>4. CASE i > 2
    <3>1. i - 1 \in 1 .. n /\ i - 1 > 1 /\ stack'[i] = stack[i - 1] BY <1>2, <1>3, <2>4
    <3>. QED BY <3>1, <2>1, <2>2 DEF MachineInv, HandlersMeetTheirLines
  <2>. QED BY <2>2, <2>3, <2>4
<1>13. Booted' <=> Booted BY <1>1, <1>7, <1>9, BootedIs, BootedIsNext
<1>14. ~Inserting' BY <1>8 DEF Inserting
<1>15. Booted => ~Inserting
  <2>1. SUFFICES ASSUME Inserting PROVE ~Booted OBVIOUS
  <2>2. Running.heap # 0 /\ Running.code = "boot" /\ Running.step = "create_new_page_directory"
    BY <2>1 DEF Inserting
  <2>3. n = 1
    <3>1. FrameOK(Running, 1, n) BY <1>1, StackFacts
    <3>. QED BY <3>1, <2>2 DEF FrameOK
  <2>. QED BY <2>2, <2>3, <1>1, <1>2, BootedIs
<1>16. BlocksOK' /\ InsertOK' BY <1>7, <1>13, <1>14, <1>15, HeapStays
<1>17. MachineType' /\ Rest' BY DEF MachineInv, MachineType, Rest, heap, shell
<1>. QED BY <1>7, <1>10, <1>11, <1>12, <1>16, <1>17 DEF MachineInv

\* Nothing on the stack changes, nor the flag.
LEMMA StackStays ==
  ASSUME MachineInv, Rest', pending' \subseteq LINES,
         UNCHANGED <<enabled, inService, interrupt_handlers, stack, heap>>
  PROVE  MachineInv'
<1>1. MachineType' BY DEF MachineInv, MachineType, heap
<1>2. StackOK' /\ FlagOK' BY DEF MachineInv, StackOK, FlagOK, Running
<1>3. InServiceOnlyBeforeEoi' BY DEF MachineInv, InServiceOnlyBeforeEoi, Running
<1>4. HandlersSet' /\ HandlersMeetTheirLines'
  BY DEF MachineInv, HandlersSet, HandlersMeetTheirLines, Bottom, KeyboardLost
<1>5. BlocksOK' /\ InsertOK'
  BY DEF MachineInv, BlocksOK, InsertOK, heap, Booted, Floor, Inserting, Running
<1>. QED BY <1>1, <1>2, <1>3, <1>4, <1>5 DEF MachineInv

---------------------------------------------------------------------------
\* The steps, one by one.

\* An EOI ends the one service there is.
LEMMA EndedAlone == ASSUME NEW no PROVE Ended({no}) \subseteq {no} /\ (Rank(no) <= Rank(no) => Ended({no}) = {no})
BY DEF Ended

LEMMA RankFacts == \A no \in LINES \cup {CASCADE} : Rank(no) \in Int
BY ConstantFacts DEF Rank, CASCADE, Slave

\* The EOI of the running handler empties both registers.
LEMMA EoiEmpties ==
  ASSUME MachineInv, Running.code = "irq"
  PROVE  AfterEoi(Running.no) = {}
<1>. DEFINE no == Running.no
<1>1. no \in LINES
  <2>1. FrameOK(Running, 1, Len(stack)) BY StackFacts DEF MachineInv
  <2>. QED BY <2>1 DEF FrameOK
<1>2. ~Slave(CASCADE) BY DEF Slave, CASCADE
<1>3. Rank(no) <= Rank(no) /\ Rank(CASCADE) <= Rank(CASCADE) BY <1>1, RankFacts
<1>4. Ended({no}) = {no} /\ Ended({CASCADE}) = {CASCADE} BY <1>3, EndedAlone
<1>5. CASE inService = {} BY <1>5 DEF AfterEoi
<1>6. CASE inService # {} /\ Slave(no)
  <2>1. inService = {no, CASCADE} BY <1>6 DEF MachineInv, InServiceOnlyBeforeEoi
  <2>2. {s \in inService : ~Slave(s)} = {CASCADE} BY <2>1, <1>2, <1>6
  <2>3. {s \in inService : Slave(s)} = {no} BY <2>1, <1>2, <1>6
  <2>. QED BY <2>1, <2>2, <2>3, <1>4, <1>6 DEF AfterEoi, Eoi
<1>7. CASE inService # {} /\ ~Slave(no)
  <2>1. inService = {no} BY <1>7 DEF MachineInv, InServiceOnlyBeforeEoi
  <2>2. {s \in inService : ~Slave(s)} = {no} BY <2>1, <1>7
  <2>. QED BY <2>1, <2>2, <1>4, <1>7 DEF AfterEoi, Eoi
<1>. QED BY <1>5, <1>6, <1>7

\* A step of a frame's own.
IsStep(f, step, h) ==
  /\ f \in FrameType /\ f.code = Running.code /\ f.no = Running.no /\ f.flag = Running.flag
  /\ f.step = step /\ f.heap = h

LEMMA StepFrame ==
  ASSUME MachineInv, NEW step \in Steps, NEW h \in 0 .. 8
  PROVE  IsStep([Running EXCEPT !.step = step, !.heap = h], step, h)
<1>1. Running \in FrameType BY StackFacts DEF MachineInv
<1>. QED BY <1>1 DEF FrameType, IsStep

LEMMA GoToFrame ==
  ASSUME MachineInv, NEW step \in Steps, GoTo(step)
  PROVE  \E f : Becomes(f) /\ IsStep(f, step, Running.heap)
<1>. PICK f : f = [Running EXCEPT !.step = step] OBVIOUS
<1>1. Running \in FrameType BY StackFacts DEF MachineInv
<1>2. Becomes(f) BY Zenon DEF GoTo
<1>3. IsStep(f, step, Running.heap) BY <1>1 DEF FrameType, IsStep
<1>. QED BY <1>2, <1>3

LEMMA NewFrame ==
  ASSUME NEW code \in Codes, NEW step \in Steps, NEW no \in Nat, NEW flag \in BOOLEAN
  PROVE  LET f == Frame(code, step, no, flag) IN
         /\ f \in FrameType /\ f.code = code /\ f.step = step /\ f.no = no
         /\ f.flag = flag /\ f.heap = 0
BY DEF Frame, FrameType

\* A handler's step to another place of its own.
LEMMA HandlerStep ==
  ASSUME MachineInv, NEW here, At("irq", here), here # "eoi", NEW step \in Steps, step # "eoi",
         GoTo(step), Rest', UNCHANGED <<enabled, pic, interrupt_handlers, heap>>
  PROVE  MachineInv'
<1>1. Running.code = "irq" /\ Running.heap = 0 /\ Running.step # "eoi" BY DEF At
<1>2. PICK f : Becomes(f) /\ IsStep(f, step, Running.heap) BY GoToFrame
<1>3. inService' = {} /\ pending' = pending
  BY <1>1 DEF MachineInv, InServiceOnlyBeforeEoi, pic
<1>. QED BY <1>1, <1>2, <1>3, HandlerGoesOn DEF IsStep

LEMMA EoiStep ==
  ASSUME MachineInv, interrupt_request_pic_handler
  PROVE  MachineInv'
<1>1. Running.code = "irq" /\ Running.heap = 0
  BY DEF At, interrupt_request_pic_handler
<1>2. PICK f : Becomes(f) /\ IsStep(f, "call", Running.heap)
  <2>1. GoTo("call") /\ "call" \in Steps BY DEF interrupt_request_pic_handler, Steps
  <2>. QED BY <2>1, GoToFrame
<1>3. inService' = {} BY <1>1, EoiEmpties DEF interrupt_request_pic_handler
<1>4. Rest' BY DEF interrupt_request_pic_handler, MachineInv, Rest, shell
<1>5. UNCHANGED <<enabled, pending, interrupt_handlers, heap>>
  BY DEF interrupt_request_pic_handler
<1>. QED BY <1>1, <1>2, <1>3, <1>4, <1>5, HandlerGoesOn DEF IsStep

LEMMA EnterStep ==
  ASSUME MachineInv, user_shell_enter
  PROVE  MachineInv'
<1>. PICK f : f = [Running EXCEPT !.step = "command", !.heap = 1] OBVIOUS
<1>1. Running.code = "irq" /\ Running.heap = 0 /\ Running.step = "key" /\ Becomes(f)
  BY DEF At, user_shell_enter
<1>2. IsStep(f, "command", 1)
  <2>1. "command" \in Steps /\ 1 \in 0 .. 8 BY DEF Steps
  <2>. QED BY <2>1, StepFrame
<1>3. inService' = {} /\ pending' = pending
  BY <1>1 DEF user_shell_enter, MachineInv, InServiceOnlyBeforeEoi, Elsewhere, pic
<1>4. Rest' BY DEF user_shell_enter, MachineInv, Rest, shell, Elsewhere
<1>5. UNCHANGED <<enabled, interrupt_handlers, heap>> BY DEF user_shell_enter, Elsewhere
<1>. QED BY <1>1, <1>2, <1>3, <1>4, <1>5, HandlerGoesOn DEF IsStep

LEMMA ExceptionStep ==
  ASSUME MachineInv, Running.code = "irq", Running.heap = 0, Running.step \in {"call", "command"},
         NEW no \in Nat, Exception(no),
         Running.step = "call" => interrupt_handlers[Running.no] = "NULL"
  PROVE  MachineInv'
<1>. PICK f : f = Frame("exception", "message", no, enabled) OBVIOUS
<1>1. /\ f \in FrameType /\ f.code = "exception" /\ f.heap = 0 /\ f.step = "message"
  <2>1. enabled \in BOOLEAN /\ "exception" \in Codes BY DEF MachineInv, MachineType, Codes
  <2>2. "message" \in Steps BY DEF Steps
  <2>. QED BY <2>1, <2>2, NewFrame
<1>2. stack' = <<f>> \o stack /\ enabled' = FALSE BY DEF Exception
<1>3. inService' = {} BY DEF Exception, MachineInv, InServiceOnlyBeforeEoi, pic
<1>4. InServiceOnlyBeforeEoi' BY <1>3 DEF InServiceOnlyBeforeEoi
<1>5. pending' \subseteq LINES BY DEF Exception, MachineInv, MachineType, pic
<1>6. UNCHANGED <<interrupt_handlers, shell, heap, paged, halted>> BY DEF Exception
<1>. QED BY <1>1, <1>2, <1>4, <1>5, <1>6, FramePushed

LEMMA DeliverStep ==
  ASSUME MachineInv, NEW no \in LINES, Deliver(no)
  PROVE  MachineInv'
<1>. PICK f : f = Frame("irq", "eoi", no, enabled) OBVIOUS
<1>1. enabled /\ Running.code \in {"boot", "spin"} /\ Running.step # "sti"
  BY DEF Deliver, MachineInv, FlagOK
<1>2. no \in Nat BY ConstantFacts
<1>3. /\ f \in FrameType /\ f.code = "irq" /\ f.heap = 0 /\ f.no = no /\ f.flag = TRUE /\ f.step = "eoi"
  <2>1. enabled \in BOOLEAN /\ "irq" \in Codes BY DEF MachineInv, MachineType, Codes
  <2>2. enabled = TRUE BY <1>1, <2>1, Zenon
  <2>3. "eoi" \in Steps BY DEF Steps
  <2>4. /\ f \in FrameType /\ f.code = "irq" /\ f.heap = 0 /\ f.no = no /\ f.flag = enabled
        /\ f.step = "eoi"
    BY <1>2, <2>1, <2>3, NewFrame
  <2>. QED BY <2>2, <2>4, Zenon
<1>4. stack' = <<f>> \o stack /\ enabled' = FALSE BY DEF Deliver
<1>5. inService = {} BY <1>1 DEF MachineInv, InServiceOnlyBeforeEoi
<1>6. Running' = f
  <2>1. StackOK BY DEF MachineInv
  <2>. QED BY <1>3, <1>4, <2>1, PushFacts DEF Running
<1>7. InServiceOnlyBeforeEoi'
  <2>1. inService' = {no} \cup (IF Slave(no) THEN {CASCADE} ELSE {}) BY <1>5 DEF Deliver
  <2>2. Running'.code = "irq" /\ Running'.step = "eoi" /\ Running'.no = no BY <1>3, <1>6
  <2>. QED BY <2>1, <2>2 DEF InServiceOnlyBeforeEoi
<1>8. pending' \subseteq LINES BY DEF Deliver, MachineInv, MachineType
<1>9. UNCHANGED <<interrupt_handlers, shell, heap, paged, halted>> BY DEF Deliver
<1>10. /\ Running.heap # 0 => Running.code = "boot"
       /\ Running.step = "create_new_page_directory" \/ Running.heap = 0
       /\ Running.step # "eoi"
  <2>1. FrameOK(Running, 1, Len(stack)) BY StackFacts DEF MachineInv
  <2>. QED BY <1>1, <2>1 DEF FrameOK
<1>. QED BY <1>1, <1>3, <1>4, <1>7, <1>8, <1>9, <1>10, FramePushed

LEMMA SpinFrame ==
  \E f \in FrameType :
    f = Frame("spin", "for", 0, TRUE) /\ f.code = "spin" /\ f.step = "for" /\ f.heap = 0
<1>. DEFINE f == [code |-> "spin", step |-> "for", no |-> 0, flag |-> TRUE,
                  heap |-> 0, entry |-> 0, location |-> 0, reg |-> 0]
<1>1. f \in FrameType /\ f.code = "spin" /\ f.step = "for" /\ f.heap = 0
  BY DEF FrameType, Codes, Steps
<1>2. f = Frame("spin", "for", 0, TRUE) BY DEF Frame
<1>. HIDE DEF f
<1>. QED BY <1>1, <1>2

LEMMA IretStep ==
  ASSUME MachineInv, iret
  PROVE  MachineInv'
<1>. DEFINE n == Len(stack)
<1>1. StackOK /\ Running.code = "irq" /\ Running.heap = 0 /\ Running.step # "eoi"
  BY DEF MachineInv, iret, At
<1>2. /\ \A i \in 1 .. n : stack[i] \in FrameType /\ FrameOK(stack[i], i, n)
      /\ FrameOK(Running, 1, n) /\ n \in Nat /\ n >= 1
  BY <1>1, StackFacts
<1>3. n = 2 /\ Running.flag = TRUE BY <1>1, <1>2 DEF FrameOK
<1>4. stack' \in Seq(FrameType) /\ Len(stack') = 1 /\ stack'[1] = stack[2]
  <2>1. stack' = Tail(stack) BY DEF iret
  <2>2. /\ stack' \in Seq(FrameType) /\ Len(stack') = 2 - 1
        /\ \A i \in 1 .. Len(stack') : stack'[i] = stack[i + 1]
    BY <1>1, <1>3, <2>1, PopFacts
  <2>. QED BY <2>2
<1>5. FrameOK(stack[2], 2, 2) BY <1>2, <1>3
<1>6. FrameOK(stack[2], 1, 1) BY <1>5 DEF FrameOK
<1>7. StackOK' BY <1>4, <1>6 DEF StackOK, StackOf
<1>8. Running' = stack[2] /\ Bottom' = stack[2] /\ Bottom = stack[2]
  BY <1>3, <1>4 DEF Running, Bottom
<1>9. FlagOK' BY <1>5, <1>8 DEF FlagOK, FrameOK
<1>10. HandlersSet' BY <1>8 DEF MachineInv, HandlersSet, iret
<1>11. HandlersMeetTheirLines' BY <1>4 DEF HandlersMeetTheirLines
<1>12. inService' = {} BY <1>1 DEF MachineInv, InServiceOnlyBeforeEoi, iret, pic
<1>13. InServiceOnlyBeforeEoi' BY <1>12 DEF InServiceOnlyBeforeEoi
<1>14. Booted' <=> Booted BY <1>1, <1>7, <1>8, BootedIs, BootedIsNext
<1>15. ~Inserting BY <1>1 DEF Inserting
<1>16. Booted' => ~Inserting'
  <2>1. SUFFICES ASSUME Inserting' PROVE ~Booted BY <1>14
  <2>2. stack[2].heap # 0 BY <2>1, <1>8 DEF Inserting
  <2>3. stack[2].code = "boot" /\ stack[2].step = "create_new_page_directory"
    BY <2>2, <1>5 DEF FrameOK
  <2>. QED BY <2>3, <1>1, <1>8, BootedIs
<1>17. BlocksOK' /\ InsertOK' BY <1>7, <1>14, <1>15, <1>16, HeapStays DEF iret
<1>18. Rest' BY DEF MachineInv, Rest, iret, shell
<1>19. enabled' = TRUE BY <1>3 DEF iret
<1>20. MachineType' BY <1>19 DEF MachineInv, MachineType, iret, heap, pic
<1>. QED BY <1>7, <1>9, <1>10, <1>11, <1>13, <1>17, <1>18, <1>20 DEF MachineInv

LEMMA ExceptionEnds ==
  ASSUME MachineInv, interrupt_service_request_handler
  PROVE  MachineInv'
<1>1. UNCHANGED <<pic, interrupt_handlers, OS_MODE, number_of_timer_cycles, heap, paged>>
  BY DEF interrupt_service_request_handler
<1>2. Running.code = "exception" /\ Running.heap = 0
  BY DEF interrupt_service_request_handler, At
<1>3. CASE UNCHANGED <<enabled, stack, buffered>> /\ halted' = TRUE
  <2>1. Rest' /\ pending' \subseteq LINES
    BY <1>1, <1>3 DEF MachineInv, Rest, MachineType, pic
  <2>. QED BY <1>1, <1>3, <2>1, StackStays DEF pic
<1>4. CASE clear_current_caused_kernel_interrupt
  <2>1. PICK f \in FrameType :
          /\ stack' = <<f>> /\ f.code = "spin" /\ f.step = "for" /\ f.heap = 0
    BY <1>4, SpinFrame, Zenon DEF clear_current_caused_kernel_interrupt
  <2>2. enabled' = TRUE /\ buffered' = FALSE /\ halted' = halted
    BY <1>4 DEF clear_current_caused_kernel_interrupt, next_kernel_shell_print
  <2>3. stack' \in Seq(FrameType) /\ Len(stack') = 1 /\ stack'[1] = f BY <2>1
  <2>4. FrameOK(f, 1, 1) BY <2>1 DEF FrameOK
  <2>5. StackOK' BY <2>3, <2>4 DEF StackOK, StackOf
  <2>6. Running' = f /\ Bottom' = f BY <2>3 DEF Running, Bottom
  <2>7. FlagOK' BY <2>1, <2>6 DEF FlagOK
  <2>8. HandlersSet' BY <1>1, <2>1, <2>6 DEF MachineInv, HandlersSet
  <2>9. HandlersMeetTheirLines' BY <2>3 DEF HandlersMeetTheirLines
  <2>10. inService' = {} BY <1>1, <1>2 DEF MachineInv, InServiceOnlyBeforeEoi, pic
  <2>11. InServiceOnlyBeforeEoi' BY <2>10 DEF InServiceOnlyBeforeEoi
  <2>12. Booted' BY <2>1, <2>5, <2>6, BootedIsNext
  <2>13. ~Inserting /\ ~Inserting' BY <1>2, <2>1, <2>6 DEF Inserting
  <2>14. BlocksOK' /\ InsertOK' BY <1>1, <2>5, <2>12, <2>13, HeapStays
  <2>15. Rest' /\ MachineType' BY <1>1, <2>2 DEF MachineInv, Rest, MachineType, heap, pic
  <2>. QED BY <2>5, <2>7, <2>8, <2>9, <2>11, <2>14, <2>15 DEF MachineInv
<1>. QED BY <1>3, <1>4 DEF interrupt_service_request_handler

LEMMA CallStep ==
  ASSUME MachineInv, call_handler
  PROVE  MachineInv'
<1>. DEFINE handler == interrupt_handlers[Running.no]
<1>1. At("irq", "call") BY DEF call_handler
<1>2. Running.code = "irq" /\ Running.heap = 0 /\ Running.step = "call" BY <1>1 DEF At
<1>3. CASE handler = "NULL" /\ Exception(14)
  BY <1>2, <1>3, ExceptionStep
<1>4. ASSUME NEW step \in {"iret", "key"}, GoTo(step), Rest',
             UNCHANGED <<enabled, pic, interrupt_handlers, heap>>
      PROVE  MachineInv'
  <2>1. step \in Steps /\ step # "eoi" BY DEF Steps
  <2>. QED BY <1>1, <1>4, <2>1, HandlerStep
<1>5. CASE /\ handler = "timer_callback" /\ GoTo("iret")
           /\ number_of_timer_cycles' =
                IF number_of_timer_cycles > WAIT THEN number_of_timer_cycles
                ELSE number_of_timer_cycles + 1
           /\ UNCHANGED <<enabled, pic, interrupt_handlers, OS_MODE, buffered, heap,
                          paged, halted>>
  <2>1. Rest' BY <1>5 DEF MachineInv, Rest
  <2>. QED BY <1>4, <1>5, <2>1
<1>6. CASE /\ handler = "keyboard_callback" /\ GoTo("key")
           /\ UNCHANGED <<enabled, pic, interrupt_handlers, shell, heap, paged, halted>>
  <2>1. Rest' BY <1>6 DEF MachineInv, Rest, shell
  <2>. QED BY <1>4, <1>6, <2>1
<1>. QED BY <1>3, <1>5, <1>6 DEF call_handler

LEMMA ShellStep ==
  ASSUME MachineInv,
         \/ kernel_user_input \/ start_paging_instruction \/ wait_ms
         \/ \E effect \in Effects : command(effect)
  PROVE  MachineInv'
<1>1. UNCHANGED <<enabled, pic, interrupt_handlers, heap, paged>>
  BY DEF kernel_user_input, start_paging_instruction, wait_ms, command, Elsewhere
<1>2. ASSUME NEW here \in {"key", "command", "start_paging_instruction", "wait"},
             NEW step \in {"iret", "wait", "start_paging_instruction"},
             At("irq", here), GoTo(step), Rest'
      PROVE  MachineInv'
  <2>1. step \in Steps /\ step # "eoi" /\ here # "eoi" BY DEF Steps
  <2>. QED BY <1>1, <1>2, <2>1, HandlerStep
<1>3. ASSUME UNCHANGED stack, Rest' PROVE MachineInv'
  <2>1. pending' \subseteq LINES /\ inService' = inService BY <1>1 DEF MachineInv, MachineType, pic
  <2>. QED BY <1>1, <1>3, <2>1, StackStays
<1>4. CASE kernel_user_input
  <2>1. Rest' BY <1>1, <1>4 DEF kernel_user_input, MachineInv, Rest
  <2>. QED BY <1>2, <1>4, <2>1 DEF kernel_user_input
<1>5. CASE start_paging_instruction
  <2>1. Rest' BY <1>1, <1>5 DEF start_paging_instruction, next_kernel_shell_print, MachineInv, Rest
  <2>. QED BY <1>2, <1>5, <2>1 DEF start_paging_instruction
<1>6. CASE wait_ms
  <2>1. Rest' BY <1>1, <1>6 DEF wait_ms, next_kernel_shell_print, MachineInv, Rest
  <2>. QED BY <1>2, <1>3, <1>6, <2>1 DEF wait_ms
<1>7. ASSUME NEW effect \in Effects, command(effect) PROVE MachineInv'
  <2>1. At("irq", "command") BY <1>7 DEF command
  <2>2. CASE /\ effect \in {"returns", "user-mode on", "user-mode off"}
             /\ OS_MODE' = CASE effect = "user-mode on"  -> "USER_MODE_ENABLED"
                              [] effect = "user-mode off" -> "KERNEL_SHELL_MODE"
                              [] effect = "returns"       -> OS_MODE
             /\ next_kernel_shell_print /\ GoTo("iret")
             /\ UNCHANGED <<number_of_timer_cycles, halted>>
    <3>1. Rest' BY <1>1, <2>2 DEF next_kernel_shell_print, MachineInv, Rest
    <3>. QED BY <1>2, <2>1, <2>2, <3>1
  <2>3. CASE GoTo("start_paging_instruction") /\ UNCHANGED <<shell, halted>>
    <3>1. Rest' BY <1>1, <2>3 DEF MachineInv, Rest, shell
    <3>. QED BY <1>2, <2>1, <2>3, <3>1
  <2>4. CASE GoTo("wait") /\ number_of_timer_cycles' = 0 /\ UNCHANGED <<OS_MODE, buffered, halted>>
    <3>1. Rest' BY <1>1, <2>4 DEF MachineInv, Rest
    <3>. QED BY <1>2, <2>1, <2>4, <3>1
  <2>5. CASE halted' = TRUE /\ UNCHANGED <<stack, shell>>
    <3>1. Rest' BY <1>1, <2>5 DEF MachineInv, Rest, shell
    <3>. QED BY <1>3, <2>5, <3>1
  <2>. QED BY <1>7, <2>2, <2>3, <2>4, <2>5 DEF command
<1>. QED BY <1>4, <1>5, <1>6, <1>7

\* One interrupt number gets its handler.
LEMMA HandlerInstalled ==
  ASSUME MachineInv, NEW no \in Vectors, NEW handler \in Handlers, set_interrupt_handler(no, handler)
  PROVE  /\ interrupt_handlers' \in [Vectors -> Handlers] /\ interrupt_handlers'[no] = handler
         /\ \A other \in Vectors \ {no} : interrupt_handlers'[other] = interrupt_handlers[other]
BY DEF MachineInv, MachineType, set_interrupt_handler

LEMMA VectorFacts ==
  /\ IRQ0 \in Vectors /\ IRQ1 \in Vectors /\ 14 \in Vectors /\ 128 \in Vectors
  /\ IRQ0 # IRQ1 /\ 14 \notin {IRQ0, IRQ1} /\ 128 \notin {IRQ0, IRQ1}
BY DEF Vectors, IRQ0, IRQ1

\* At a step of boot the frame at the bottom runs.
LEMMA AtBoot ==
  ASSUME MachineInv, NEW here, At("boot", here)
  PROVE  /\ Running.code = "boot" /\ Running.heap = 0 /\ Running.step = here
         /\ Bottom = Running
<1>1. Running.code = "boot" /\ Running.heap = 0 /\ Running.step = here BY DEF At
<1>2. FrameOK(Running, 1, Len(stack)) /\ Running = stack[1]
  BY StackFacts DEF MachineInv, Running
<1>3. Len(stack) = 1 BY <1>1, <1>2 DEF FrameOK
<1>. QED BY <1>1, <1>2, <1>3 DEF Bottom

LEMMA BootGoesTo ==
  ASSUME MachineInv, NEW here, At("boot", here), here # "end",
         NEW step \in Steps \ {"sti", "eoi"}, GoTo(step),
         enabled' \in BOOLEAN, interrupt_handlers' \in [Vectors -> Handlers],
         step \notin {"init_timer"} => interrupt_handlers'[IRQ0] # "NULL",
         step \notin {"init_timer", "init_keyboard"} => interrupt_handlers'[IRQ1] # "NULL",
         interrupt_handlers'[IRQ0] = "NULL" => interrupt_handlers'[IRQ1] = "NULL",
         Rest', UNCHANGED <<pic, heap>>
  PROVE  MachineInv'
<1>1. Running.code = "boot" /\ Running.heap = 0 /\ Running.step # "end" BY AtBoot
<1>2. PICK f : Becomes(f) /\ IsStep(f, step, Running.heap) BY GoToFrame
<1>3. f \in FrameType /\ f.code = "boot" /\ f.step = step /\ f.heap = 0 BY <1>1, <1>2 DEF IsStep
<1>. QED BY <1>1, <1>2, <1>3, BootGoesOn

\* The type of a frame stands whichever of its numbers changes.
LEMMA FrameUpdate ==
  ASSUME NEW g \in FrameType, NEW m \in Nat, NEW h \in 0 .. 8
  PROVE  /\ [g EXCEPT !.no = m] \in FrameType /\ [g EXCEPT !.heap = h] \in FrameType
         /\ [g EXCEPT !.entry = m] \in FrameType /\ [g EXCEPT !.location = m] \in FrameType
         /\ [g EXCEPT !.reg = m] \in FrameType
BY DEF FrameType

LEMMA CountedFrame ==
  ASSUME NEW g \in FrameType, NEW m \in Nat, NEW f, f = [g EXCEPT !.no = m, !.heap = 1]
  PROVE  f \in FrameType /\ f.code = g.code /\ f.step = g.step /\ f.heap = 1
<1>1. f.code = g.code /\ f.step = g.step /\ f.heap = 1 BY DEF FrameType
<1>2. f \in FrameType
  <2>. PICK a : a = [g EXCEPT !.no = m] OBVIOUS
  <2>. PICK b : b = [a EXCEPT !.heap = 1] OBVIOUS
  <2>1. 1 \in 0 .. 8 OBVIOUS
  <2>2. a \in FrameType /\ b \in FrameType BY <2>1, FrameUpdate, Zenon
  <2>3. f = b BY Zenon
  <2>. QED BY <2>2, <2>3, Zenon
<1>. QED BY <1>1, <1>2, Zenon

LEMMA BootStep ==
  ASSUME MachineInv, Boot
  PROVE  MachineInv'
<1>1. /\ interrupt_handlers \in [Vectors -> Handlers] /\ enabled \in BOOLEAN
      /\ interrupt_handlers[IRQ0] = "NULL" => interrupt_handlers[IRQ1] = "NULL"
  BY DEF MachineInv, MachineType, HandlersSet
<1>2. ASSUME NEW here, At("boot", here)
      PROVE  /\ here \notin {"sti", "init_timer"} => interrupt_handlers[IRQ0] # "NULL"
             /\ here \notin {"sti", "init_timer", "init_keyboard"} =>
                  interrupt_handlers[IRQ1] # "NULL"
  BY <1>2, AtBoot DEF MachineInv, HandlersSet
<1>3. CASE interrupt_request_pic_install
  <2>1. Rest' /\ enabled' \in BOOLEAN /\ UNCHANGED <<pic, heap, interrupt_handlers>>
    BY <1>3 DEF interrupt_request_pic_install, Kept, MachineInv, Rest, shell
  <2>2. At("boot", "sti") /\ GoTo("init_timer") /\ "init_timer" \in Steps \ {"sti", "eoi"}
    BY <1>3 DEF interrupt_request_pic_install, Steps
  <2>. QED BY <1>1, <2>1, <2>2, BootGoesTo
<1>4. CASE init_timer
  <2>1. Rest' /\ enabled' \in BOOLEAN /\ UNCHANGED <<pic, heap>>
    BY <1>1, <1>4 DEF init_timer, Kept, MachineInv, Rest, shell
  <2>2. /\ At("boot", "init_timer") /\ GoTo("init_keyboard")
        /\ "init_keyboard" \in Steps \ {"sti", "eoi"}
    BY <1>4 DEF init_timer, Steps
  <2>3. interrupt_handlers' \in [Vectors -> Handlers] /\ interrupt_handlers'[IRQ0] # "NULL"
    <3>1. set_interrupt_handler(IRQ0, "timer_callback") /\ "timer_callback" \in Handlers
      BY <1>4 DEF init_timer, Handlers
    <3>. QED BY <3>1, VectorFacts, HandlerInstalled
  <2>. QED BY <2>1, <2>2, <2>3, BootGoesTo
<1>5. CASE init_keyboard
  <2>1. Rest' /\ enabled' \in BOOLEAN /\ UNCHANGED <<pic, heap>>
    BY <1>1, <1>5 DEF init_keyboard, Kept, MachineInv, Rest, shell
  <2>2. /\ At("boot", "init_keyboard") /\ GoTo("syscall") /\ "syscall" \in Steps \ {"sti", "eoi"}
    BY <1>5 DEF init_keyboard, Steps
  <2>3. /\ interrupt_handlers' \in [Vectors -> Handlers] /\ interrupt_handlers'[IRQ1] # "NULL"
        /\ interrupt_handlers'[IRQ0] = interrupt_handlers[IRQ0]
    <3>1. set_interrupt_handler(IRQ1, "keyboard_callback") /\ "keyboard_callback" \in Handlers
      BY <1>5 DEF init_keyboard, Handlers
    <3>. QED BY <3>1, VectorFacts, HandlerInstalled
  <2>4. interrupt_handlers[IRQ0] # "NULL" BY <1>2, <2>2
  <2>. QED BY <2>1, <2>2, <2>3, <2>4, BootGoesTo
<1>6. ASSUME NEW here \in {"syscall", "start_paging", "create_new_page_directory", "init_kernel_shell"},
             NEW step \in {"start_paging", "create_new_page_directory", "init_kernel_shell", "end"},
             At("boot", here), GoTo(step), Rest', enabled' = enabled, UNCHANGED <<pic, heap>>,
             interrupt_handlers' \in [Vectors -> Handlers],
             interrupt_handlers'[IRQ0] = interrupt_handlers[IRQ0],
             interrupt_handlers'[IRQ1] = interrupt_handlers[IRQ1]
      PROVE  MachineInv'
  <2>1. step \in Steps \ {"sti", "eoi"} BY DEF Steps
  <2>2. interrupt_handlers[IRQ0] # "NULL" /\ interrupt_handlers[IRQ1] # "NULL" BY <1>2, <1>6
  <2>3. here # "end" /\ enabled' \in BOOLEAN BY <1>1, <1>6
  <2>. QED BY <1>6, <2>1, <2>2, <2>3, BootGoesTo
<1>7. ASSUME NEW no \in {14, 128}, NEW handler \in Handlers, set_interrupt_handler(no, handler)
      PROVE  /\ interrupt_handlers' \in [Vectors -> Handlers]
             /\ interrupt_handlers'[IRQ0] = interrupt_handlers[IRQ0]
             /\ interrupt_handlers'[IRQ1] = interrupt_handlers[IRQ1]
  BY <1>7, VectorFacts, HandlerInstalled
<1>8. CASE setup_interrupts
  <2>1. Rest' /\ enabled' = enabled /\ UNCHANGED <<pic, heap>>
    BY <1>8 DEF setup_interrupts, Kept, MachineInv, Rest, shell
  <2>2. set_interrupt_handler(128, "thingy") /\ "thingy" \in Handlers
    BY <1>8 DEF setup_interrupts, Handlers
  <2>. QED BY <1>6, <1>7, <1>8, <2>1, <2>2 DEF setup_interrupts
<1>9. CASE start_paging
  <2>1. Rest' /\ enabled' = enabled /\ UNCHANGED <<pic, heap>>
    BY <1>9 DEF start_paging, Kept, MachineInv, Rest, shell
  <2>2. /\ set_interrupt_handler(14, "page_fault_interrupt_handler")
        /\ "page_fault_interrupt_handler" \in Handlers
    BY <1>9 DEF start_paging, Handlers
  <2>. QED BY <1>6, <1>7, <1>9, <2>1, <2>2 DEF start_paging
<1>10. CASE create_new_page_directory
  <2>1. At("boot", "create_new_page_directory") /\ UNCHANGED <<enabled, interrupt_handlers, pic, heap>>
    BY <1>10 DEF create_new_page_directory, Kept
  <2>2. CASE paged' = TRUE /\ GoTo("init_kernel_shell")
    <3>1. Rest' BY <1>10, <2>2 DEF create_new_page_directory, Kept, MachineInv, Rest, shell
    <3>. QED BY <1>1, <1>6, <2>1, <2>2, <3>1
  <2>3. CASE Becomes([Running EXCEPT !.no = @ + 1, !.heap = 1]) /\ UNCHANGED paged
    <3>. PICK f : f = [Running EXCEPT !.no = @ + 1, !.heap = 1] OBVIOUS
    <3>1. Running \in FrameType BY StackFacts DEF MachineInv
    <3>2. f \in FrameType /\ f.code = Running.code /\ f.step = Running.step /\ f.heap = 1
      <4>1. Running.no \in Nat BY <3>1 DEF FrameType
      <4>2. Running.no + 1 \in Nat BY <4>1
      <4>3. f = [Running EXCEPT !.no = Running.no + 1, !.heap = 1] OBVIOUS
      <4>. QED BY <3>1, <4>2, <4>3, CountedFrame, Zenon
    <3>3. /\ Running.code = "boot" /\ Running.heap = 0 /\ Running.step = "create_new_page_directory"
          /\ interrupt_handlers[IRQ0] # "NULL" /\ interrupt_handlers[IRQ1] # "NULL"
      BY <1>2, <2>1, AtBoot
    <3>4. Rest' BY <1>10, <2>3 DEF create_new_page_directory, Kept, MachineInv, Rest, shell
    <3>5. Becomes(f) BY <2>3, Zenon
    <3>. QED BY <1>1, <2>1, <3>2, <3>3, <3>4, <3>5, BootGoesOn
  <2>. QED BY <1>10, <2>2, <2>3 DEF create_new_page_directory
<1>11. CASE init_kernel_shell
  <2>1. Rest' /\ enabled' = enabled /\ UNCHANGED <<pic, heap, interrupt_handlers>>
    BY <1>11 DEF init_kernel_shell, MachineInv, Rest
  <2>. QED BY <1>1, <1>6, <1>11, <2>1 DEF init_kernel_shell
<1>. QED BY <1>3, <1>4, <1>5, <1>8, <1>9, <1>10, <1>11 DEF Boot

---------------------------------------------------------------------------
\* A step of insert_heap_entry: the frame it leaves, and what it does to the heap.
Inserted(f) ==
  LET k == Running.heap IN
  /\ f \in FrameType /\ f.code = Running.code /\ f.no = Running.no /\ f.flag = Running.flag
  /\ f.step = Running.step /\ f.heap = (IF k = 8 THEN 0 ELSE k + 1)
  /\ k = 1 => f.entry = mallocable_address
  /\ k \in 2 .. 7 => f.entry = Running.entry
  /\ k = 4 => f.location = mallocable_address
  /\ k \in {5, 6, 7} => f.location = Running.location
  /\ k \in {2, 5, 7} => f.reg = mallocable_address + Added[k]
  /\ mallocable_address' = (IF k \in {3, 6, 8} THEN Running.reg ELSE mallocable_address)
  /\ handed' = (IF k = 8 THEN Append(handed, Block(Running)) ELSE handed)

LEMMA AddedFacts ==
  /\ Added[2] = HDR /\ Added[5] = SIZE /\ Added[7] = FTR
BY DEF Added

\* A frame with one of the insertion's locals changed.
Same(f, g) ==
  f \in FrameType /\ f.code = g.code /\ f.no = g.no /\ f.flag = g.flag /\ f.step = g.step

LEMMA FrameWith ==
  ASSUME NEW g \in FrameType, NEW m \in Nat
  PROVE  /\ LET f == [g EXCEPT !.entry = m] IN
            Same(f, g) /\ f.heap = g.heap /\ f.entry = m
         /\ LET f == [g EXCEPT !.reg = m] IN
            /\ Same(f, g) /\ f.heap = g.heap /\ f.entry = g.entry /\ f.location = g.location
            /\ f.reg = m
         /\ LET f == [g EXCEPT !.location = m] IN
            Same(f, g) /\ f.heap = g.heap /\ f.entry = g.entry /\ f.location = m
BY DEF FrameType, Same

LEMMA FrameOn ==
  ASSUME NEW g \in FrameType, NEW h \in 0 .. 8
  PROVE  LET f == [g EXCEPT !.heap = h] IN
         Same(f, g) /\ f.heap = h /\ f.entry = g.entry /\ f.location = g.location /\ f.reg = g.reg
BY DEF FrameType, Same

LEMMA FrameDone ==
  ASSUME NEW g \in FrameType
  PROVE  LET f == [g EXCEPT !.heap = 0, !.entry = 0, !.location = 0, !.reg = 0] IN
         Same(f, g) /\ f.heap = 0
<1>. DEFINE f == [g EXCEPT !.heap = 0, !.entry = 0, !.location = 0, !.reg = 0]
<1>1. f.code = g.code /\ f.no = g.no /\ f.flag = g.flag /\ f.step = g.step /\ f.heap = 0
  BY DEF FrameType
<1>2. f \in FrameType
  <2>. PICK a : a = [g EXCEPT !.heap = 0] OBVIOUS
  <2>. PICK b : b = [a EXCEPT !.entry = 0] OBVIOUS
  <2>. PICK c : c = [b EXCEPT !.location = 0] OBVIOUS
  <2>. PICK d : d = [c EXCEPT !.reg = 0] OBVIOUS
  <2>1. 0 \in Nat /\ 0 \in 0 .. 8 OBVIOUS
  <2>2. a \in FrameType /\ b \in FrameType /\ c \in FrameType /\ d \in FrameType
    BY <2>1, FrameUpdate, Zenon
  <2>3. f = d BY Zenon
  <2>. QED BY <2>2, <2>3, Zenon
<1>. QED BY <1>1, <1>2, Zenon DEF Same

LEMMA InsertFrame ==
  ASSUME MachineInv, insert_heap_entry
  PROVE  Running.heap \in 1 .. 8 /\ \E f : Becomes(f) /\ Inserted(f)
<1>. DEFINE k == Running.heap
            next == IF k = 8
                    THEN [Running EXCEPT !.heap = 0, !.entry = 0, !.location = 0, !.reg = 0]
                    ELSE [Running EXCEPT !.heap = k + 1]
            m == mallocable_address
<1>1. Running \in FrameType /\ k \in 0 .. 8
  <2>1. Running \in FrameType BY StackFacts DEF MachineInv
  <2>. QED BY <2>1 DEF FrameType
<1>2. k \in 1 .. 8 BY <1>1 DEF insert_heap_entry
<1>3. m \in Nat BY DEF MachineInv, MachineType
<1>4. \/ k = 1 /\ Becomes([next EXCEPT !.entry = m]) /\ UNCHANGED heap
      \/ k \in {2, 5, 7} /\ Becomes([next EXCEPT !.reg = m + Added[k]]) /\ UNCHANGED heap
      \/ k = 4 /\ Becomes([next EXCEPT !.location = m]) /\ UNCHANGED heap
      \/ /\ k \in {3, 6, 8} /\ Becomes(next) /\ m' = Running.reg
         /\ handed' = IF k = 8 THEN Append(handed, Block(Running)) ELSE handed
  BY Zenon DEF insert_heap_entry
<1>5. ASSUME k # 8
      PROVE  /\ Same(next, Running) /\ next.heap = k + 1 /\ next.entry = Running.entry
             /\ next.location = Running.location /\ next.reg = Running.reg
  <2>1. next = [Running EXCEPT !.heap = k + 1] BY <1>5, Zenon
  <2>2. k + 1 \in 0 .. 8 BY <1>2, <1>5
  <2>. HIDE DEF next, k
  <2>. QED BY <1>1, <2>1, <2>2, FrameOn
<1>6. ASSUME k = 8 PROVE Same(next, Running) /\ next.heap = 0
  <2>1. next = [Running EXCEPT !.heap = 0, !.entry = 0, !.location = 0, !.reg = 0]
    BY <1>6, Zenon
  <2>. HIDE DEF next, k
  <2>. QED BY <1>1, <2>1, FrameDone
<1>. HIDE DEF next
<1>7. UNCHANGED heap => m' = m /\ handed' = handed BY DEF heap
<1>8. ASSUME k = 1, Becomes([next EXCEPT !.entry = m]), UNCHANGED heap
      PROVE  \E f : Becomes(f) /\ Inserted(f)
  <2>. PICK f : f = [next EXCEPT !.entry = m] OBVIOUS
  <2>1. Becomes(f) BY <1>8, Zenon
  <2>2. Same(f, next) /\ f.heap = next.heap /\ f.entry = m
    <3>1. next \in FrameType BY <1>5, <1>8 DEF Same
    <3>. QED BY <1>3, <3>1, FrameWith, Zenon
  <2>3. Inserted(f) BY <1>5, <1>7, <1>8, <2>2 DEF Inserted, Same
  <2>. QED BY <2>1, <2>3
<1>9. ASSUME k \in {2, 5, 7}, Becomes([next EXCEPT !.reg = m + Added[k]]), UNCHANGED heap
      PROVE  \E f : Becomes(f) /\ Inserted(f)
  <2>. PICK f : f = [next EXCEPT !.reg = m + Added[k]] OBVIOUS
  <2>1. Becomes(f) BY <1>9, Zenon
  <2>2. m + Added[k] \in Nat BY <1>3, <1>9, AddedFacts, ConstantFacts
  <2>3. /\ Same(f, next) /\ f.heap = next.heap /\ f.entry = next.entry
        /\ f.location = next.location /\ f.reg = m + Added[k]
    <3>1. next \in FrameType BY <1>5, <1>9 DEF Same
    <3>. QED BY <2>2, <3>1, FrameWith, Zenon
  <2>4. Inserted(f) BY <1>5, <1>7, <1>9, <2>3 DEF Inserted, Same
  <2>. QED BY <2>1, <2>4
<1>10. ASSUME k = 4, Becomes([next EXCEPT !.location = m]), UNCHANGED heap
       PROVE  \E f : Becomes(f) /\ Inserted(f)
  <2>. PICK f : f = [next EXCEPT !.location = m] OBVIOUS
  <2>1. Becomes(f) BY <1>10, Zenon
  <2>2. Same(f, next) /\ f.heap = next.heap /\ f.entry = next.entry /\ f.location = m
    <3>1. next \in FrameType BY <1>5, <1>10 DEF Same
    <3>. QED BY <1>3, <3>1, FrameWith, Zenon
  <2>3. Inserted(f) BY <1>5, <1>7, <1>10, <2>2 DEF Inserted, Same
  <2>. QED BY <2>1, <2>3
<1>11. ASSUME k \in {3, 6, 8}, Becomes(next), m' = Running.reg,
              handed' = IF k = 8 THEN Append(handed, Block(Running)) ELSE handed
       PROVE  Becomes(next) /\ Inserted(next)
  BY <1>5, <1>6, <1>11 DEF Inserted, Same
<1>. QED BY <1>2, <1>4, <1>8, <1>9, <1>10, <1>11

LEMMA BlockFacts ==
  ASSUME NEW r \in FrameType
  PROVE  /\ Block(r).header = r.entry /\ Block(r).location = r.location
         /\ Block(r).booted <=> Booted
         /\ Block(r) \in BlockType
<1>1. Booted \in BOOLEAN BY Zenon DEF Booted
<1>2. ASSUME NEW flag \in BOOLEAN
      PROVE  LET b == [header |-> r.entry, location |-> r.location, booted |-> flag] IN
             /\ b.header = r.entry /\ b.location = r.location /\ b.booted = flag
             /\ b \in BlockType
  BY DEF BlockType, FrameType
<1>. QED BY <1>1, <1>2, Zenon DEF Block

LEMMA InsertStep ==
  ASSUME MachineInv, insert_heap_entry
  PROVE  MachineInv'
<1>. DEFINE n == Len(stack)
            k == Running.heap
<1>1. PICK f : Becomes(f) /\ Inserted(f) BY InsertFrame
<1>2. k \in 1 .. 8 /\ f \in FrameType BY <1>1, InsertFrame DEF Inserted
<1>3. /\ StackOK /\ n \in Nat /\ n >= 1
      /\ \A i \in 1 .. n : stack[i] \in FrameType /\ FrameOK(stack[i], i, n)
      /\ Running = stack[1] /\ Running \in FrameType /\ FrameOK(Running, 1, n)
  BY StackFacts DEF MachineInv, Running
<1>4. /\ stack' \in Seq(FrameType) /\ Len(stack') = n /\ stack'[1] = f
      /\ \A i \in 2 .. n : stack'[i] = stack[i]
  BY <1>1, <1>2, <1>3, BecomesFacts
<1>5. FrameOK(f, 1, n) BY <1>1, <1>2, <1>3 DEF FrameOK, Inserted
<1>6. \A i \in 1 .. n : FrameOK(stack'[i], i, n) BY <1>3, <1>4, <1>5
<1>7. StackOK' BY <1>3, <1>4, <1>6 DEF StackOK, StackOf
<1>8. Running' = f BY <1>4 DEF Running
<1>9. Bottom'.code = Bottom.code /\ Bottom'.step = Bottom.step
  <2>1. CASE n = 1
    <3>1. Bottom' = f BY <1>4, <2>1 DEF Bottom
    <3>2. Bottom = Running BY <1>3, <2>1 DEF Bottom
    <3>. QED BY <1>1, <3>1, <3>2 DEF Inserted
  <2>2. CASE n > 1 BY <2>2, <1>3, <1>4 DEF Bottom
  <2>3. n = 1 \/ n > 1
    <3>1. n \in Nat /\ n >= 1 BY <1>3
    <3>. QED BY <3>1, OneOrMore, Zenon
  <2>. QED BY <2>1, <2>2, <2>3, Zenon
<1>10. UNCHANGED <<enabled, pic, interrupt_handlers, shell, paged, halted>>
  BY DEF insert_heap_entry
<1>11. Rest' BY <1>10 DEF MachineInv, Rest, shell
<1>12. MachineType'
  <2>1. mallocable_address' \in Nat BY <1>1, <1>3 DEF Inserted, MachineInv, MachineType, FrameType
  <2>. QED BY <2>1, <1>10 DEF MachineInv, MachineType, pic
<1>13. FlagOK' BY <1>1, <1>8, <1>10 DEF MachineInv, FlagOK, Inserted
<1>14. InServiceOnlyBeforeEoi'
  BY <1>1, <1>8, <1>10 DEF MachineInv, InServiceOnlyBeforeEoi, Inserted, pic
<1>15. HandlersSet' BY <1>9, <1>10 DEF MachineInv, HandlersSet
<1>16. HandlersMeetTheirLines'
  <2>1. DOMAIN stack' = 1 .. n /\ DOMAIN stack = 1 .. n BY <1>3, <1>4
  <2>2. \A i \in 1 .. n : i > 1 => stack'[i] = stack[i] BY <1>3, <1>4
  <2>. QED BY <1>9, <1>10, <2>1, <2>2 DEF MachineInv, HandlersMeetTheirLines, KeyboardLost
<1>17. Booted' <=> Booted BY <1>3, <1>7, <1>9, BootedIs, BootedIsNext
<1>18. InsertOK'
  <2>1. SUFFICES ASSUME Booted, Inserting'
                 PROVE  LET j == f.heap
                            first == f.entry IN
                        /\ j = 2 => mallocable_address' = first
                        /\ j = 3 => f.reg = first + HDR
                        /\ j = 4 => mallocable_address' = first + HDR
                        /\ j >= 5 => f.location = first + HDR
                        /\ j = 5 => mallocable_address' = first + HDR
                        /\ j = 6 => f.reg = first + HDR + SIZE
                        /\ j = 7 => mallocable_address' = first + HDR + SIZE
                        /\ j = 8 => f.reg = first + HDR + SIZE + FTR
    BY <1>8, <1>17 DEF InsertOK
  <2>2. k \in 1 .. 7 /\ f.heap = k + 1 BY <1>1, <1>2, <1>8, <2>1 DEF Inserting, Inserted
  <2>3. CASE k = 1 BY <1>1, <2>2, <2>3 DEF Inserted
  <2>4. CASE k \in 2 .. 7
    <3>1. InsertOK /\ Inserting BY <2>4 DEF MachineInv, Inserting
    <3>. QED BY <1>1, <2>1, <2>2, <2>4, <3>1, AddedFacts DEF InsertOK, Inserted
  <2>. QED BY <2>2, <2>3, <2>4
<1>19. BlocksOK'
  <2>1. /\ handed \in Seq(BlockType)
        /\ \A i \in 1 .. Len(handed) : handed[i].booted =>
             /\ Booted /\ handed[i].location = handed[i].header + HDR
             /\ handed[i].location + SIZE <= Floor
        /\ \A i, j \in 1 .. Len(handed) :
             i < j /\ handed[i].booted /\ handed[j].booted =>
               handed[i].location + SIZE <= handed[j].header
    BY DEF MachineInv, BlocksOK
  <2>2. CASE k # 8
    <3>1. handed' = handed BY <1>1, <2>2 DEF Inserted
    <3>2. Floor' = Floor
      BY <1>1, <1>2, <1>8, <2>2 DEF Floor, Inserting, Inserted
    <3>. QED BY <1>17, <2>1, <3>1, <3>2 DEF BlocksOK
  <2>3. CASE k = 8
    <3>. DEFINE b == Block(Running)
                m == Len(handed)
    <3>1. /\ b.header = Running.entry /\ b.location = Running.location /\ (b.booted <=> Booted)
          /\ b \in BlockType
      BY <1>3, BlockFacts
    <3>2. /\ handed' \in Seq(BlockType) /\ Len(handed') = m + 1 /\ handed'[m + 1] = b
          /\ \A i \in 1 .. m : handed'[i] = handed[i]
      BY <1>1, <2>1, <2>3, <3>1 DEF Inserted
    <3>3. Inserting /\ Floor = Running.entry BY <2>3 DEF Inserting, Floor
    <3>4. ~Inserting' /\ Floor' = Running.reg
      BY <1>1, <1>8, <2>3 DEF Inserting, Floor, Inserted
    <3>5. Booted => /\ Running.location = Running.entry + HDR
                    /\ Running.reg = Running.entry + HDR + SIZE + FTR
      BY <2>3, <3>3 DEF MachineInv, InsertOK
    <3>6. m \in Nat /\ Running.entry \in Nat BY <1>3, <2>1 DEF FrameType
    <3>7. ASSUME NEW i \in 1 .. m, handed[i].booted
          PROVE  /\ Booted /\ handed[i].location = handed[i].header + HDR
                 /\ handed[i].location + SIZE <= Running.entry
                 /\ handed[i].location + SIZE <= Running.reg
      <4>1. /\ Booted /\ handed[i].location = handed[i].header + HDR
            /\ handed[i].location + SIZE <= Running.entry
        BY <2>1, <3>3, <3>7
      <4>2. handed[i].location \in Nat
        <5>1. handed[i] \in BlockType BY <2>1
        <5>. QED BY <5>1 DEF BlockType
      <4>. QED BY <4>1, <4>2, <3>5, <3>6, ConstantFacts
    <3>8. b.booted => /\ Booted /\ b.location = b.header + HDR
                      /\ b.location + SIZE <= Running.reg
      BY <3>1, <3>5, <3>6, ConstantFacts
    <3>9. ASSUME NEW i \in 1 .. m + 1, handed'[i].booted
          PROVE  /\ Booted' /\ handed'[i].location = handed'[i].header + HDR
                 /\ handed'[i].location + SIZE <= Floor'
      <4>. HIDE DEF b
      <4>1. CASE i \in 1 .. m BY <1>17, <3>2, <3>4, <3>7, <3>9, <4>1
      <4>2. CASE i = m + 1 BY <1>17, <3>2, <3>4, <3>8, <3>9, <4>2
      <4>. QED BY <3>6, <4>1, <4>2
    <3>10. ASSUME NEW i \in 1 .. m + 1, NEW j \in 1 .. m + 1, i < j,
                  handed'[i].booted, handed'[j].booted
           PROVE  handed'[i].location + SIZE <= handed'[j].header
      <4>. HIDE DEF b
      <4>1. i \in 1 .. m /\ handed'[i] = handed[i] BY <3>2, <3>6, <3>10
      <4>2. CASE j \in 1 .. m BY <2>1, <3>2, <3>10, <4>1, <4>2
      <4>3. CASE j = m + 1 BY <3>1, <3>2, <3>7, <3>10, <4>1, <4>3
      <4>. QED BY <3>6, <4>2, <4>3
    <3>. HIDE DEF b
    <3>. QED BY <3>2, <3>9, <3>10 DEF BlocksOK
  <2>. QED BY <2>2, <2>3
<1>. QED BY <1>7, <1>11, <1>12, <1>13, <1>14, <1>15, <1>16, <1>18, <1>19 DEF MachineInv

---------------------------------------------------------------------------
LEMMA BootFrame ==
  \E f \in FrameType :
    f = Frame("boot", "sti", 0, FALSE) /\ f.code = "boot" /\ f.step = "sti" /\ f.heap = 0
<1>. DEFINE f == [code |-> "boot", step |-> "sti", no |-> 0, flag |-> FALSE,
                  heap |-> 0, entry |-> 0, location |-> 0, reg |-> 0]
<1>1. f \in FrameType /\ f.code = "boot" /\ f.step = "sti" /\ f.heap = 0
  BY DEF FrameType, Codes, Steps
<1>2. f = Frame("boot", "sti", 0, FALSE) BY DEF Frame
<1>. HIDE DEF f
<1>. QED BY <1>1, <1>2

\* The state in which interrupt_request_pic_install is called.
LEMMA InitInv == Init => MachineInv
<1>. SUFFICES ASSUME Init PROVE MachineInv OBVIOUS
<1>1. PICK f \in FrameType : stack = <<f>> /\ f.code = "boot" /\ f.step = "sti" /\ f.heap = 0
  BY BootFrame, Zenon DEF Init
<1>3. stack \in Seq(FrameType) /\ Len(stack) = 1 /\ stack[1] = f BY <1>1
<1>4. Running = f /\ Bottom = f BY <1>3 DEF Running, Bottom
<1>5. FrameOK(f, 1, 1) BY <1>1 DEF FrameOK
<1>6. StackOK BY <1>3, <1>5 DEF StackOK, StackOf
<1>7. /\ enabled = FALSE /\ pending = {} /\ inService = {} /\ buffered = FALSE /\ paged = FALSE
      /\ halted = FALSE /\ number_of_timer_cycles = 0 /\ OS_MODE = "KERNEL_SHELL_MODE"
      /\ mallocable_address = 0 /\ handed = <<>>
      /\ interrupt_handlers = [no \in Vectors |-> "NULL"]
  BY DEF Init, Vectors
<1>8. Rest BY <1>7 DEF Rest
<1>9. MachineType BY <1>7 DEF MachineType, Handlers
<1>10. FlagOK /\ InServiceOnlyBeforeEoi BY <1>7 DEF FlagOK, InServiceOnlyBeforeEoi
<1>11. HandlersSet
  <2>1. interrupt_handlers[IRQ0] = "NULL" /\ interrupt_handlers[IRQ1] = "NULL"
    BY <1>7, VectorFacts
  <2>. QED BY <1>1, <1>4, <2>1 DEF HandlersSet
<1>12. HandlersMeetTheirLines BY <1>3 DEF HandlersMeetTheirLines
<1>13. BlocksOK BY <1>7 DEF BlocksOK
<1>14. InsertOK BY <1>1, <1>4 DEF InsertOK, Inserting
<1>. QED BY <1>6, <1>8, <1>9, <1>10, <1>11, <1>12, <1>13, <1>14 DEF MachineInv

LEMMA ExceptionRaised ==
  ASSUME MachineInv, raise_exception
  PROVE  MachineInv'
<1>1. Running.code = "irq" /\ Running.heap = 0 /\ Running.step = "command"
  BY DEF raise_exception, At
<1>2. PICK no \in {0, 14} : Exception(no) BY DEF raise_exception
<1>3. no \in Nat BY <1>2
<1>. QED BY <1>1, <1>2, <1>3, ExceptionStep

LEMMA NextInv ==
  ASSUME MachineInv, [Next]_vars
  PROVE  MachineInv'
<1>1. ASSUME NEW no \in LINES, Raise(no) PROVE MachineInv'
  <2>1. pending' \subseteq LINES BY <1>1 DEF Raise, MachineInv, MachineType
  <2>2. UNCHANGED <<enabled, inService, interrupt_handlers, stack, heap>> BY <1>1 DEF Raise
  <2>3. Rest' BY <1>1 DEF Raise, MachineInv, Rest, shell
  <2>. QED BY <2>1, <2>2, <2>3, StackStays
<1>2. ASSUME UNCHANGED vars PROVE MachineInv'
  <2>1. pending' \subseteq LINES BY <1>2 DEF vars, pic, MachineInv, MachineType
  <2>2. UNCHANGED <<enabled, inService, interrupt_handlers, stack, heap>> BY <1>2 DEF vars, pic
  <2>3. Rest' BY <1>2 DEF vars, MachineInv, Rest, shell
  <2>. QED BY <2>1, <2>2, <2>3, StackStays
<1>3. ASSUME Execute PROVE MachineInv'
  BY <1>3, BootStep, InsertStep, EoiStep, CallStep, IretStep, ShellStep, EnterStep,
     ExceptionRaised, ExceptionEnds DEF Execute
<1>. QED BY <1>1, <1>2, <1>3, DeliverStep DEF Next

---------------------------------------------------------------------------
(***************************************************************************)
(* The inductive invariant: whatever interrupts come in during boot, the   *)
(* heap's insertions and the shell's commands, the stack, the flag, the    *)
(* handlers and the heap's end stay as its parts say.                      *)
(***************************************************************************)
THEOREM MachineInvHolds == Spec => []MachineInv
<1>. QED BY InitInv, NextInv, PTL DEF Spec

(***************************************************************************)
(* The registers of the CPU and the PICs, the handlers' table, the frames  *)
(* of the kernel stack and the shell's globals keep their types, and the   *)
(* stack never runs empty.                                                 *)
(***************************************************************************)
THEOREM InterruptsTypeCorrect == Spec => []TypeOK
<1>1. ASSUME MachineInv PROVE TypeOK
  <2>1. StackOK /\ Rest /\ MachineType BY <1>1 DEF MachineInv
  <2>2. /\ stack # <<>>
        /\ \A i \in DOMAIN stack :
             /\ stack[i].code \in {"boot", "irq", "exception", "spin"}
             /\ stack[i].heap \in 0 .. 8
    BY <2>1, StackFacts DEF FrameType, Codes
  <2>3. inService \subseteq LINES \cup {CASCADE}
    <3>1. CASE inService = {} BY <3>1
    <3>2. CASE inService # {}
      <4>1. Running.code = "irq"
            /\ inService = {Running.no} \cup (IF Slave(Running.no) THEN {CASCADE} ELSE {})
        BY <1>1, <3>2 DEF MachineInv, InServiceOnlyBeforeEoi
      <4>2. FrameOK(Running, 1, Len(stack)) BY <2>1, StackFacts
      <4>3. Running.no \in LINES BY <4>1, <4>2 DEF FrameOK
      <4>. QED BY <4>1, <4>3
    <3>. QED BY <3>1, <3>2
  <2>4. {enabled, buffered, paged, halted} \subseteq BOOLEAN
    BY <2>1 DEF Rest, MachineType
  <2>5. /\ pending \subseteq LINES
        /\ interrupt_handlers \in [LINES \cup {IRQ0, IRQ1, 14, 128} ->
             {"NULL", "timer_callback", "keyboard_callback", "thingy",
              "page_fault_interrupt_handler"}]
    BY <2>1 DEF MachineType, Vectors, Handlers
  <2>6. /\ {number_of_timer_cycles, mallocable_address} \subseteq Nat
        /\ OS_MODE \in {"KERNEL_SHELL_MODE", "USER_MODE_ENABLED"}
    BY <2>1 DEF Rest, MachineType
  <2>. QED BY <2>2, <2>3, <2>4, <2>5, <2>6 DEF TypeOK
<1>. QED BY <1>1, MachineInvHolds, PTL

(***************************************************************************)
(* The PICs are never left blocked, also by a handler that an exception    *)
(* abandons: interrupt_request_pic_handler's EOI comes before its handler. *)
(***************************************************************************)
THEOREM PicsNeverBlocked == Spec => []InServiceOnlyBeforeEoi
<1>1. MachineInv => InServiceOnlyBeforeEoi BY DEF MachineInv
<1>. QED BY <1>1, MachineInvHolds, PTL

(***************************************************************************)
(* A timer or keyboard interrupt finds its handler missing only while boot *)
(* has not installed it, or when an interrupt has cut boot short there.    *)
(***************************************************************************)
THEOREM HandlersThere == Spec => []HandlersMeetTheirLines
<1>1. MachineInv => HandlersMeetTheirLines BY DEF MachineInv
<1>. QED BY <1>1, MachineInvHolds, PTL

(***************************************************************************)
(* The heap entries that the shell's commands insert after boot do not     *)
(* overlap, for all block sizes, though insert_heap_entry takes no lock.   *)
(***************************************************************************)
THEOREM ShellBlocksStayApart == Spec => []ShellBlocksApart
<1>1. ASSUME MachineInv PROVE ShellBlocksApart
  <2>1. /\ handed \in Seq(BlockType)
        /\ \A i \in 1 .. Len(handed) : handed[i].booted =>
             handed[i].location = handed[i].header + HDR
        /\ \A i, j \in 1 .. Len(handed) :
             i < j /\ handed[i].booted /\ handed[j].booted =>
               handed[i].location + SIZE <= handed[j].header
    BY <1>1 DEF MachineInv, BlocksOK
  <2>2. SUFFICES ASSUME NEW i \in 1 .. Len(handed), NEW j \in 1 .. Len(handed), i < j,
                        handed[i].booted, handed[j].booted
                 PROVE  Apart(handed[i], handed[j])
    BY <2>1 DEF ShellBlocksApart
  <2>3. /\ handed[i].header \in Nat /\ handed[i].location \in Nat
        /\ handed[j].header \in Nat /\ handed[j].location \in Nat
    <3>1. handed[i] \in BlockType /\ handed[j] \in BlockType BY <2>1
    <3>. QED BY <3>1 DEF BlockType
  <2>4. /\ handed[i].location = handed[i].header + HDR
        /\ handed[j].location = handed[j].header + HDR
        /\ handed[i].location + SIZE <= handed[j].header
    BY <2>1, <2>2
  <2>5. ASSUME NEW b \in Nat, NEW c \in Nat, b + HDR + SIZE <= c
        PROVE  /\ b + HDR <= c /\ b + HDR + SIZE <= c + HDR
               /\ ~(c + HDR < b + HDR + SIZE) /\ ~(c < b + HDR) /\ ~(c + HDR < b + HDR)
               /\ ~(c < b + HDR + SIZE)
    BY <2>5, ConstantFacts
  <2>6. /\ ~(handed[j].location < handed[i].location + SIZE)
        /\ ~(handed[j].header < handed[i].header + HDR)
        /\ ~(handed[j].location < handed[i].header + HDR)
        /\ ~(handed[j].header < handed[i].location + SIZE)
    BY <2>3, <2>4, <2>5
  <2>. QED BY <2>6 DEF Apart, Overlap
<1>. QED BY <1>1, MachineInvHolds, PTL
=============================================================================
