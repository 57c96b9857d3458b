---------------------------- MODULE Interrupts ----------------------------
(***************************************************************************)
(* One CPU, its interrupt flag and the two PICs; kernel_main booting with  *)
(* interrupts on; the IRQ and exception handlers of cpu/; and the shell,   *)
(* which runs whole inside the keyboard's IRQ handler (drivers/os_shell.c).*)
(*                                                                         *)
(* The kernel stack is a sequence of frames, the running one first.  A     *)
(* frame is one activation of kernel_main ("boot"), of                     *)
(* interrupt_request_pic_handler ("irq"), of                               *)
(* interrupt_service_request_handler ("exception") or of the loop that     *)
(* clear_current_caused_kernel_interrupt ends in ("spin"), with its next   *)
(* step, and with the interrupt flag that its iret brings back.  A frame   *)
(* in insert_heap_entry also has that function's step (heap) and locals.   *)
(*                                                                         *)
(* The PICs may deliver any pending line that nothing in service blocks:   *)
(* how long a line stays pending, so which of two comes first, is open.    *)
(***************************************************************************)
EXTENDS Integers, Sequences

CONSTANTS
  LINES,            \* the interrupt numbers, 32 .. 47, of the lines that are raised
  COMMANDS,         \* what a shell command may do, a subset of Effects
  HDR, SIZE, FTR,   \* a heap block's header, payload and footer
  WAIT,             \* the ticks a wait_ms command waits for; more are not counted
  BLOCKS,           \* the heap blocks that start_paging takes
  MAXBLOCKS         \* bound of the model: a line is entered only while fewer heap
                    \* blocks than this have been handed out

IRQ0 == 32
IRQ1 == 33
CASCADE == 34       \* the master's line that stands for the slave
Slave(no) == no >= 40
Effects == {"returns", "exception", "user-mode on", "user-mode off", "start paging",
            "wait_ms", "shutdown"}

ASSUME InterruptConstants ==
  /\ LINES \subseteq IRQ0 .. 47 \ {CASCADE} /\ COMMANDS \subseteq Effects
  /\ HDR \in Nat \ {0} /\ SIZE \in Nat \ {0} /\ FTR \in Nat \ {0}
  /\ BLOCKS \in Nat /\ MAXBLOCKS \in Nat /\ WAIT \in Nat

VARIABLES
  enabled,              \* the CPU's interrupt flag, IF
  pending, inService,   \* the PICs' request and in-service registers
  interrupt_handlers,
  stack,
  OS_MODE,
  number_of_timer_cycles,
  buffered,             \* whether the shell's buffer holds a character
  mallocable_address,
  handed,               \* the heap blocks handed out, in order
  paged,                \* whether create_new_page_directory has loaded its directory
  halted                \* hlt with interrupts off

pic == <<pending, inService>>
heap == <<mallocable_address, handed>>
shell == <<OS_MODE, number_of_timer_cycles, buffered>>
vars == <<enabled, pic, interrupt_handlers, stack, shell, heap, paged, halted>>

Frame(code, step, no, flag) ==
  [code |-> code, step |-> step, no |-> no, flag |-> flag,
   heap |-> 0, entry |-> 0, location |-> 0, reg |-> 0]
Running == stack[1]
At(code, step) == ~halted /\ Running.code = code /\ Running.step = step
               /\ Running.heap = 0
Becomes(frame) == stack' = <<frame>> \o Tail(stack)
GoTo(step) == Becomes([Running EXCEPT !.step = step])
Booted == \A i \in DOMAIN stack : stack[i].code = "boot" => stack[i].step = "end"

\* When the IDT is loaded and the PICs are programmed with no line masked.
Init ==
  /\ enabled = FALSE /\ pending = {} /\ inService = {}
  /\ interrupt_handlers = [no \in LINES \cup {IRQ0, IRQ1, 14, 128} |-> "NULL"]
  /\ stack = <<Frame("boot", "sti", 0, FALSE)>>
  /\ OS_MODE = "KERNEL_SHELL_MODE" /\ number_of_timer_cycles = 0 /\ buffered = FALSE
  /\ mallocable_address = 0 /\ handed = <<>>
  /\ paged = FALSE /\ halted = FALSE

---------------------------------------------------------------------------
\* A device raises its line; the PIC remembers it.
Raise(no) ==
  /\ ~halted /\ no \notin pending
  /\ pending' = pending \cup {no}
  /\ UNCHANGED <<enabled, inService, interrupt_handlers, stack, shell, heap, paged, halted>>

\* A line is blocked by one of the same or a higher rank in service.
Rank(no) == IF no <= CASCADE THEN no ELSE IF Slave(no) THEN no - 6 ELSE no + 8
Blocked(no) == \E other \in inService : Rank(other) <= Rank(no)

\* The CPU takes an interrupt; the gate, and the stub's cli, clear the flag.
Deliver(no) ==
  /\ ~halted /\ enabled
  /\ no \in pending /\ ~Blocked(no)
  /\ pending' = pending \ {no}
  /\ inService' = inService \cup {no} \cup (IF Slave(no) THEN {CASCADE} ELSE {})
  /\ stack' = <<Frame("irq", "eoi", no, enabled)>> \o stack
  /\ enabled' = FALSE
  /\ UNCHANGED <<interrupt_handlers, shell, heap, paged, halted>>

---------------------------------------------------------------------------
\* insert_heap_entry, in the running frame.  Each of its three
\* mallocable_address = mallocable_address + n is a load and a store.
Added == <<0, HDR, 0, 0, SIZE, 0, FTR, 0>>
Block(frame) ==
  [header |-> frame.entry, location |-> frame.location, booted |-> Booted]

insert_heap_entry ==
  LET k == Running.heap
      next == IF k = 8 THEN [Running EXCEPT !.heap = 0, !.entry = 0, !.location = 0, !.reg = 0]
              ELSE [Running EXCEPT !.heap = k + 1] IN
  /\ ~halted /\ k # 0
  /\ \/ k = 1 /\ Becomes([next EXCEPT !.entry = mallocable_address]) /\ UNCHANGED heap
     \/ /\ k \in {2, 5, 7}
        /\ Becomes([next EXCEPT !.reg = mallocable_address + Added[k]])
        /\ UNCHANGED heap
     \/ k = 4 /\ Becomes([next EXCEPT !.location = mallocable_address]) /\ UNCHANGED heap
     \/ /\ k \in {3, 6, 8}
        /\ Becomes(next)
        /\ mallocable_address' = Running.reg
        /\ handed' = IF k = 8 THEN Append(handed, Block(Running)) ELSE handed
  /\ UNCHANGED <<enabled, pic, interrupt_handlers, shell, paged, halted>>

---------------------------------------------------------------------------
\* What every step of boot but its last ones leaves alone.
Kept == <<pic, shell, heap, halted>>
set_interrupt_handler(no, handler) ==
  interrupt_handlers' = [interrupt_handlers EXCEPT ![no] = handler]

\* interrupt_request_pic_install turns interrupts on before it has handlers.
interrupt_request_pic_install ==
  /\ At("boot", "sti") /\ enabled' = TRUE /\ GoTo("init_timer")
  /\ UNCHANGED <<interrupt_handlers, paged, Kept>>
init_timer ==
  /\ At("boot", "init_timer") /\ set_interrupt_handler(IRQ0, "timer_callback")
  /\ GoTo("init_keyboard")
  /\ UNCHANGED <<enabled, paged, Kept>>
\* Mutant: the keyboard's handler is installed for the wrong line.
init_keyboard_wrong_line ==
  /\ At("boot", "init_keyboard") /\ set_interrupt_handler(IRQ0, "keyboard_callback")
  /\ GoTo("syscall")
  /\ UNCHANGED <<enabled, paged, Kept>>
init_keyboard ==
  /\ At("boot", "init_keyboard") /\ set_interrupt_handler(IRQ1, "keyboard_callback")
  /\ GoTo("syscall")
  /\ UNCHANGED <<enabled, paged, Kept>>
setup_interrupts ==
  /\ At("boot", "syscall") /\ set_interrupt_handler(128, "thingy")
  /\ GoTo("start_paging")
  /\ UNCHANGED <<enabled, paged, Kept>>
start_paging ==
  /\ At("boot", "start_paging")
  /\ set_interrupt_handler(14, "page_fault_interrupt_handler")
  /\ GoTo("create_new_page_directory")
  /\ UNCHANGED <<enabled, paged, Kept>>
\* The frame list, page directory and page table come from the heap (the
\* frame's no counts the blocks); then set_active_page_directory.
create_new_page_directory ==
  /\ At("boot", "create_new_page_directory")
  /\ \/ /\ Running.no < BLOCKS /\ Becomes([Running EXCEPT !.no = @ + 1, !.heap = 1])
        /\ UNCHANGED paged
     \/ Running.no = BLOCKS /\ paged' = TRUE /\ GoTo("init_kernel_shell")
  /\ UNCHANGED <<enabled, interrupt_handlers, Kept>>
init_kernel_shell ==
  /\ At("boot", "init_kernel_shell") /\ buffered' = FALSE /\ GoTo("end")
  /\ UNCHANGED <<enabled, interrupt_handlers, pic, OS_MODE, number_of_timer_cycles,
                 heap, paged, halted>>

Boot ==
  interrupt_request_pic_install \/ init_timer \/ init_keyboard \/ setup_interrupts
  \/ start_paging \/ create_new_page_directory \/ init_kernel_shell

---------------------------------------------------------------------------
(***************************************************************************)
(* The IRQ handler.  An EOI ends the highest-ranked service of its PIC.    *)
(***************************************************************************)
Ended(lines) == {no \in lines : \A other \in lines : Rank(no) <= Rank(other)}
Eoi == Ended({no \in inService : ~Slave(no)})
\* Mutant: only the master gets an EOI.
EoiMasterOnly(no) == inService \ Eoi
AfterEoi(no) ==
  inService \ (Eoi \cup (IF Slave(no) THEN Ended({s \in inService : Slave(s)}) ELSE {}))

\* interrupt_request_pic_handler sends the EOI before it calls the handler.
interrupt_request_pic_handler ==
  /\ At("irq", "eoi")
  /\ inService' = AfterEoi(Running.no)
  /\ GoTo("call")
  /\ UNCHANGED <<enabled, pending, interrupt_handlers, shell, heap, paged, halted>>

\* The CPU enters the gate of exception no from the running frame.
Exception(no) ==
  /\ stack' = <<Frame("exception", "message", no, enabled)>> \o stack
  /\ enabled' = FALSE
  /\ UNCHANGED <<pic, interrupt_handlers, shell, heap, paged, halted>>

\* A NULL handler is called all the same: address 0 is not mapped (start_kernel.s).
call_handler ==
  LET handler == interrupt_handlers[Running.no] IN
  /\ At("irq", "call")
  /\ \/ handler = "NULL" /\ Exception(14)
     \/ /\ handler = "timer_callback" /\ GoTo("iret")
        /\ number_of_timer_cycles' =
             IF number_of_timer_cycles > WAIT THEN number_of_timer_cycles
             ELSE number_of_timer_cycles + 1
        /\ UNCHANGED <<enabled, pic, interrupt_handlers, OS_MODE, buffered, heap,
                       paged, halted>>
     \/ /\ handler = "keyboard_callback" /\ GoTo("key")
        /\ UNCHANGED <<enabled, pic, interrupt_handlers, shell, heap, paged, halted>>

\* Mutant: the interrupted frame goes with the handler's.
iret_twice ==
  /\ At("irq", "iret")
  /\ stack' = Tail(Tail(stack))
  /\ enabled' = Running.flag
  /\ UNCHANGED <<pic, interrupt_handlers, shell, heap, paged, halted>>

\* Back to the interrupted frame, with its interrupt flag.
iret ==
  /\ At("irq", "iret")
  /\ stack' = Tail(stack)
  /\ enabled' = Running.flag
  /\ UNCHANGED <<pic, interrupt_handlers, shell, heap, paged, halted>>

---------------------------------------------------------------------------
\* The shell, in the keyboard's handler.
Elsewhere == <<enabled, pic, interrupt_handlers, heap, paged>>
next_kernel_shell_print == buffered' = FALSE

\* kernel_user_input: a letter, a backspace, or Enter on an empty buffer.
kernel_user_input ==
  /\ At("irq", "key") /\ GoTo("iret")
  /\ buffered' \in BOOLEAN
  /\ UNCHANGED <<Elsewhere, OS_MODE, number_of_timer_cycles, halted>>

\* Mutant: the shell runs its line with interrupts on, so that a wait can end.
user_shell_enter_sti ==
  /\ At("irq", "key") /\ buffered /\ Len(handed) < MAXBLOCKS
  /\ Becomes([Running EXCEPT !.step = "command", !.heap = 1])
  /\ enabled' = TRUE
  /\ UNCHANGED <<pic, interrupt_handlers, heap, paged, shell, halted>>

\* user_shell_enter on a line: push_instruction_history, then its command.
user_shell_enter ==
  /\ At("irq", "key") /\ buffered /\ Len(handed) < MAXBLOCKS
  /\ Becomes([Running EXCEPT !.step = "command", !.heap = 1])
  /\ UNCHANGED <<Elsewhere, shell, halted>>

\* The commands, and end_of_user_input behind those that return.
command(effect) ==
  /\ At("irq", "command") /\ effect \in COMMANDS
  /\ \/ /\ effect \in {"returns", "user-mode on", "user-mode off"}
        /\ OS_MODE' = CASE effect = "user-mode on"  -> "USER_MODE_ENABLED"
                         [] effect = "user-mode off" -> "KERNEL_SHELL_MODE"
                         [] effect = "returns"       -> OS_MODE
        /\ next_kernel_shell_print /\ GoTo("iret")
        /\ UNCHANGED <<number_of_timer_cycles, halted>>
     \/ /\ effect = "start paging" /\ GoTo("start_paging_instruction")
        /\ UNCHANGED <<shell, halted>>
     \/ /\ effect = "wait_ms" /\ GoTo("wait") /\ number_of_timer_cycles' = 0
        /\ UNCHANGED <<OS_MODE, buffered, halted>>
     \/ /\ effect = "shutdown" /\ halted' = TRUE
        /\ UNCHANGED <<stack, shell>>
  /\ UNCHANGED Elsewhere

\* A command divides by zero or touches an unmapped page.
raise_exception ==
  At("irq", "command") /\ "exception" \in COMMANDS /\ \E no \in {0, 14} : Exception(no)

start_paging_instruction ==
  /\ At("irq", "start_paging_instruction") /\ next_kernel_shell_print /\ GoTo("iret")
  /\ UNCHANGED <<Elsewhere, OS_MODE, number_of_timer_cycles, halted>>

\* One round of wait_ms's loop, which waits for more than WAIT timer interrupts.
wait_ms ==
  /\ At("irq", "wait")
  /\ IF number_of_timer_cycles > WAIT
     THEN GoTo("iret") /\ next_kernel_shell_print
     ELSE UNCHANGED <<stack, buffered>>
  /\ UNCHANGED <<Elsewhere, OS_MODE, number_of_timer_cycles, halted>>

---------------------------------------------------------------------------
\* Mutant: the loop is entered with interrupts still off.
clear_without_sti ==
  /\ stack' = <<Frame("spin", "for", 0, TRUE)>>
  /\ next_kernel_shell_print
  /\ UNCHANGED <<enabled, halted>>

\* The frames there are stay on the stack, and none of them runs again:
\* the model drops them.
clear_current_caused_kernel_interrupt ==
  /\ stack' = <<Frame("spin", "for", 0, TRUE)>>
  /\ next_kernel_shell_print
  /\ enabled' = TRUE
  /\ UNCHANGED halted

\* The message or the handler of the exception prints; then OS_MODE decides.
interrupt_service_request_handler ==
  /\ At("exception", "message")
  /\ \/ OS_MODE = "KERNEL_SHELL_MODE" /\ clear_current_caused_kernel_interrupt
     \/ /\ OS_MODE = "USER_MODE_ENABLED"
        /\ halted' = TRUE
        /\ UNCHANGED <<enabled, stack, buffered>>
  /\ UNCHANGED <<pic, interrupt_handlers, OS_MODE, number_of_timer_cycles, heap, paged>>

Execute ==
  \/ Boot
  \/ insert_heap_entry
  \/ interrupt_request_pic_handler \/ call_handler \/ iret
  \/ kernel_user_input \/ user_shell_enter
  \/ \E effect \in Effects : command(effect)
  \/ raise_exception \/ start_paging_instruction \/ wait_ms
  \/ interrupt_service_request_handler

Next == (\E no \in LINES : Raise(no) \/ Deliver(no)) \/ Execute

Spec == Init /\ [][Next]_vars
(***************************************************************************)
(* The CPU executes; and it takes the keyboard's interrupt if it can again *)
(* and again: the timer, at 18 ticks a second (init_timer's divisor is 0,  *)
(* the PIT's slowest rate), leaves it the time.                            *)
(***************************************************************************)
FairSpec == Spec /\ WF_vars(Execute) /\ SF_vars(Deliver(IRQ1))

---------------------------------------------------------------------------
TypeOK ==
  /\ {enabled, buffered, paged, halted} \subseteq BOOLEAN
  /\ pending \subseteq LINES /\ inService \subseteq LINES \cup {CASCADE}
  /\ interrupt_handlers \in [LINES \cup {IRQ0, IRQ1, 14, 128} ->
       {"NULL", "timer_callback", "keyboard_callback", "thingy",
        "page_fault_interrupt_handler"}]
  /\ stack # <<>>
  /\ \A i \in DOMAIN stack :
       /\ stack[i].code \in {"boot", "irq", "exception", "spin"}
       /\ stack[i].heap \in 0 .. 8
  /\ {number_of_timer_cycles, mallocable_address} \subseteq Nat
  /\ OS_MODE \in {"KERNEL_SHELL_MODE", "USER_MODE_ENABLED"}

(***************************************************************************)
(* The PICs are never left blocked: a line is in service only from its     *)
(* delivery to the EOI of the handler that is running.  That is what lets  *)
(* an exception abandon the handler it interrupted.                        *)
(***************************************************************************)
InServiceOnlyBeforeEoi ==
  inService # {} =>
    /\ Running.code = "irq" /\ Running.step = "eoi"
    /\ inService = {Running.no} \cup (IF Slave(Running.no) THEN {CASCADE} ELSE {})

Bottom == stack[Len(stack)]
KeyboardLost == Bottom.code = "spin" /\ interrupt_handlers[IRQ1] = "NULL"
(***************************************************************************)
(* The timer's and the keyboard's lines find no handler only between       *)
(* boot's sti and its installation of the two handlers, or if an interrupt *)
(* has cut boot short there.                                               *)
(***************************************************************************)
HandlersMeetTheirLines ==
  \A i \in DOMAIN stack :
    i > 1 /\ stack[i].code = "irq" /\ stack[i].step = "call"
          /\ stack[i].no \in {IRQ0, IRQ1} =>
      Bottom.step \in {"init_timer", "init_keyboard"} \/ KeyboardLost

Overlap(lo1, hi1, lo2, hi2) == lo1 < hi2 /\ lo2 < hi1
Apart(b, c) ==
  /\ ~Overlap(b.location, b.location + SIZE, c.location, c.location + SIZE)
  /\ ~Overlap(b.header, b.header + HDR, c.header, c.header + HDR)
  /\ ~Overlap(b.header, b.header + HDR, c.location, c.location + SIZE)
  /\ ~Overlap(c.header, c.header + HDR, b.location, b.location + SIZE)

(***************************************************************************)
(* Once kernel_main has returned the heap needs no lock: blocks handed out *)
(* since then do not overlap, whatever interrupts and exceptions came in   *)
(* between.                                                                *)
(***************************************************************************)
ShellBlocksApart ==
  \A i, j \in DOMAIN handed :
    i < j /\ handed[i].booted /\ handed[j].booted => Apart(handed[i], handed[j])

(***************************************************************************)
(* A key that is pressed is read in the end, also after an exception has   *)
(* abandoned the handler of an earlier one, unless the CPU is halted,      *)
(* waits in wait_ms, or has no keyboard handler.                           *)
(***************************************************************************)
KeysAreRead ==
  IRQ1 \in pending ~>
    Running.step = "key" \/ halted \/ Running.step = "wait" \/ KeyboardLost

---------------------------------------------------------------------------
(***************************************************************************)
(* "Returning the address for the Heap Malloced Space that can be used by  *)
(* the Kernel/User" (kernel_heap.c:256): no two calls are given the same   *)
(* or overlapping blocks.                                                  *)
(***************************************************************************)
BlocksApart == \A i, j \in DOMAIN handed : i < j => Apart(handed[i], handed[j])

(***************************************************************************)
(* "Paging Initialization has already been completed successfully."        *)
(* (os_shell.c, start_paging_instruction): when the shell says so, the     *)
(* kernel's page directory has been loaded.                                *)
(***************************************************************************)
PagingCompleted == Running.step = "start_paging_instruction" => paged
===========================================================================
