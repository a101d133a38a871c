------------------------------- MODULE UserLib -------------------------------
(***************************************************************************)
(* The user library: the stubs of user/libsyscall, and syscall_wrapper.S   *)
(* through which all of them trap.  Code is a sequence of instructions; an *)
(* instruction is a tuple, its operands in the order of the source.        *)
(*                                                                         *)
(* The table of syscall_wrapper.S is addressed by multiplication, so what  *)
(* a call traps to depends on the bytes the assembler emits: a jump of     *)
(* more than 127 bytes takes three bytes more than a shorter one.          *)
(***************************************************************************)
EXTENDS Integers, Sequences, SequencesExt

(* syscall_int.h, which is outside the repository.                         *)
SYSCALL_INT == 64
GETTID_INT == 72
NEW_PAGES_INT == 73
READLINE_INT == 77
PRINT_INT == 78
SET_CURSOR_POS_INT == 80
GET_CURSOR_POS_INT == 81
LS_INT == 86

-----------------------------------------------------------------------------
(* The stubs: the interrupt number, the number of arguments they announce, *)
(* and the number of arguments they push.                                  *)
Stub(num, arg_num, pushed) == [num |-> num, arg_num |-> arg_num, pushed |-> pushed]

(* Mutant: one argument is announced.                                      *)
MutantExec == Stub(GETTID_INT, 1, 2)

gettid == Stub(GETTID_INT, 0, 0)
fork == Stub(GETTID_INT, 0, 0)
vanish == Stub(GETTID_INT, 0, 0)
set_status == Stub(GETTID_INT, 1, 1)
wait == Stub(GETTID_INT, 1, 1)
exec == Stub(GETTID_INT, 2, 2)
print == Stub(PRINT_INT, 2, 2)
readline == Stub(READLINE_INT, 2, 2)
new_pages == Stub(NEW_PAGES_INT, 2, 2)
set_cursor_pos == Stub(SET_CURSOR_POS_INT, 2, 2)
get_cursor_pos == Stub(GET_CURSOR_POS_INT, 2, 2)
ls == Stub(LS_INT, 2, 2)

-----------------------------------------------------------------------------
(* syscall_wrapper.S.  A load or lea addresses ebp plus four times ebx.    *)
INT_NUM_OFFSET == 2
ARG_NUM_OFFSET == 3
ARG_PKT_OFFSET == 4

syscall_0arg == 15
syscall_1arg == 17
do_syscall == 18
syscall_wrapper_end == 20

prologue == << <<"push", "ebp">>, <<"mov", "esp", "ebp">>,
               <<"push", "edi">>, <<"push", "ebx">>, <<"push", "esi">> >>

select_args ==
  << <<"set", INT_NUM_OFFSET, "ebx">>, <<"load", "ebx", "ecx">>,
     <<"set", ARG_NUM_OFFSET, "ebx">>, <<"load", "ebx", "edx">>,
     <<"set", ARG_PKT_OFFSET, "ebx">>,
     <<"jeq", 1, "edx", syscall_1arg>>, <<"jeq", 0, "edx", syscall_0arg>>,
     <<"lea", "ebx", "esi">>, <<"jmp", do_syscall>>,
     <<"set", 0, "esi">>, <<"jmp", do_syscall>>,      \* syscall_0arg
     <<"load", "ebx", "esi">> >>                      \* syscall_1arg

(* The entry's address: base + INT_TABLE_ENTRY_SIZE * (ecx - SYSCALL_INT). *)
table_jump == << <<"lookup", "ecx", "eax">>, <<"jmpreg", "eax">> >>

(* Mutant: esi and ebx are popped in the wrong order.                      *)
MutantEpilogue ==
  << <<"pop", "ebx">>, <<"pop", "esi">>, <<"pop", "edi">>,
     <<"mov", "ebp", "esp">>, <<"pop", "ebp">>, <<"ret">> >>

epilogue ==
  << <<"pop", "esi">>, <<"pop", "ebx">>, <<"pop", "edi">>,
     <<"mov", "ebp", "esp">>, <<"pop", "ebp">>, <<"ret">> >>

syscall_wrapper == prologue \o select_args \o table_jump \o epilogue

-----------------------------------------------------------------------------
(* The table: for 0x40 to 0x61 in this order, int and a jump to            *)
(* syscall_wrapper_end.                                                    *)
Entries == 34

(* Bytes of an instruction; the zeroing of esi, an xor, has two.           *)
Bytes(op) ==
  CASE op[1] \in {"push", "pop"} -> 1
    [] op[1] = "set" -> IF op[2] = 0 THEN 2 ELSE 5
    [] op[1] \in {"load", "lea"} -> 4
    [] op[1] = "jeq" -> 5
    [] op[1] = "lookup" -> 17
    [] OTHER -> 2

(* From the end of the table to syscall_wrapper_end.                       *)
AddBytes(n, op) == n + Bytes(op)
BytesToEnd == FoldLeft(AddBytes, 0, prologue \o select_args \o table_jump)

(* An entry is int, of two bytes, and a jump, of two if it is no longer    *)
(* than 127 bytes and of five otherwise: the entries close enough to the   *)
(* end have four bytes, those before them seven.                           *)
LongEntries == Entries - ((127 - BytesToEnd) \div 4 + 1)
EntryOffset(k) == IF k <= LongEntries THEN 7 * k ELSE 7 * LongEntries + 4 * (k - LongEntries)

INT_TABLE_ENTRY_SIZE == EntryOffset(1)

(* What lies at an offset of the table.                                    *)
syscall_int_table(off) ==
  IF \E k \in 0 .. Entries - 1 : off = EntryOffset(k)
    THEN <<"int", SYSCALL_INT + CHOOSE k \in 0 .. Entries - 1 : off = EntryOffset(k)>>
    ELSE <<"jmp", syscall_wrapper_end>>
=============================================================================
