------------------------------- MODULE Paging -------------------------------
(***************************************************************************)
(* Page directories as kern/vmm_page.c builds them.  A directory is the    *)
(* flags of its entries (a set of flags, {} for the entry 0; the frame of  *)
(* the page table an entry points to never changes once it is set) and,    *)
(* for every page of the address space, the page table entry.  Pages and   *)
(* frames are numbers: address >> PAGE_SHIFT.  Every call in the code      *)
(* passes flags with "present", so no entry but the entry 0 has none.      *)
(***************************************************************************)
EXTENDS Integers

CONSTANTS PGTAB_SIZE,     \* entries of a page table, 1024 in the code
          PGDIR_SIZE      \* entries of a page directory, 1024 in the code

ASSUME PagingAssumption ==
  /\ PGTAB_SIZE \in Nat \ {0}
  /\ PGDIR_SIZE \in Nat \ {0}

NumPages == PGTAB_SIZE * PGDIR_SIZE
Pages == 0 .. NumPages - 1
Regions == 0 .. PGDIR_SIZE - 1

(* VMM_GET_PDE, as an index: the directory entry that covers a page.       *)
VMM_GET_PDE(page) == page \div PGTAB_SIZE

Flags == {"present", "write", "user"}
SU_RW == {"present", "write"}
USR_RO == {"present", "user"}
USR_RW == {"present", "write", "user"}

Unmapped == [frame |-> 0, flags |-> {}]

(* vmm_create_tables: the first num_pdes entries get an empty page table.  *)
vmm_create_tables(num_pdes) ==
  [pde |-> [r \in Regions |-> IF r < num_pdes THEN SU_RW ELSE {}],
   pte |-> [p \in Pages |-> Unmapped]]

(* Mutant: the directory entry keeps its flags.                            *)
MutantMapPageKeepsPde(dir, page, frame, flags) ==
  IF dir.pde[VMM_GET_PDE(page)] = {}
    THEN dir
    ELSE [dir EXCEPT !.pte[page] = [frame |-> frame, flags |-> flags]]

(* vmm_map_page: without a page table nothing happens; with one, the flags *)
(* of the directory entry become those of the page, whatever else is       *)
(* mapped below it.                                                        *)
vmm_map_page(dir, page, frame, flags) ==
  LET r == VMM_GET_PDE(page)
  IN  IF dir.pde[r] = {}
        THEN dir
        ELSE [pde |-> [dir.pde EXCEPT ![r] = flags],
              pte |-> [dir.pte EXCEPT ![page] = [frame |-> frame, flags |-> flags]]]

(* vmm_map_pages: n consecutive pages, modulo the address space, on n      *)
(* consecutive frames.                                                     *)
Distance(from, page) == (page - from) % NumPages
vmm_map_pages(dir, page, frame, n, flags) ==
  LET In(p) == p \in Pages /\ Distance(page, p) < n
      HasTable(p) == dir.pde[VMM_GET_PDE(p)] # {}
  IN  [pde |-> [r \in Regions |->
                  IF dir.pde[r] # {} /\ \E p \in Pages : VMM_GET_PDE(p) = r /\ In(p)
                    THEN flags ELSE dir.pde[r]],
       pte |-> [p \in Pages |->
                  IF In(p) /\ HasTable(p)
                    THEN [frame |-> frame + Distance(page, p), flags |-> flags]
                    ELSE dir.pte[p]]]

(* vmm_get_mapping: the entry, or the entry 0 when there is no table.      *)
vmm_get_mapping(dir, page) ==
  IF dir.pde[VMM_GET_PDE(page)] = {} THEN Unmapped ELSE dir.pte[page]

-----------------------------------------------------------------------------
(* What the processor makes of a directory: both levels must grant it.     *)
Grants(dir, page, flag) ==
  flag \in dir.pde[VMM_GET_PDE(page)] /\ flag \in dir.pte[page].flags

Present(dir, page) == Grants(dir, page, "present")
UserReads(dir, page) == Present(dir, page) /\ Grants(dir, page, "user")
UserWrites(dir, page) == UserReads(dir, page) /\ Grants(dir, page, "write")
=============================================================================
