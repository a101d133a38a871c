---------------------------- MODULE Paging_proofs ----------------------------
(***************************************************************************)
(* Facts about the paging operators, for every size of the tables.         *)
(* Paging writes vmm_map_pages, a loop in vmm_page.c, in closed form; the  *)
(* two theorems here are the loop: nothing is mapped before its first      *)
(* iteration, and iteration n maps one page more.  MapPageLocal says what  *)
(* an iteration leaves alone.                                              *)
(***************************************************************************)
EXTENDS Paging, TLAPS

PageDirectories == [pde : [Regions -> SUBSET Flags],
                    pte : [Pages -> [frame : Nat, flags : SUBSET Flags]]]

-----------------------------------------------------------------------------
(* Arithmetic: what % does one turn above and below its range.             *)

LEMMA ModCases ==
  ASSUME NEW N \in Nat \ {0}, NEW a \in Int
  PROVE  /\ a \in 0 .. N - 1 => a % N = a
         /\ a \in N .. 2 * N - 1 => a % N = a - N
         /\ a \in -N .. -1 => a % N = a + N
OBVIOUS

(* The address space has at least a page.                                  *)
LEMMA NumPagesPositive == NumPages \in Nat \ {0}
<1>1. \A a, b \in Nat \ {0} : a * b \in Nat \ {0}
  OBVIOUS
<1> QED BY <1>1, PagingAssumption DEF NumPages

(* Every page lies below an entry of the directory.                        *)
LEMMA PdeOfPage ==
  ASSUME NEW page \in Pages
  PROVE  VMM_GET_PDE(page) \in Regions
<1>1. /\ PGTAB_SIZE \in Nat \ {0} /\ PGDIR_SIZE \in Nat \ {0}
      /\ page \in Nat /\ page < PGTAB_SIZE * PGDIR_SIZE
  BY PagingAssumption, NumPagesPositive DEF Pages, NumPages
<1>2. \A t, d \in Nat \ {0} : \A p \in Nat : p < t * d => p \div t \in 0 .. d - 1
  OBVIOUS
<1> QED BY <1>1, <1>2 DEF VMM_GET_PDE, Regions

(* How far a page is from another, going up and around.                    *)
LEMMA DistanceCases ==
  ASSUME NEW from \in Pages, NEW page \in Pages
  PROVE  Distance(from, page) = IF page >= from THEN page - from
                                                ELSE page - from + NumPages
<1> DEFINE d == page - from
<1>1. /\ NumPages \in Nat \ {0} /\ from \in 0 .. NumPages - 1
      /\ page \in 0 .. NumPages - 1 /\ d \in Int
  BY NumPagesPositive DEF Pages
<1>2. /\ d \in 0 .. NumPages - 1 => d % NumPages = d
      /\ d \in -NumPages .. -1 => d % NumPages = d + NumPages
  <2> HIDE DEF d
  <2> QED BY <1>1, ModCases
<1>3. IF page >= from THEN d \in 0 .. NumPages - 1 ELSE d \in -NumPages .. -1
  BY <1>1
<1> QED BY <1>2, <1>3 DEF Distance

(* The page n pages above another is the only one at distance n from it.   *)
LEMMA AtDistance ==
  ASSUME NEW from \in Pages, NEW n \in 0 .. NumPages - 1
  PROVE  /\ (from + n) % NumPages \in Pages
         /\ \A p \in Pages : Distance(from, p) = n <=> p = (from + n) % NumPages
<1> DEFINE q == (from + n) % NumPages
<1>1. NumPages \in Nat \ {0} /\ from \in 0 .. NumPages - 1 /\ from + n \in Int
  BY NumPagesPositive DEF Pages
<1>2. q = IF from + n < NumPages THEN from + n ELSE from + n - NumPages
  <2>1. from + n \in 0 .. NumPages - 1 \/ from + n \in NumPages .. 2 * NumPages - 1
    BY <1>1
  <2>2. CASE from + n \in 0 .. NumPages - 1
    <3>1. (from + n) % NumPages = from + n
      BY <1>1, <2>2, ModCases
    <3> QED BY <1>1, <2>2, <3>1
  <2>3. CASE from + n \in NumPages .. 2 * NumPages - 1
    <3>1. (from + n) % NumPages = from + n - NumPages
      BY <1>1, <2>3, ModCases
    <3> QED BY <1>1, <2>3, <3>1
  <2> QED BY <2>1, <2>2, <2>3
<1>3. q \in Pages
  BY <1>1, <1>2 DEF Pages
<1>4. ASSUME NEW p \in Pages
      PROVE  Distance(from, p) = n <=> p = q
  <2> HIDE DEF q
  <2>1. p \in 0 .. NumPages - 1
    BY DEF Pages
  <2> QED BY <1>1, <1>2, <2>1, DistanceCases
<1> QED BY <1>3, <1>4

(* Distances are natural numbers.                                          *)
LEMMA DistanceNat ==
  ASSUME NEW from \in Pages, NEW page \in Pages
  PROVE  Distance(from, page) \in Nat
<1>1. from \in 0 .. NumPages - 1 /\ page \in 0 .. NumPages - 1
  BY DEF Pages
<1> QED BY <1>1, NumPagesPositive, DistanceCases

-----------------------------------------------------------------------------
(* What vmm_create_tables returns is a directory, and vmm_map_page and     *)
(* vmm_map_pages make directories of directories.                          *)
LEMMA DirectoriesClosed ==
  /\ \A num_pdes \in Nat : vmm_create_tables(num_pdes) \in PageDirectories
  /\ \A dir \in PageDirectories, page \in Pages, frame \in Nat, flags \in SUBSET Flags :
       vmm_map_page(dir, page, frame, flags) \in PageDirectories
  /\ \A dir \in PageDirectories, page \in Pages, frame, n \in Nat, flags \in SUBSET Flags :
       vmm_map_pages(dir, page, frame, n, flags) \in PageDirectories
<1>1. ASSUME NEW num_pdes \in Nat
      PROVE  vmm_create_tables(num_pdes) \in PageDirectories
  BY DEF vmm_create_tables, PageDirectories, Unmapped, SU_RW, Flags
<1>2. ASSUME NEW dir \in PageDirectories, NEW page \in Pages, NEW frame \in Nat,
             NEW flags \in SUBSET Flags
      PROVE  vmm_map_page(dir, page, frame, flags) \in PageDirectories
  BY DEF vmm_map_page, PageDirectories
<1>3. ASSUME NEW dir \in PageDirectories, NEW page \in Pages, NEW frame \in Nat,
             NEW n \in Nat, NEW flags \in SUBSET Flags
      PROVE  vmm_map_pages(dir, page, frame, n, flags) \in PageDirectories
  <2>1. \A p \in Pages : frame + Distance(page, p) \in Nat
    BY DistanceNat
  <2> QED BY <2>1 DEF vmm_map_pages, PageDirectories
<1> QED BY <1>1, <1>2, <1>3

-----------------------------------------------------------------------------
(* Before its first iteration the loop of vmm_map_pages has changed        *)
(* nothing.                                                                *)
THEOREM MapNoPages ==
  ASSUME NEW dir \in PageDirectories, NEW page \in Pages, NEW frame \in Nat, NEW flags
  PROVE  vmm_map_pages(dir, page, frame, 0, flags) = dir
<1>1. \A p \in Pages : ~(Distance(page, p) < 0)
  BY DistanceNat
<1>2. dir.pde = [r \in Regions |-> dir.pde[r]] /\ dir.pte = [p \in Pages |-> dir.pte[p]]
  BY DEF PageDirectories
<1>3. dir = [pde |-> dir.pde, pte |-> dir.pte]
  BY DEF PageDirectories
<1> QED BY <1>1, <1>2, <1>3 DEF vmm_map_pages

(* Iteration n of the loop is vmm_map_page for the page n pages above the  *)
(* first, around the end of the address space if need be, and the frame n  *)
(* frames above the first: after it n + 1 pages are mapped.                *)
THEOREM MapPagesStep ==
  ASSUME NEW dir \in PageDirectories, NEW page \in Pages, NEW frame \in Nat,
         NEW n \in 0 .. NumPages - 1, NEW flags \in SUBSET Flags, flags # {}
  PROVE  vmm_map_pages(dir, page, frame, n + 1, flags)
           = vmm_map_page(vmm_map_pages(dir, page, frame, n, flags),
                          (page + n) % NumPages, frame + n, flags)
<1> DEFINE q == (page + n) % NumPages
           R == VMM_GET_PDE(q)
           Before == vmm_map_pages(dir, page, frame, n, flags)
           After == vmm_map_pages(dir, page, frame, n + 1, flags)
           Entry == [frame |-> frame + n, flags |-> flags]
<1> SUFFICES After = vmm_map_page(Before, q, frame + n, flags)
  OBVIOUS
<1>1. q \in Pages /\ \A p \in Pages : Distance(page, p) = n <=> p = q
  BY AtDistance
<1>2. R \in Regions
  BY <1>1, PdeOfPage
<1>3. \A p \in Pages : Distance(page, p) < n + 1 <=> Distance(page, p) < n \/ p = q
  BY <1>1, DistanceNat
<1>4. Distance(page, q) = n /\ ~(Distance(page, q) < n)
  BY <1>1
<1>5. n \in Nat
  BY NumPagesPositive
<1> HIDE DEF q
<1>6. /\ Before.pde \in [Regions -> SUBSET Flags]
      /\ DOMAIN Before.pte = Pages
  BY DEF vmm_map_pages, PageDirectories
<1>7. Before.pde[R] = {} <=> dir.pde[R] = {}
  BY <1>2 DEF vmm_map_pages
<1>8. CASE dir.pde[R] = {}
  <2>1. ASSUME NEW r \in Regions
        PROVE  After.pde[r] = Before.pde[r]
    BY <1>1, <1>2, <1>3, <1>8 DEF vmm_map_pages
  <2>2. ASSUME NEW p \in Pages
        PROVE  After.pte[p] = Before.pte[p]
    BY <1>3, <1>8 DEF vmm_map_pages
  <2>3. After = Before
    BY <2>1, <2>2 DEF vmm_map_pages
  <2> QED BY <1>7, <1>8, <2>3 DEF vmm_map_page
<1>9. CASE dir.pde[R] # {}
  <2>1. ASSUME NEW r \in Regions
        PROVE  After.pde[r] = [Before.pde EXCEPT ![R] = flags][r]
    <3>1. CASE r = R
      BY <1>1, <1>2, <1>3, <1>6, <1>9, <3>1 DEF vmm_map_pages
    <3>2. CASE r # R
      BY <1>3, <1>6, <3>2 DEF vmm_map_pages
    <3> QED BY <3>1, <3>2
  <2>2. ASSUME NEW p \in Pages
        PROVE  After.pte[p] = [Before.pte EXCEPT ![q] = Entry][p]
    <3>1. CASE p = q
      BY <1>1, <1>3, <1>4, <1>6, <1>9, <3>1 DEF vmm_map_pages
    <3>2. CASE p # q
      BY <1>3, <1>6, <3>2 DEF vmm_map_pages
    <3> QED BY <3>1, <3>2
  <2>3. After.pde = [Before.pde EXCEPT ![R] = flags]
    BY <1>6, <2>1 DEF vmm_map_pages
  <2>4. After.pte = [Before.pte EXCEPT ![q] = Entry]
    BY <1>6, <2>2 DEF vmm_map_pages
  <2>5. After = [pde |-> After.pde, pte |-> After.pte]
    BY DEF vmm_map_pages
  <2> QED BY <1>7, <1>9, <2>3, <2>4, <2>5 DEF vmm_map_page
<1> QED BY <1>8, <1>9

-----------------------------------------------------------------------------
(* vmm_map_page changes one page's entry and one directory entry's flags:  *)
(* every other page keeps its frame, and what the processor grants for the *)
(* pages of other regions stays as it is.  For the other pages of the same *)
(* region it says nothing: there the new flags do take effect.             *)
THEOREM MapPageLocal ==
  ASSUME NEW dir \in PageDirectories, NEW page \in Pages, NEW frame \in Nat,
         NEW flags \in SUBSET Flags, NEW other \in Pages \ {page}, NEW flag
  PROVE  LET new == vmm_map_page(dir, page, frame, flags)
         IN  /\ new.pte[other] = dir.pte[other]
             /\ VMM_GET_PDE(other) # VMM_GET_PDE(page) =>
                  (Grants(new, other, flag) <=> Grants(dir, other, flag))
<1> DEFINE new == vmm_map_page(dir, page, frame, flags)
<1>1. DOMAIN dir.pte = Pages /\ DOMAIN dir.pde = Regions
  BY DEF PageDirectories
<1>2. VMM_GET_PDE(other) \in Regions
  BY PdeOfPage
<1>3. new.pte[other] = dir.pte[other]
  BY <1>1 DEF vmm_map_page
<1>4. ASSUME VMM_GET_PDE(other) # VMM_GET_PDE(page)
      PROVE  new.pde[VMM_GET_PDE(other)] = dir.pde[VMM_GET_PDE(other)]
  BY <1>1, <1>2, <1>4 DEF vmm_map_page
<1> QED BY <1>3, <1>4 DEF Grants
=============================================================================
