--------------------------- MODULE PhysicalFrames ---------------------------
(***************************************************************************)
(* What a physical frame allocator promises its callers, and nothing of    *)
(* how it finds a frame: a grant is a run of consecutive frames of Pool    *)
(* that no earlier grant covers, the frames of a new grant are zero, and a *)
(* frame changes only by the writes of its holder.  Memory that nobody     *)
(* holds may contain anything: the boot loader leaves it as it was.        *)
(*                                                                         *)
(* FrameAlloc, the model of vmm_page.c, implements this module.            *)
(***************************************************************************)
EXTENDS Naturals, Sequences

CONSTANT Pool                   \* the frames the allocator may hand out

VARIABLES grants,               \* the runs handed out, oldest first
          dirty                 \* the frames whose content is not all zero

pvars == <<grants, dirty>>

Frames(g) == g.first .. (g.first + g.count - 1)

Covered == UNION {Frames(grants[i]) : i \in DOMAIN grants}

Init ==
  /\ grants = << >>
  /\ dirty \in SUBSET Pool

(* Hand out run g, zeroed.                                                 *)
Grant(g) ==
  /\ Frames(g) # {}
  /\ Frames(g) \subseteq Pool
  /\ Frames(g) \cap Covered = {}
  /\ grants' = Append(grants, g)
  /\ dirty' = dirty \ Frames(g)

(* A holder writes into a frame of its own.                                *)
Write(f) ==
  /\ f \in Covered
  /\ dirty' = dirty \cup {f}
  /\ UNCHANGED grants

Next ==
  \/ \E first, last \in Pool :
        Grant([first |-> first, count |-> (last + 1) - first])
  \/ \E f \in Covered : Write(f)

Spec == Init /\ [][Next]_pvars
=============================================================================
