---------------------------- MODULE MCKernelEntry ----------------------------
(* KernelEntry with every function of the user library.  The program raises  *)
(* an exception without, and one with an error code, and executes int3.      *)
EXTENDS KernelEntry

MCStubs == {gettid, fork, vanish, set_status, wait, exec, print, readline, new_pages,
            set_cursor_pos, get_cursor_pos}
MCFaults == {0, 3, 14}

MCTableStubs == MCStubs \cup {ls}
=============================================================================
