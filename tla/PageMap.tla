------------------------------- MODULE PageMap -------------------------------
(***************************************************************************)
(* What a page table promises: a map from page numbers to what is known    *)
(* about the page, in which entering one page changes no other.  It knows  *)
(* nothing of directories, words and bit fields; module PageTable          *)
(* implements it.                                                          *)
(***************************************************************************)

CONSTANTS Pages, PageStates

VARIABLES req,     \* the last entry made: a page and what was said of it
          map      \* what is known of each page

mvars == <<req, map>>

NoRequest == <<>>
Unmapped == <<"unmapped">>

MapInit ==
  /\ req = NoRequest
  /\ map = [p \in Pages |-> Unmapped]

Enter(p, s) ==
  /\ req' = <<p, s>>
  /\ map' = [map EXCEPT ![p] = s]

MapNext == \E p \in Pages, s \in PageStates : Enter(p, s)

MapSpec == MapInit /\ [][MapNext]_mvars
=============================================================================
