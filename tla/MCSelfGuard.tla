---------------------------- MODULE MCSelfGuard -----------------------------
(***************************************************************************)
(* Instances of SelfGuard for TLC.  edev is pid 6; pid 2 belongs to root.  *)
(***************************************************************************)
EXTENDS SelfGuard

MCProcs    == 2..6
MCReadable == 3..6

Distinct(c) == \A i, j \in DOMAIN c : c[i] = c[j] => i = j

\* At most five processes, as many as the loop has rounds, and a process of
\* root at most at the top: an sshd above the shell, say.
MCChains ==
  {c \in UNION {[1..n -> MCProcs] : n \in 1..5} :
     /\ c[1] = 6 /\ Distinct(c)
     /\ \A i \in 1..(Len(c) - 1) : c[i] \in MCReadable}

\* edev, a shell, login (which runs as root) and the terminal of the user
LoginChain == {<<6, 5, 2, 3>>}
=============================================================================
