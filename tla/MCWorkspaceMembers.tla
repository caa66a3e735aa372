------------------------- MODULE MCWorkspaceMembers -------------------------
(* WorkspaceMembers on small instances. *)
EXTENDS WorkspaceMembers, TLC

(* Two administrators configured one after the other, the second with an   *)
(* address of its own and then one that somebody else has, not verified.   *)
Tokens ==
    {[uid |-> "a", email |-> "x", verified |-> TRUE],
     [uid |-> "b", email |-> "y", verified |-> TRUE],
     [uid |-> "b", email |-> "z", verified |-> TRUE],
     [uid |-> "c", email |-> "z", verified |-> FALSE]}

Symmetric ==
    Permutations(Request) \cup Permutations(Workspace) \cup Permutations(User)
      \cup Permutations(SignIn)
=============================================================================
