----------------------------- MODULE MCRepoEdit -----------------------------
(***************************************************************************)
(* A loading repo with the stack placed, or not yet, and others who deploy *)
(* a tag by hand, remove the stack, place it, or delete the compose file,  *)
(* which leaves a repo that does not load.                                 *)
(***************************************************************************)
EXTENDS RepoEdit

Repo(stack, compose, env, state) ==
  [f \in Files |-> CASE f = "stack" -> stack [] f = "compose" -> compose
                     [] f = "env" -> env [] f = "state" -> state [] OTHER -> Absent]

MCTags == {"t1", "t2"}
MCCiphers == {"c1"}
MCStarts ==
  {Repo("full", "present", "placed", "t1"), Repo("full", "present", "unplaced", Absent),
   Repo("bare", Absent, "unplaced", Absent), Repo(Absent, Absent, Absent, Absent)}
MCOthersPush ==
  {[NoChange EXCEPT !["state"] = "t2"],
   [NoChange EXCEPT !["stack"] = Absent, !["compose"] = Absent],
   [NoChange EXCEPT !["env"] = "placed"],
   [NoChange EXCEPT !["compose"] = Absent]}
=============================================================================
