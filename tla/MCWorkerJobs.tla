---------------------------- MODULE MCWorkerJobs ----------------------------
(***************************************************************************)
(* The instance of WorkerJobs for TLC: a job that is submitted twice, or   *)
(* next to a job whose id names the same directory, the same pod, or the   *)
(* root of all workspaces.                                                 *)
(***************************************************************************)
EXTENDS WorkerJobs

\* The ids a/b, a_b, a.b and '.', and what prepareWorkspace and sanitizePodName
\* make of them.
Ids == {"slash", "underscore", "point", "dot"}

Dirs == [slash |-> "a_b", underscore |-> "a_b", point |-> "a.b", dot |-> "root"]

Pods == [slash |-> "a-b", underscore |-> "a_b", point |-> "a-b", dot |-> "-"]

Submit(j, k, i, l) == [c \in Call |-> IF c = 1 THEN [job |-> j, kind |-> k]
                                               ELSE [job |-> i, kind |-> l]]

Twice == {Submit("slash", k, "slash", k) : k \in Kind \ {"sba"}}

SamePod == {Submit("slash", "sbaPod", "point", "pod")}

\* Two agents outside pods share nothing but the workspace, as an agent and a
\* plain job do.
SameDirectory ==
    {Submit("slash", k, "underscore", "plain") : k \in {"plain", "pod"}}
    \cup {Submit("slash", k, "dot", "plain") : k \in {"plain", "pod", "sba"}}
    \cup {Submit("slash", "direct", "dot", "direct")}

Submitted == Twice \cup SamePod \cup SameDirectory
=============================================================================
