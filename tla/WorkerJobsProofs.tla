-------------------------- MODULE WorkerJobsProofs --------------------------
(***************************************************************************)
(* Proofs about the job endpoint of a worker node and what runs in its     *)
(* containers, for every set of calls and jobs, every way to make names of *)
(* job ids, every workload and every number of steps.  The invariant       *)
(* JobsInv is preserved by every step; the three safety properties of      *)
(* WorkerJobs follow from it.                                              *)
(***************************************************************************)
EXTENDS WorkerJobs, TLAPS

-----------------------------------------------------------------------------
(* What runs in a container *)

\* No process runs where none was started.
LEMMA OffIsNotRunning ==
    Off.pc = "off" /\ Off.result = "none" /\ Off.code = "none" /\ ~Off.failed
  BY DEF Off

\* A container that nothing touches stays as it is.
LEMMA AgentKept ==
    ASSUME NEW d \in Call, AgentOK(d), agent'[d] = agent[d], file'[d] = file[d]
    PROVE  AgentOK(d)'
  BY DEF AgentOK

\* A new state of one process keeps the typing of all.
LEMMA AgentTyped ==
    ASSUME AgentTypeOK, NEW c \in Call, NEW r \in AgentState,
           agent' = [agent EXCEPT ![c] = r], file' = file
    PROVE  AgentTypeOK'
  BY DEF AgentTypeOK

\* A step of the process in a container keeps what holds of the container,
\* touches no other one, takes back no success, and is a step of a process
\* that runs.
LEMMA AgentStepKeeps ==
    ASSUME AgentTypeOK, NEW c \in Call, AgentOK(c), AgentStep(c)
    PROVE  /\ AgentTypeOK' /\ AgentOK(c)'
           /\ \A d \in Call \ {c} : agent'[d] = agent[d] /\ file'[d] = file[d]
           /\ agent[c].result = "success" => agent'[c].result = "success"
           /\ Running(c)
  <1>0. agent[c] \in AgentState /\ file[c] \in ResultFile
    BY DEF AgentTypeOK
  <1>1. CASE Command(c)
    <2>1. PICK code \in {"zero", "one"} :
             agent' = [agent EXCEPT ![c].pc = "exited", ![c].code = code]
      BY <1>1 DEF Command
    <2>2. [agent[c] EXCEPT !.pc = "exited", !.code = code] \in AgentState
      BY <1>0 DEF AgentState
    <2>3. agent' = [agent EXCEPT ![c] = [agent[c] EXCEPT !.pc = "exited", !.code = code]]
      BY <2>1 DEF AgentTypeOK
    <2> QED  BY <1>0, <1>1, <2>2, <2>3, AgentTyped
             DEF Command, AgentTypeOK, AgentOK, AgentState, Running, Mode
  <1>2. CASE Start(c)
    <2>0. file' = file /\ agent[c].pc = "start"
      BY <1>2 DEF Start
    <2>1. CASE agent' = [agent EXCEPT ![c].pc = agent[c].mode]
      <3>2. [agent[c] EXCEPT !.pc = agent[c].mode] \in AgentState
        BY <1>0 DEF AgentState
      <3>3. agent' = [agent EXCEPT ![c] = [agent[c] EXCEPT !.pc = agent[c].mode]]
        BY <2>1 DEF AgentTypeOK
      <3> QED  BY <1>0, <2>0, <3>2, <3>3, AgentTyped
               DEF AgentTypeOK, AgentOK, AgentState, Running, Mode
    <2>2. CASE agent' = [agent EXCEPT ![c].result = "failure", ![c].pc = "write"]
      <3>2. [agent[c] EXCEPT !.result = "failure", !.pc = "write"] \in AgentState
        BY <1>0 DEF AgentState, Verdict
      <3>3. agent' = [agent EXCEPT ![c] = [agent[c] EXCEPT !.result = "failure", !.pc = "write"]]
        BY <2>2 DEF AgentTypeOK
      <3> QED  BY <1>0, <2>0, <3>2, <3>3, AgentTyped
               DEF AgentTypeOK, AgentOK, AgentState, Running, Mode
    <2> QED  BY <1>2, <2>1, <2>2 DEF Start
  <1>3. CASE DirectStep(c)
    <2>0. file' = file /\ agent[c].pc = "direct_steps" /\ agent[c].done < Steps
      BY <1>3 DEF DirectStep
    <2>1. CASE agent' = [agent EXCEPT ![c].failed = TRUE, ![c].result = "failure",
                                      ![c].pc = "write"]
      <3>2. [agent[c] EXCEPT !.failed = TRUE, !.result = "failure", !.pc = "write"] \in AgentState
        BY <1>0 DEF AgentState, Verdict
      <3>3. agent' = [agent EXCEPT ![c] = [agent[c] EXCEPT !.failed = TRUE, !.result = "failure",
                                                           !.pc = "write"]]
        BY <2>1 DEF AgentTypeOK
      <3> QED  BY <1>0, <2>0, <3>2, <3>3, AgentTyped
               DEF AgentTypeOK, AgentOK, AgentState, Running, Mode
    <2>2. agent[c].done + 1 \in 0 .. Steps
      BY <1>0, <2>0, StepsAssumption DEF AgentState
    <2>3. CASE agent' = [agent EXCEPT ![c].done = @ + 1]
      <3>2. [agent[c] EXCEPT !.done = @ + 1] \in AgentState
        BY <1>0, <2>2 DEF AgentState
      <3>3. agent' = [agent EXCEPT ![c] = [agent[c] EXCEPT !.done = @ + 1]]
        BY <2>3 DEF AgentTypeOK
      <3> QED  BY <1>0, <2>0, <3>2, <3>3, AgentTyped
               DEF AgentTypeOK, AgentOK, AgentState, Running, Mode
    <2>4. CASE agent' = [agent EXCEPT ![c].done = @ + 1, ![c].result = "timeout",
                                      ![c].pc = "write"]
      <3>2. [agent[c] EXCEPT !.done = @ + 1, !.result = "timeout", !.pc = "write"] \in AgentState
        BY <1>0, <2>2 DEF AgentState, Verdict
      <3>3. agent' = [agent EXCEPT ![c] = [agent[c] EXCEPT !.done = @ + 1, !.result = "timeout",
                                                           !.pc = "write"]]
        BY <2>4 DEF AgentTypeOK
      <3> QED  BY <1>0, <2>0, <3>2, <3>3, AgentTyped
               DEF AgentTypeOK, AgentOK, AgentState, Running, Mode
    <2> QED  BY <1>3, <2>1, <2>3, <2>4 DEF DirectStep
  <1>4. ASSUME NEW v \in Verdict, agent' = [agent EXCEPT ![c].result = v, ![c].pc = "write"],
               file' = file, agent[c].pc \in Mode \ {"command"},
               v = "success" => /\ ~agent[c].failed
                                /\ agent[c].mode = "direct_steps" => agent[c].done = Steps
        PROVE  /\ AgentTypeOK' /\ AgentOK(c)'
               /\ \A d \in Call \ {c} : agent'[d] = agent[d] /\ file'[d] = file[d]
               /\ agent[c].result = "success" => agent'[c].result = "success"
               /\ Running(c)
    <2>2. [agent[c] EXCEPT !.result = v, !.pc = "write"] \in AgentState
      BY <1>0 DEF AgentState
    <2>3. agent' = [agent EXCEPT ![c] = [agent[c] EXCEPT !.result = v, !.pc = "write"]]
      BY <1>4 DEF AgentTypeOK
    <2>4. agent[c].result # "success"
      BY <1>4 DEF AgentOK, Mode
    <2> QED  BY <1>0, <1>4, <2>2, <2>3, <2>4, AgentTyped
             DEF AgentTypeOK, AgentOK, AgentState, Running, Mode, Verdict
  <1>5. CASE DirectEnd(c)
    <2>1. /\ agent[c].pc = "direct_steps" /\ agent[c].done = Steps /\ file' = file
          /\ agent' = [agent EXCEPT ![c].result = "success", ![c].pc = "write"]
      BY <1>5 DEF DirectEnd, Conclude
    <2>2. ~agent[c].failed /\ "success" \in Verdict /\ agent[c].pc \in Mode \ {"command"}
      BY <2>1 DEF AgentOK, Verdict, Mode
    <2> QED  BY <1>4, <2>1, <2>2
  <1>6. CASE ToolCall(c)
    <2>0. file' = file /\ agent[c].pc = "agent_loop"
      BY <1>6 DEF ToolCall
    <2>1. PICK o \in ToolOutcome \cup McpOutcome :
             IF o \in {"constraint", "abort"} THEN Conclude(c, "failure")
             ELSE agent' = [agent EXCEPT ![c].failed = @ \/ o = "error"]
      BY <1>6 DEF ToolCall
    <2>2. CASE o \in {"constraint", "abort"}
      <3>1. agent' = [agent EXCEPT ![c].result = "failure", ![c].pc = "write"]
        BY <2>1, <2>2 DEF Conclude
      <3>2. "failure" \in Verdict /\ agent[c].pc \in Mode \ {"command"}
        BY <2>0 DEF Verdict, Mode
      <3> QED  BY <1>4, <2>0, <3>1, <3>2
    <2>3. CASE o \notin {"constraint", "abort"}
      <3>1. agent' = [agent EXCEPT ![c].failed = @ \/ o = "error"]
        BY <2>1, <2>3
      <3>2. PICK b \in BOOLEAN : b = (agent[c].failed \/ o = "error")
        OBVIOUS
      <3>3. [agent[c] EXCEPT !.failed = b] \in AgentState
        BY <1>0 DEF AgentState
      <3>4. agent' = [agent EXCEPT ![c] = [agent[c] EXCEPT !.failed = b]]
        BY <3>1, <3>2 DEF AgentTypeOK
      <3>5. agent[c].mode = "agent_loop" /\ agent[c].result # "success"
        BY <2>0 DEF AgentOK, Mode
      <3> QED  BY <1>0, <2>0, <3>3, <3>4, <3>5, AgentTyped
               DEF AgentTypeOK, AgentOK, AgentState, Running, Mode
    <2> QED  BY <2>2, <2>3
  <1>7. CASE LoopError(c)
    <2>1. PICK v \in {"timeout", "failure"} :
             agent' = [agent EXCEPT ![c].result = v, ![c].pc = "write"]
      BY <1>7 DEF LoopError, Conclude
    <2>2. v \in Verdict /\ v # "success" /\ agent[c].pc \in Mode \ {"command"} /\ file' = file
      BY <1>7 DEF LoopError, Verdict, Mode
    <2> QED  BY <1>4, <2>1, <2>2
  <1>8. CASE Salvage(c)
    <2>0. /\ file' = file /\ agent[c].pc = "agent_loop"
          /\ agent' = [agent EXCEPT ![c].failed = FALSE, ![c].result = "success",
                                    ![c].pc = "write"]
      BY <1>8 DEF Salvage
    <2>2. [agent[c] EXCEPT !.failed = FALSE, !.result = "success", !.pc = "write"] \in AgentState
      BY <1>0 DEF AgentState, Verdict
    <2>3. agent' = [agent EXCEPT ![c] = [agent[c] EXCEPT !.failed = FALSE, !.result = "success",
                                                         !.pc = "write"]]
      BY <2>0 DEF AgentTypeOK
    <2>4. agent[c].mode = "agent_loop"
      BY <2>0 DEF AgentOK, Mode
    <2> QED  BY <1>0, <2>0, <2>2, <2>3, <2>4, AgentTyped
             DEF AgentTypeOK, AgentOK, AgentState, Running, Mode
  <1>9. CASE FinalAnswer(c)
    <2>1. PICK v \in Verdict : v = IF agent[c].failed THEN "failure" ELSE "success"
      BY DEF Verdict
    <2>2. /\ agent[c].pc = "agent_loop" /\ file' = file
          /\ agent' = [agent EXCEPT ![c].result = v, ![c].pc = "write"]
      BY <1>9, <2>1 DEF FinalAnswer, Conclude
    <2>3. agent[c].mode = "agent_loop" /\ agent[c].pc \in Mode \ {"command"}
      BY <2>2 DEF AgentOK, Mode
    <2>4. v = "success" => ~agent[c].failed
      BY <2>1
    <2> QED  BY <1>4, <2>2, <2>3, <2>4
  <1>10. CASE Generate(c)
    <2>1. PICK v \in {"success", "failure"} :
             agent' = [agent EXCEPT ![c].result = v, ![c].pc = "write"]
      BY <1>10 DEF Generate, Conclude
    <2>2. /\ v \in Verdict /\ agent[c].pc \in Mode \ {"command"} /\ file' = file
          /\ agent[c].mode = "generation" /\ ~agent[c].failed
      BY <1>10 DEF Generate, Verdict, Mode, AgentOK
    <2> QED  BY <1>4, <2>1, <2>2
  <1>11. CASE WriteResult(c)
    <2>1. PICK ok \in BOOLEAN :
            /\ file' = [file EXCEPT ![c] = IF ok /\ @ # "none" THEN agent[c].result ELSE @]
            /\ agent' = [agent EXCEPT
                  ![c].pc = "exited",
                  ![c].code = IF ok /\ file[c] # "none" /\ agent[c].result = "success"
                              THEN "zero" ELSE "one"]
      BY <1>11 DEF WriteResult
    <2>2. PICK k \in {"zero", "one"} :
             k = IF ok /\ file[c] # "none" /\ agent[c].result = "success" THEN "zero" ELSE "one"
      OBVIOUS
    <2>3. PICK f \in ResultFile : f = IF ok /\ file[c] # "none" THEN agent[c].result ELSE file[c]
      BY <1>0 DEF ResultFile, AgentState
    <2>4. [agent[c] EXCEPT !.pc = "exited", !.code = k] \in AgentState
      BY <1>0, <2>2 DEF AgentState
    <2>5. agent' = [agent EXCEPT ![c] = [agent[c] EXCEPT !.pc = "exited", !.code = k]]
      BY <2>1, <2>2 DEF AgentTypeOK
    <2>6. file' = [file EXCEPT ![c] = f]
      BY <2>1, <2>3 DEF AgentTypeOK
    <2>7. agent[c].pc = "write" /\ (f = "success" => agent[c].result = "success")
      BY <1>11, <2>3 DEF WriteResult, AgentOK
    <2>8. AgentTypeOK'
      BY <2>4, <2>5, <2>6 DEF AgentTypeOK
    <2> QED  BY <1>0, <2>4, <2>5, <2>6, <2>7, <2>8
             DEF AgentTypeOK, AgentOK, AgentState, Running, Mode
  <1> QED  BY <1>1, <1>2, <1>3, <1>5, <1>6, <1>7, <1>8, <1>9, <1>10, <1>11 DEF AgentStep

\* Killing containers ends them, and keeps what holds of every one.
LEMMA KillKeeps ==
    ASSUME AgentTypeOK, \A c \in Call : AgentOK(c), NEW C \in SUBSET Call, KillAgents(C),
           file' = file
    PROVE  /\ AgentTypeOK' /\ \A c \in Call : AgentOK(c)'
           /\ \A c \in Call : /\ ~Running(c) \/ c \notin C => agent'[c] = agent[c]
                              /\ agent'[c].result = agent[c].result
                              /\ Running(c)' => Running(c) /\ c \notin C
  <1>1. ASSUME NEW c \in Call
        PROVE  /\ agent'[c] \in AgentState /\ AgentOK(c)'
               /\ ~Running(c) \/ c \notin C => agent'[c] = agent[c]
               /\ agent'[c].result = agent[c].result
               /\ Running(c)' => Running(c) /\ c \notin C
    <2>0. agent[c] \in AgentState /\ file[c] \in ResultFile /\ file'[c] = file[c] /\ AgentOK(c)
      BY DEF AgentTypeOK
    <2>1. CASE c \in C /\ Running(c)
      <3>1. agent'[c] = [agent[c] EXCEPT !.pc = "exited", !.code = "killed"]
        BY <2>1 DEF KillAgents
      <3>2. [agent[c] EXCEPT !.pc = "exited", !.code = "killed"] \in AgentState
        BY <2>0 DEF AgentState
      <3> QED  BY <2>0, <2>1, <3>1, <3>2 DEF AgentOK, Running, AgentState, Mode
    <2>2. CASE ~(c \in C /\ Running(c))
      <3>1. agent'[c] = agent[c]
        BY <2>2 DEF KillAgents
      <3> QED  BY <2>0, <2>2, <3>1 DEF AgentOK, Running
    <2> QED  BY <2>1, <2>2
  <1>2. AgentTypeOK'
    BY <1>1 DEF AgentTypeOK, KillAgents
  <1> QED  BY <1>1, <1>2

-----------------------------------------------------------------------------
(* Calls that a step does not disturb *)

LEMMA RunKept ==
    ASSUME NEW d \in Call, RunOK(d), call'[d] = call[d], agent'[d] = agent[d],
           pod'[PodName(d)] = pod[PodName(d)]
    PROVE  RunOK(d)'
  BY DEF RunOK, InPod, IsSBA, Running, PodName

\* A step that begins no call makes no calls overlap.
LEMMA RacedKept ==
    ASSUME RacedOK, raced \subseteq raced',
           \A d \in Call : (Active(d)' => Active(d)) /\ call'[d].job = call[d].job
    PROVE  RacedOK'
  BY DEF RacedOK, WorkspaceDir

\* A step that ends no call leaves the workspaces with their calls.
LEMMA WorkspaceKept ==
    ASSUME TypeOK, WorkspaceOK, NEW c \in Call, Active(c)',
           ws' \subseteq ws \cup {Root, WorkspaceDir(c)},
           content' = content \/ content' = [content EXCEPT ![WorkspaceDir(c)] = @ \cup {c}],
           \A d \in Call : (Active(d) => Active(d)') /\ call'[d].job = call[d].job
    PROVE  WorkspaceOK'
  <1>0. \A d \in Call : WorkspaceDir(d)' = WorkspaceDir(d)
    BY DEF WorkspaceDir
  <1>1. ASSUME NEW x \in ws' \ {Root} PROVE \E d \in Call : Active(d)' /\ WorkspaceDir(d)' = x
    BY <1>0 DEF WorkspaceOK
  <1>2. ASSUME NEW x \in Dir, NEW d \in content'[x] PROVE Active(d)' /\ WorkspaceDir(d)' = x
    <2>1. d \in content[x] \/ (d = c /\ x = WorkspaceDir(c))
      BY DEF TypeOK
    <2>2. d \in Call
      BY <2>1 DEF TypeOK
    <2> QED  BY <1>0, <2>1, <2>2 DEF WorkspaceOK
  <1> QED  BY <1>1, <1>2 DEF WorkspaceOK

\* A pod stays with the call that created it.
LEMMA PodKept ==
    ASSUME TypeOK, PodOK, pod' = pod,
           \A d \in Call :
              /\ call'[d].job = call[d].job /\ call'[d].kind = call[d].kind
              /\ call[d].refused => call'[d].refused
              /\ InPod(d) /\ call[d].pc \in {"proxy", "launch", "wait", "drain", "podCleanup"}
                    => call'[d].refused
                       \/ call'[d].pc \in {"proxy", "launch", "wait", "drain", "podCleanup"}
    PROVE  PodOK'
  <1> SUFFICES ASSUME NEW n \in Name, pod[n] # NoCall
               PROVE  /\ PodName(pod[n])' = n /\ InPod(pod[n])'
                      /\ call'[pod[n]].refused
                         \/ call'[pod[n]].pc \in {"proxy", "launch", "wait", "drain", "podCleanup"}
    BY DEF PodOK, InPod, PodName
  <1>1. PICK d \in Call : d = pod[n]
    BY DEF TypeOK
  <1>2. /\ PodName(d) = n /\ call[d].kind \in {"pod", "sbaPod"}
        /\ call[d].refused \/ call[d].pc \in {"proxy", "launch", "wait", "drain", "podCleanup"}
    BY <1>1 DEF PodOK, InPod
  <1>3. /\ PodName(d)' = n /\ call'[d].kind \in {"pod", "sbaPod"}
        /\ call'[d].refused \/ call'[d].pc \in {"proxy", "launch", "wait", "drain", "podCleanup"}
    BY <1>2 DEF InPod, PodName
  <1> QED  BY <1>1, <1>3 DEF InPod, PodName

-----------------------------------------------------------------------------
(* Steps of one call *)

Held == {"proxy", "launch", "wait", "drain", "podCleanup"}

\* The names of a call are among the names there are.
LEMMA NamesTyped ==
    ASSUME TypeOK, NEW c \in Call
    PROVE  WorkspaceDir(c) \in Dir /\ PodName(c) \in Name /\ Root \in Dir
  <1>1. call[c].job \in Job
    BY DEF TypeOK, CallState
  <1> QED  BY <1>1, NamesAssumption DEF WorkspaceDir, PodName

\* A step writes one call, and never its job or kind.
LEMMA CallWritten ==
    ASSUME TypeOK, NEW c \in Call, NEW r \in CallState, call' = [call EXCEPT ![c] = r],
           r.job = call[c].job, r.kind = call[c].kind
    PROVE  /\ call' \in [Call -> CallState] /\ call'[c] = r
           /\ \A d \in Call \ {c} : call'[d] = call[d]
           /\ \A d \in Call : call'[d].job = call[d].job /\ call'[d].kind = call[d].kind
           /\ \A d \in Call : PodName(d)' = PodName(d) /\ WorkspaceDir(d)' = WorkspaceDir(d)
  BY DEF TypeOK, PodName, WorkspaceDir

\* A step of a call in progress that touches no pod, no other container, and at
\* most its own workspace keeps the invariant if it keeps what holds of the call.
LEMMA OwnStep ==
    ASSUME JobsInv, NEW c \in Call, NEW r \in CallState, call' = [call EXCEPT ![c] = r],
           r.job = call[c].job, r.kind = call[c].kind, Active(c), r.pc \in Busy,
           call[c].refused => r.refused,
           InPod(c) /\ call[c].pc \in Held => r.refused \/ r.pc \in Held,
           AgentTypeOK', AgentOK(c)', RunOK(c)',
           \A d \in Call \ {c} : agent'[d] = agent[d] /\ file'[d] = file[d],
           ws' \subseteq ws \cup {Root, WorkspaceDir(c)}, pod' = pod, raced' = raced,
           content' = content \/ content' = [content EXCEPT ![WorkspaceDir(c)] = @ \cup {c}],
           disturbed' = disturbed \/ (disturbed' = disturbed \cup {c} /\ c \in raced)
    PROVE  JobsInv'
  <1>0. /\ TypeOK /\ (\A d \in Call : AgentOK(d) /\ RunOK(d)) /\ RacedOK
        /\ disturbed \subseteq raced /\ PodOK /\ WorkspaceOK
    BY DEF JobsInv
  <1>1. /\ call' \in [Call -> CallState] /\ call'[c] = r
        /\ \A d \in Call \ {c} : call'[d] = call[d]
        /\ \A d \in Call : call'[d].job = call[d].job /\ call'[d].kind = call[d].kind
        /\ \A d \in Call : PodName(d)' = PodName(d) /\ WorkspaceDir(d)' = WorkspaceDir(d)
    BY <1>0, CallWritten
  <1>2. WorkspaceDir(c) \in Dir /\ Root \in Dir
    BY <1>0, NamesTyped
  <1>3. TypeOK'
    <2>1. ws' \subseteq Dir /\ content' \in [Dir -> SUBSET Call] /\ disturbed' \subseteq Call
      BY <1>0, <1>2 DEF TypeOK
    <2> QED  BY <1>0, <1>1, <2>1 DEF TypeOK
  <1>4. ASSUME NEW d \in Call PROVE AgentOK(d)' /\ RunOK(d)'
    <2>1. CASE d = c
      BY <2>1
    <2>2. CASE d # c
      <3>1. /\ AgentOK(d) /\ RunOK(d) /\ agent'[d] = agent[d] /\ file'[d] = file[d]
            /\ call'[d] = call[d] /\ pod'[PodName(d)] = pod[PodName(d)]
        BY <1>0, <1>1, <2>2
      <3> QED  BY <3>1, AgentKept, RunKept
    <2> QED  BY <2>1, <2>2
  <1>5. \A d \in Call : Active(d)' <=> Active(d)
    BY <1>1 DEF Active
  <1>6. RacedOK' /\ WorkspaceOK'
    BY <1>0, <1>1, <1>5, RacedKept, WorkspaceKept
  <1>7. PodOK'
    <2>1. \A d \in Call :
              /\ call'[d].job = call[d].job /\ call'[d].kind = call[d].kind
              /\ call[d].refused => call'[d].refused
              /\ InPod(d) /\ call[d].pc \in {"proxy", "launch", "wait", "drain", "podCleanup"}
                    => call'[d].refused
                       \/ call'[d].pc \in {"proxy", "launch", "wait", "drain", "podCleanup"}
      BY <1>1 DEF Held
    <2> QED  BY <1>0, <2>1, PodKept
  <1>8. disturbed' \subseteq raced'
    BY <1>0
  <1> QED  BY <1>3, <1>4, <1>6, <1>7, <1>8 DEF JobsInv

\* A call that makes the pod of its job, told so or not.
LEMMA PodMade ==
    ASSUME JobsInv, NEW c \in Call, NEW r \in CallState, call' = [call EXCEPT ![c] = r],
           r.job = call[c].job, r.kind = call[c].kind,
           call[c].pc \in {"pod", "podRetry"}, pod[PodName(c)] = NoCall,
           pod' = [pod EXCEPT ![PodName(c)] = c],
           \/ r.pc = "proxy" /\ r.status = ""
           \/ r.pc = "respond" /\ r.status = "failed" /\ r.refused,
           agent' = agent, file' = file, ws' = ws, content' = content, raced' = raced,
           disturbed' = disturbed
    PROVE  JobsInv'
  <1>0. /\ TypeOK /\ (\A d \in Call : AgentOK(d) /\ RunOK(d)) /\ RacedOK
        /\ disturbed \subseteq raced /\ PodOK /\ WorkspaceOK
    BY DEF JobsInv
  <1>1. /\ call' \in [Call -> CallState] /\ call'[c] = r
        /\ \A d \in Call \ {c} : call'[d] = call[d]
        /\ \A d \in Call : call'[d].job = call[d].job /\ call'[d].kind = call[d].kind
        /\ \A d \in Call : PodName(d)' = PodName(d) /\ WorkspaceDir(d)' = WorkspaceDir(d)
    BY <1>0, CallWritten
  <1>2. PodName(c) \in Name /\ NoCall \notin Call
    BY <1>0, NamesTyped, WorkloadAssumption
  <1>3. TypeOK'
    BY <1>0, <1>1, <1>2 DEF TypeOK, AgentTypeOK
  <1>4. agent[c] = Off /\ InPod(c)
    BY <1>0 DEF RunOK, Early
  <1>5. ASSUME NEW d \in Call PROVE AgentOK(d)' /\ RunOK(d)'
    <2>0. AgentOK(d)' /\ RunOK(d) /\ agent'[d] = agent[d]
      BY <1>0, AgentKept
    <2>1. CASE d = c
      <3>1. InPod(c)' /\ ~Running(c)'
        <4>1. agent'[c].pc = "off"
          BY <1>4, OffIsNotRunning
        <4>2. call'[c].kind = call[c].kind
          BY <1>1
        <4> QED  BY <1>4, <4>1, <4>2 DEF InPod, Running
      <3>2. RunOK(c)'
        BY <1>1, <1>4, <3>1 DEF RunOK, Early, Off
      <3> QED  BY <2>0, <2>1, <3>2
    <2>2. CASE d # c /\ PodName(d) # PodName(c)
      <3>1. call'[d] = call[d] /\ pod'[PodName(d)] = pod[PodName(d)]
        BY <1>0, <1>1, <2>2, NamesTyped DEF TypeOK
      <3> QED  BY <2>0, <3>1, RunKept
    <2>3. CASE d # c /\ PodName(d) = PodName(c)
      <3>1. call'[d] = call[d] /\ ~(InPod(d) /\ Running(d))
        BY <1>0, <1>1, <2>3 DEF RunOK
      <3> QED  BY <2>0, <3>1 DEF RunOK, InPod, IsSBA, Running, PodName
    <2> QED  BY <2>1, <2>2, <2>3
  <1>6. \A d \in Call : Active(d)' <=> Active(d)
    BY <1>1 DEF Active, Busy
  <1>7. Active(c)'
    BY <1>1 DEF Active, Busy
  <1>8. RacedOK' /\ WorkspaceOK'
    BY <1>0, <1>1, <1>6, <1>7, RacedKept, WorkspaceKept
  <1>9. PodOK'
    <2> SUFFICES ASSUME NEW j \in Name, pod'[j] # NoCall
                 PROVE  /\ PodName(pod[j])' = j /\ InPod(pod[j])'
                        /\ call'[pod'[j]].refused
                           \/ call'[pod'[j]].pc \in {"proxy", "launch", "wait", "drain", "podCleanup"}
      BY DEF PodOK, InPod, PodName
    <2>1. CASE j = PodName(c)
      <3>1. pod'[j] = c
        BY <1>0, <1>2, <2>1 DEF TypeOK
      <3>2. call'[c].refused \/ call'[c].pc = "proxy"
        BY <1>1
      <3>3. call'[c].kind = call[c].kind
        BY <1>1
      <3>4. InPod(c)'
        BY <1>4, <3>3 DEF InPod
      <3>5. PodName(c)' = j
        BY <1>1, <2>1
      <3>6. PodName(pod[j])' = j /\ InPod(pod[j])'
        BY <3>1, <3>4, <3>5 DEF InPod, PodName
      <3> QED  BY <3>1, <3>2, <3>6
    <2>2. CASE j # PodName(c)
      <3>1. pod'[j] = pod[j] /\ pod[j] \in Call
        BY <1>0, <2>2 DEF TypeOK
      <3>2. PICK d \in Call : d = pod[j]
        BY <3>1
      <3>3. /\ PodName(d) = j /\ InPod(d)
            /\ call[d].refused \/ call[d].pc \in {"proxy", "launch", "wait", "drain", "podCleanup"}
        BY <3>1, <3>2 DEF PodOK, JobsInv
      <3>4. d # c
        BY <2>2, <3>3
      <3> QED  BY <1>1, <3>1, <3>2, <3>3, <3>4 DEF InPod, PodName
    <2> QED  BY <2>1, <2>2
  <1> QED  BY <1>0, <1>3, <1>5, <1>8, <1>9 DEF JobsInv

\* A call that removes the pod of its job, and every container in it.
LEMMA PodGone ==
    ASSUME JobsInv, NEW c \in Call, NEW r \in CallState, call' = [call EXCEPT ![c] = r],
           r.job = call[c].job, r.kind = call[c].kind, r.status = call[c].status,
           r.inPod = call[c].inPod,
           \/ call[c].pc = "podRemove" /\ r.pc = "podRetry"
           \/ call[c].pc = "podCleanup" /\ r.pc = "respond",
           RemovePod(PodName(c)), file' = file, ws' = ws, content' = content, raced' = raced,
           disturbed' = disturbed
    PROVE  JobsInv'
  <1>0. /\ TypeOK /\ (\A d \in Call : AgentOK(d) /\ RunOK(d)) /\ RacedOK
        /\ disturbed \subseteq raced /\ PodOK /\ WorkspaceOK /\ AgentTypeOK
    BY DEF JobsInv, TypeOK
  <1>1. /\ call' \in [Call -> CallState] /\ call'[c] = r
        /\ \A d \in Call \ {c} : call'[d] = call[d]
        /\ \A d \in Call : call'[d].job = call[d].job /\ call'[d].kind = call[d].kind
        /\ \A d \in Call : PodName(d)' = PodName(d) /\ WorkspaceDir(d)' = WorkspaceDir(d)
    BY <1>0, CallWritten
  <1>2. PICK j \in Name : j = PodName(c)
    BY <1>0, NamesTyped
  <1>3. /\ pod' = [pod EXCEPT ![j] = NoCall] /\ KillAgents(Inside(j))
        /\ Inside(j) \in SUBSET Call
    BY <1>2 DEF RemovePod, Inside
  <1> PICK C \in SUBSET Call : C = Inside(j)
    BY <1>3
  <1>4. /\ AgentTypeOK' /\ \A d \in Call : AgentOK(d)'
        /\ \A d \in Call : /\ ~Running(d) \/ d \notin C => agent'[d] = agent[d]
                           /\ agent'[d].result = agent[d].result
                           /\ Running(d)' => Running(d) /\ d \notin C
    BY <1>0, <1>3, KillKeeps
  <1>5. TypeOK'
    BY <1>0, <1>1, <1>3, <1>4 DEF TypeOK
  <1>6. ASSUME NEW d \in Call, InPod(d), Running(d)' PROVE PodName(d) # j
    <2>1. Running(d) /\ d \notin C
      BY <1>4, <1>6 DEF Running
    <2>2. call[d].inPod # NoCall /\ call[d].inPod = pod[PodName(d)]
      BY <1>0, <1>6, <2>1 DEF RunOK
    <2> QED  BY <2>1, <2>2 DEF Inside
  <1>7. ASSUME NEW d \in Call PROVE RunOK(d)'
    <2>0. RunOK(d) /\ AgentOK(d)
      BY <1>0
    <2>1. /\ InPod(d)' <=> InPod(d)
          /\ IsSBA(d)' <=> IsSBA(d)
          /\ call'[d].status = call[d].status /\ call'[d].inPod = call[d].inPod
      BY <1>1 DEF InPod, IsSBA
    <2>2. call'[d].pc \in Early \cup {"wait", "drain"} => call[d].pc \in Early \cup {"wait", "drain"}
      BY <1>1 DEF Early
    <2>3. call'[d].pc \in Early => call[d].pc \in Early
      BY <1>1 DEF Early
    <2>4. call[d].pc \in Early => agent'[d] = agent[d]
      <3>1. call[d].pc \in Early => agent[d].pc = "off"
        BY <2>0, OffIsNotRunning DEF RunOK
      <3> QED  BY <1>4, <3>1 DEF Running
    <2>5. call'[d].status = "completed" =>
            IF IsSBA(d)' THEN agent'[d].result = "success" ELSE agent'[d].code = "zero"
      <3>1. agent[d].code = "zero" => ~Running(d)
        BY <2>0 DEF AgentOK, Running
      <3>2. /\ agent'[d].result = agent[d].result
            /\ agent[d].code = "zero" => agent'[d] = agent[d]
        BY <1>4, <3>1 DEF Running
      <3> QED  BY <2>0, <2>1, <3>2 DEF RunOK
    <2>6. InPod(d)' /\ Running(d)' => /\ call'[d].inPod # NoCall
                                      /\ call'[d].inPod = pod'[PodName(d)']
                                      /\ call'[d].pc \notin Over
      <3> SUFFICES ASSUME InPod(d)', Running(d)'
                   PROVE  /\ call'[d].inPod # NoCall
                          /\ call'[d].inPod = pod'[PodName(d)']
                          /\ call'[d].pc \notin Over
        OBVIOUS
      <3>1. PodName(d) # j /\ Running(d) /\ InPod(d)
        BY <1>4, <1>6, <2>1 DEF Running
      <3>2. pod'[PodName(d)] = pod[PodName(d)]
        BY <1>0, <1>3, <3>1, NamesTyped DEF TypeOK
      <3>3. d # c
        BY <1>2, <3>1
      <3> QED  BY <1>1, <2>0, <3>1, <3>2, <3>3 DEF RunOK
    <2>7. call'[d].pc \in {"pod", "podRemove", "podRetry", "proxy", "podCleanup"} => InPod(d)'
      BY <1>1, <2>0, <2>1 DEF RunOK
    <2> QED  BY <2>0, <2>1, <2>2, <2>3, <2>4, <2>5, <2>6, <2>7 DEF RunOK
  <1>8. (\A d \in Call : Active(d)' <=> Active(d)) /\ Active(c)'
    BY <1>1 DEF Active, Busy
  <1>9. RacedOK' /\ WorkspaceOK'
    BY <1>0, <1>1, <1>8, RacedKept, WorkspaceKept
  <1>10. PodOK'
    <2> SUFFICES ASSUME NEW i \in Name, pod'[i] # NoCall
                 PROVE  /\ PodName(pod[i])' = i /\ InPod(pod[i])'
                        /\ call'[pod'[i]].refused
                           \/ call'[pod'[i]].pc \in {"proxy", "launch", "wait", "drain", "podCleanup"}
      BY DEF PodOK, InPod, PodName
    <2>1. i # j /\ pod'[i] = pod[i] /\ pod[i] \in Call
      BY <1>0, <1>3 DEF TypeOK
    <2>2. PICK d \in Call : d = pod[i]
      BY <2>1
    <2>3. /\ PodName(d) = i /\ InPod(d)
          /\ call[d].refused \/ call[d].pc \in {"proxy", "launch", "wait", "drain", "podCleanup"}
      BY <1>0, <2>1, <2>2 DEF PodOK
    <2>4. d # c
      BY <1>2, <2>1, <2>3
    <2> QED  BY <1>1, <2>1, <2>2, <2>3, <2>4 DEF InPod, PodName
  <1> QED  BY <1>0, <1>4, <1>5, <1>7, <1>9, <1>10 DEF JobsInv

-----------------------------------------------------------------------------
(* The invariant, action by action *)

LEMMA InitJobs ==
    ASSUME Init
    PROVE  JobsInv
  <1>1. PICK w \in Workload :
          call = [c \in Call |->
                    [pc |-> "idle", job |-> w[c].job, kind |-> w[c].kind, ctx |-> "live",
                     inPod |-> NoCall, status |-> "", refused |-> FALSE]]
    BY DEF Init
  <1>2. ASSUME NEW c \in Call PROVE w[c].job \in Job /\ w[c].kind \in Kind
    BY WorkloadAssumption
  <1>3. ASSUME NEW c \in Call
        PROVE  call[c] \in CallState /\ call[c].pc = "idle" /\ call[c].status = ""
    BY <1>1, <1>2 DEF CallState
  <1>4. call \in [Call -> CallState]
    BY <1>1, <1>3
  <1>5. Off \in AgentState
    BY StepsAssumption DEF Off, AgentState, Mode
  <1>6. /\ AgentTypeOK /\ ws = {} /\ raced = {} /\ disturbed = {}
        /\ pod = [n \in Name |-> NoCall] /\ content = [x \in Dir |-> {}]
        /\ \A c \in Call : agent[c] = Off /\ file[c] = "none"
    BY <1>5 DEF Init, AgentInit, AgentTypeOK, ResultFile
  <1>7. TypeOK
    BY <1>4, <1>6 DEF TypeOK
  <1>8. Off.pc = "off" /\ Off.result = "none" /\ Off.code = "none"
    BY OffIsNotRunning
  <1>9. \A c \in Call : AgentOK(c)
    BY <1>6, <1>8 DEF AgentOK, Mode
  <1>10. \A c \in Call : RunOK(c)
    BY <1>3, <1>6, <1>8 DEF RunOK, Early, Over, Running
  <1>11. RacedOK
    BY <1>3 DEF RacedOK, Active, Busy
  <1> QED  BY <1>6, <1>7, <1>9, <1>10, <1>11 DEF JobsInv, PodOK, WorkspaceOK

\* The call begins: what it overlaps with has raced, and so has it.
LEMMA RunStep ==
    ASSUME JobsInv, NEW c \in Call, Run(c)
    PROVE  JobsInv'
  <1>0. /\ TypeOK /\ (\A d \in Call : AgentOK(d) /\ RunOK(d)) /\ RacedOK
        /\ disturbed \subseteq raced /\ PodOK /\ WorkspaceOK
    BY DEF JobsInv
  <1>1. PICK p \in {"prepare", "pod", "launch"} :
          /\ p = IF IsSBA(c) THEN "prepare" ELSE IF InPod(c) THEN "pod" ELSE "launch"
          /\ call' = [call EXCEPT ![c].pc = p]
    BY DEF Run, Goto
  <1>2. /\ agent' = agent /\ file' = file /\ content' = content /\ pod' = pod
        /\ disturbed' = disturbed /\ ws' = ws \cup {Root, WorkspaceDir(c)} /\ call[c].pc = "idle"
    BY DEF Run, MakeWorkspace
  <1>3. call[c] \in CallState
    BY <1>0 DEF TypeOK
  <1>4. PICK r \in CallState : r = [call[c] EXCEPT !.pc = p]
    BY <1>3 DEF CallState, Busy
  <1>5. /\ call' = [call EXCEPT ![c] = r] /\ r.pc = p /\ r.job = call[c].job
        /\ r.kind = call[c].kind /\ r.status = call[c].status
        /\ call[c].refused => r.refused
    BY <1>0, <1>1, <1>3, <1>4 DEF TypeOK, CallState
  <1>6. /\ call' \in [Call -> CallState] /\ call'[c] = r
        /\ \A d \in Call \ {c} : call'[d] = call[d]
        /\ \A d \in Call : call'[d].job = call[d].job /\ call'[d].kind = call[d].kind
        /\ \A d \in Call : PodName(d)' = PodName(d) /\ WorkspaceDir(d)' = WorkspaceDir(d)
    BY <1>0, <1>5, CallWritten
  <1>7. PICK rivals \in SUBSET Call :
          /\ rivals = {d \in Call \ {c} :
                          Active(d) /\ WorkspaceDir(d) \in Related(WorkspaceDir(c))}
          /\ raced' = IF rivals = {} THEN raced ELSE raced \cup rivals \cup {c}
    BY DEF Run
  <1>8. raced \subseteq raced' /\ raced' \subseteq Call /\ WorkspaceDir(c) \in Dir /\ Root \in Dir
    BY <1>0, <1>7, NamesTyped DEF TypeOK
  <1>9. TypeOK'
    BY <1>0, <1>2, <1>6, <1>8 DEF TypeOK, AgentTypeOK
  <1>10. ASSUME NEW d \in Call PROVE AgentOK(d)' /\ RunOK(d)'
    <2>0. AgentOK(d)' /\ RunOK(d) /\ agent'[d] = agent[d]
      BY <1>0, <1>2, AgentKept
    <2>1. CASE d = c
      <3>1. /\ agent[c] = Off /\ call[c].status = ""
        BY <1>0, <1>2 DEF RunOK, Early
      <3>2. ~Running(c)' /\ agent'[c] = Off
        BY <1>2, <3>1, OffIsNotRunning DEF Running
      <3>3. call'[c].pc = "pod" => InPod(c)'
        BY <1>1, <1>5, <1>6 DEF InPod
      <3>4. RunOK(c)'
        BY <1>1, <1>5, <1>6, <3>1, <3>2, <3>3 DEF RunOK, Early
      <3> QED  BY <2>0, <2>1, <3>4
    <2>2. CASE d # c
      BY <1>2, <1>6, <2>0, <2>2, RunKept
    <2> QED  BY <2>1, <2>2
  <1>11. /\ Active(c)' /\ \A d \in Call : Active(d) => Active(d)'
    BY <1>1, <1>5, <1>6 DEF Active, Busy
  <1>12. WorkspaceOK'
    BY <1>0, <1>2, <1>6, <1>11, WorkspaceKept
  <1>13. RacedOK'
    <2> SUFFICES ASSUME NEW d \in Call, NEW e \in Call, d # e, Active(d)', Active(e)',
                        WorkspaceDir(e)' \in Related(WorkspaceDir(d)')
                 PROVE  d \in raced'
      BY DEF RacedOK, Related
    <2>1. \A x \in Call \ {c} : Active(x)' => Active(x)
      BY <1>6 DEF Active
    <2>2. WorkspaceDir(e) \in Related(WorkspaceDir(d)) /\ WorkspaceDir(d) \in Related(WorkspaceDir(e))
      BY <1>0, <1>6, NamesTyped DEF Related
    <2>3. CASE d = c
      BY <1>7, <2>1, <2>2, <2>3
    <2>4. CASE e = c
      BY <1>7, <2>1, <2>2, <2>4
    <2>5. CASE d # c /\ e # c
      <3>1. Active(d) /\ Active(e)
        BY <2>1, <2>5
      <3> QED  BY <1>0, <1>8, <2>2, <3>1 DEF RacedOK
    <2> QED  BY <2>3, <2>4, <2>5
  <1>14. PodOK'
    <2>1. \A d \in Call :
              /\ call'[d].job = call[d].job /\ call'[d].kind = call[d].kind
              /\ call[d].refused => call'[d].refused
              /\ InPod(d) /\ call[d].pc \in {"proxy", "launch", "wait", "drain", "podCleanup"}
                    => call'[d].refused
                       \/ call'[d].pc \in {"proxy", "launch", "wait", "drain", "podCleanup"}
      BY <1>2, <1>5, <1>6
    <2> QED  BY <1>0, <1>2, <2>1, PodKept
  <1>15. disturbed' \subseteq raced'
    BY <1>0, <1>2, <1>8
  <1> QED  BY <1>9, <1>10, <1>12, <1>13, <1>14, <1>15 DEF JobsInv

\* The call is over: its workspace goes, and who had it mounted has raced with it.
LEMMA EndStep ==
    ASSUME JobsInv, NEW c \in Call, RunRefused(c) \/ WorkspaceCleanup(c)
    PROVE  JobsInv'
  <1>0. /\ TypeOK /\ (\A d \in Call : AgentOK(d) /\ RunOK(d)) /\ RacedOK
        /\ disturbed \subseteq raced /\ PodOK /\ WorkspaceOK
    BY DEF JobsInv
  <1>1. /\ call' = [call EXCEPT ![c].pc = "ended"]
        /\ agent' = agent /\ file' = file /\ pod' = pod /\ raced' = raced
        /\ call[c].pc \in {"idle", "workspaceCleanup"}
    BY DEF RunRefused, WorkspaceCleanup, Goto
  <1> PICK X \in SUBSET Dir : X = Below(WorkspaceDir(c))
    BY <1>0, NamesTyped DEF Below
  <1>x. X \subseteq Related(WorkspaceDir(c)) /\ WorkspaceDir(c) \in X
    BY <1>0, NamesTyped DEF Below, Related
  <1>2. \/ ws' = ws /\ content' = content /\ disturbed' = disturbed /\ call[c].pc = "idle"
        \/ /\ ws' = ws \ X /\ disturbed' = disturbed \cup Mounted(c, X)
           /\ content' = [x \in Dir |-> IF x \in X THEN {} ELSE content[x]]
           /\ call[c].pc = "workspaceCleanup"
    BY DEF RunRefused, WorkspaceCleanup, RemoveWorkspace
  <1>3. call[c] \in CallState
    BY <1>0 DEF TypeOK
  <1>4. PICK r \in CallState : r = [call[c] EXCEPT !.pc = "ended"]
    BY <1>3 DEF CallState
  <1>5. /\ call' = [call EXCEPT ![c] = r] /\ r.pc = "ended" /\ r.job = call[c].job
        /\ r.kind = call[c].kind /\ r.status = call[c].status /\ r.inPod = call[c].inPod
        /\ call[c].refused => r.refused
    BY <1>0, <1>1, <1>3, <1>4 DEF TypeOK, CallState
  <1>6. /\ call' \in [Call -> CallState] /\ call'[c] = r
        /\ \A d \in Call \ {c} : call'[d] = call[d]
        /\ \A d \in Call : call'[d].job = call[d].job /\ call'[d].kind = call[d].kind
        /\ \A d \in Call : PodName(d)' = PodName(d) /\ WorkspaceDir(d)' = WorkspaceDir(d)
    BY <1>0, <1>5, CallWritten
  <1>7. disturbed' \subseteq raced'
    <2>1. CASE disturbed' = disturbed
      BY <1>0, <1>1, <2>1
    <2>2. CASE disturbed' = disturbed \cup Mounted(c, X) /\ call[c].pc = "workspaceCleanup"
      <3>1. ASSUME NEW d \in Mounted(c, X) PROVE d \in raced
        <4>1. d \in Call \ {c} /\ call[d].pc \in {"wait", "drain"} /\ WorkspaceDir(d) \in X
          BY DEF Mounted
        <4>2. Active(c) /\ Active(d)
          BY <2>2, <4>1 DEF Active, Busy
        <4>3. WorkspaceDir(c) \in Related(WorkspaceDir(d))
          BY <1>0, <1>x, <4>1, NamesTyped DEF Related
        <4> QED  BY <1>0, <4>1, <4>2, <4>3 DEF RacedOK
      <3> QED  BY <1>0, <1>1, <2>2, <3>1
    <2> QED  BY <1>2, <2>1, <2>2
  <1>8. TypeOK'
    <2>1. /\ raced' \subseteq Call /\ disturbed' \subseteq Call /\ ws' \subseteq Dir
          /\ content' \in [Dir -> SUBSET Call]
      BY <1>0, <1>1, <1>2, <1>7 DEF TypeOK
    <2> QED  BY <1>0, <1>1, <1>6, <2>1 DEF TypeOK, AgentTypeOK
  <1>9. ASSUME NEW d \in Call PROVE AgentOK(d)' /\ RunOK(d)'
    <2>0. AgentOK(d)' /\ RunOK(d) /\ agent'[d] = agent[d]
      BY <1>0, <1>1, AgentKept
    <2>1. CASE d = c
      <3>1. InPod(c) => ~Running(c)
        BY <1>0, <1>1, OffIsNotRunning DEF RunOK, Running, Early, Over
      <3>2. RunOK(c)'
        BY <1>1, <1>5, <1>6, <2>0, <2>1, <3>1 DEF RunOK, Early, InPod, IsSBA, Running
      <3> QED  BY <2>0, <2>1, <3>2
    <2>2. CASE d # c
      BY <1>1, <1>6, <2>0, <2>2, RunKept
    <2> QED  BY <2>1, <2>2
  <1>10. \A d \in Call : Active(d)' => Active(d)
    BY <1>5, <1>6 DEF Active, Busy
  <1>11. RacedOK'
    BY <1>0, <1>1, <1>6, <1>10, RacedKept
  <1>12. WorkspaceOK'
    <2>1. ASSUME NEW d \in Call, Active(d), d # c PROVE Active(d)' /\ WorkspaceDir(d)' = WorkspaceDir(d)
      BY <1>6, <2>1 DEF Active
    <2>2. ASSUME NEW x \in ws' \ {Root} PROVE \E d \in Call : Active(d)' /\ WorkspaceDir(d)' = x
      <3>1. PICK d \in Call : Active(d) /\ WorkspaceDir(d) = x
        BY <1>0, <1>2 DEF WorkspaceOK
      <3>2. d # c
        BY <1>x, <1>2, <3>1 DEF Active, Busy
      <3> QED  BY <2>1, <3>1, <3>2
    <2>3. ASSUME NEW x \in Dir, NEW d \in content'[x] PROVE Active(d)' /\ WorkspaceDir(d)' = x
      <3>1. d \in content[x] /\ (call[c].pc = "workspaceCleanup" => x \notin X)
        BY <1>2
      <3>2. d \in Call /\ Active(d) /\ WorkspaceDir(d) = x
        BY <1>0, <3>1 DEF WorkspaceOK, TypeOK
      <3>3. d # c
        BY <1>x, <1>2, <3>1, <3>2 DEF Active, Busy
      <3> QED  BY <2>1, <3>2, <3>3
    <2> QED  BY <2>2, <2>3 DEF WorkspaceOK
  <1>13. PodOK'
    <2>1. \A d \in Call :
              /\ call'[d].job = call[d].job /\ call'[d].kind = call[d].kind
              /\ call[d].refused => call'[d].refused
              /\ InPod(d) /\ call[d].pc \in {"proxy", "launch", "wait", "drain", "podCleanup"}
                    => call'[d].refused
                       \/ call'[d].pc \in {"proxy", "launch", "wait", "drain", "podCleanup"}
      BY <1>1, <1>5, <1>6
    <2> QED  BY <1>0, <1>1, <2>1, PodKept
  <1> QED  BY <1>7, <1>8, <1>9, <1>11, <1>12, <1>13 DEF JobsInv

\* A call that gives up before its container is launched.
LEMMA GivesUp ==
    ASSUME JobsInv, NEW c \in Call, NEW p \in {"respond", "podCleanup"},
           NEW s \in {"failed", "timeout"}, NEW b \in BOOLEAN,
           call[c].pc \in {"prepare", "pod", "podRetry", "proxy", "launch"},
           p = "podCleanup" => InPod(c),
           call[c].pc \in {"proxy", "launch"} => (p = "podCleanup" <=> InPod(c)),
           ~b => call' = [call EXCEPT ![c].status = s, ![c].pc = p],
           b => call' = [call EXCEPT ![c].status = s, ![c].pc = p, ![c].refused = TRUE],
           UNCHANGED <<agent, file, ws, content, pod, raced, disturbed>>
    PROVE  JobsInv'
  <1>0. /\ TypeOK /\ AgentTypeOK /\ (\A d \in Call : AgentOK(d) /\ RunOK(d))
    BY DEF JobsInv, TypeOK
  <1>1. call[c] \in CallState /\ agent[c] \in AgentState /\ RunOK(c) /\ AgentOK(c)
    BY <1>0 DEF TypeOK, AgentTypeOK
  <1>2. PICK r \in CallState :
          r = IF b THEN [call[c] EXCEPT !.status = s, !.pc = p, !.refused = TRUE]
                   ELSE [call[c] EXCEPT !.status = s, !.pc = p]
    BY <1>1 DEF CallState, Busy
  <1>3. /\ call' = [call EXCEPT ![c] = r] /\ r.pc = p /\ r.job = call[c].job
        /\ r.kind = call[c].kind /\ r.status = s
    BY <1>0, <1>1, <1>2 DEF TypeOK, CallState
  <1>4. call[c].refused => r.refused
    BY <1>1, <1>2 DEF CallState
  <1>5. agent[c] = Off
    BY <1>1 DEF RunOK, Early
  <1>6. call'[c] = r
    BY <1>0, <1>3 DEF TypeOK
  <1>7. RunOK(c)'
    <2>1. ~Running(c)'
      BY <1>5, OffIsNotRunning DEF Running
    <2> QED  BY <1>3, <1>6, <2>1 DEF RunOK, Early, InPod
  <1>8. AgentTypeOK' /\ AgentOK(c)'
    BY <1>0 DEF AgentTypeOK, AgentOK
  <1>9. Active(c) /\ r.pc \in Busy
    BY <1>3 DEF Active, Busy
  <1>10. InPod(c) /\ call[c].pc \in Held => r.refused \/ r.pc \in Held
    BY <1>3 DEF Held
  <1> QED  BY <1>3, <1>4, <1>7, <1>8, <1>9, <1>10, OwnStep

\* A call that goes on towards its launch, in its own workspace.
LEMMA GoesOn ==
    ASSUME JobsInv, NEW c \in Call, NEW p \in {"pod", "podRemove", "launch"},
           \/ call[c].pc \in {"prepare", "pod"} /\ (p \in {"pod", "podRemove"} => InPod(c))
           \/ call[c].pc = "proxy" /\ p = "launch",
           call' = [call EXCEPT ![c].pc = p],
           file' = file \/ file' = [file EXCEPT ![c] = "blank"],
           ws' \subseteq ws \cup {Root, WorkspaceDir(c)},
           UNCHANGED <<agent, content, pod, raced, disturbed>>
    PROVE  JobsInv'
  <1>0. /\ TypeOK /\ AgentTypeOK /\ (\A d \in Call : AgentOK(d) /\ RunOK(d))
    BY DEF JobsInv, TypeOK
  <1>1. call[c] \in CallState /\ agent[c] \in AgentState /\ RunOK(c) /\ AgentOK(c)
    BY <1>0 DEF TypeOK, AgentTypeOK
  <1>2. PICK r \in CallState : r = [call[c] EXCEPT !.pc = p]
    BY <1>1 DEF CallState, Busy
  <1>3. /\ call' = [call EXCEPT ![c] = r] /\ r.pc = p /\ r.job = call[c].job
        /\ r.kind = call[c].kind /\ r.status = call[c].status
    BY <1>0, <1>1, <1>2 DEF TypeOK, CallState
  <1>4. call[c].refused => r.refused
    BY <1>1, <1>2 DEF CallState
  <1>5. agent[c] = Off /\ call[c].status = ""
    BY <1>1 DEF RunOK, Early
  <1>6. call'[c] = r
    BY <1>0, <1>3 DEF TypeOK
  <1>7. RunOK(c)'
    <2>1. ~Running(c)' /\ agent'[c] = Off
      BY <1>5, OffIsNotRunning DEF Running
    <2>2. p \in {"pod", "podRemove"} => InPod(c)'
      BY <1>3, <1>6 DEF InPod
    <2> QED  BY <1>3, <1>5, <1>6, <2>1, <2>2 DEF RunOK, Early
  <1>8. AgentTypeOK' /\ AgentOK(c)'
    <2>1. agent'[c] = agent[c] /\ (file'[c] = file[c] \/ file'[c] = "blank")
      BY <1>0 DEF AgentTypeOK
    <2>2. AgentTypeOK'
      BY <1>0 DEF AgentTypeOK, ResultFile
    <2> QED  BY <1>1, <2>1, <2>2 DEF AgentOK
  <1>9. Active(c) /\ r.pc \in Busy
    BY <1>3 DEF Active, Busy
  <1>10. InPod(c) /\ call[c].pc \in Held => r.refused \/ r.pc \in Held
    BY <1>3 DEF Held
  <1>11. \A d \in Call \ {c} : agent'[d] = agent[d] /\ file'[d] = file[d]
    BY <1>0 DEF AgentTypeOK
  <1> QED  BY <1>3, <1>4, <1>7, <1>8, <1>9, <1>10, <1>11, OwnStep

LEMMA PrepareStep ==
    ASSUME JobsInv, NEW c \in Call, Prepare(c)
    PROVE  JobsInv'
  <1>1. CASE /\ file' = [file EXCEPT ![c] = "blank"]
             /\ MakeWorkspace(c)
             /\ Goto(c, IF InPod(c) THEN "pod" ELSE "launch")
    <2>1. PICK p \in {"pod", "podRemove", "launch"} : p = IF InPod(c) THEN "pod" ELSE "launch"
      OBVIOUS
    <2>2. call' = [call EXCEPT ![c].pc = p]
      BY <1>1, <2>1 DEF Goto
    <2>3. call[c].pc = "prepare" /\ UNCHANGED <<agent, content, pod, raced, disturbed>>
      BY DEF Prepare
    <2>4. ws' \subseteq ws \cup {Root, WorkspaceDir(c)}
      BY <1>1 DEF MakeWorkspace
    <2> QED  BY <1>1, <2>1, <2>2, <2>3, <2>4, GoesOn
  <1>2. CASE Fail(c, "respond") /\ UNCHANGED <<file, ws>>
    <2>1. call' = [call EXCEPT ![c].status = "failed", ![c].pc = "respond"]
      BY <1>2 DEF Fail
    <2>2. call[c].pc = "prepare" /\ UNCHANGED <<agent, file, ws, content, pod, raced, disturbed>>
      BY <1>2 DEF Prepare
    <2> QED  BY <2>1, <2>2, GivesUp
  <1> QED  BY <1>1, <1>2 DEF Prepare

\* What "pod create" may do, when the name is free and when it is taken.
LEMMA CreateStep ==
    ASSUME JobsInv, NEW c \in Call, PodCreate(c) \/ PodRetry(c)
    PROVE  JobsInv'
  <1>0. /\ TypeOK /\ AgentTypeOK /\ (\A d \in Call : AgentOK(d) /\ RunOK(d))
    BY DEF JobsInv, TypeOK
  <1>1. call[c] \in CallState /\ agent[c] \in AgentState /\ RunOK(c) /\ AgentOK(c)
    BY <1>0 DEF TypeOK, AgentTypeOK
  <1>2. PICK j \in Name : j = PodName(c)
    BY <1>0, NamesTyped
  <1>3. /\ call[c].pc \in {"pod", "podRetry"} /\ UNCHANGED <<agent, file, ws, content, raced, disturbed>>
    BY DEF PodCreate, PodRetry
  <1>4. InPod(c) /\ call[c].status = ""
    BY <1>1, <1>3 DEF RunOK, Early
  <1>5. \/ pod[j] = NoCall /\ pod' = [pod EXCEPT ![j] = c] /\ Goto(c, "proxy")
        \/ pod' = pod /\ Goto(c, "podRemove") /\ call[c].pc = "pod"
        \/ /\ pod' = pod \/ (pod[j] = NoCall /\ pod' = [pod EXCEPT ![j] = c])
           /\ call' = [call EXCEPT ![c].status = "failed", ![c].pc = "respond",
                                   ![c].refused = TRUE]
    BY <1>2 DEF PodCreate, PodRetry, CreatePod
  <1>6. CASE pod[j] = NoCall /\ pod' = [pod EXCEPT ![j] = c] /\ Goto(c, "proxy")
    <2>1. PICK r \in CallState : r = [call[c] EXCEPT !.pc = "proxy"]
      BY <1>1 DEF CallState, Busy
    <2>2. /\ call' = [call EXCEPT ![c] = r] /\ r.pc = "proxy" /\ r.job = call[c].job
          /\ r.kind = call[c].kind /\ r.status = ""
      BY <1>0, <1>1, <1>4, <1>6, <2>1 DEF TypeOK, CallState, Goto
    <2> QED  BY <1>2, <1>3, <1>6, <2>2, PodMade
  <1>7. CASE pod' = pod /\ Goto(c, "podRemove") /\ call[c].pc = "pod"
    <2>1. call' = [call EXCEPT ![c].pc = "podRemove"]
      BY <1>7 DEF Goto
    <2> QED  BY <1>3, <1>4, <1>7, <2>1, GoesOn
  <1>8. ASSUME call' = [call EXCEPT ![c].status = "failed", ![c].pc = "respond",
                                   ![c].refused = TRUE]
        PROVE  (pod' = pod => JobsInv')
               /\ (pod[j] = NoCall /\ pod' = [pod EXCEPT ![j] = c] => JobsInv')
    <2>1. CASE pod' = pod
      BY <1>3, <1>8, <2>1, GivesUp
    <2>2. CASE pod[j] = NoCall /\ pod' = [pod EXCEPT ![j] = c]
      <3>1. PICK r \in CallState :
               r = [call[c] EXCEPT !.status = "failed", !.pc = "respond", !.refused = TRUE]
        BY <1>1 DEF CallState, Busy
      <3>2. /\ call' = [call EXCEPT ![c] = r] /\ r.pc = "respond" /\ r.job = call[c].job
            /\ r.kind = call[c].kind /\ r.status = "failed" /\ r.refused
        BY <1>0, <1>1, <1>8, <3>1 DEF TypeOK, CallState
      <3> QED  BY <1>2, <1>3, <2>2, <3>2, PodMade
    <2> QED  BY <2>1, <2>2
  <1> QED  BY <1>5, <1>6, <1>7, <1>8

LEMMA RemoveStep ==
    ASSUME JobsInv, NEW c \in Call, PodRemove(c) \/ PodCleanup(c)
    PROVE  JobsInv'
  <1>0. /\ TypeOK /\ AgentTypeOK /\ (\A d \in Call : AgentOK(d) /\ RunOK(d))
    BY DEF JobsInv, TypeOK
  <1>1. call[c] \in CallState /\ agent[c] \in AgentState /\ RunOK(c) /\ AgentOK(c)
    BY <1>0 DEF TypeOK, AgentTypeOK
  <1>2. PICK p \in {"podRetry", "respond"} :
          /\ call' = [call EXCEPT ![c].pc = p]
          /\ \/ call[c].pc = "podRemove" /\ p = "podRetry"
             \/ call[c].pc = "podCleanup" /\ p = "respond"
    BY DEF PodRemove, PodCleanup, Goto
  <1>3. /\ RemovePod(PodName(c)) /\ file' = file /\ ws' = ws /\ content' = content
        /\ raced' = raced /\ disturbed' = disturbed
    BY DEF PodRemove, PodCleanup
  <1>4. PICK r \in CallState : r = [call[c] EXCEPT !.pc = p]
    BY <1>1 DEF CallState, Busy
  <1>5. /\ call' = [call EXCEPT ![c] = r] /\ r.pc = p /\ r.job = call[c].job
        /\ r.kind = call[c].kind /\ r.status = call[c].status /\ r.inPod = call[c].inPod
    BY <1>0, <1>1, <1>2, <1>4 DEF TypeOK, CallState
  <1> QED  BY <1>2, <1>3, <1>5, PodGone

LEMMA ProxyStep ==
    ASSUME JobsInv, NEW c \in Call, Proxy(c)
    PROVE  JobsInv'
  <1>0. /\ TypeOK /\ AgentTypeOK /\ (\A d \in Call : AgentOK(d) /\ RunOK(d))
    BY DEF JobsInv, TypeOK
  <1>1. call[c] \in CallState /\ agent[c] \in AgentState /\ RunOK(c) /\ AgentOK(c)
    BY <1>0 DEF TypeOK, AgentTypeOK
  <1>2. call[c].pc = "proxy" /\ UNCHANGED <<agent, file, content, pod, raced, disturbed>> /\ InPod(c)
    BY <1>1 DEF Proxy, RunOK
  <1>3. CASE MakeWorkspace(c) /\ Goto(c, "launch")
    <2>1. call' = [call EXCEPT ![c].pc = "launch"]
      BY <1>3 DEF Goto
    <2>2. ws' \subseteq ws \cup {Root, WorkspaceDir(c)}
      BY <1>3 DEF MakeWorkspace
    <2> QED  BY <1>2, <2>1, <2>2, GoesOn
  <1>4. CASE Fail(c, "podCleanup") /\ ws' = ws
    <2>1. call' = [call EXCEPT ![c].status = "failed", ![c].pc = "podCleanup"]
      BY <1>4 DEF Fail
    <2> QED  BY <1>2, <1>4, <2>1, GivesUp
  <1> QED  BY <1>3, <1>4 DEF Proxy

LEMMA LaunchStep ==
    ASSUME JobsInv, NEW c \in Call, Launch(c)
    PROVE  JobsInv'
  <1>0. /\ TypeOK /\ AgentTypeOK /\ (\A d \in Call : AgentOK(d) /\ RunOK(d))
    BY DEF JobsInv, TypeOK
  <1>1. call[c] \in CallState /\ agent[c] \in AgentState /\ RunOK(c) /\ AgentOK(c)
    BY <1>0 DEF TypeOK, AgentTypeOK
  <1>2. /\ call[c].pc = "launch" /\ UNCHANGED <<file, ws, pod, raced>>
        /\ InPod(c) => pod[PodName(c)] # NoCall
    BY DEF Launch
  <1>3. PICK q \in Call \cup {NoCall} : q = IF InPod(c) THEN pod[PodName(c)] ELSE NoCall
    BY <1>0, NamesTyped DEF TypeOK
  <1>4. PICK r \in CallState : r = [call[c] EXCEPT !.pc = "wait", !.inPod = q]
    BY <1>1, <1>3 DEF CallState, Busy
  <1>5. /\ call' = [call EXCEPT ![c] = r] /\ r.pc = "wait" /\ r.job = call[c].job
        /\ r.kind = call[c].kind /\ r.status = call[c].status /\ r.inPod = q
    <2>1. call' = [call EXCEPT ![c].pc = "wait", ![c].inPod = q]
      BY <1>3 DEF Launch
    <2> QED  BY <1>0, <1>1, <1>4, <2>1 DEF TypeOK, CallState
  <1>6. call[c].refused => r.refused
    BY <1>1, <1>4 DEF CallState
  <1>7. call'[c] = r
    BY <1>0, <1>5 DEF TypeOK
  <1>8. PICK m \in ModeOf[call[c].kind] :
          agent' = [agent EXCEPT ![c].pc = IF m = "command" THEN m ELSE "start", ![c].mode = m]
    BY DEF Launch
  <1>9. m \in Mode
    <2>1. call[c].kind \in Kind
      BY <1>1 DEF CallState
    <2> QED  BY <1>8, <2>1 DEF ModeOf, Kind, Mode
  <1>10. PICK k \in {"command", "start"} : k = IF m = "command" THEN m ELSE "start"
    OBVIOUS
  <1>11. PICK a \in AgentState : a = [agent[c] EXCEPT !.pc = k, !.mode = m]
    BY <1>1, <1>9, <1>10 DEF AgentState, Mode
  <1>12. /\ agent' = [agent EXCEPT ![c] = a] /\ a.pc = k /\ a.mode = m
         /\ a.result = agent[c].result /\ a.code = agent[c].code
    <2>1. /\ a.pc = k /\ a.mode = m
          /\ a.result = agent[c].result /\ a.code = agent[c].code
      BY <1>1, <1>11 DEF AgentState
    <2>2. agent' = [agent EXCEPT ![c].pc = k, ![c].mode = m]
      BY <1>8, <1>10
    <2>3. agent' = [agent EXCEPT ![c] = a]
      BY <1>0, <1>11, <2>2 DEF AgentTypeOK
    <2> QED  BY <2>1, <2>3
  <1>13. a.failed = agent[c].failed
    BY <1>1, <1>11 DEF AgentState
  <1>14. agent[c] = Off /\ call[c].status = ""
    BY <1>1, <1>2 DEF RunOK, Early
  <1>15. agent[c].result = "none" /\ agent[c].code = "none" /\ ~agent[c].failed
    BY <1>14, OffIsNotRunning
  <1>16. AgentTypeOK' /\ agent'[c] = a /\ file'[c] = file[c]
    BY <1>0, <1>2, <1>12 DEF AgentTypeOK
  <1>17. AgentOK(c)'
    <2>1. file[c] # "success"
      BY <1>1, <1>15 DEF AgentOK
    <2>2. ~a.failed
      BY <1>13, <1>15
    <2> QED  BY <1>10, <1>12, <1>15, <1>16, <2>1, <2>2 DEF AgentOK, Mode
  <1>18. RunOK(c)'
    <2>1. InPod(c)' => InPod(c)
      BY <1>5, <1>7 DEF InPod
    <2> QED  BY <1>2, <1>3, <1>5, <1>7, <1>14, <2>1 DEF RunOK, Early, Over, PodName
  <1>19. Active(c) /\ r.pc \in Busy /\ (InPod(c) /\ call[c].pc \in Held => r.refused \/ r.pc \in Held)
    BY <1>2, <1>5 DEF Active, Busy, Held
  <1>20. \A d \in Call \ {c} : agent'[d] = agent[d] /\ file'[d] = file[d]
    BY <1>0, <1>2, <1>12 DEF AgentTypeOK
  <1>21. /\ content' = [content EXCEPT ![WorkspaceDir(c)] = @ \cup {c}]
         /\ disturbed' = disturbed \/ (disturbed' = disturbed \cup {c} /\ Leftovers(c) # {})
    BY DEF Launch
  <1>22. ASSUME Leftovers(c) # {} PROVE c \in raced
    <2>1. PICK d \in Leftovers(c) : TRUE
      BY <1>22
    <2>2. PICK x \in Related(WorkspaceDir(c)) : d \in content[x] /\ d # c
      BY <2>1 DEF Leftovers
    <2>3. x \in Dir
      BY <1>0, <2>2, NamesTyped DEF Related
    <2>4. d \in Call /\ Active(d) /\ WorkspaceDir(d) = x
      BY <1>0, <2>2, <2>3 DEF JobsInv, WorkspaceOK, TypeOK
    <2> QED  BY <1>19, <2>2, <2>4 DEF JobsInv, RacedOK
  <1> QED  BY <1>2, <1>5, <1>6, <1>16, <1>17, <1>18, <1>19, <1>20, <1>21, <1>22, OwnStep

LEMMA LaunchFailsStep ==
    ASSUME JobsInv, NEW c \in Call, LaunchFails(c)
    PROVE  JobsInv'
  <1>1. PICK p \in {"respond", "podCleanup"} : p = IF InPod(c) THEN "podCleanup" ELSE "respond"
    OBVIOUS
  <1>2. PICK s \in {"failed", "timeout"} :
           s = IF call[c].ctx = "deadline" THEN "timeout" ELSE "failed"
    OBVIOUS
  <1>3. /\ call' = [call EXCEPT ![c].status = s, ![c].pc = p] /\ call[c].pc = "launch"
        /\ UNCHANGED <<agent, file, ws, content, pod, raced, disturbed>>
    BY <1>1, <1>2 DEF LaunchFails, AfterRun
  <1> QED  BY <1>1, <1>3, GivesUp

\* What a run reports, and when it reports success.
LEMMA ReportIsOwn ==
    ASSUME JobsInv, NEW c \in Call, NEW e \in BOOLEAN, ~e => agent[c].code = "zero"
    PROVE  /\ Report(c, e) \in {"", "completed", "failed", "timeout"}
           /\ Report(c, e) = "completed" =>
                IF IsSBA(c) THEN agent[c].result = "success" ELSE agent[c].code = "zero"
  <1>1. file[c] \in ResultFile /\ (file[c] = "success" => agent[c].result = "success")
    BY DEF JobsInv, TypeOK, AgentTypeOK, AgentOK
  <1>2. ASSUME NEW s \in {"", "failed"}
        PROVE  /\ SbaStatus(c, s) \in {"", "completed", "failed", "timeout"}
               /\ SbaStatus(c, s) = "completed" => agent[c].result = "success"
    BY <1>1 DEF SbaStatus, ResultFile, Verdict
  <1>3. PICK s \in {"", "failed"} : s = IF e THEN "failed" ELSE ""
    OBVIOUS
  <1>4. CASE call[c].ctx = "deadline"
    BY <1>4 DEF Report
  <1>5. CASE call[c].ctx # "deadline" /\ IsSBA(c)
    <2>1. Report(c, e) = SbaStatus(c, s)
      BY <1>3, <1>5 DEF Report
    <2> QED  BY <1>2, <1>5, <2>1
  <1>6. CASE call[c].ctx # "deadline" /\ ~IsSBA(c)
    <2>1. Report(c, e) = IF e THEN "failed" ELSE "completed"
      BY <1>6 DEF Report
    <2> QED  BY <1>6, <2>1
  <1> QED  BY <1>4, <1>5, <1>6

\* The command has returned: the run is reported as what it was.
LEMMA ReportStep ==
    ASSUME JobsInv, NEW c \in Call, Returned(c) \/ Drained(c)
    PROVE  JobsInv'
  <1>0. /\ TypeOK /\ AgentTypeOK /\ (\A d \in Call : AgentOK(d) /\ RunOK(d))
    BY DEF JobsInv, TypeOK
  <1>1. call[c] \in CallState /\ agent[c] \in AgentState /\ RunOK(c) /\ AgentOK(c)
    BY <1>0 DEF TypeOK, AgentTypeOK
  <1>2. PICK e \in BOOLEAN :
          /\ ~e => agent[c].code = "zero"
          /\ call' = [call EXCEPT ![c].status = Report(c, e), ![c].pc = AfterRun(c)]
    <2>1. CASE Returned(c)
      BY <2>1 DEF Returned
    <2>2. CASE Drained(c)
      BY <2>2 DEF Drained
    <2> QED  BY <2>1, <2>2
  <1>3. PICK s \in {"", "completed", "failed", "timeout"} :
          /\ s = Report(c, e)
          /\ s = "completed" =>
                IF IsSBA(c) THEN agent[c].result = "success" ELSE agent[c].code = "zero"
    BY <1>2, ReportIsOwn
  <1>4. PICK p \in {"respond", "podCleanup"} : p = IF InPod(c) THEN "podCleanup" ELSE "respond"
    OBVIOUS
  <1>5. call' = [call EXCEPT ![c].status = s, ![c].pc = p]
    BY <1>2, <1>3, <1>4 DEF AfterRun
  <1>6. PICK r \in CallState : r = [call[c] EXCEPT !.status = s, !.pc = p]
    BY <1>1 DEF CallState, Busy
  <1>7. /\ call' = [call EXCEPT ![c] = r] /\ r.pc = p /\ r.job = call[c].job
        /\ r.kind = call[c].kind /\ r.status = s /\ r.inPod = call[c].inPod
    BY <1>0, <1>1, <1>5, <1>6 DEF TypeOK, CallState
  <1>8. call[c].refused => r.refused
    BY <1>1, <1>6 DEF CallState
  <1>9. call'[c] = r
    BY <1>0, <1>7 DEF TypeOK
  <1>10. call[c].pc \in {"wait", "drain"} /\ agent' = agent /\ file' = file /\ ws' = ws /\ content' = content
         /\ pod' = pod /\ raced' = raced /\ disturbed' = disturbed
    BY DEF Returned, Drained
  <1>11. /\ AgentTypeOK' /\ AgentOK(c)'
         /\ \A d \in Call \ {c} : agent'[d] = agent[d] /\ file'[d] = file[d]
    BY <1>0, <1>10 DEF AgentTypeOK, AgentOK
  <1>12. RunOK(c)'
    <2>1. (InPod(c)' <=> InPod(c)) /\ (IsSBA(c)' <=> IsSBA(c))
      BY <1>7, <1>9 DEF InPod, IsSBA
    <2>2. call'[c].status = "completed" =>
            IF IsSBA(c)' THEN agent'[c].result = "success" ELSE agent'[c].code = "zero"
      BY <1>3, <1>7, <1>9, <1>10, <2>1
    <2>3. InPod(c)' /\ Running(c)' => /\ call'[c].inPod # NoCall
                                      /\ call'[c].inPod = pod'[PodName(c)']
                                      /\ call'[c].pc \notin Over
      BY <1>1, <1>4, <1>7, <1>9, <1>10, <2>1 DEF RunOK, Over, Running, PodName
    <2> QED  BY <1>4, <1>7, <1>9, <2>1, <2>2, <2>3 DEF RunOK, Early
  <1>13. Active(c) /\ r.pc \in Busy /\ (InPod(c) /\ call[c].pc \in Held => r.refused \/ r.pc \in Held)
    BY <1>4, <1>7, <1>10 DEF Active, Busy, Held
  <1> QED  BY <1>7, <1>8, <1>10, <1>11, <1>12, <1>13, OwnStep

\* The command is killed, and the container with it or not.
LEMMA KilledStep ==
    ASSUME JobsInv, NEW c \in Call, Killed(c)
    PROVE  JobsInv'
  <1>0. /\ TypeOK /\ AgentTypeOK /\ (\A d \in Call : AgentOK(d) /\ RunOK(d))
    BY DEF JobsInv, TypeOK
  <1>1. call[c] \in CallState /\ agent[c] \in AgentState /\ RunOK(c) /\ AgentOK(c)
    BY <1>0 DEF TypeOK, AgentTypeOK
  <1>2. /\ call[c].pc = "wait" /\ UNCHANGED <<file, ws, content, pod, raced, disturbed>>
        /\ call' = [call EXCEPT ![c].pc = "drain"]
    BY DEF Killed, Goto
  <1>3. PICK r \in CallState : r = [call[c] EXCEPT !.pc = "drain"]
    BY <1>1 DEF CallState, Busy
  <1>4. /\ call' = [call EXCEPT ![c] = r] /\ r.pc = "drain" /\ r.job = call[c].job
        /\ r.kind = call[c].kind /\ r.status = call[c].status /\ r.inPod = call[c].inPod
    BY <1>0, <1>1, <1>2, <1>3 DEF TypeOK, CallState
  <1>5. call[c].refused => r.refused
    BY <1>1, <1>3 DEF CallState
  <1>6. call'[c] = r
    BY <1>0, <1>4 DEF TypeOK
  <1>7. /\ AgentTypeOK' /\ AgentOK(c)'
        /\ \A d \in Call \ {c} : agent'[d] = agent[d]
        /\ Running(c)' => Running(c)
    <2>1. CASE agent' = agent
      BY <1>0, <1>2, <2>1 DEF AgentTypeOK, AgentOK, Running
    <2>2. CASE KillAgents({c})
      <3>1. PICK C \in SUBSET Call : C = {c}
        OBVIOUS
      <3>2. KillAgents(C)
        BY <2>2, <3>1
      <3>3. /\ AgentTypeOK' /\ \A d \in Call : AgentOK(d)'
            /\ \A d \in Call : /\ ~Running(d) \/ d \notin C => agent'[d] = agent[d]
                               /\ agent'[d].result = agent[d].result
                               /\ Running(d)' => Running(d) /\ d \notin C
        BY <1>0, <1>2, <3>2, KillKeeps
      <3> QED  BY <3>1, <3>3
    <2> QED  BY <2>1, <2>2 DEF Killed
  <1>8. RunOK(c)'
    <2>1. (InPod(c)' <=> InPod(c)) /\ PodName(c)' = PodName(c)
      BY <1>4, <1>6 DEF InPod, PodName
    <2>2. call'[c].status = ""
      BY <1>1, <1>2, <1>4, <1>6 DEF RunOK
    <2>3. InPod(c)' /\ Running(c)' => /\ call'[c].inPod # NoCall
                                      /\ call'[c].inPod = pod'[PodName(c)']
      BY <1>1, <1>2, <1>4, <1>6, <1>7, <2>1 DEF RunOK
    <2> QED  BY <1>4, <1>6, <2>2, <2>3 DEF RunOK, Early, Over
  <1>9. Active(c) /\ r.pc \in Busy /\ (InPod(c) /\ call[c].pc \in Held => r.refused \/ r.pc \in Held)
    BY <1>2, <1>4 DEF Active, Busy, Held
  <1> QED  BY <1>2, <1>4, <1>5, <1>7, <1>8, <1>9, OwnStep

LEMMA ContextStep ==
    ASSUME JobsInv, NEW c \in Call, Expire(c) \/ Disconnect(c)
    PROVE  JobsInv'
  <1>0. /\ TypeOK /\ AgentTypeOK /\ (\A d \in Call : AgentOK(d) /\ RunOK(d))
    BY DEF JobsInv, TypeOK
  <1>1. call[c] \in CallState /\ agent[c] \in AgentState /\ RunOK(c) /\ AgentOK(c)
    BY <1>0 DEF TypeOK, AgentTypeOK
  <1>2. PICK x \in {"deadline", "canceled"} : call' = [call EXCEPT ![c].ctx = x]
    BY DEF Expire, Disconnect
  <1>3. Active(c) /\ UNCHANGED <<agent, file, ws, content, pod, raced, disturbed>>
    BY DEF Expire, Disconnect, Unreported
  <1>4. PICK r \in CallState : r = [call[c] EXCEPT !.ctx = x]
    BY <1>1 DEF CallState
  <1>5. /\ call' = [call EXCEPT ![c] = r] /\ r.pc = call[c].pc /\ r.job = call[c].job
        /\ r.kind = call[c].kind /\ r.status = call[c].status /\ r.inPod = call[c].inPod
    BY <1>0, <1>1, <1>2, <1>4 DEF TypeOK, CallState
  <1>6. call[c].refused => r.refused
    BY <1>1, <1>4 DEF CallState
  <1>7. call'[c] = r
    BY <1>0, <1>5 DEF TypeOK
  <1>8. AgentTypeOK' /\ AgentOK(c)'
    BY <1>0, <1>3 DEF AgentTypeOK, AgentOK
  <1>9. RunOK(c)'
    BY <1>1, <1>3, <1>5, <1>7 DEF RunOK, InPod, IsSBA, Running, PodName
  <1>10. r.pc \in Busy /\ (InPod(c) /\ call[c].pc \in Held => r.refused \/ r.pc \in Held)
    BY <1>3, <1>5 DEF Active
  <1> QED  BY <1>3, <1>5, <1>6, <1>8, <1>9, <1>10, OwnStep

LEMMA RespondStep ==
    ASSUME JobsInv, NEW c \in Call, Respond(c)
    PROVE  JobsInv'
  <1>0. /\ TypeOK /\ AgentTypeOK /\ (\A d \in Call : AgentOK(d) /\ RunOK(d))
    BY DEF JobsInv, TypeOK
  <1>1. call[c] \in CallState /\ agent[c] \in AgentState /\ RunOK(c) /\ AgentOK(c)
    BY <1>0 DEF TypeOK, AgentTypeOK
  <1>2. /\ call[c].pc = "respond" /\ UNCHANGED <<agent, ws, content, pod, raced, disturbed>>
        /\ call' = [call EXCEPT ![c].pc = "workspaceCleanup"]
        /\ file' = [file EXCEPT ![c] = "none"]
    BY DEF Respond, Goto
  <1>4. PICK r \in CallState : r = [call[c] EXCEPT !.pc = "workspaceCleanup"]
    BY <1>1 DEF CallState, Busy
  <1>5. /\ call' = [call EXCEPT ![c] = r] /\ r.pc = "workspaceCleanup" /\ r.job = call[c].job
        /\ r.kind = call[c].kind /\ r.status = call[c].status /\ r.inPod = call[c].inPod
    BY <1>0, <1>1, <1>2, <1>4 DEF TypeOK, CallState
  <1>6. call[c].refused => r.refused
    BY <1>1, <1>4 DEF CallState
  <1>7. call'[c] = r
    BY <1>0, <1>5 DEF TypeOK
  <1>8. /\ AgentTypeOK' /\ file'[c] = "none"
        /\ \A d \in Call \ {c} : agent'[d] = agent[d] /\ file'[d] = file[d]
    BY <1>0, <1>2 DEF AgentTypeOK, ResultFile
  <1>9. AgentOK(c)'
    BY <1>1, <1>2, <1>8 DEF AgentOK
  <1>10. RunOK(c)'
    BY <1>1, <1>2, <1>5, <1>7 DEF RunOK, InPod, IsSBA, Running, Early, Over
  <1>11. Active(c) /\ r.pc \in Busy /\ (InPod(c) /\ call[c].pc \in Held => r.refused \/ r.pc \in Held)
    BY <1>2, <1>5 DEF Active, Busy, Held
  <1> QED  BY <1>2, <1>5, <1>6, <1>8, <1>9, <1>10, <1>11, OwnStep

LEMMA ContainerStep ==
    ASSUME JobsInv, NEW c \in Call, Container(c)
    PROVE  JobsInv'
  <1>0. /\ TypeOK /\ AgentTypeOK /\ (\A d \in Call : AgentOK(d) /\ RunOK(d))
    BY DEF JobsInv, TypeOK
  <1>1. call[c] \in CallState /\ agent[c] \in AgentState /\ RunOK(c) /\ AgentOK(c)
    BY <1>0 DEF TypeOK, AgentTypeOK
  <1>2. Active(c) /\ AgentStep(c) /\ UNCHANGED <<call, ws, content, pod, raced, disturbed>>
    BY DEF Container, workerVars
  <1>3. /\ AgentTypeOK' /\ AgentOK(c)'
        /\ \A d \in Call \ {c} : agent'[d] = agent[d] /\ file'[d] = file[d]
        /\ agent[c].result = "success" => agent'[c].result = "success"
        /\ Running(c)
    BY <1>0, <1>1, <1>2, AgentStepKeeps
  <1>4. call[c].pc \notin Early /\ agent[c].code # "zero"
    BY <1>1, <1>3, OffIsNotRunning DEF RunOK, AgentOK, Running
  <1>5. RunOK(c)'
    BY <1>1, <1>2, <1>3, <1>4 DEF RunOK, InPod, IsSBA, PodName
  <1>6. PICK r \in CallState : r = call[c]
    BY <1>1
  <1>7. /\ call' = [call EXCEPT ![c] = r] /\ r.job = call[c].job /\ r.kind = call[c].kind
        /\ r.pc \in Busy /\ (InPod(c) /\ call[c].pc \in Held => r.refused \/ r.pc \in Held)
    BY <1>0, <1>2, <1>6 DEF TypeOK, Active
  <1>8. call[c].refused => r.refused
    BY <1>6
  <1> QED  BY <1>2, <1>3, <1>5, <1>7, <1>8, OwnStep

\* JobsInv is inductive.
LEMMA NextKeepsJobs ==
    ASSUME JobsInv, [Next]_vars
    PROVE  JobsInv'
  <1>1. CASE UNCHANGED vars
    <2>1. /\ agent' = agent /\ file' = file /\ call' = call /\ ws' = ws
          /\ content' = content /\ pod' = pod /\ raced' = raced /\ disturbed' = disturbed
      BY <1>1 DEF vars
    <2>2. TypeOK'
      BY <2>1 DEF JobsInv, TypeOK, AgentTypeOK
    <2>3. \A c \in Call : AgentOK(c)' /\ RunOK(c)'
      BY <2>1 DEF JobsInv, AgentOK, RunOK, InPod, IsSBA, Running, PodName
    <2>4. RacedOK' /\ WorkspaceOK'
      BY <2>1 DEF JobsInv, RacedOK, WorkspaceOK, Active, WorkspaceDir
    <2>5. PodOK'
      BY <2>1 DEF JobsInv, PodOK, InPod, PodName
    <2> QED  BY <2>1, <2>2, <2>3, <2>4, <2>5 DEF JobsInv
  <1>2. ASSUME NEW c \in Call, Executor(c) \/ Expire(c) \/ Disconnect(c) \/ Container(c)
        PROVE  JobsInv'
    BY <1>2, RunStep, EndStep, PrepareStep, CreateStep, RemoveStep, ProxyStep, LaunchStep,
       LaunchFailsStep, ReportStep, KilledStep, RespondStep, ContextStep, ContainerStep
       DEF Executor
  <1> QED  BY <1>1, <1>2 DEF Next

(***************************************************************************)
(* JobsInv, which includes the type invariant, holds of every state the    *)
(* worker's job endpoint can reach.                                        *)
(***************************************************************************)
THEOREM JobsInvariant == Spec => []JobsInv
  <1>1. Init => JobsInv
    BY InitJobs
  <1>2. JobsInv /\ [Next]_vars => JobsInv'
    BY NextKeepsJobs
  <1> QED  BY <1>1, <1>2, PTL DEF Spec

-----------------------------------------------------------------------------
(* The properties *)

(***************************************************************************)
(* A job that handleRunJob reports completed was completed by the          *)
(* container of this very call: by the verdict of its own agent, without a *)
(* failed step and with all steps done, or by the exit code of its own     *)
(* command, however many calls for the same job overlap.                   *)
(***************************************************************************)
THEOREM CompletedRuns == Spec => []CompletedMeansDone
  <1>1. JobsInv => CompletedMeansDone
    BY DEF JobsInv, CompletedMeansDone, RunOK, AgentOK
  <1> QED  BY <1>1, JobsInvariant, PTL

(***************************************************************************)
(* Whatever directories prepareWorkspace makes of the job ids, one for     *)
(* two ids and the root of all included: a run whose directory no          *)
(* overlapping call has, contains or is in finds no file of any other run  *)
(* in it and keeps it until its container has ended.                       *)
(***************************************************************************)
THEOREM RunsKeptApart == Spec => []RunsAreKeptApart
  <1>1. JobsInv => RunsAreKeptApart
    BY DEF JobsInv, RunsAreKeptApart
  <1> QED  BY <1>1, JobsInvariant, PTL

(***************************************************************************)
(* The deferred clean-ups of RunJob and handleRunJob leave no workspace    *)
(* without a call in progress, no pod but those whose creation was         *)
(* reported as an error, and no container in a pod after the answer.       *)
(***************************************************************************)
THEOREM CleanUp == Spec => []NothingLeftBehind
  <1>1. ASSUME JobsInv PROVE NothingLeftBehind
    <2>1. /\ TypeOK /\ (\A c \in Call : RunOK(c)) /\ PodOK /\ WorkspaceOK
      BY <1>1 DEF JobsInv
    <2>2. \A n \in Name : pod[n] # NoCall => Active(pod[n]) \/ call[pod[n]].refused
      BY <2>1 DEF PodOK, Active, Busy
    <2>3. \A c \in Call :
             InPod(c) /\ call[c].pc \in {"respond", "workspaceCleanup", "ended"} => ~Running(c)
      BY <2>1 DEF RunOK, Over
    <2> QED  BY <2>1, <2>2, <2>3 DEF NothingLeftBehind, WorkspaceOK
  <1> QED  BY <1>1, JobsInvariant, PTL
=============================================================================
