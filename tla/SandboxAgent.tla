---------------------------- MODULE SandboxAgent ----------------------------
(***************************************************************************)
(* What runs inside the sandbox containers of a worker node: a plain       *)
(* command, or the cynode-sba agent with its three ways of working (the    *)
(* steps of the job one by one, the tool-using agent loop, and a single    *)
(* generation for small models).  The agent hands its verdict over in      *)
(* result.json of a job directory that the node made for the run.          *)
(***************************************************************************)
EXTENDS Integers

CONSTANTS
    Call,   \* runs; each has a container of its own
    Steps   \* steps of a job that lists steps

ASSUME StepsAssumption == Steps \in Nat

VARIABLES
    agent,  \* the process in each run's container
    file    \* result.json in each run's job directory

agentVars == <<agent, file>>

-----------------------------------------------------------------------------
Mode == {"command", "direct_steps", "agent_loop", "generation"}

Verdict == {"success", "failure", "timeout"}

\* What the steps of a job may report; only a command is stopped by the
\* agent's own deadline.
CommandStatus == {"success", "failure", "timeout"}
FileStatus == {"success", "failure"}
SearchStatus == {"success", "failure"}

\* What the same steps answer as tools of the agent loop: an error is text for
\* the model, and output over the limit ends the loop.
ToolOutcome == {"ok", "error", "constraint"}

\* mcp_call: a gateway that refuses is text like any other, as is the name of an
\* unknown tool; a call that cannot be made, or a network that is denied, ends
\* the loop.
McpOutcome == {"ok", "abort"}

AgentState == [pc : {"off", "start"} \cup Mode \cup {"write", "exited"},
               mode : Mode,
               done : 0 .. Steps,   \* steps that succeeded
               failed : BOOLEAN,    \* is a failed step on record?
               result : Verdict \cup {"none"},
               code : {"none", "zero", "one", "killed"}]

\* "blank" stands for what is not a result: the line the node pre-creates the
\* file with, and a result whose writer was killed half way.
ResultFile == {"none", "blank"} \cup Verdict

Off == [pc |-> "off", mode |-> "command", done |-> 0, failed |-> FALSE,
        result |-> "none", code |-> "none"]

AgentTypeOK ==
    /\ agent \in [Call -> AgentState]
    /\ file \in [Call -> ResultFile]

AgentInit ==
    /\ agent = [c \in Call |-> Off]
    /\ file = [c \in Call |-> "none"]

Running(c) == agent[c].pc \notin {"off", "exited"}

\* The verdict is reported (NotifyCompletion, best effort) before it is written.
Conclude(c, verdict) == agent' = [agent EXCEPT ![c].result = verdict, ![c].pc = "write"]

-----------------------------------------------------------------------------
\* A command other than the agent ends with or without success.
Command(c) ==
    /\ agent[c].pc = "command"
    /\ \E code \in {"zero", "one"} :
          agent' = [agent EXCEPT ![c].pc = "exited", ![c].code = code]
    /\ UNCHANGED file

\* main: the job is read and validated, and in_progress is reported.  A job
\* that cannot be read is a failure nobody is notified of.
Start(c) ==
    /\ agent[c].pc = "start"
    /\ \/ agent' = [agent EXCEPT ![c].pc = agent[c].mode]
       \/ agent' = [agent EXCEPT ![c].result = "failure", ![c].pc = "write"]
    /\ UNCHANGED file

-----------------------------------------------------------------------------
(* RunStepsDirect *)

\* A step that does not succeed fails the job, also when the deadline killed
\* it; one that succeeds after the deadline makes it a timeout.
DirectStep(c) ==
    /\ agent[c].pc = "direct_steps"
    /\ agent[c].done < Steps
    /\ \E status \in CommandStatus \cup FileStatus \cup SearchStatus :
          IF status # "success"
          THEN agent' = [agent EXCEPT ![c].failed = TRUE, ![c].result = "failure",
                                      ![c].pc = "write"]
          ELSE \/ agent' = [agent EXCEPT ![c].done = @ + 1]
               \/ agent' = [agent EXCEPT ![c].done = @ + 1, ![c].result = "timeout",
                                         ![c].pc = "write"]
    /\ UNCHANGED file

DirectEnd(c) ==
    /\ agent[c].pc = "direct_steps"
    /\ agent[c].done = Steps
    /\ Conclude(c, "success")
    /\ UNCHANGED file

-----------------------------------------------------------------------------
(* RunAgent *)

\* The model asks for a tool, at most 50 times.
ToolCall(c) ==
    /\ agent[c].pc = "agent_loop"
    /\ \E o \in ToolOutcome \cup McpOutcome :
          IF o \in {"constraint", "abort"} THEN Conclude(c, "failure")
          ELSE agent' = [agent EXCEPT ![c].failed = @ \/ o = "error"]
    /\ UNCHANGED file

\* setResultFromExecErr: the deadline, a network that is denied, too many
\* iterations, or a model that does not answer.
LoopError(c) ==
    /\ agent[c].pc = "agent_loop"
    /\ \E v \in {"timeout", "failure"} : Conclude(c, v)
    /\ UNCHANGED file

\* Output that cannot be parsed is taken for the answer; the steps are lost.
Salvage(c) ==
    /\ agent[c].pc = "agent_loop"
    /\ agent' = [agent EXCEPT ![c].failed = FALSE, ![c].result = "success",
                              ![c].pc = "write"]
    /\ UNCHANGED file

\* processStepsToResult: one failed step makes the job fail.
FinalAnswer(c) ==
    /\ agent[c].pc = "agent_loop"
    /\ Conclude(c, IF agent[c].failed THEN "failure" ELSE "success")
    /\ UNCHANGED file

\* runDirectGeneration: every error is a failure, the deadline's too.
Generate(c) ==
    /\ agent[c].pc = "generation"
    /\ \E v \in {"success", "failure"} : Conclude(c, v)
    /\ UNCHANGED file

-----------------------------------------------------------------------------
\* writeResultTo, and the exit code of main.  The directory may be gone.
WriteResult(c) ==
    /\ agent[c].pc = "write"
    /\ \E ok \in BOOLEAN :
          /\ file' = [file EXCEPT ![c] = IF ok /\ @ # "none" THEN agent[c].result ELSE @]
          /\ agent' = [agent EXCEPT
                ![c].pc = "exited",
                ![c].code = IF ok /\ file[c] # "none" /\ agent[c].result = "success"
                            THEN "zero" ELSE "one"]

-----------------------------------------------------------------------------
AgentStep(c) ==
    \/ Command(c) \/ Start(c)
    \/ DirectStep(c) \/ DirectEnd(c)
    \/ ToolCall(c) \/ LoopError(c) \/ Salvage(c) \/ FinalAnswer(c)
    \/ Generate(c) \/ WriteResult(c)

\* The containers in C are killed.
KillAgents(C) ==
    agent' = [c \in Call |-> IF c \in C /\ Running(c)
                             THEN [agent[c] EXCEPT !.pc = "exited", !.code = "killed"]
                             ELSE agent[c]]

-----------------------------------------------------------------------------
\* What holds of a container at every time: success is concluded without a failed
\* step on record and with all steps done, nothing changes a verdict, and only
\* what was concluded gets into the file.
AgentOK(c) ==
    /\ file[c] = "success" => agent[c].result = "success"
    /\ agent[c].result = "success" =>
          /\ agent[c].pc \in {"write", "exited"}
          /\ ~agent[c].failed
          /\ agent[c].mode = "direct_steps" => agent[c].done = Steps
    /\ agent[c].code # "none" => agent[c].pc = "exited"
    /\ agent[c].pc \in Mode => agent[c].pc = agent[c].mode
    /\ agent[c].pc \in {"start", "direct_steps", "generation"} => ~agent[c].failed
=============================================================================
