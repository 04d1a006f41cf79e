----------------------------- MODULE PipeClient -----------------------------
(***************************************************************************)
(* legacies/44_mp_dup2_ls_client.c: a child that has become `ls` writes to *)
(* a pipe, and the parent sends what comes out of it to a log server.      *)
(* The pipe and the connection end when no process holds their write end.  *)
(***************************************************************************)
EXTENDS Integers

CONSTANTS MaxOutput  \* bound: pieces that ls writes

Procs == {"parent", "ls"}
Ends  == {"sock", "pipe0", "pipe1", "stdout"}

VARIABLES
    holds,    \* kernel: which ends each process has open; stdout is the pipe
    pc,       \* where each process is
    output,   \* pieces ls will write
    written,  \* pieces it has written
    passed    \* pieces the parent has written to the connection

vars == <<holds, pc, output, written, passed>>

Init ==
    /\ holds = [p \in Procs |-> IF p = "parent" THEN {"sock", "pipe0", "pipe1"} ELSE {}]
    /\ pc = [p \in Procs |-> IF p = "parent" THEN "fork" ELSE "none"]
    /\ output \in 0 .. MaxOutput
    /\ written = 0 /\ passed = 0

Fork ==
    /\ pc["parent"] = "fork"
    /\ pc' = [parent |-> "close", ls |-> "start"]
    /\ holds' = [holds EXCEPT !["ls"] = holds["parent"]]
    /\ UNCHANGED <<output, written, passed>>

(* pid is -1, and only 0 is tested: there will be nothing to pass on. *)
ForkFails ==
    /\ pc["parent"] = "fork"
    /\ pc' = [pc EXCEPT !["parent"] = "close"]
    /\ UNCHANGED <<holds, output, written, passed>>

(* close(), close(), dup2() and execl(): the pipe's write end is open twice. *)
Exec ==
    /\ pc["ls"] = "start"
    /\ holds' = [holds EXCEPT !["ls"] = (@ \ {"sock", "pipe0"}) \cup {"stdout"}]
    /\ pc' = [pc EXCEPT !["ls"] = "list"]
    /\ UNCHANGED <<output, written, passed>>

List ==
    /\ pc["ls"] = "list" /\ written < output
    /\ written' = written + 1
    /\ UNCHANGED <<holds, pc, output, passed>>

ListEnd ==
    /\ pc["ls"] = "list" /\ written = output
    /\ holds' = [holds EXCEPT !["ls"] = {}]
    /\ pc' = [pc EXCEPT !["ls"] = "done"]
    /\ UNCHANGED <<output, written, passed>>

CloseWriteEnd ==
    /\ pc["parent"] = "close"
    /\ holds' = [holds EXCEPT !["parent"] = @ \ {"pipe1"}]
    /\ pc' = [pc EXCEPT !["parent"] = "read"]
    /\ UNCHANGED <<output, written, passed>>

(* read() from the pipe and write() to the connection. *)
Pass ==
    /\ pc["parent"] = "read" /\ passed < written
    /\ passed' = passed + 1
    /\ UNCHANGED <<holds, pc, output, written>>

(* Mutant: an empty pipe is taken for its end. *)
PassEmpty ==
    /\ pc["parent"] = "read" /\ passed = written
    /\ holds' = [holds EXCEPT !["parent"] = {}]
    /\ pc' = [pc EXCEPT !["parent"] = "done"]
    /\ UNCHANGED <<output, written, passed>>

PassEnd ==
    /\ pc["parent"] = "read" /\ passed = written
    /\ \A p \in Procs : holds[p] \cap {"pipe1", "stdout"} = {}
    /\ holds' = [holds EXCEPT !["parent"] = {}]
    /\ pc' = [pc EXCEPT !["parent"] = "done"]
    /\ UNCHANGED <<output, written, passed>>

Parent == Fork \/ ForkFails \/ CloseWriteEnd \/ Pass \/ PassEnd
Ls     == Exec \/ List \/ ListEnd
Next   == Parent \/ Ls

(* Types: every variable has a value of its type. *)
TypeOK ==
    /\ holds \in [Procs -> SUBSET Ends]
    /\ pc["parent"] \in {"fork", "close", "read", "done"}
    /\ pc["ls"] \in {"none", "start", "list", "done"}
    /\ output \in 0 .. MaxOutput
    /\ written \in 0 .. output /\ passed \in 0 .. written

(* The connection has ended for the log server only when the client has passed
   on everything that ls, if there was one, had to say. *)
Complete ==
    (\A p \in Procs : "sock" \notin holds[p]) =>
        passed = (IF pc["ls"] = "none" THEN 0 ELSE output)

(* What every step keeps: ls has a write end of the pipe as long as it has
   something to say, and the parent ends after it. *)
Inductive ==
    /\ TypeOK
    /\ pc \in [Procs -> {"fork", "close", "read", "none", "start", "list", "done"}]
    /\ pc["parent"] = "fork" => "pipe1" \in holds["parent"] /\ pc["ls"] = "none"
    /\ pc["parent"] # "done" => "sock" \in holds["parent"]
    /\ pc["parent"] = "done" => passed = written /\ pc["ls"] \in {"none", "done"}
    /\ pc["ls"] = "none" => written = 0
    /\ pc["ls"] = "start" => "pipe1" \in holds["ls"]
    /\ pc["ls"] = "list" => "stdout" \in holds["ls"]
    /\ pc["ls"] = "done" => written = output

Pending == pc["parent"] # "done"
=============================================================================
