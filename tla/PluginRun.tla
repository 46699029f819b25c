------------------------------ MODULE PluginRun ------------------------------
(***************************************************************************)
(* A plugin function in a subprocess: PluginRunner.run_plugin              *)
(* (app/plugins/registry.py) in the parent, app/plugins/plugin_runtime.py  *)
(* in the child, over the pipe protocol of app/plugins/plugin_protocol.py. *)
(*                                                                         *)
(* Popen runs in an executor, but communicate() runs on the event loop:    *)
(* while one call talks to its child, no other task of the process moves.  *)
(***************************************************************************)
CONSTANTS
    Calls,   \* tasks that may call a plugin, one call at a time
    NoCall   \* the event loop is free

VARIABLES
    run,     \* where each call is in run_plugin
    child,   \* its subprocess
    result,  \* PluginRunResult of its last call
    loop     \* the call that blocks the event loop

vars == <<run, child, result, loop>>

\* "spawning": Popen is at work in the executor.  "spawned": it is done and the
\* coroutine is ready to go on.  "talking": in communicate().
RunState == {"idle", "spawning", "spawned", "talking"}

\* "waiting": for its request on stdin.  "returned", "raised": exited 0, with a
\* response that says so.  "silent": exited 0 without one that can be parsed.
\* "failed": exited with another code.  "abandoned": waiting for a request that will
\* not come.
ChildState == {"none", "waiting", "working", "returned", "raised", "silent", "failed", "abandoned"}
Alive == {"waiting", "working"}

Result == {"none", "ok", "error", "ProtocolError", "SubprocessError", "TimeoutError", "LaunchError"}

LoopFree == loop = NoCall

Init ==
    /\ run = [c \in Calls |-> "idle"]
    /\ child = [c \in Calls |-> "none"]
    /\ result = [c \in Calls |-> "none"]
    /\ loop = NoCall

----------------------------------------------------------------------------
(* The parent *)

Invoke(c) ==
    /\ LoopFree /\ run[c] = "idle" /\ child[c] = "none"
    /\ run' = [run EXCEPT ![c] = "spawning"]
    /\ UNCHANGED <<child, result, loop>>

\* In the executor, beside the event loop.
Spawn(c) ==
    /\ run[c] = "spawning"
    /\ child' = [child EXCEPT ![c] = "waiting"]
    /\ run' = [run EXCEPT ![c] = "spawned"]
    /\ UNCHANGED <<result, loop>>

SpawnFails(c) ==
    /\ LoopFree /\ run[c] = "spawning"
    /\ run' = [run EXCEPT ![c] = "idle"]
    /\ result' = [result EXCEPT ![c] = "LaunchError"]
    /\ UNCHANGED <<child, loop>>

\* communicate(): the request is written, and the loop waits for the child.
Talk(c) ==
    /\ LoopFree /\ run[c] = "spawned"
    /\ run' = [run EXCEPT ![c] = "talking"]
    /\ child' = [child EXCEPT ![c] = "working"]
    /\ loop' = c
    /\ UNCHANGED result

Return(c, r) ==
    /\ run' = [run EXCEPT ![c] = "idle"]
    /\ result' = [result EXCEPT ![c] = r]
    /\ loop' = NoCall

\* returncode first, then the response.
Outcome(s) ==
    CASE s = "returned" -> "ok"
      [] s = "raised"   -> "error"
      [] s = "silent"   -> "ProtocolError"
      [] s = "failed"   -> "SubprocessError"

Finish(c) ==
    /\ run[c] = "talking" /\ child[c] \notin Alive
    /\ Return(c, Outcome(child[c]))
    /\ child' = [child EXCEPT ![c] = "none"]

\* Mutant: the timeout returns without killing the child.
ExpireSpares(c) ==
    /\ run[c] = "talking"
    /\ Return(c, "TimeoutError")
    /\ UNCHANGED child

\* Mutant: communicate() is given no timeout.
ExpireNever(c) ==
    /\ run[c] = "talking" /\ child[c] \notin Alive
    /\ Return(c, "TimeoutError")
    /\ child' = [child EXCEPT ![c] = "none"]

\* TimeoutExpired: the child is killed, and what it wrote is dropped.
Expire(c) ==
    /\ run[c] = "talking"
    /\ Return(c, "TimeoutError")
    /\ child' = [child EXCEPT ![c] = "none"]

\* The task is cancelled at its only await.  A child that has been or is yet to be
\* started is given no request: its Popen is dropped, but as it has not exited Python
\* keeps it (subprocess._active), and the end of its stdin with it.
Cancel(c) ==
    /\ LoopFree /\ run[c] \in {"spawning", "spawned"}
    /\ run' = [run EXCEPT ![c] = "idle"]
    /\ \/ child' = [child EXCEPT ![c] = "abandoned"]
       \/ run[c] = "spawning" /\ UNCHANGED child
    /\ UNCHANGED <<result, loop>>

----------------------------------------------------------------------------
(* The child *)

\* The plugin ends: its function returns or raises an Exception, it calls
\* sys.exit() or spoils stdout, or the interpreter dies.
Work(c) ==
    /\ child[c] = "working"
    /\ \E s \in {"returned", "raised", "silent", "failed"} : child' = [child EXCEPT ![c] = s]
    /\ UNCHANGED <<run, result, loop>>

\* What goes on beside the event loop.
Outside(c) == Spawn(c) \/ Work(c)

\* The steps of run_plugin after its start.
Resume(c) == SpawnFails(c) \/ Talk(c) \/ Finish(c) \/ Expire(c)

\* Timers fire, and the loop runs what is ready when it is free.  Whether the plugin
\* ever ends is not assumed.
Fairness ==
    \A c \in Calls : WF_vars(Spawn(c)) /\ WF_vars(Expire(c)) /\ WF_vars(Talk(c))

=============================================================================
