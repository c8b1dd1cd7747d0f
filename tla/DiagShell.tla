----------------------------- MODULE DiagShell -----------------------------
(***************************************************************************)
(* The diag shell daemon (base-nas-shell.py).  Its main thread registers   *)
(* with CPS and waits for SIGTERM; RPCs run on a thread of CPS and talk to *)
(* the NPU shell over a socket, with timeouts and retries.                 *)
(*                                                                         *)
(* External: the interpreter, which notes a signal at once (tripped) and   *)
(* runs sigterm_hdlr on the main thread before its next bytecode; systemd, *)
(* which sends one SIGTERM; the NPU shell.                                 *)
(*                                                                         *)
(* Abstractions: a read from the socket takes all that is there, with a    *)
(* prompt in it or without; a timeout expires when nothing is there.       *)
(***************************************************************************)
EXTENDS Naturals

CONSTANT MaxChunks        \* bound on what the NPU shell says

ASSUME ShellAssumption == MaxChunks \in Nat

VARIABLES stage,          \* the main thread's place
          shutdown,       \* set by sigterm_hdlr
          tripped,        \* a signal is noted and not handled
          term,           \* history: SIGTERM was sent
          rpc,            \* the RPC's place
          retry,
          prompt,         \* "empty", "text" or "prompt" (ends in ">")
          unread,         \* kinds of text in the socket
          closed,         \* by the NPU shell
          said            \* chunks it has sent

mainVars  == <<stage, shutdown, tripped, term>>
rpcVars   == <<rpc, retry, prompt, unread, closed, said>>
shellVars == <<mainVars, rpcVars>>

ShellInit ==
  /\ stage = "start" /\ shutdown = FALSE /\ tripped = FALSE /\ term = FALSE
  /\ rpc = "idle" /\ retry = 0 /\ prompt = "empty"
  /\ unread = {} /\ closed = FALSE /\ said = 0

-----------------------------------------------------------------------------
(* The main thread *)

\* the next bytecode, which comes after the handler of a noted signal
Goes(from, to) == stage = from /\ ~tripped /\ stage' = to

Quiet == UNCHANGED <<shutdown, tripped, term, rpcVars>>

Startup ==
  \/ Goes("start", "installed") /\ Quiet          \* signal.signal
  \/ Goes("installed", "registered") /\ Quiet     \* cps.obj_register
  \/ Goes("registered", "test") /\ Quiet          \* READY=1

\* while False == shutdown
TestShutdown == Goes("test", IF shutdown THEN "stopping" ELSE "entering") /\ Quiet

\* signal.pause(): no bytecode lies between the call and the wait
Pause == stage = "entering" /\ stage' = "paused" /\ Quiet

\* STOPPING=1 and the end of the process, with the RPC that may be going on
Exit ==
  /\ Goes("stopping", "exited")
  /\ rpc' = "idle" /\ unread' = {}
  /\ UNCHANGED <<shutdown, tripped, term, retry, prompt, closed, said>>

SigtermHdlr ==
  /\ tripped /\ stage \notin {"paused", "exited"}
  /\ tripped' = FALSE /\ shutdown' = TRUE
  /\ UNCHANGED <<stage, term, rpcVars>>

\* without a handler the process ends; a wait in progress ends with it
Sigterm ==
  /\ ~term /\ stage # "exited"
  /\ term' = TRUE
  /\ tripped' = (stage # "start")
  /\ stage' = CASE stage = "start" -> "exited"
                [] stage = "paused" -> "test"
                [] OTHER -> stage
  /\ UNCHANGED <<shutdown, rpcVars>>

MainStep == Startup \/ TestShutdown \/ Pause \/ Exit \/ SigtermHdlr

-----------------------------------------------------------------------------
(* trans_cb and run_shell_cmd *)

\* connect and send a newline, or fail there: an empty result
TransCb ==
  /\ rpc = "idle" /\ stage \notin {"start", "installed", "exited"}
  /\ \/ /\ rpc' = "flush"
        /\ retry' = 5 /\ prompt' = "empty" /\ unread' = {} /\ closed' = FALSE
     \/ UNCHANGED <<rpc, retry, prompt, unread, closed>>
  /\ UNCHANGED <<said, mainVars>>

\* select returns readable; a closed socket is readable for ever
Read == unread # {} /\ unread' = {}

TimesOut == unread = {} /\ ~closed /\ UNCHANGED unread

\* _flush before each request for a prompt, and before the command
Flush ==
  /\ rpc \in {"flush", "flush_command"}
  /\ \/ Read /\ UNCHANGED rpc
     \/ TimesOut /\ rpc' = IF rpc = "flush" THEN "prompt" ELSE "answer"
  /\ UNCHANGED <<retry, prompt, closed, said, mainVars>>

\* mutant: the attempts are not counted
RetriesLeftSame == retry

RetriesLeft == retry - 1

\* _get_data(sock, 1, ">"): ends with the prompt or after a second of silence
GetPrompt ==
  /\ rpc = "prompt"
  /\ \/ /\ Read
        /\ prompt' = IF "prompt" \in unread THEN "prompt" ELSE "text"
     \/ TimesOut /\ UNCHANGED prompt
  /\ \/ /\ prompt' = "prompt" \/ unread = {}
        /\ retry' = RetriesLeft
        /\ rpc' = IF prompt' = "empty" /\ retry' > 0 THEN "flush" ELSE "flush_command"
     \/ /\ prompt' # "prompt" /\ unread # {}
        /\ UNCHANGED <<rpc, retry>>
  /\ UNCHANGED <<closed, said, mainVars>>

\* _get_data(sock, 10, prompt): every text contains an empty prompt, and a
\* prompt that holds other text may not be recognised
GetAnswer ==
  /\ rpc = "answer"
  /\ \/ Read /\ (prompt = "empty" \/ "prompt" \in unread) /\ rpc' = "idle"
     \/ Read /\ prompt # "empty" /\ UNCHANGED rpc
     \/ TimesOut /\ rpc' = "idle"
     \/ closed /\ unread = {} /\ prompt = "empty" /\ rpc' = "idle" /\ UNCHANGED unread
  /\ UNCHANGED <<retry, prompt, closed, said, mainVars>>

RpcStep == Flush \/ GetPrompt \/ GetAnswer

\* at any time, asked or not, early or late
ShellSays(kind) ==
  /\ rpc # "idle" /\ ~closed /\ said < MaxChunks
  /\ unread' = unread \cup {kind} /\ said' = said + 1
  /\ UNCHANGED <<rpc, retry, prompt, closed, mainVars>>

ShellCloses ==
  /\ rpc # "idle" /\ ~closed
  /\ closed' = TRUE
  /\ UNCHANGED <<rpc, retry, prompt, unread, said, mainVars>>

ShellNext ==
  \/ MainStep \/ Sigterm
  \/ TransCb \/ RpcStep \/ ShellCloses
  \/ \E kind \in {"prompt", "text"} : ShellSays(kind)

ShellSpec ==
  ShellInit /\ [][ShellNext]_shellVars /\ WF_shellVars(MainStep) /\ WF_shellVars(RpcStep)

-----------------------------------------------------------------------------
(* Properties *)

\* Every RPC gets its answer, although the shell may be silent, late or
\* without a prompt: run_shell_cmd runs out of attempts and timeouts.  Only
\* a shell that closes the connection keeps it, in a loop of empty reads.
RpcReturns == rpc # "idle" ~> rpc = "idle" \/ closed

\* "wait until a signal is received": after SIGTERM the daemon ends, wherever
\* its main thread was when the signal came.
TermStops == term ~> stage = "exited"

=============================================================================
