------------------------------ MODULE CachePipe ------------------------------
(***************************************************************************)
(* The named pipe between the shell extension and the status cache:        *)
(* CRemoteCacheLink (TortoiseShell/RemoteCacheLink.cpp), whose one link is *)
(* shared by the threads of the Explorer, and PipeThread, InstanceThread,  *)
(* WinMain and WndProc of TSVNCache/TSVNCache.cpp.  The server creates one *)
(* pipe instance per connection and a thread for each; it may die, hang in *)
(* an answer, fail to create a thread and be closed, for which it waits    *)
(* until the answers are given.  The shell starts the server when there is *)
(* none, and gives up a request after ten seconds.                         *)
(*                                                                         *)
(* A request and its answer are the number of the request.  What is        *)
(* answered is the subject of CachedDirectory.                             *)
(***************************************************************************)
EXTENDS Naturals, FiniteSets

CONSTANTS Threads,    \* threads of the Explorer
          Pipes,      \* pipe instances, used again when both ends are closed
          None,
          MaxCalls,   \* bound on the requests
          MaxFaults   \* bound on deaths of the server and failing calls

ASSUME PipesAssumption == IsFiniteSet(Pipes) /\ None \notin Threads \union Pipes
ASSUME BoundsAssumption == MaxCalls \in Nat /\ MaxFaults \in Nat

VARIABLES
    proc,       \* the server: "down", "starting", "up", "stopping" or "closing"
    listener,   \* PipeThread: "create", "listen" or "dead"
    closeMsg,   \* WM_CLOSE is in the message queue
    pipe,       \* the pipe instances
    m_hPipe, m_critSec,      \* the link
    lastTimeout,             \* m_lastTimeout lies in the future
    pc, request, answer,     \* the threads of the Explorer
    calls, faults

serverVars == <<proc, listener, closeMsg>>
linkVars == <<m_hPipe, lastTimeout>>
threadVars == <<m_critSec, pc, request, answer>>
bounds == <<calls, faults>>
vars == <<serverVars, pipe, linkVars, threadVars, bounds>>

\* client: the client end; server: the server end, and where its thread is;
\* sent and reply: the messages in the pipe; asked: the request being answered.
\* A thread at "locked" holds the guard of the cache for reading.
NewPipe == [client |-> "none", server |-> "none", sent |-> 0, reply |-> 0, asked |-> 0]
Serving == {"loop", "read", "answer", "locked", "write", "flush"}
bRun == proc = "up"

Init ==
    /\ proc = "down" /\ listener = "dead" /\ closeMsg = FALSE
    /\ pipe = [p \in Pipes |-> NewPipe]
    /\ m_hPipe = None /\ m_critSec = None /\ lastTimeout = FALSE
    /\ pc = [t \in Threads |-> "idle"]
    /\ request = [t \in Threads |-> 0] /\ answer = [t \in Threads |-> 0]
    /\ calls = 0 /\ faults = 0

\* An end is closed; the instance is gone when both are.
Close(p, end) ==
    LET q == [pipe[p] EXCEPT ![end] = "closed"]
    IN  IF q.client \in {"none", "closed"} /\ q.server = "closed" THEN NewPipe
        ELSE IF end = "client" THEN [q EXCEPT !.reply = 0] ELSE [q EXCEPT !.sent = 0]

Broken(p) == pipe[p].server = "closed"

Fault == faults < MaxFaults /\ faults' = faults + 1 /\ UNCHANGED calls

-----------------------------------------------------------------------------
(* The server.                                                             *)

\* WinMain: the cache is loaded, the window and the threads are created.
Started ==
    /\ proc = "starting"
    /\ proc' = "up" /\ listener' = "create" /\ closeMsg' = FALSE
    /\ UNCHANGED <<pipe, linkVars, threadVars, bounds>>

CreateNamedPipe ==
    /\ listener = "create" /\ bRun
    /\ \E p \in Pipes :
          /\ pipe[p] = NewPipe
          /\ pipe' = [pipe EXCEPT ![p].server = "listening"]
    /\ listener' = "listen"
    /\ UNCHANGED <<proc, closeMsg, linkVars, threadVars, bounds>>

\* Mutant: the server goes on without its pipe thread.
AcceptOnly(p) ==
    /\ listener = "listen" /\ pipe[p].server = "listening" /\ pipe[p].client # "none"
    /\ \/ /\ bRun
          /\ pipe' = [pipe EXCEPT ![p].server = "loop"]
          /\ listener' = "create"
          /\ UNCHANGED bounds
       \/ /\ bRun /\ Fault
          /\ pipe' = [pipe EXCEPT ![p] = Close(p, "server")]
          /\ listener' = "dead"
    /\ UNCHANGED <<proc, closeMsg, linkVars, threadVars>>

\* ConnectNamedPipe returns: a thread takes the pipe over.  When none can be
\* created, the pipe thread ends and asks the server to close; when the client
\* has left already, the next pipe is created.
Accept(p) ==
    /\ listener = "listen" /\ pipe[p].server = "listening" /\ pipe[p].client # "none"
    /\ \/ /\ bRun
          /\ pipe' = [pipe EXCEPT ![p].server = "loop"]
          /\ listener' = "create"
          /\ UNCHANGED <<closeMsg, bounds>>
       \/ /\ bRun /\ Fault
          /\ pipe' = [pipe EXCEPT ![p] = Close(p, "server")]
          /\ closeMsg' = TRUE
          /\ listener' = "dead"
       \/ /\ ~bRun
          /\ pipe' = [pipe EXCEPT ![p] = Close(p, "server")]
          /\ listener' = "dead"
          /\ UNCHANGED <<closeMsg, bounds>>
       \/ /\ bRun /\ pipe[p].client = "closed"
          /\ pipe' = [pipe EXCEPT ![p] = Close(p, "server")]
          /\ listener' = "create"
          /\ UNCHANGED <<closeMsg, bounds>>
    /\ UNCHANGED <<proc, linkVars, threadVars>>

\* The loop of PipeThread ends with bRun.
ListenerEnds ==
    /\ listener = "create" /\ proc \in {"stopping", "closing"}
    /\ listener' = "dead"
    /\ UNCHANGED <<proc, closeMsg, pipe, linkVars, threadVars, bounds>>

\* The loop of InstanceThread, which ends with bRun.
Loop(p) ==
    /\ pipe[p].server = "loop"
    /\ pipe' = [pipe EXCEPT ![p].server = IF bRun THEN "read" ELSE "flush"]
    /\ UNCHANGED <<serverVars, linkVars, threadVars, bounds>>

\* Mutant: a client that has left is not noticed.
ReadRequestBlind(p) ==
    /\ pipe[p].server = "read" /\ pipe[p].sent # 0
    /\ pipe' = [pipe EXCEPT ![p].server = "answer", ![p].asked = pipe[p].sent, ![p].sent = 0]
    /\ UNCHANGED <<serverVars, linkVars, threadVars, bounds>>

\* InstanceThread: ReadFile returns with a request, or because the client has
\* closed its end.
ReadRequest(p) ==
    /\ pipe[p].server = "read"
    /\ \/ /\ pipe[p].sent # 0
          /\ pipe' = [pipe EXCEPT ![p].server = "answer", ![p].asked = pipe[p].sent,
                                  ![p].sent = 0]
       \/ /\ pipe[p].sent = 0 /\ pipe[p].client = "closed"
          /\ pipe' = [pipe EXCEPT ![p] = Close(p, "server")]
    /\ UNCHANGED <<serverVars, linkVars, threadVars, bounds>>

\* GetAnswerToRequest: the guard is taken for reading, or the answer is empty
\* after two seconds.
AskGuard(p) ==
    /\ pipe[p].server = "answer"
    /\ \/ /\ proc \in {"up", "stopping"}
          /\ pipe' = [pipe EXCEPT ![p].server = "locked"]
       \/ pipe' = [pipe EXCEPT ![p].server = "write"]
    /\ UNCHANGED <<serverVars, linkVars, threadVars, bounds>>

GetAnswer(p) ==
    /\ pipe[p].server = "locked"
    /\ pipe' = [pipe EXCEPT ![p].server = "write"]
    /\ UNCHANGED <<serverVars, linkVars, threadVars, bounds>>

\* WriteFile; the thread ends when the client has left.
WriteReply(p) ==
    /\ pipe[p].server = "write"
    /\ pipe' = [pipe EXCEPT ![p] =
          IF pipe[p].client = "closed" THEN Close(p, "server")
          ELSE [pipe[p] EXCEPT !.server = "loop", !.reply = pipe[p].asked, !.asked = 0]]
    /\ UNCHANGED <<serverVars, linkVars, threadVars, bounds>>

\* FlushFileBuffers waits until the client has read or left.
Disconnect(p) ==
    /\ pipe[p].server = "flush" /\ pipe[p].reply = 0
    /\ pipe' = [pipe EXCEPT ![p] = Close(p, "server")]
    /\ UNCHANGED <<serverVars, linkVars, threadVars, bounds>>

\* The user closes the server or the session ends; WndProc saves the cache.
PostClose ==
    /\ proc = "up" /\ ~closeMsg /\ Fault
    /\ closeMsg' = TRUE
    /\ UNCHANGED <<proc, listener, pipe, linkVars, threadVars>>

HandleClose ==
    /\ proc = "up" /\ closeMsg
    /\ proc' = "stopping" /\ closeMsg' = FALSE
    /\ UNCHANGED <<listener, pipe, linkVars, threadVars, bounds>>

\* The guard is taken for writing, without a time limit: no answer holds it.
LockGuard ==
    /\ proc = "stopping"
    /\ \A p \in Pipes : pipe[p].server # "locked"
    /\ proc' = "closing"
    /\ UNCHANGED <<listener, closeMsg, pipe, linkVars, threadVars, bounds>>

\* The process is gone, and with it every server end.
Gone ==
    /\ proc' = "down" /\ listener' = "dead" /\ closeMsg' = FALSE
    /\ pipe' = [p \in Pipes |-> IF pipe[p] = NewPipe THEN NewPipe ELSE Close(p, "server")]

Exit ==
    /\ proc = "closing"
    /\ Gone
    /\ UNCHANGED <<linkVars, threadVars, bounds>>

Dies ==
    /\ proc # "down" /\ Fault
    /\ Gone
    /\ UNCHANGED <<linkVars, threadVars>>

-----------------------------------------------------------------------------
(* The shell.                                                              *)

Goto(t, place) == pc' = [pc EXCEPT ![t] = place]

\* The call returns false.
GiveUp(t) == Goto(t, "idle") /\ request' = [request EXCEPT ![t] = 0] /\ UNCHANGED answer

GetStatusFromRemoteCache(t) ==
    /\ pc[t] = "idle" /\ calls < MaxCalls
    /\ calls' = calls + 1
    /\ request' = [request EXCEPT ![t] = calls']
    /\ answer' = [answer EXCEPT ![t] = 0]
    /\ Goto(t, "ensure")
    /\ UNCHANGED <<serverVars, pipe, linkVars, m_critSec, faults>>

\* The instances a client can open.
Available == {p \in Pipes : pipe[p].server = "listening" /\ pipe[p].client = "none"}

\* EnsurePipeOpen, the first time and while the shell waits for the server.  A
\* pipe that cannot be set up (SetNamedPipeHandleState, CreateEvent) is closed.
EnsurePipeOpen(t) ==
    /\ pc[t] \in {"ensure", "await"} /\ m_critSec = None
    /\ \/ m_hPipe # None /\ Goto(t, "transact") /\ UNCHANGED <<pipe, m_hPipe, bounds>>
       \/ /\ m_hPipe = None
          /\ \E p \in Available : /\ pipe' = [pipe EXCEPT ![p].client = "open"]
                                  /\ m_hPipe' = p
          /\ Goto(t, "transact")
          /\ UNCHANGED bounds
       \/ /\ m_hPipe = None /\ Fault
          /\ \E p \in Available : pipe' = [pipe EXCEPT ![p].client = "closed"]
          /\ Goto(t, IF pc[t] = "ensure" THEN "start" ELSE "await")
          /\ UNCHANGED m_hPipe
       \/ /\ m_hPipe = None /\ Available = {} /\ pc[t] = "ensure"
          /\ Goto(t, "start")
          /\ UNCHANGED <<pipe, m_hPipe, bounds>>
    /\ lastTimeout' = (lastTimeout \/ (pc[t] = "await" /\ pc'[t] = "transact"))
    /\ UNCHANGED <<serverVars, m_critSec, request, answer>>

\* The server is started, unless that was tried a moment ago or cannot be done.
\* A second process ends at once.
RunTsvnCacheProcess(t) ==
    /\ pc[t] = "start"
    /\ \/ GiveUp(t) /\ UNCHANGED proc
       \/ /\ ~lastTimeout
          /\ proc' = IF proc = "down" THEN "starting" ELSE proc
          /\ Goto(t, "await")
          /\ UNCHANGED <<request, answer>>
    /\ UNCHANGED <<listener, closeMsg, pipe, linkVars, m_critSec, bounds>>

\* The server does not open its pipe within a second.
StartTimesOut(t) ==
    /\ pc[t] = "await"
    /\ lastTimeout' = TRUE
    /\ GiveUp(t)
    /\ UNCHANGED <<serverVars, pipe, m_hPipe, m_critSec, bounds>>

BackoffEnds ==
    /\ lastTimeout
    /\ lastTimeout' = FALSE
    /\ UNCHANGED <<serverVars, pipe, m_hPipe, threadVars, bounds>>

\* ClosePipe, which gives up what is in the pipe.
ClosePipe ==
    /\ m_hPipe' = None
    /\ pipe' = IF m_hPipe = None THEN pipe
               ELSE [pipe EXCEPT ![m_hPipe] = Close(m_hPipe, "client")]

\* TransactNamedPipe, with m_critSec.  It fails when another thread has closed
\* the pipe meanwhile, when the server has left, and when the pipe holds a
\* message that nobody has read.
Transact(t) ==
    /\ pc[t] = "transact" /\ m_critSec = None
    /\ IF m_hPipe = None \/ Broken(m_hPipe) \/ pipe[m_hPipe].reply # 0
       THEN ClosePipe /\ GiveUp(t) /\ UNCHANGED m_critSec
       ELSE /\ pipe' = [pipe EXCEPT ![m_hPipe].sent = request[t]]
            /\ m_critSec' = t
            /\ Goto(t, "wait")
            /\ UNCHANGED <<m_hPipe, request, answer>>
    /\ UNCHANGED <<serverVars, lastTimeout, bounds>>

\* The answer arrives, or the pipe breaks.
TransactEnds(t) ==
    /\ pc[t] = "wait"
    /\ \/ /\ pipe[m_hPipe].reply # 0
          /\ answer' = [answer EXCEPT ![t] = pipe[m_hPipe].reply]
          /\ pipe' = [pipe EXCEPT ![m_hPipe].reply = 0]
          /\ Goto(t, "idle")
          /\ UNCHANGED <<m_hPipe, request>>
       \/ /\ pipe[m_hPipe].reply = 0 /\ Broken(m_hPipe)
          /\ ClosePipe
          /\ GiveUp(t)
    /\ m_critSec' = None
    /\ UNCHANGED <<serverVars, lastTimeout, bounds>>

\* Mutant: the pipe stays open.
TransactTimesOutOnly(t) ==
    /\ pc[t] = "wait" /\ pipe[m_hPipe].reply = 0 /\ ~Broken(m_hPipe)
    /\ GiveUp(t)
    /\ m_critSec' = None
    /\ UNCHANGED <<m_hPipe, pipe, serverVars, lastTimeout, bounds>>

\* Mutant: the shell waits for as long as the server runs.
TransactTimesOutNever(t) ==
    /\ pc[t] = "wait" /\ pipe[m_hPipe].reply = 0 /\ proc = "down"
    /\ ClosePipe
    /\ GiveUp(t)
    /\ m_critSec' = None
    /\ UNCHANGED <<serverVars, lastTimeout, bounds>>

\* Ten seconds have passed.
TransactTimesOut(t) ==
    /\ pc[t] = "wait" /\ pipe[m_hPipe].reply = 0 /\ ~Broken(m_hPipe)
    /\ ClosePipe
    /\ GiveUp(t)
    /\ m_critSec' = None
    /\ UNCHANGED <<serverVars, lastTimeout, bounds>>

\* The Explorer unloads the extension (~CRemoteCacheLink) or ends, and its
\* threads with it.
ShellEnds ==
    /\ m_hPipe # None
    /\ ClosePipe
    /\ lastTimeout' = FALSE /\ m_critSec' = None
    /\ pc' = [t \in Threads |-> "idle"]
    /\ request' = [t \in Threads |-> 0] /\ answer' = [t \in Threads |-> 0]
    /\ UNCHANGED <<serverVars, bounds>>

ShellStep(t) ==
    \/ EnsurePipeOpen(t) \/ RunTsvnCacheProcess(t) \/ StartTimesOut(t)
    \/ Transact(t) \/ TransactEnds(t) \/ TransactTimesOut(t)

InstanceThread(p) ==
    \/ Loop(p) \/ ReadRequest(p) \/ AskGuard(p) \/ GetAnswer(p)
    \/ WriteReply(p) \/ Disconnect(p)

MainThread == Started \/ HandleClose \/ LockGuard \/ Exit

Next ==
    \/ MainThread \/ PostClose \/ Dies
    \/ CreateNamedPipe \/ ListenerEnds
    \/ \E p \in Pipes : Accept(p) \/ InstanceThread(p)
    \/ BackoffEnds \/ ShellEnds
    \/ \E t \in Threads : GetStatusFromRemoteCache(t) \/ ShellStep(t)

Spec == Init /\ [][Next]_vars

\* The threads of the shell go on, and so does the main thread of the server
\* once no answer holds the guard; a thread of the server that reads or writes
\* does, one that computes an answer may hang.
FairSpec ==
    /\ Spec
    /\ WF_vars(MainThread)
    /\ \A t \in Threads : WF_vars(ShellStep(t))
    /\ \A p \in Pipes :
          WF_vars(Loop(p) \/ ReadRequest(p) \/ AskGuard(p) \/ WriteReply(p) \/ Disconnect(p))

-----------------------------------------------------------------------------
\* The type invariant; a thread that waits for an answer holds the lock and
\* has a pipe to wait at.
TypeOK ==
    /\ proc \in {"down", "starting", "up", "stopping", "closing"}
    /\ listener \in {"create", "listen", "dead"}
    /\ pipe \in [Pipes -> [client : {"none", "open", "closed"},
                           server : Serving \union {"none", "listening", "closed"},
                           sent : 0 .. MaxCalls, reply : 0 .. MaxCalls, asked : 0 .. MaxCalls]]
    /\ m_hPipe \in Pipes \union {None} /\ m_critSec \in Threads \union {None}
    /\ pc \in [Threads -> {"idle", "ensure", "start", "await", "transact", "wait"}]
    /\ \A t \in Threads : pc[t] = "wait" <=> m_critSec = t
    /\ m_critSec # None => m_hPipe # None

\* The answer a thread gets is the one to its own request: a late answer to a
\* request that was given up, by this thread or by another one that shares the
\* link, is never taken for it (RemoteCacheLink.cpp:210-243).
AnswerIsMine == \A t \in Threads : answer[t] # 0 => answer[t] = request[t]

\* "We NEVER MUST BLOCK THE SHELL": every request returns, whatever the server
\* does, also while another thread waits for its own.
ShellNotBlocked == \A t \in Threads : pc[t] # "idle" ~> pc[t] = "idle"

\* Every answer ends some time.
NoAnswerHangs == \A p \in Pipes : []<>(pipe[p].server # "locked")

\* A server that has lost its pipe thread ends, and makes room for a new one
\* (TSVNCache.cpp:466-476), provided that no answer hangs: WndProc waits without
\* a time limit for the answers that hold the guard (318, 406), and behind one
\* that never ends the process stays, with its mutex and without a listener.
NoMuteServer == NoAnswerHangs => ((proc = "up" /\ listener = "dead") ~> proc = "down")

\* A thread of the server whose client has left ends, unless it hangs in an
\* answer (TSVNCache.cpp:591, 625).
ThreadsEnd ==
    \A p \in Pipes :
        (pipe[p].client = "closed" /\ pipe[p].server \in Serving)
           ~> (pipe[p].client # "closed" \/ pipe[p].server \notin Serving \ {"locked"})

=============================================================================
