-------------------------- MODULE CachePipeProofs ---------------------------
(***************************************************************************)
(* Proofs about CachePipe: no thread of the Explorer takes an answer that  *)
(* is not its own, for any number of threads, pipe instances and requests, *)
(* and wherever the server dies, hangs or is closed.                       *)
(***************************************************************************)
EXTENDS CachePipe, TLAPS

\* The values of a pipe instance.
Instance == [client : {"none", "open", "closed"},
             server : Serving \union {"none", "listening", "closed"},
             sent : 0 .. MaxCalls, reply : 0 .. MaxCalls, asked : 0 .. MaxCalls]

\* TypeOK, and the requests are numbered up to calls.
Typed ==
    /\ TypeOK
    /\ calls \in 0 .. MaxCalls
    /\ request \in [Threads -> 0 .. calls] /\ answer \in [Threads -> 0 .. MaxCalls]

\* The link is the only client end that is open.
OneConnection == \A p \in Pipes : pipe[p].client = "open" <=> m_hPipe = p

\* Nothing is in an instance that no client has opened.
FreshIsEmpty ==
    \A p \in Pipes :
        pipe[p].client = "none" =>
           /\ pipe[p].server \in {"none", "listening"}
           /\ pipe[p].sent = 0 /\ pipe[p].asked = 0 /\ pipe[p].reply = 0

\* The messages of the link are those of the thread that holds m_critSec, and
\* there is one at most: whoever gives up closes the pipe.
LinkIsMine ==
    m_hPipe # None =>
       LET q == pipe[m_hPipe]
       IN  /\ m_critSec = None => q.sent = 0 /\ q.asked = 0 /\ q.reply = 0
           /\ m_critSec # None =>
                 /\ q.sent \in {0, request[m_critSec]}
                 /\ q.asked \in {0, request[m_critSec]}
                 /\ q.reply \in {0, request[m_critSec]}
                 /\ q.sent # 0 => q.asked = 0 /\ q.reply = 0
                 /\ q.asked # 0 => q.reply = 0

\* A thread has an answer only after its call has returned.
AnswerAtEnd == \A t \in Threads : pc[t] # "idle" => answer[t] = 0

PipeInv ==
    /\ Typed /\ OneConnection /\ FreshIsEmpty /\ LinkIsMine /\ AnswerAtEnd
    /\ AnswerIsMine

-----------------------------------------------------------------------------
\* 0 stands for no request, and is within the bound.
LEMMA Zero == 0 \in 0 .. MaxCalls
  BY BoundsAssumption

\* An instance that nobody has opened has the type of one.
LEMMA NewTyped == NewPipe \in Instance
  BY Zero DEF Instance, NewPipe, Serving

(* The server end is closed: what the client can still read stays, or the  *)
(* instance is new.                                                        *)
LEMMA CloseServer ==
    ASSUME TypeOK, NEW p \in Pipes
    PROVE  /\ pipe[p].client # "open" => Close(p, "server") = NewPipe
           /\ pipe[p].client = "open" =>
                 Close(p, "server") = [pipe[p] EXCEPT !.server = "closed", !.sent = 0]
           /\ Close(p, "server") \in Instance
<1>1. pipe[p] \in Instance /\ NewPipe \in Instance
  BY NewTyped DEF TypeOK, Instance
<1>2. pipe[p].client # "open" => Close(p, "server") = NewPipe
  BY <1>1 DEF Close, Instance
<1>3. pipe[p].client = "open" =>
         Close(p, "server") = [pipe[p] EXCEPT !.server = "closed", !.sent = 0]
  BY <1>1 DEF Close, Instance
<1>4. [pipe[p] EXCEPT !.server = "closed", !.sent = 0] \in Instance
  BY <1>1, Zero DEF Instance
<1> QED BY <1>1, <1>2, <1>3, <1>4

(* The client end is closed, and what it was sent is given up.             *)
LEMMA CloseClient ==
    ASSUME TypeOK, NEW p \in Pipes
    PROVE  /\ Close(p, "client") \in {NewPipe, [pipe[p] EXCEPT !.client = "closed", !.reply = 0]}
           /\ Close(p, "client") \in Instance
<1>1. pipe[p] \in Instance /\ NewPipe \in Instance
  BY NewTyped DEF TypeOK, Instance
<1>2. Close(p, "client") \in {NewPipe, [pipe[p] EXCEPT !.client = "closed", !.reply = 0]}
  BY <1>1 DEF Close, Instance
<1>3. [pipe[p] EXCEPT !.client = "closed", !.reply = 0] \in Instance
  BY <1>1, Zero DEF Instance
<1> QED BY <1>1, <1>2, <1>3

(* Every step leaves an instance an instance.                              *)
LEMMA InstanceTyped ==
    ASSUME Typed, [Next]_vars
    PROVE  pipe' \in [Pipes -> Instance]
<1>0. TypeOK /\ pipe \in [Pipes -> Instance]
  BY DEF Typed, TypeOK, Instance
<1> USE <1>0 DEF serverVars, linkVars, threadVars, bounds
<1>1. CASE Started
  BY <1>1 DEF Started
<1>2. CASE CreateNamedPipe
  <2>1. \A p \in Pipes : [pipe[p] EXCEPT !.server = "listening"] \in Instance
    BY DEF Instance, Serving
  <2> QED BY <1>2, <2>1 DEF CreateNamedPipe
<1>3. ASSUME NEW p \in Pipes, Accept(p) PROVE pipe' \in [Pipes -> Instance]
  <2>1. [pipe[p] EXCEPT !.server = "loop"] \in Instance
    BY DEF Instance, Serving
  <2> QED BY <1>3, <2>1, CloseServer DEF Accept
<1>4. CASE ListenerEnds
  BY <1>4 DEF ListenerEnds
<1>5. ASSUME NEW p \in Pipes, Loop(p) PROVE pipe' \in [Pipes -> Instance]
  <2>1. \A e \in {"read", "flush"} : [pipe[p] EXCEPT !.server = e] \in Instance
    BY DEF Instance, Serving
  <2> QED BY <1>5, <2>1 DEF Loop
<1>6. ASSUME NEW p \in Pipes, ReadRequest(p) PROVE pipe' \in [Pipes -> Instance]
  <2>1. [pipe[p] EXCEPT !.server = "answer", !.asked = pipe[p].sent, !.sent = 0] \in Instance
    BY Zero DEF Instance, Serving
  <2> QED BY <1>6, <2>1, CloseServer DEF ReadRequest
<1>7. ASSUME NEW p \in Pipes, GetAnswer(p) PROVE pipe' \in [Pipes -> Instance]
  <2>1. [pipe[p] EXCEPT !.server = "write"] \in Instance
    BY DEF Instance, Serving
  <2> QED BY <1>7, <2>1 DEF GetAnswer
<1>24. ASSUME NEW p \in Pipes, AskGuard(p) PROVE pipe' \in [Pipes -> Instance]
  <2>1. \A e \in {"locked", "write"} : [pipe[p] EXCEPT !.server = e] \in Instance
    BY DEF Instance, Serving
  <2> QED BY <1>24, <2>1 DEF AskGuard
<1>8. ASSUME NEW p \in Pipes, WriteReply(p) PROVE pipe' \in [Pipes -> Instance]
  <2>1. [pipe[p] EXCEPT !.server = "loop", !.reply = pipe[p].asked, !.asked = 0] \in Instance
    BY Zero DEF Instance, Serving
  <2> QED BY <1>8, <2>1, CloseServer DEF WriteReply
<1>9. ASSUME NEW p \in Pipes, Disconnect(p) PROVE pipe' \in [Pipes -> Instance]
  BY <1>9, CloseServer DEF Disconnect
<1>10. CASE PostClose
  BY <1>10 DEF PostClose, Fault
<1>25. CASE LockGuard
  BY <1>25 DEF LockGuard
<1>11. CASE HandleClose
  BY <1>11 DEF HandleClose
<1>12. CASE Exit
  BY <1>12, CloseServer, NewTyped DEF Exit, Gone
<1>13. CASE Dies
  BY <1>13, CloseServer, NewTyped DEF Dies, Gone
<1>14. ASSUME NEW t \in Threads, GetStatusFromRemoteCache(t) PROVE pipe' \in [Pipes -> Instance]
  BY <1>14 DEF GetStatusFromRemoteCache
<1>15. ASSUME NEW t \in Threads, EnsurePipeOpen(t) PROVE pipe' \in [Pipes -> Instance]
  <2>1. \A p \in Pipes, e \in {"open", "closed"} : [pipe[p] EXCEPT !.client = e] \in Instance
    BY DEF Instance
  <2> QED BY <1>15, <2>1 DEF EnsurePipeOpen, Available, Fault
<1>16. ASSUME NEW t \in Threads, RunTsvnCacheProcess(t) PROVE pipe' \in [Pipes -> Instance]
  BY <1>16 DEF RunTsvnCacheProcess, GiveUp
<1>17. ASSUME NEW t \in Threads, StartTimesOut(t) PROVE pipe' \in [Pipes -> Instance]
  BY <1>17 DEF StartTimesOut, GiveUp
<1>18. CASE BackoffEnds
  BY <1>18 DEF BackoffEnds
<1>19. ASSUME NEW t \in Threads, Transact(t) PROVE pipe' \in [Pipes -> Instance]
  <2>0. request[t] \in 0 .. MaxCalls
    BY BoundsAssumption DEF Typed
  <2>1. \A p \in Pipes : [pipe[p] EXCEPT !.sent = request[t]] \in Instance
    BY <2>0 DEF Instance
  <2>2. m_hPipe # None => m_hPipe \in Pipes
    BY DEF Typed, TypeOK
  <2> QED BY <1>19, <2>1, <2>2, CloseClient DEF Transact, ClosePipe
<1>20. ASSUME NEW t \in Threads, TransactEnds(t) PROVE pipe' \in [Pipes -> Instance]
  <2>1. \A p \in Pipes : [pipe[p] EXCEPT !.reply = 0] \in Instance
    BY Zero DEF Instance
  <2>2. m_hPipe # None /\ m_hPipe \in Pipes
    BY <1>20, PipesAssumption DEF TransactEnds, TypeOK
  <2> QED BY <1>20, <2>1, <2>2, CloseClient DEF TransactEnds, ClosePipe
<1>21. ASSUME NEW t \in Threads, TransactTimesOut(t) PROVE pipe' \in [Pipes -> Instance]
  <2>1. m_hPipe # None /\ m_hPipe \in Pipes
    BY <1>21, PipesAssumption DEF TransactTimesOut, TypeOK
  <2> QED BY <1>21, <2>1, CloseClient DEF TransactTimesOut, ClosePipe
<1>22. CASE ShellEnds
  <2>1. m_hPipe # None /\ m_hPipe \in Pipes
    BY <1>22 DEF ShellEnds, TypeOK
  <2> QED BY <1>22, <2>1, CloseClient DEF ShellEnds, ClosePipe
<1>23. CASE UNCHANGED vars
  BY <1>23 DEF vars, serverVars, linkVars, threadVars, bounds
<1> QED
  BY <1>1, <1>2, <1>3, <1>4, <1>5, <1>6, <1>7, <1>8, <1>9, <1>10, <1>11, <1>12, <1>13, <1>14,
     <1>15, <1>16, <1>17, <1>18, <1>19, <1>20, <1>21, <1>22, <1>23, <1>24, <1>25
  DEF Next, MainThread, InstanceThread, ShellStep

\* The rest of Typed.
LinkTyped ==
    /\ proc \in {"down", "starting", "up", "stopping", "closing"}
    /\ listener \in {"create", "listen", "dead"}
    /\ m_hPipe \in Pipes \union {None} /\ m_critSec \in Threads \union {None}
    /\ pc \in [Threads -> {"idle", "ensure", "start", "await", "transact", "wait"}]
    /\ \A t \in Threads : pc[t] = "wait" <=> m_critSec = t
    /\ m_critSec # None => m_hPipe # None
    /\ calls \in 0 .. MaxCalls
    /\ request \in [Threads -> 0 .. calls] /\ answer \in [Threads -> 0 .. MaxCalls]

(* Requests are numbered, and a thread that waits holds the lock and has a *)
(* pipe.                                                                   *)
LEMMA TypedInductive ==
    ASSUME Typed, [Next]_vars
    PROVE  Typed'
<1>0. LinkTyped /\ pipe \in [Pipes -> Instance]
  BY DEF Typed, TypeOK, LinkTyped, Instance
<1>a. ASSUME LinkTyped' PROVE Typed'
  BY <1>a, InstanceTyped DEF Typed, TypeOK, LinkTyped, Instance
<1> USE <1>0, PipesAssumption, BoundsAssumption
    DEF LinkTyped, Goto, serverVars, linkVars, threadVars, bounds
<1>1. ASSUME Started PROVE LinkTyped'
  BY <1>1 DEF Started
<1>2. ASSUME CreateNamedPipe PROVE LinkTyped'
  BY <1>2 DEF CreateNamedPipe
<1>3. ASSUME NEW p \in Pipes, Accept(p) PROVE LinkTyped'
  BY <1>3 DEF Accept, Fault
<1>4. ASSUME ListenerEnds PROVE LinkTyped'
  BY <1>4 DEF ListenerEnds
<1>5. ASSUME NEW p \in Pipes, Loop(p) PROVE LinkTyped'
  BY <1>5 DEF Loop
<1>6. ASSUME NEW p \in Pipes, ReadRequest(p) PROVE LinkTyped'
  BY <1>6 DEF ReadRequest
<1>7. ASSUME NEW p \in Pipes, GetAnswer(p) PROVE LinkTyped'
  BY <1>7 DEF GetAnswer
<1>24. ASSUME NEW p \in Pipes, AskGuard(p) PROVE LinkTyped'
  BY <1>24 DEF AskGuard
<1>8. ASSUME NEW p \in Pipes, WriteReply(p) PROVE LinkTyped'
  BY <1>8 DEF WriteReply
<1>9. ASSUME NEW p \in Pipes, Disconnect(p) PROVE LinkTyped'
  BY <1>9 DEF Disconnect
<1>10. ASSUME PostClose PROVE LinkTyped'
  BY <1>10 DEF PostClose, Fault
<1>25. ASSUME LockGuard PROVE LinkTyped'
  BY <1>25 DEF LockGuard
<1>11. ASSUME HandleClose PROVE LinkTyped'
  BY <1>11 DEF HandleClose
<1>12. ASSUME Exit PROVE LinkTyped'
  BY <1>12 DEF Exit, Gone
<1>13. ASSUME Dies PROVE LinkTyped'
  BY <1>13 DEF Dies, Gone, Fault
<1>14. ASSUME NEW t \in Threads, GetStatusFromRemoteCache(t) PROVE LinkTyped'
  BY <1>14 DEF GetStatusFromRemoteCache
<1>15. ASSUME NEW t \in Threads, EnsurePipeOpen(t) PROVE LinkTyped'
  BY <1>15 DEF EnsurePipeOpen, Available, Fault
<1>16. ASSUME NEW t \in Threads, RunTsvnCacheProcess(t) PROVE LinkTyped'
  BY <1>16 DEF RunTsvnCacheProcess, GiveUp
<1>17. ASSUME NEW t \in Threads, StartTimesOut(t) PROVE LinkTyped'
  BY <1>17 DEF StartTimesOut, GiveUp
<1>18. ASSUME BackoffEnds PROVE LinkTyped'
  BY <1>18 DEF BackoffEnds
<1>19. ASSUME NEW t \in Threads, Transact(t) PROVE LinkTyped'
  BY <1>19 DEF Transact, ClosePipe, GiveUp, Broken
<1>20. ASSUME NEW t \in Threads, TransactEnds(t) PROVE LinkTyped'
  <2>1. pipe[m_hPipe].reply \in 0 .. MaxCalls
    BY <1>20 DEF TransactEnds, Instance
  <2> QED BY <1>20, <2>1 DEF TransactEnds, ClosePipe, GiveUp
<1>21. ASSUME NEW t \in Threads, TransactTimesOut(t) PROVE LinkTyped'
  BY <1>21 DEF TransactTimesOut, ClosePipe, GiveUp, Broken
<1>22. ASSUME ShellEnds PROVE LinkTyped'
  BY <1>22 DEF ShellEnds, ClosePipe
<1>23. ASSUME UNCHANGED vars PROVE LinkTyped'
  BY <1>23 DEF vars, serverVars, linkVars, threadVars, bounds
<1> QED
  BY <1>a, <1>1, <1>2, <1>3, <1>4, <1>5, <1>6, <1>7, <1>8, <1>9, <1>10, <1>11, <1>12, <1>13, <1>14,
     <1>15, <1>16, <1>17, <1>18, <1>19, <1>20, <1>21, <1>22, <1>23, <1>24, <1>25
  DEF Next, MainThread, InstanceThread, ShellStep

(* What closing an end leaves, field by field.                             *)
Empty(q) == q.sent = 0 /\ q.asked = 0 /\ q.reply = 0

ServerLeaves(p, q) ==
    \/ pipe[p].client # "open" /\ q.client = "none" /\ q.server = "none" /\ Empty(q)
    \/ /\ pipe[p].client = "open" /\ q.client = "open" /\ q.server = "closed"
       /\ q.sent = 0 /\ q.asked = pipe[p].asked /\ q.reply = pipe[p].reply

ClientLeaves(p, q) ==
    \/ q.client = "none" /\ q.server = "none" /\ Empty(q)
    \/ q.client = "closed"

\* An instance one side has closed is free again, or shows that side closed.
LEMMA CloseFields ==
    ASSUME TypeOK
    PROVE  /\ \A p \in Pipes : ServerLeaves(p, Close(p, "server"))
           /\ \A p \in Pipes : ClientLeaves(p, Close(p, "client"))
<1>1. ASSUME NEW p \in Pipes PROVE ServerLeaves(p, Close(p, "server"))
  <2>1. pipe[p] \in Instance
    BY DEF TypeOK, Instance
  <2>2. CASE pipe[p].client = "open"
    BY <2>1, <2>2, CloseServer DEF ServerLeaves, Instance
  <2>3. CASE pipe[p].client # "open"
    <3>1. Close(p, "server") = NewPipe
      BY <2>3, CloseServer
    <3> QED BY <2>3, <3>1 DEF ServerLeaves, NewPipe, Empty
  <2> QED BY <2>2, <2>3
<1>2. ASSUME NEW p \in Pipes PROVE ClientLeaves(p, Close(p, "client"))
  <2>1. pipe[p] \in Instance
    BY DEF TypeOK, Instance
  <2>2. CASE Close(p, "client") = NewPipe
    BY <2>2 DEF ClientLeaves, NewPipe, Empty
  <2>3. CASE Close(p, "client") = [pipe[p] EXCEPT !.client = "closed", !.reply = 0]
    BY <2>1, <2>3 DEF ClientLeaves, Instance
  <2> QED BY <2>2, <2>3, CloseClient
<1> QED BY <1>1, <1>2

\* Who waits for an answer has the link's lock and its pipe.
LEMMA WaitsAtPipe ==
    ASSUME LinkTyped, NEW t \in Threads, pc[t] = "wait"
    PROVE  m_critSec = t /\ m_hPipe # None /\ m_hPipe \in Pipes
  BY PipesAssumption DEF LinkTyped

(* Opening and closing: the link has the open end.                         *)
LEMMA OneInductive ==
    ASSUME Typed, OneConnection, [Next]_vars
    PROVE  OneConnection'
<1>0. TypeOK /\ LinkTyped /\ pipe \in [Pipes -> Instance]
  BY DEF Typed, TypeOK, LinkTyped, Instance
<1> USE <1>0, PipesAssumption
    DEF Instance, Goto, serverVars, linkVars, threadVars, bounds, OneConnection
<1>1. CASE Started
  BY <1>1 DEF Started
<1>2. CASE CreateNamedPipe
  BY <1>2 DEF CreateNamedPipe
<1>3. ASSUME NEW p \in Pipes, Accept(p) PROVE OneConnection'
  <2>1. ServerLeaves(p, Close(p, "server"))
    BY CloseFields
  <2> QED BY <1>3, <2>1 DEF Accept, Fault, ServerLeaves, Empty
<1>4. CASE ListenerEnds
  BY <1>4 DEF ListenerEnds
<1>5. ASSUME NEW p \in Pipes, Loop(p) PROVE OneConnection'
  BY <1>5 DEF Loop
<1>6. ASSUME NEW p \in Pipes, ReadRequest(p) PROVE OneConnection'
  <2>1. ServerLeaves(p, Close(p, "server"))
    BY CloseFields
  <2> QED BY <1>6, <2>1 DEF ReadRequest, ServerLeaves, Empty
<1>7. ASSUME NEW p \in Pipes, GetAnswer(p) PROVE OneConnection'
  BY <1>7 DEF GetAnswer
<1>24. ASSUME NEW p \in Pipes, AskGuard(p) PROVE OneConnection'
  BY <1>24 DEF AskGuard
<1>8. ASSUME NEW p \in Pipes, WriteReply(p) PROVE OneConnection'
  <2>1. ServerLeaves(p, Close(p, "server"))
    BY CloseFields
  <2> QED BY <1>8, <2>1 DEF WriteReply, ServerLeaves, Empty
<1>9. ASSUME NEW p \in Pipes, Disconnect(p) PROVE OneConnection'
  <2>1. ServerLeaves(p, Close(p, "server"))
    BY CloseFields
  <2> QED BY <1>9, <2>1 DEF Disconnect, ServerLeaves, Empty
<1>10. CASE PostClose
  BY <1>10 DEF PostClose, Fault
<1>25. CASE LockGuard
  BY <1>25 DEF LockGuard
<1>11. CASE HandleClose
  BY <1>11 DEF HandleClose
<1>12. CASE Exit
  <2>1. \A p \in Pipes : \/ pipe'[p] = NewPipe /\ pipe[p] = NewPipe
                         \/ ServerLeaves(p, pipe'[p])
    BY <1>12, CloseFields DEF Exit, Gone
  <2>2. UNCHANGED <<linkVars, threadVars>>
    BY <1>12 DEF Exit
  <2> QED BY <2>1, <2>2 DEF ServerLeaves, Empty, NewPipe
<1>13. CASE Dies
  <2>1. \A p \in Pipes : \/ pipe'[p] = NewPipe /\ pipe[p] = NewPipe
                         \/ ServerLeaves(p, pipe'[p])
    BY <1>13, CloseFields DEF Dies, Gone, Fault
  <2>2. UNCHANGED <<linkVars, threadVars>>
    BY <1>13 DEF Dies
  <2> QED BY <2>1, <2>2 DEF ServerLeaves, Empty, NewPipe
<1>14. ASSUME NEW t \in Threads, GetStatusFromRemoteCache(t) PROVE OneConnection'
  BY <1>14 DEF GetStatusFromRemoteCache
<1>15. ASSUME NEW t \in Threads, EnsurePipeOpen(t) PROVE OneConnection'
  BY <1>15 DEF EnsurePipeOpen, Available, Fault
<1>16. ASSUME NEW t \in Threads, RunTsvnCacheProcess(t) PROVE OneConnection'
  BY <1>16 DEF RunTsvnCacheProcess, GiveUp
<1>17. ASSUME NEW t \in Threads, StartTimesOut(t) PROVE OneConnection'
  BY <1>17 DEF StartTimesOut, GiveUp
<1>18. CASE BackoffEnds
  BY <1>18 DEF BackoffEnds
<1>19. ASSUME NEW t \in Threads, Transact(t) PROVE OneConnection'
  <2>1. m_hPipe # None => m_hPipe \in Pipes /\ ClientLeaves(m_hPipe, Close(m_hPipe, "client"))
    BY CloseFields DEF LinkTyped
  <2> QED BY <1>19, <2>1 DEF Transact, ClosePipe, GiveUp, Broken, ClientLeaves, Empty
<1>20. ASSUME NEW t \in Threads, TransactEnds(t) PROVE OneConnection'
  <2>1. m_hPipe # None /\ m_hPipe \in Pipes
    BY <1>20, WaitsAtPipe DEF TransactEnds
  <2>2. ClientLeaves(m_hPipe, Close(m_hPipe, "client"))
    BY <2>1, CloseFields
  <2> QED BY <1>20, <2>1, <2>2 DEF TransactEnds, ClosePipe, GiveUp, Broken, ClientLeaves, Empty
<1>21. ASSUME NEW t \in Threads, TransactTimesOut(t) PROVE OneConnection'
  <2>1. m_hPipe # None /\ m_hPipe \in Pipes
    BY <1>21, WaitsAtPipe DEF TransactTimesOut
  <2>2. ClientLeaves(m_hPipe, Close(m_hPipe, "client"))
    BY <2>1, CloseFields
  <2> QED BY <1>21, <2>1, <2>2 DEF TransactTimesOut, ClosePipe, GiveUp, Broken, ClientLeaves, Empty
<1>22. CASE ShellEnds
  <2>1. m_hPipe # None => m_hPipe \in Pipes /\ ClientLeaves(m_hPipe, Close(m_hPipe, "client"))
    BY CloseFields DEF LinkTyped
  <2> QED BY <1>22, <2>1 DEF ShellEnds, ClosePipe, ClientLeaves, Empty
<1>23. CASE UNCHANGED vars
  BY <1>23 DEF vars, serverVars, linkVars, threadVars, bounds
<1> QED
  BY <1>1, <1>2, <1>3, <1>4, <1>5, <1>6, <1>7, <1>8, <1>9, <1>10, <1>11, <1>12, <1>13, <1>14,
     <1>15, <1>16, <1>17, <1>18, <1>19, <1>20, <1>21, <1>22, <1>23, <1>24, <1>25
  DEF Next, MainThread, InstanceThread, ShellStep

(* An instance is served only once it has been opened.                     *)
LEMMA FreshInductive ==
    ASSUME Typed, OneConnection, FreshIsEmpty, [Next]_vars
    PROVE  FreshIsEmpty'
<1>0. TypeOK /\ LinkTyped /\ pipe \in [Pipes -> Instance]
  BY DEF Typed, TypeOK, LinkTyped, Instance
<1> USE <1>0, PipesAssumption
    DEF Instance, Goto, serverVars, linkVars, threadVars, bounds, FreshIsEmpty
<1>1. CASE Started
  BY <1>1 DEF Started
<1>2. CASE CreateNamedPipe
  BY <1>2 DEF CreateNamedPipe
<1>3. ASSUME NEW p \in Pipes, Accept(p) PROVE FreshIsEmpty'
  <2>1. ServerLeaves(p, Close(p, "server"))
    BY CloseFields
  <2> QED BY <1>3, <2>1 DEF Accept, Fault, ServerLeaves, Empty
<1>4. CASE ListenerEnds
  BY <1>4 DEF ListenerEnds
<1>5. ASSUME NEW p \in Pipes, Loop(p) PROVE FreshIsEmpty'
  BY <1>5 DEF Loop
<1>6. ASSUME NEW p \in Pipes, ReadRequest(p) PROVE FreshIsEmpty'
  <2>1. ServerLeaves(p, Close(p, "server"))
    BY CloseFields
  <2> QED BY <1>6, <2>1 DEF ReadRequest, ServerLeaves, Empty
<1>7. ASSUME NEW p \in Pipes, GetAnswer(p) PROVE FreshIsEmpty'
  BY <1>7 DEF GetAnswer
<1>24. ASSUME NEW p \in Pipes, AskGuard(p) PROVE FreshIsEmpty'
  BY <1>24 DEF AskGuard
<1>8. ASSUME NEW p \in Pipes, WriteReply(p) PROVE FreshIsEmpty'
  <2>1. ServerLeaves(p, Close(p, "server"))
    BY CloseFields
  <2> QED BY <1>8, <2>1 DEF WriteReply, ServerLeaves, Empty
<1>9. ASSUME NEW p \in Pipes, Disconnect(p) PROVE FreshIsEmpty'
  <2>1. ServerLeaves(p, Close(p, "server"))
    BY CloseFields
  <2> QED BY <1>9, <2>1 DEF Disconnect, ServerLeaves, Empty
<1>10. CASE PostClose
  BY <1>10 DEF PostClose, Fault
<1>25. CASE LockGuard
  BY <1>25 DEF LockGuard
<1>11. CASE HandleClose
  BY <1>11 DEF HandleClose
<1>12. CASE Exit
  <2>1. \A p \in Pipes : \/ pipe'[p] = NewPipe /\ pipe[p] = NewPipe
                         \/ ServerLeaves(p, pipe'[p])
    BY <1>12, CloseFields DEF Exit, Gone
  <2>2. UNCHANGED <<linkVars, threadVars>>
    BY <1>12 DEF Exit
  <2> QED BY <2>1, <2>2 DEF ServerLeaves, Empty, NewPipe
<1>13. CASE Dies
  <2>1. \A p \in Pipes : \/ pipe'[p] = NewPipe /\ pipe[p] = NewPipe
                         \/ ServerLeaves(p, pipe'[p])
    BY <1>13, CloseFields DEF Dies, Gone, Fault
  <2>2. UNCHANGED <<linkVars, threadVars>>
    BY <1>13 DEF Dies
  <2> QED BY <2>1, <2>2 DEF ServerLeaves, Empty, NewPipe
<1>14. ASSUME NEW t \in Threads, GetStatusFromRemoteCache(t) PROVE FreshIsEmpty'
  BY <1>14 DEF GetStatusFromRemoteCache
<1>15. ASSUME NEW t \in Threads, EnsurePipeOpen(t) PROVE FreshIsEmpty'
  BY <1>15 DEF EnsurePipeOpen, Available, Fault
<1>16. ASSUME NEW t \in Threads, RunTsvnCacheProcess(t) PROVE FreshIsEmpty'
  BY <1>16 DEF RunTsvnCacheProcess, GiveUp
<1>17. ASSUME NEW t \in Threads, StartTimesOut(t) PROVE FreshIsEmpty'
  BY <1>17 DEF StartTimesOut, GiveUp
<1>18. CASE BackoffEnds
  BY <1>18 DEF BackoffEnds
<1>19. ASSUME NEW t \in Threads, Transact(t) PROVE FreshIsEmpty'
  <2>1. m_hPipe # None => m_hPipe \in Pipes /\ ClientLeaves(m_hPipe, Close(m_hPipe, "client"))
    BY CloseFields DEF LinkTyped
  <2>2. m_hPipe # None => pipe[m_hPipe].client = "open"
    BY DEF LinkTyped, OneConnection
  <2> QED BY <1>19, <2>1, <2>2 DEF Transact, ClosePipe, GiveUp, Broken, ClientLeaves, Empty
<1>20. ASSUME NEW t \in Threads, TransactEnds(t) PROVE FreshIsEmpty'
  <2>1. m_hPipe # None /\ m_hPipe \in Pipes
    BY <1>20, WaitsAtPipe DEF TransactEnds
  <2>2. ClientLeaves(m_hPipe, Close(m_hPipe, "client"))
    BY <2>1, CloseFields
  <2> QED BY <1>20, <2>1, <2>2 DEF TransactEnds, ClosePipe, GiveUp, Broken, ClientLeaves, Empty
<1>21. ASSUME NEW t \in Threads, TransactTimesOut(t) PROVE FreshIsEmpty'
  <2>1. m_hPipe # None /\ m_hPipe \in Pipes
    BY <1>21, WaitsAtPipe DEF TransactTimesOut
  <2>2. ClientLeaves(m_hPipe, Close(m_hPipe, "client"))
    BY <2>1, CloseFields
  <2> QED BY <1>21, <2>1, <2>2 DEF TransactTimesOut, ClosePipe, GiveUp, Broken, ClientLeaves, Empty
<1>22. CASE ShellEnds
  <2>1. m_hPipe # None => m_hPipe \in Pipes /\ ClientLeaves(m_hPipe, Close(m_hPipe, "client"))
    BY CloseFields DEF LinkTyped
  <2> QED BY <1>22, <2>1 DEF ShellEnds, ClosePipe, ClientLeaves, Empty
<1>23. CASE UNCHANGED vars
  BY <1>23 DEF vars, serverVars, linkVars, threadVars, bounds
<1> QED
  BY <1>1, <1>2, <1>3, <1>4, <1>5, <1>6, <1>7, <1>8, <1>9, <1>10, <1>11, <1>12, <1>13, <1>14,
     <1>15, <1>16, <1>17, <1>18, <1>19, <1>20, <1>21, <1>22, <1>23, <1>24, <1>25
  DEF Next, MainThread, InstanceThread, ShellStep

(* The link carries one message of one thread.                             *)
LEMMA LinkInductive ==
    ASSUME Typed, OneConnection, FreshIsEmpty, LinkIsMine, [Next]_vars
    PROVE  LinkIsMine'
<1>0. TypeOK /\ LinkTyped /\ pipe \in [Pipes -> Instance]
  BY DEF Typed, TypeOK, LinkTyped, Instance
<1> USE <1>0, PipesAssumption
    DEF Instance, Goto, serverVars, linkVars, threadVars, bounds, LinkIsMine
<1>a. m_hPipe # None => m_hPipe \in Pipes /\ pipe[m_hPipe].client = "open"
  BY DEF LinkTyped, OneConnection
<1>b. m_critSec # None => m_critSec \in Threads /\ pc[m_critSec] = "wait"
  BY DEF LinkTyped
<1> USE <1>a, <1>b
<1>1. CASE Started
  BY <1>1 DEF Started
<1>2. CASE CreateNamedPipe
  BY <1>2 DEF CreateNamedPipe
<1>3. ASSUME NEW p \in Pipes, Accept(p) PROVE LinkIsMine'
  <2>1. ServerLeaves(p, Close(p, "server"))
    BY CloseFields
  <2> QED BY <1>3, <2>1 DEF Accept, Fault, ServerLeaves, Empty
<1>4. CASE ListenerEnds
  BY <1>4 DEF ListenerEnds
<1>5. ASSUME NEW p \in Pipes, Loop(p) PROVE LinkIsMine'
  BY <1>5 DEF Loop
<1>6. ASSUME NEW p \in Pipes, ReadRequest(p) PROVE LinkIsMine'
  <2>1. ServerLeaves(p, Close(p, "server"))
    BY CloseFields
  <2> QED BY <1>6, <2>1 DEF ReadRequest, ServerLeaves, Empty
<1>7. ASSUME NEW p \in Pipes, GetAnswer(p) PROVE LinkIsMine'
  BY <1>7 DEF GetAnswer
<1>24. ASSUME NEW p \in Pipes, AskGuard(p) PROVE LinkIsMine'
  BY <1>24 DEF AskGuard
<1>8. ASSUME NEW p \in Pipes, WriteReply(p) PROVE LinkIsMine'
  <2>1. ServerLeaves(p, Close(p, "server"))
    BY CloseFields
  <2> QED BY <1>8, <2>1 DEF WriteReply, ServerLeaves, Empty
<1>9. ASSUME NEW p \in Pipes, Disconnect(p) PROVE LinkIsMine'
  <2>1. ServerLeaves(p, Close(p, "server"))
    BY CloseFields
  <2> QED BY <1>9, <2>1 DEF Disconnect, ServerLeaves, Empty
<1>10. CASE PostClose
  BY <1>10 DEF PostClose, Fault
<1>25. CASE LockGuard
  BY <1>25 DEF LockGuard
<1>11. CASE HandleClose
  BY <1>11 DEF HandleClose
<1>12. CASE Exit
  <2>1. \A p \in Pipes : \/ pipe'[p] = NewPipe /\ pipe[p] = NewPipe
                         \/ ServerLeaves(p, pipe'[p])
    BY <1>12, CloseFields DEF Exit, Gone
  <2>2. UNCHANGED <<linkVars, threadVars>>
    BY <1>12 DEF Exit
  <2> QED BY <2>1, <2>2 DEF ServerLeaves, Empty, NewPipe
<1>13. CASE Dies
  <2>1. \A p \in Pipes : \/ pipe'[p] = NewPipe /\ pipe[p] = NewPipe
                         \/ ServerLeaves(p, pipe'[p])
    BY <1>13, CloseFields DEF Dies, Gone, Fault
  <2>2. UNCHANGED <<linkVars, threadVars>>
    BY <1>13 DEF Dies
  <2> QED BY <2>1, <2>2 DEF ServerLeaves, Empty, NewPipe
<1>14. ASSUME NEW t \in Threads, GetStatusFromRemoteCache(t) PROVE LinkIsMine'
  <2>1. /\ m_critSec # t /\ (m_critSec # None => m_critSec \in Threads)
        /\ request \in [Threads -> 0 .. calls]
    BY <1>14 DEF GetStatusFromRemoteCache, LinkTyped
  <2> QED BY <1>14, <2>1 DEF GetStatusFromRemoteCache
<1>15. ASSUME NEW t \in Threads, EnsurePipeOpen(t) PROVE LinkIsMine'
  <2>1. CASE m_hPipe # None
    BY <1>15, <2>1 DEF EnsurePipeOpen, LinkTyped, Fault
  <2>2. CASE m_hPipe = None /\ m_hPipe' = None
    BY <2>2
  <2>3. ASSUME NEW p \in Available, pipe' = [pipe EXCEPT ![p].client = "open"], m_hPipe' = p
        PROVE  LinkIsMine'
    BY <1>15, <2>3 DEF EnsurePipeOpen, Available, Fault, FreshIsEmpty
  <2> QED BY <1>15, <2>1, <2>2, <2>3 DEF EnsurePipeOpen
<1>16. ASSUME NEW t \in Threads, RunTsvnCacheProcess(t) PROVE LinkIsMine'
  <2>1. request \in [Threads -> 0 .. calls]
    BY DEF LinkTyped
  <2> QED BY <1>16, <2>1 DEF RunTsvnCacheProcess, GiveUp
<1>17. ASSUME NEW t \in Threads, StartTimesOut(t) PROVE LinkIsMine'
  <2>1. request \in [Threads -> 0 .. calls]
    BY DEF LinkTyped
  <2> QED BY <1>17, <2>1 DEF StartTimesOut, GiveUp
<1>18. CASE BackoffEnds
  BY <1>18 DEF BackoffEnds
<1>19. ASSUME NEW t \in Threads, Transact(t) PROVE LinkIsMine'
  <2>1. m_hPipe # None => m_hPipe \in Pipes /\ ClientLeaves(m_hPipe, Close(m_hPipe, "client"))
    BY CloseFields DEF LinkTyped
  <2> QED BY <1>19, <2>1 DEF Transact, ClosePipe, GiveUp, Broken, ClientLeaves, Empty
<1>20. ASSUME NEW t \in Threads, TransactEnds(t) PROVE LinkIsMine'
  <2>1. m_hPipe # None /\ m_hPipe \in Pipes
    BY <1>20, WaitsAtPipe DEF TransactEnds
  <2>2. ClientLeaves(m_hPipe, Close(m_hPipe, "client"))
    BY <2>1, CloseFields
  <2> QED BY <1>20, <2>1, <2>2 DEF TransactEnds, ClosePipe, GiveUp, Broken, ClientLeaves, Empty
<1>21. ASSUME NEW t \in Threads, TransactTimesOut(t) PROVE LinkIsMine'
  <2>1. m_hPipe # None /\ m_hPipe \in Pipes
    BY <1>21, WaitsAtPipe DEF TransactTimesOut
  <2>2. ClientLeaves(m_hPipe, Close(m_hPipe, "client"))
    BY <2>1, CloseFields
  <2> QED BY <1>21, <2>1, <2>2 DEF TransactTimesOut, ClosePipe, GiveUp, Broken, ClientLeaves, Empty
<1>22. CASE ShellEnds
  <2>1. m_hPipe # None => m_hPipe \in Pipes /\ ClientLeaves(m_hPipe, Close(m_hPipe, "client"))
    BY CloseFields DEF LinkTyped
  <2> QED BY <1>22, <2>1 DEF ShellEnds, ClosePipe, ClientLeaves, Empty
<1>23. CASE UNCHANGED vars
  BY <1>23 DEF vars, serverVars, linkVars, threadVars, bounds
<1> QED
  BY <1>1, <1>2, <1>3, <1>4, <1>5, <1>6, <1>7, <1>8, <1>9, <1>10, <1>11, <1>12, <1>13, <1>14,
     <1>15, <1>16, <1>17, <1>18, <1>19, <1>20, <1>21, <1>22, <1>23, <1>24, <1>25
  DEF Next, MainThread, InstanceThread, ShellStep

(* An answer ends the call.                                                *)
LEMMA AtEndInductive ==
    ASSUME Typed, AnswerAtEnd, [Next]_vars
    PROVE  AnswerAtEnd'
<1>0. TypeOK /\ LinkTyped /\ pipe \in [Pipes -> Instance]
  BY DEF Typed, TypeOK, LinkTyped, Instance
<1> USE <1>0, PipesAssumption
    DEF Instance, Goto, serverVars, linkVars, threadVars, bounds, AnswerAtEnd, LinkTyped
<1>1. CASE Started
  BY <1>1 DEF Started
<1>2. CASE CreateNamedPipe
  BY <1>2 DEF CreateNamedPipe
<1>3. ASSUME NEW p \in Pipes, Accept(p) PROVE AnswerAtEnd'
  BY <1>3 DEF Accept, Fault
<1>4. CASE ListenerEnds
  BY <1>4 DEF ListenerEnds
<1>5. ASSUME NEW p \in Pipes, Loop(p) PROVE AnswerAtEnd'
  BY <1>5 DEF Loop
<1>6. ASSUME NEW p \in Pipes, ReadRequest(p) PROVE AnswerAtEnd'
  BY <1>6 DEF ReadRequest
<1>7. ASSUME NEW p \in Pipes, GetAnswer(p) PROVE AnswerAtEnd'
  BY <1>7 DEF GetAnswer
<1>24. ASSUME NEW p \in Pipes, AskGuard(p) PROVE AnswerAtEnd'
  BY <1>24 DEF AskGuard
<1>8. ASSUME NEW p \in Pipes, WriteReply(p) PROVE AnswerAtEnd'
  BY <1>8 DEF WriteReply
<1>9. ASSUME NEW p \in Pipes, Disconnect(p) PROVE AnswerAtEnd'
  BY <1>9 DEF Disconnect
<1>10. CASE PostClose
  BY <1>10 DEF PostClose, Fault
<1>25. CASE LockGuard
  BY <1>25 DEF LockGuard
<1>11. CASE HandleClose
  BY <1>11 DEF HandleClose
<1>12. CASE Exit
  BY <1>12 DEF Exit, Gone
<1>13. CASE Dies
  BY <1>13 DEF Dies, Gone, Fault
<1>14. ASSUME NEW t \in Threads, GetStatusFromRemoteCache(t) PROVE AnswerAtEnd'
  BY <1>14 DEF GetStatusFromRemoteCache
<1>15. ASSUME NEW t \in Threads, EnsurePipeOpen(t) PROVE AnswerAtEnd'
  BY <1>15 DEF EnsurePipeOpen, Available, Fault
<1>16. ASSUME NEW t \in Threads, RunTsvnCacheProcess(t) PROVE AnswerAtEnd'
  BY <1>16 DEF RunTsvnCacheProcess, GiveUp
<1>17. ASSUME NEW t \in Threads, StartTimesOut(t) PROVE AnswerAtEnd'
  BY <1>17 DEF StartTimesOut, GiveUp
<1>18. CASE BackoffEnds
  BY <1>18 DEF BackoffEnds
<1>19. ASSUME NEW t \in Threads, Transact(t) PROVE AnswerAtEnd'
  BY <1>19 DEF Transact, ClosePipe, GiveUp, Broken
<1>20. ASSUME NEW t \in Threads, TransactEnds(t) PROVE AnswerAtEnd'
  BY <1>20 DEF TransactEnds, ClosePipe, GiveUp, Broken
<1>21. ASSUME NEW t \in Threads, TransactTimesOut(t) PROVE AnswerAtEnd'
  BY <1>21 DEF TransactTimesOut, ClosePipe, GiveUp, Broken
<1>22. CASE ShellEnds
  BY <1>22 DEF ShellEnds, ClosePipe
<1>23. CASE UNCHANGED vars
  BY <1>23 DEF vars, serverVars, linkVars, threadVars, bounds
<1> QED
  BY <1>1, <1>2, <1>3, <1>4, <1>5, <1>6, <1>7, <1>8, <1>9, <1>10, <1>11, <1>12, <1>13, <1>14,
     <1>15, <1>16, <1>17, <1>18, <1>19, <1>20, <1>21, <1>22, <1>23, <1>24, <1>25
  DEF Next, MainThread, InstanceThread, ShellStep

(* A thread takes what is in the link.                                     *)
LEMMA MineInductive ==
    ASSUME Typed, LinkIsMine, AnswerAtEnd, AnswerIsMine, [Next]_vars
    PROVE  AnswerIsMine'
<1>0. TypeOK /\ LinkTyped /\ pipe \in [Pipes -> Instance]
  BY DEF Typed, TypeOK, LinkTyped, Instance
<1> USE <1>0, PipesAssumption
    DEF Instance, Goto, serverVars, linkVars, threadVars, bounds, AnswerIsMine, AnswerAtEnd,
        LinkTyped
<1>1. CASE Started
  BY <1>1 DEF Started
<1>2. CASE CreateNamedPipe
  BY <1>2 DEF CreateNamedPipe
<1>3. ASSUME NEW p \in Pipes, Accept(p) PROVE AnswerIsMine'
  BY <1>3 DEF Accept, Fault
<1>4. CASE ListenerEnds
  BY <1>4 DEF ListenerEnds
<1>5. ASSUME NEW p \in Pipes, Loop(p) PROVE AnswerIsMine'
  BY <1>5 DEF Loop
<1>6. ASSUME NEW p \in Pipes, ReadRequest(p) PROVE AnswerIsMine'
  BY <1>6 DEF ReadRequest
<1>7. ASSUME NEW p \in Pipes, GetAnswer(p) PROVE AnswerIsMine'
  BY <1>7 DEF GetAnswer
<1>24. ASSUME NEW p \in Pipes, AskGuard(p) PROVE AnswerIsMine'
  BY <1>24 DEF AskGuard
<1>8. ASSUME NEW p \in Pipes, WriteReply(p) PROVE AnswerIsMine'
  BY <1>8 DEF WriteReply
<1>9. ASSUME NEW p \in Pipes, Disconnect(p) PROVE AnswerIsMine'
  BY <1>9 DEF Disconnect
<1>10. CASE PostClose
  BY <1>10 DEF PostClose, Fault
<1>25. CASE LockGuard
  BY <1>25 DEF LockGuard
<1>11. CASE HandleClose
  BY <1>11 DEF HandleClose
<1>12. CASE Exit
  BY <1>12 DEF Exit, Gone
<1>13. CASE Dies
  BY <1>13 DEF Dies, Gone, Fault
<1>14. ASSUME NEW t \in Threads, GetStatusFromRemoteCache(t) PROVE AnswerIsMine'
  BY <1>14 DEF GetStatusFromRemoteCache
<1>15. ASSUME NEW t \in Threads, EnsurePipeOpen(t) PROVE AnswerIsMine'
  BY <1>15 DEF EnsurePipeOpen, Available, Fault
<1>16. ASSUME NEW t \in Threads, RunTsvnCacheProcess(t) PROVE AnswerIsMine'
  BY <1>16 DEF RunTsvnCacheProcess, GiveUp
<1>17. ASSUME NEW t \in Threads, StartTimesOut(t) PROVE AnswerIsMine'
  BY <1>17 DEF StartTimesOut, GiveUp
<1>18. CASE BackoffEnds
  BY <1>18 DEF BackoffEnds
<1>19. ASSUME NEW t \in Threads, Transact(t) PROVE AnswerIsMine'
  BY <1>19 DEF Transact, ClosePipe, GiveUp, Broken
<1>20. ASSUME NEW t \in Threads, TransactEnds(t) PROVE AnswerIsMine'
  <2>1. m_critSec = t /\ m_hPipe # None
    BY <1>20, WaitsAtPipe DEF TransactEnds
  <2>2. pipe[m_hPipe].reply # 0 => pipe[m_hPipe].reply = request[t]
    BY <2>1 DEF LinkIsMine
  <2> QED BY <1>20, <2>1, <2>2 DEF TransactEnds, GiveUp
<1>21. ASSUME NEW t \in Threads, TransactTimesOut(t) PROVE AnswerIsMine'
  BY <1>21 DEF TransactTimesOut, ClosePipe, GiveUp, Broken
<1>22. CASE ShellEnds
  BY <1>22 DEF ShellEnds, ClosePipe
<1>23. CASE UNCHANGED vars
  BY <1>23 DEF vars, serverVars, linkVars, threadVars, bounds
<1> QED
  BY <1>1, <1>2, <1>3, <1>4, <1>5, <1>6, <1>7, <1>8, <1>9, <1>10, <1>11, <1>12, <1>13, <1>14,
     <1>15, <1>16, <1>17, <1>18, <1>19, <1>20, <1>21, <1>22, <1>23, <1>24, <1>25
  DEF Next, MainThread, InstanceThread, ShellStep

\* At the start there is no pipe, no connection and no request.
LEMMA PipeInit == Init => PipeInv
<1> SUFFICES ASSUME Init PROVE PipeInv
  OBVIOUS
<1> USE Zero, PipesAssumption DEF Init
<1>1. Typed
  <2>1. pipe \in [Pipes -> Instance]
    BY NewTyped
  <2> QED
    BY <2>1 DEF Typed, TypeOK, Instance
<1>2. OneConnection /\ FreshIsEmpty /\ LinkIsMine
  BY DEF OneConnection, FreshIsEmpty, LinkIsMine, NewPipe
<1>3. AnswerAtEnd /\ AnswerIsMine
  BY DEF AnswerAtEnd, AnswerIsMine
<1> QED BY <1>1, <1>2, <1>3 DEF PipeInv

LEMMA PipeInductive == PipeInv /\ [Next]_vars => PipeInv'
  BY TypedInductive, OneInductive, FreshInductive, LinkInductive, AtEndInductive, MineInductive
  DEF PipeInv

-----------------------------------------------------------------------------
(* The variables of the server, of the pipe and of the link keep their     *)
(* types, and a thread that waits for an answer in TransactNamedPipe holds *)
(* m_critSec and has a pipe.                                               *)
THEOREM PipeTypeCorrect == Spec => []TypeOK
<1>1. PipeInv => TypeOK
  BY DEF PipeInv, Typed
<1> QED BY <1>1, PipeInit, PipeInductive, PTL DEF Spec

(* CRemoteCacheLink::GetStatusFromRemoteCache returns the answer to its    *)
(* own request, for any number of threads that share the link: a late      *)
(* answer to a request that was given up is never taken for it.            *)
THEOREM AnswerBelongs == Spec => []AnswerIsMine
<1>1. PipeInv => AnswerIsMine
  BY DEF PipeInv
<1> QED BY <1>1, PipeInit, PipeInductive, PTL DEF Spec

(* CRemoteCacheLink keeps one connection to the server: every instance     *)
(* with an open client end is m_hPipe, so EnsurePipeOpen and ClosePipe     *)
(* leak none.                                                              *)
THEOREM NoLeakedConnection == Spec => []OneConnection
<1>1. PipeInv => OneConnection
  BY DEF PipeInv
<1> QED BY <1>1, PipeInit, PipeInductive, PTL DEF Spec
=============================================================================
