---------------------------- MODULE AppSession ----------------------------
(***************************************************************************)
(* The life of the application's connection to the twin: start-up,         *)
(* connect() and disconnect() of the hw table, and the end of the program. *)
(*                                                                         *)
(*   the UI thread       main.cpp, GUIEngine.cpp: connectTwin() runs on    *)
(*                       it, disconnectTwin() posts a SHUTDOWN command     *)
(*   the command thread  runs SHUTDOWN: TwinConn's stopReceiving() and     *)
(*                       shutdown()                                        *)
(*   the DSP thread      TwinConn::receiveLoop()                           *)
(*                                                                         *)
(* What is said on the connections is ControlPath's and UdpStream's.       *)
(***************************************************************************)
EXTENDS Integers

CONSTANT MaxConnects   \* bound: calls of hw.connect()

VARIABLES
  ui,            \* what the UI thread is doing
  tornBy,        \* the thread that is inside TwinConn::shutdown(), and how far
  shutdownPosted,\* a SHUTDOWN command is pending
  twinConnected, \* GUIEngine::twinConnected
  connected, receiving, stopRequested, \* TwinConn's flags
  control, stream,  \* "none" before the first connect(), else "open" or "closed"
  dspThread,     \* the thread of receiveLoop()
  overlapped,    \* history: a connect() began with a SHUTDOWN pending or running
  connects       \* counter for the bound

sessionVars == <<ui, tornBy, shutdownPosted, twinConnected, connected, receiving, stopRequested,
                 control, stream, dspThread, overlapped, connects>>
flags == <<connected, receiving, stopRequested>>
sockets == <<control, stream>>

Threads == {"ui", "command"}
NotTorn == [t \in Threads |-> "out"]

SessionInit ==
  /\ ui = "init" /\ tornBy = NotTorn
  /\ shutdownPosted = FALSE /\ twinConnected = FALSE
  /\ connected = FALSE /\ receiving = FALSE /\ stopRequested = FALSE
  /\ control = "none" /\ stream = "none" /\ dspThread = "none"
  /\ overlapped = FALSE /\ connects = 0

----------------------------------------------------------------------------

\* GUIEngine::init(): with no audio device, no river texture or an error in a script, main()
\* returns, which ends in the destructor's shutdown().
Startup ==
  /\ ui = "init"
  /\ ui' \in {"frame", "quit"}
  /\ UNCHANGED <<tornBy, shutdownPosted, twinConnected, flags, sockets, dspThread, overlapped,
                 connects>>

\* connectTwin() begins.  initialize() is satisfied with a connection it takes to be there.
Connect ==
  /\ ui = "frame" /\ connects < MaxConnects
  /\ connects' = connects + 1
  /\ overlapped' = (overlapped \/ shutdownPosted \/ tornBy["command"] # "out")
  /\ ui' = IF connected THEN "version" ELSE "control"
  /\ UNCHANGED <<tornBy, shutdownPosted, twinConnected, flags, sockets, dspThread>>

\* The control connection; the old client, if any, is destroyed.
ConnectControl ==
  /\ ui = "control"
  /\ \/ control' = "open" /\ ui' = "stream"
     \/ control' = "closed" /\ ui' = "frame"
  /\ UNCHANGED <<tornBy, shutdownPosted, twinConnected, flags, stream, dspThread, overlapped,
                 connects>>

\* The stream socket.  If it cannot be bound the control connection stays open.
ConnectStream ==
  /\ ui = "stream"
  /\ \/ stream' = "open" /\ connected' = TRUE /\ ui' = "version"
     \/ stream' = "closed" /\ ui' = "frame" /\ UNCHANGED connected
  /\ UNCHANGED <<tornBy, shutdownPosted, twinConnected, receiving, stopRequested, control,
                 dspThread, overlapped, connects>>

\* checkFirmwareVersion().  No answer counts as a compatible twin; a CPLD without its image
\* is sent one, whatever comes of it.
CheckVersion ==
  /\ ui = "version"
  /\ \/ ui' = "receive" /\ UNCHANGED <<tornBy, twinConnected>>
     \/ /\ ui' = "incompatible"
        /\ tornBy' = [tornBy EXCEPT !["ui"] = "stop"]
        /\ UNCHANGED twinConnected
  /\ UNCHANGED <<shutdownPosted, flags, sockets, dspThread, overlapped, connects>>

\* The shutdown() of an incompatible twin is over.
Incompatible ==
  /\ ui = "incompatible" /\ tornBy["ui"] = "out"
  /\ twinConnected' = FALSE
  /\ ui' = "frame"
  /\ UNCHANGED <<tornBy, shutdownPosted, flags, sockets, dspThread, overlapped, connects>>

\* startReceiving(), and on success the connection is announced and the stream started.
StartReceiving ==
  /\ ui = "receive"
  /\ ui' = "frame"
  /\ twinConnected' = (twinConnected \/ connected)
  /\ IF connected /\ ~receiving
     THEN stopRequested' = FALSE /\ receiving' = TRUE /\ dspThread' = "running"
     ELSE UNCHANGED <<stopRequested, receiving, dspThread>>
  /\ UNCHANGED <<tornBy, shutdownPosted, connected, sockets, overlapped, connects>>

\* disconnectTwin().
Disconnect ==
  /\ ui = "frame" /\ twinConnected
  /\ shutdownPosted' = TRUE
  /\ twinConnected' = FALSE
  /\ UNCHANGED <<ui, tornBy, flags, sockets, dspThread, overlapped, connects>>

----------------------------------------------------------------------------
(* stopReceiving() and shutdown(), by either thread.                       *)

\* The command thread takes SHUTDOWN.
TakeShutdown ==
  /\ shutdownPosted /\ tornBy["command"] = "out"
  /\ ui # "gone"
  /\ shutdownPosted' = FALSE
  /\ tornBy' = [tornBy EXCEPT !["command"] = "stop"]
  /\ UNCHANGED <<ui, twinConnected, flags, sockets, dspThread, overlapped, connects>>

\* stopReceiving() asks the DSP thread to end ...
AskStop(t) ==
  /\ tornBy[t] = "stop"
  /\ IF receiving
     THEN stopRequested' = TRUE /\ tornBy' = [tornBy EXCEPT ![t] = "join"]
     ELSE UNCHANGED stopRequested /\ tornBy' = [tornBy EXCEPT ![t] = "close"]
  /\ UNCHANGED <<ui, shutdownPosted, twinConnected, connected, receiving, sockets, dspThread,
                 overlapped, connects>>

\* A plausible slip: the flag is taken back, and the thread left to itself.
JoinNot(t) ==
  /\ tornBy[t] = "join"
  /\ receiving' = FALSE
  /\ tornBy' = [tornBy EXCEPT ![t] = "close"]
  /\ UNCHANGED <<ui, shutdownPosted, twinConnected, connected, stopRequested, sockets, dspThread,
                 overlapped, connects>>

\* ... and joins it.
Join(t) ==
  /\ tornBy[t] = "join"
  /\ dspThread # "running"
  /\ dspThread' = "none" /\ receiving' = FALSE
  /\ tornBy' = [tornBy EXCEPT ![t] = "close"]
  /\ UNCHANGED <<ui, shutdownPosted, twinConnected, connected, stopRequested, sockets, overlapped,
                 connects>>

\* shutdown(): GBYE and the end of the control connection, if it is one; the stream.
Close(t) ==
  /\ tornBy[t] = "close"
  /\ control' = IF control = "open" /\ connected THEN "closed" ELSE control
  /\ stream' = IF stream = "open" THEN "closed" ELSE stream
  /\ connected' = FALSE
  /\ tornBy' = [tornBy EXCEPT ![t] = "out"]
  /\ UNCHANGED <<ui, shutdownPosted, twinConnected, receiving, stopRequested, dspThread,
                 overlapped, connects>>

\* receiveLoop() looks at the flag between two batches.
LoopEnds ==
  /\ dspThread = "running" /\ stopRequested
  /\ dspThread' = "ended"
  /\ UNCHANGED <<ui, tornBy, shutdownPosted, twinConnected, flags, sockets, overlapped, connects>>

----------------------------------------------------------------------------
(* The end: a closed window, SIGINT, or an error in a script's update().   *)

Leave ==
  /\ ui = "frame"
  /\ ui' = "quit"
  /\ UNCHANGED <<tornBy, shutdownPosted, twinConnected, flags, sockets, dspThread, overlapped,
                 connects>>

\* GUIEngine::shutdown(): the command thread finishes what it is doing and is joined, what is
\* pending is dropped, and the UI thread shuts the connection down itself.
Shutdown ==
  /\ ui = "quit" /\ tornBy["command"] = "out"
  /\ ui' = "gone"
  /\ tornBy' = [tornBy EXCEPT !["ui"] = "stop"]
  /\ shutdownPosted' = FALSE
  /\ UNCHANGED <<twinConnected, flags, sockets, dspThread, overlapped, connects>>

\* The destructors close what shutdown() left open.
Destroy ==
  /\ ui = "gone" /\ tornBy["ui"] = "out" /\ "open" \in {control, stream}
  /\ control' = IF control = "open" THEN "closed" ELSE control
  /\ stream' = IF stream = "open" THEN "closed" ELSE stream
  /\ UNCHANGED <<ui, tornBy, shutdownPosted, twinConnected, flags, dspThread, overlapped,
                 connects>>

SessionNext ==
  \/ Startup \/ Connect \/ ConnectControl \/ ConnectStream \/ CheckVersion \/ Incompatible
  \/ StartReceiving \/ Disconnect \/ TakeShutdown
  \/ \E t \in Threads : AskStop(t) \/ Join(t) \/ Close(t)
  \/ LoopEnds \/ Leave \/ Shutdown \/ Destroy

SessionSpec == SessionInit /\ [][SessionNext]_sessionVars

----------------------------------------------------------------------------

\* As long as no connect() is called before the last SHUTDOWN has run, the connection the
\* program believes in is there: control, stream and DSP thread (GUIEngine::twinConnected,
\* set by one thread, against TwinConn's flags, reset by another).
ConnectedMeansUp ==
  twinConnected /\ ~overlapped /\ ui = "frame"
    => connected /\ receiving /\ dspThread = "running" /\ control = "open" /\ stream = "open"

\* A DSP thread is running or waiting to be joined only while receiving says so: none is left
\* over by a shutdown(), whichever thread runs it, for its callback to find a dead DSP engine.
NoLostReceiver ==
  /\ dspThread # "none" => receiving
  /\ ui = "gone" /\ tornBy["ui"] = "out" => dspThread = "none"

\* Both, for the run.
SessionSound == ConnectedMeansUp /\ NoLostReceiver
=============================================================================
