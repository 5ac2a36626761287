---------------------------- MODULE ControlPath ----------------------------
(***************************************************************************)
(* How a change of the Model reaches the twin, and comes back.             *)
(*                                                                         *)
(*   the UI thread       Main.lua update(): AppController.sync(), which    *)
(*                       posts commands, and AppController.pollState()     *)
(*   the command thread  GUIEngine.cpp: takes posted commands, the first   *)
(*                       name first, and runs each as one remote call      *)
(*   the twin            ControlHandler.cpp: serves requests in order      *)
(*                                                                         *)
(* Of the settings, four stand for the rest: the pair behind the name VFO  *)
(* (the VFO's frequency and the OSD offset), the AGC mode, which two names *)
(* set, and the HPF bypass, which pollState() copies back to the Model.    *)
(* A message is one unit: its length prefix and its CBOR are left out.     *)
(***************************************************************************)
EXTENDS SequencesExt, Integers

CONSTANTS None,        \* no value, no command, no request
          Frequencies, \* of the VFO,
          Offsets,     \* of the OSD,
          Modes,       \* and of the AGC, that the user may choose
          MaxChanges,  \* bound: changes of the Model by the user
          MaxTimeouts  \* bound: calls given up after 500 ms

ASSUME PathAssumption ==
  /\ Frequencies \cup Offsets \cup Modes \subseteq Int
  /\ 0 \in Frequencies /\ 0 \in Offsets /\ 0 \in Modes
  /\ MaxChanges \in Nat /\ MaxTimeouts \in Nat

VARIABLES
  ui,        \* what the UI thread is doing
  model,     \* the settings as the Model has them
  dirty,     \* what sync() has to look at (AppController.lua's dirty)
  lastSent,  \* what Hardware.lua believes the twin has
  posting,   \* the keys whose calls of hw and rx this frame's sync() has still to make
  lastVFO,   \* GUIEngine::lastVFOHz
  osdOffset, \* DSPEngine::osdOffsetKhz
  pending,   \* pendingCommands: the command posted under each name
  cmd,       \* the command the command thread has taken
  waiting,   \* the request whose answer is awaited (holding controlMutex)
  toTwin, toApp, \* the two directions of the control connection
  link,      \* whether the connection is up
  cached,    \* TwinConn::cachedStateCBOR
  twin,      \* the settings as the twin has them, the offset in osdOffsetKHz
  changes, timeouts \* counters for the bounds

modelVars == <<model, dirty, lastSent, changes>>
engineVars == <<lastVFO, osdOffset, pending>>
callVars == <<cmd, waiting, cached, timeouts>>
wires == <<toTwin, toApp, link>>
vars == <<ui, modelVars, posting, engineVars, callVars, wires, twin>>

----------------------------------------------------------------------------
(* Values.                                                                 *)

\* Mode 1 is what enabling the AGC selects, mode 0 is "Off", and modes 2 and 3 are the other two
\* buttons of ui/AGC.lua.
Values == [vfo |-> Frequencies, osd |-> Offsets, agc |-> Modes, hpf |-> {0, 1}]
Setting == {"vfo", "osd", "agc", "hpf"}

\* The keys of Hardware.lua's lastSent, and what makes sync() look at each.  The OSD offset
\* has two, the second of which is looked at once the first is up to date.
Key == Setting \cup {"en", "qsd"}
DirtyOf == [vfo |-> "VFO", osd |-> "OSD", qsd |-> "OSD", agc |-> "AGC", en |-> "AGC",
            hpf |-> "filters"]
SyncOrder == <<"vfo", "hpf", "en", "agc", "osd", "qsd">>

\* Names under which commands are posted, in the order of a std::map.
Names == <<"AGC", "AGC_EN", "HPF_BYPASS", "POLL_STATE", "VFO">>
NameOf == [vfo |-> "VFO", osd |-> "VFO", qsd |-> "VFO", agc |-> "AGC", en |-> "AGC_EN",
           hpf |-> "HPF_BYPASS", poll |-> "POLL_STATE"]

\* A posted command: a closure over one value.
Command(key, val) == [key |-> key, val |-> val]

Commands ==
  [key : {"vfo", "osd", "qsd", "poll"}, val : Int] \cup [key : {"agc"}, val : Modes]
    \cup [key : {"hpf"}, val : {0, 1}] \cup [key : {"en"}, val : BOOLEAN]

\* The Model and the engine keep the OSD offset in kilohertz; both closures behind VFO send it
\* in hertz.
ToHertz(khz) == 1000 * khz

\* The request a command makes when it runs.  Both closures behind VFO take the half they
\* were not given from where the UI thread keeps it, as it is at that moment.
Request(c) ==
  CASE c.key = "vfo"  -> <<"SET_VFO", c.val, ToHertz(osdOffset)>>
    [] c.key \in {"osd", "qsd"} -> <<"SET_VFO", lastVFO, ToHertz(c.val)>>
    [] c.key = "agc"  -> <<"SET_AGC_MODE", c.val>>
    [] c.key = "en"   -> <<"SET_AGC_MODE", IF c.val THEN 1 ELSE 0>>
    [] c.key = "hpf"  -> <<"SET_HPF_BYPASS", c.val>>
    [] c.key = "poll" -> <<"GET_STATE">>

Requests ==
  {<<"GET_VERSION">>, <<"START_STREAM">>, <<"GBYE">>, <<"GET_STATE">>}
    \cup ({"SET_VFO"} \X Int \X Int) \cup ({"SET_AGC_MODE"} \X (Modes \cup {1}))
    \cup ({"SET_HPF_BYPASS"} \X {0, 1})

ASSUME NoneAssumption ==
  None \notin Commands /\ None \notin Requests /\ None \notin Int /\ None \notin BOOLEAN

\* rx.AGC.enabled: true by default, and no widget changes it.
Enabled == TRUE
Wanted(key) == CASE key = "en" -> Enabled [] key = "qsd" -> model["osd"] [] OTHER -> model[key]

----------------------------------------------------------------------------

\* GUIEngine::connectTwin() has connected to a twin that has just started.
Init ==
  /\ ui = "version"
  /\ model = [vfo |-> 0, osd |-> 0, agc |-> 0, hpf |-> 0]
  /\ dirty = {DirtyOf[k] : k \in Key}
  /\ lastSent = [k \in Key |-> None]
  /\ posting = {}
  /\ lastVFO = 0 /\ osdOffset = 1
  /\ pending = [n \in ToSet(Names) |-> None]
  /\ cmd = None /\ waiting = None /\ cached = None
  /\ toTwin = <<>> /\ toApp = <<>> /\ link = "up"
  /\ twin = [vfo |-> 1, osd |-> 1, agc |-> 0, hpf |-> 0]
  /\ changes = 0 /\ timeouts = 0

----------------------------------------------------------------------------
(* Remote calls: TwinConn::sendCBORRequest() and TCPControlClient.         *)

\* What the UI thread calls by itself, on connecting and on leaving, and what it does next.
UiRequest == [version |-> <<"GET_VERSION">>, start |-> <<"START_STREAM">>, bye |-> <<"GBYE">>]
UiNext == [version |-> "start", start |-> "frame", bye |-> "exited"]
UiCalls == ui \in DOMAIN UiRequest

\* The caller goes on with an answer, or with None when there was none or it was an error.
\* Only GET_STATE looks at the answer, and takes whatever it is given for the state.
Finish(answer) ==
  IF UiCalls
  THEN ui' = UiNext[ui] /\ UNCHANGED <<cmd, cached>>
  ELSE /\ cmd' = None
       /\ cached' = IF cmd.key = "poll" /\ answer # None THEN answer ELSE cached
       /\ UNCHANGED ui

\* A plausible slip: the request goes out twice.
AskTwice(request) ==
  /\ link = "up"
  /\ toTwin' = toTwin \o <<request, request>>
  /\ waiting' = request
  /\ UNCHANGED <<ui, cmd, cached>>

\* sendMessage().  On a broken connection it fails, or the answer cannot be read, or, since
\* SIGPIPE is neither ignored nor masked (MSG_NOSIGNAL), it kills the program.
Ask(request) ==
  \/ /\ link = "up"
     /\ toTwin' = Append(toTwin, request)
     /\ waiting' = request
     /\ UNCHANGED <<ui, cmd, cached>>
  \/ /\ link = "down"
     /\ Finish(None) \/ (ui' = "killed" /\ UNCHANGED <<cmd, cached>>)
     /\ UNCHANGED <<toTwin, waiting>>

\* receiveMessage() takes the next answer on the connection, whichever request it answers.
Answer ==
  /\ waiting # None /\ toApp # <<>>
  /\ Finish(IF Head(toApp)[1] = "ERROR" THEN None ELSE Head(toApp))
  /\ toApp' = Tail(toApp)
  /\ waiting' = None
  /\ UNCHANGED <<modelVars, posting, engineVars, timeouts, toTwin, link, twin>>

\* 500 ms pass, or the connection turns out to be closed.  The answer may still come.
GiveUp ==
  /\ waiting # None /\ toApp = <<>>
  /\ \/ link = "up" /\ timeouts < MaxTimeouts /\ timeouts' = timeouts + 1
     \/ link = "down" /\ UNCHANGED timeouts
  /\ Finish(None)
  /\ waiting' = None
  /\ UNCHANGED <<modelVars, posting, engineVars, wires, twin>>

Alive == ui \notin {"exited", "killed"}

----------------------------------------------------------------------------
(* The UI thread.                                                          *)

UiAsks ==
  /\ UiCalls /\ waiting = None
  /\ Ask(UiRequest[ui])
  /\ UNCHANGED <<modelVars, posting, engineVars, timeouts, toApp, link, twin>>

\* A plausible slip: the watch does not depend on the setting.
ChangeUnwatched(s, v) ==
  /\ ui = "frame" /\ changes < MaxChanges
  /\ model[s] # v
  /\ model' = [model EXCEPT ![s] = v]
  /\ changes' = changes + 1
  /\ UNCHANGED <<ui, dirty, lastSent, posting, engineVars, callVars, wires, twin>>

\* A widget, an event or a rule of the configuration changes a setting; its watch fires.
Change(s, v) ==
  /\ ui = "frame" /\ changes < MaxChanges
  /\ model[s] # v
  /\ model' = [model EXCEPT ![s] = v]
  /\ dirty' = dirty \cup {DirtyOf[s]}
  /\ changes' = changes + 1
  /\ UNCHANGED <<ui, lastSent, posting, engineVars, callVars, wires, twin>>

\* AppController.sync() and Hardware.sync(): what is dirty and not yet sent is posted, and
\* recorded as sent before it is.
Sync ==
  /\ ui = "frame"
  /\ LET due(k) == /\ DirtyOf[k] \in dirty /\ lastSent[k] # Wanted(k)
                   /\ k = "qsd" => lastSent["osd"] = model.osd
     IN /\ posting' = {k \in Key : due(k)}
        /\ lastSent' = [k \in Key |-> IF due(k) THEN Wanted(k) ELSE lastSent[k]]
  /\ dirty' = {}
  /\ ui' = "posting"
  /\ UNCHANGED <<model, changes, engineVars, callVars, wires, twin>>

\* The setters keep their half of the pair behind VFO for the other one.
Keep(key, val) ==
  /\ lastVFO' = IF key = "vfo" THEN val ELSE lastVFO
  /\ osdOffset' = IF key \in {"osd", "qsd"} THEN val ELSE osdOffset

\* A plausible slip: a command posted under a name in use is refused (insert, not assignment).
PostedOnce(key, val) == IF pending[NameOf[key]] = None
                        THEN [pending EXCEPT ![NameOf[key]] = Command(key, val)] ELSE pending

\* postTwinCommand() replaces what is pending under the name.
Posted(key, val) == [pending EXCEPT ![NameOf[key]] = Command(key, val)]

\* rx.setVFO and the setters of hw, called in this order with what has been recorded as sent.
Post ==
  /\ ui = "posting"
  /\ \E i \in DOMAIN SyncOrder :
       LET key == SyncOrder[i] IN
       /\ key \in posting /\ \A j \in 1 .. i - 1 : SyncOrder[j] \notin posting
       /\ pending' = Posted(key, lastSent[key])
       /\ Keep(key, lastSent[key])
       /\ posting' = posting \ {key}
  /\ UNCHANGED <<ui, modelVars, callVars, wires, twin>>

\* Most frames end here: pollState() runs in one of ten.
SkipPoll ==
  /\ ui = "posting" /\ posting = {}
  /\ ui' = "frame"
  /\ UNCHANGED <<modelVars, posting, engineVars, callVars, wires, twin>>

\* GUIEngine::getTwinState(): a poll is posted unless there was one within 100 ms ...
PollPost ==
  /\ ui = "posting" /\ posting = {}
  /\ \/ pending' = [pending EXCEPT !["POLL_STATE"] = Command("poll", 0)]
     \/ UNCHANGED pending
  /\ ui' = "polling"
  /\ UNCHANGED <<modelVars, posting, lastVFO, osdOffset, callVars, wires, twin>>

\* ... and the last answer is what pollState() has to go by.  Of the four settings it finds
\* only hpfBypass: the twin calls the others "vfo" and "agc", or does not tell.
IsState(a) == a # None /\ a[1] = "STATE"

PollRead ==
  /\ ui = "polling"
  /\ IF IsState(cached) /\ cached[2] # model.hpf
     THEN /\ model' = [model EXCEPT !.hpf = cached[2]]
          /\ dirty' = dirty \cup {"filters"}
     ELSE UNCHANGED <<model, dirty>>
  /\ ui' = "frame"
  /\ UNCHANGED <<lastSent, changes, posting, engineVars, callVars, wires, twin>>

\* The window is closed: GUIEngine::shutdown() stops the command thread ...
Quit ==
  /\ ui = "frame"
  /\ ui' = "quit"
  /\ UNCHANGED <<modelVars, posting, engineVars, callVars, wires, twin>>

\* A plausible slip: the command thread is expected to empty its queue first.
QuitDrains ==
  /\ ui = "quit" /\ cmd = None /\ \A n \in DOMAIN pending : pending[n] = None
  /\ ui' = "bye"
  /\ UNCHANGED <<modelVars, posting, engineVars, callVars, wires, twin>>

\* ... which ends after the command it is running, leaving the rest, and then says GBYE.
QuitJoin ==
  /\ ui = "quit" /\ cmd = None
  /\ ui' = "bye"
  /\ UNCHANGED <<modelVars, posting, engineVars, callVars, wires, twin>>

User == Quit \/ \E s \in Setting : \E v \in Values[s] : Change(s, v)
Ui == UiAsks \/ Sync \/ Post \/ SkipPoll \/ PollPost \/ PollRead \/ QuitJoin

----------------------------------------------------------------------------
(* The command thread, the twin and the network.                           *)

\* The command with the first name is taken, and its name is free again.
Take ==
  /\ ui \notin {"quit", "bye", "exited", "killed"} /\ cmd = None
  /\ \E i \in DOMAIN Names :
       /\ pending[Names[i]] # None
       /\ \A j \in 1 .. i - 1 : pending[Names[j]] = None
       /\ cmd' = pending[Names[i]]
       /\ pending' = [pending EXCEPT ![Names[i]] = None]
  /\ UNCHANGED <<ui, modelVars, posting, lastVFO, osdOffset, waiting, cached, timeouts,
                 wires, twin>>

Run ==
  /\ Alive /\ cmd # None /\ waiting = None
  /\ Ask(Request(cmd))
  /\ UNCHANGED <<modelVars, posting, engineVars, timeouts, toApp, link, twin>>

CommandThread == Take \/ Run

\* A plausible slip: an unknown request goes unanswered.
TwinServesKnown ==
  /\ link = "up" /\ toTwin # <<>>
  /\ LET r == Head(toTwin) IN
       toApp' = CASE r[1] = "GET_STATE"   -> Append(toApp, <<"STATE", twin.hpf>>)
                  [] r[1] = "GET_VERSION" -> toApp
                  [] OTHER                -> Append(toApp, <<"OK">>)
  /\ toTwin' = Tail(toTwin)
  /\ UNCHANGED <<ui, modelVars, posting, engineVars, callVars, link, twin>>

\* handleCborCommand(): a request is carried out and answered.  The offset is stored as it
\* comes, in hertz, where the constructor stores kilohertz and the signal loop reads them.
TwinServes ==
  /\ link = "up" /\ toTwin # <<>>
  /\ LET r == Head(toTwin) IN
       /\ twin' = CASE r[1] = "SET_VFO"        -> [twin EXCEPT !.vfo = r[2], !.osd = r[3]]
                    [] r[1] = "SET_AGC_MODE"   -> [twin EXCEPT !.agc = r[2]]
                    [] r[1] = "SET_HPF_BYPASS" -> [twin EXCEPT !.hpf = r[2]]
                    [] OTHER                   -> twin
       /\ toApp' = Append(toApp, CASE r[1] = "GET_STATE"   -> <<"STATE", twin.hpf>>
                                   [] r[1] = "GET_VERSION" -> <<"ERROR">>
                                   [] OTHER                -> <<"OK">>)
  /\ toTwin' = Tail(toTwin)
  /\ UNCHANGED <<ui, modelVars, posting, engineVars, callVars, link>>

\* The twin exits or ends the session.  Answers on their way may or may not arrive.
LinkDrops ==
  /\ link = "up"
  /\ link' = "down"
  /\ toTwin' = <<>>
  /\ toApp' \in {toApp, <<>>}
  /\ UNCHANGED <<ui, modelVars, posting, engineVars, callVars, twin>>

Next == User \/ Ui \/ Answer \/ GiveUp \/ CommandThread \/ TwinServes \/ LinkDrops

\* Frames go on, the twin serves what it receives, and a call returns: recv() has a timeout.
\* Nobody has to use the program, to close it or to break the connection.
Fairness == WF_vars(Ui) /\ WF_vars(CommandThread) /\ WF_vars(TwinServes) /\ WF_vars(Answer)
            /\ WF_vars(GiveUp)

Spec == Init /\ [][Next]_vars /\ Fairness

----------------------------------------------------------------------------
(* Properties.                                                             *)

TypeOK ==
  /\ ui \in {"version", "start", "frame", "posting", "polling", "quit", "bye", "exited", "killed"}
  /\ DOMAIN model = Setting /\ \A s \in Setting : model[s] \in Values[s]
  /\ dirty \subseteq {DirtyOf[k] : k \in Key}
  /\ \A s \in Setting : lastSent[s] # None => lastSent[s] \in Values[s]
  /\ \A n \in DOMAIN pending : pending[n] # None => NameOf[pending[n].key] = n
  /\ posting \subseteq Key /\ ~({"osd", "qsd"} \subseteq posting)
  /\ Len(toTwin) + Len(toApp) <= 1 + timeouts
  /\ link \in {"up", "down"}
  /\ twin.agc \in Modes \cup {1}
  /\ changes \in 0 .. MaxChanges /\ timeouts \in 0 .. MaxTimeouts

\* The connection answers one request at a time, in order, until a call is given up: from
\* then on every call is answered with the answer to the call before it, for ever, because
\* a late answer is not thrown away (TCPControlClient.cpp:52-64).
AnswersLag ==
  link = "up" => Len(toTwin) + Len(toApp) = timeouts + (IF waiting = None THEN 0 ELSE 1)

\* So a state that is shown is what GET_STATE answered, unless a call was given up.
PollsGetStates == timeouts = 0 => cached = None \/ IsState(cached)

\* The first element of the request each key's command makes.
AskedBy == [vfo |-> "SET_VFO", osd |-> "SET_VFO", qsd |-> "SET_VFO", agc |-> "SET_AGC_MODE",
              en |-> "SET_AGC_MODE", hpf |-> "SET_HPF_BYPASS"]

\* The settings have been sent, and no command of these keys is on its way, posted, pending,
\* running or in the network.
Quiet(keys) ==
  /\ ui \notin {"quit", "bye", "exited", "killed"} /\ link = "up"
  /\ \A k \in keys \cap Setting : lastSent[k] # None
  /\ posting \cap keys = {}
  /\ \A n \in DOMAIN pending : pending[n] = None \/ pending[n].key \notin keys
  /\ cmd = None \/ cmd.key \notin keys
  /\ \A i \in DOMAIN toTwin : toTwin[i][1] \notin {AskedBy[k] : k \in keys}

\* Coalescing loses no setting: once no command is on its way, the twin has the numbers sent
\* for what Hardware.lua believes it has, although commands are replaced while they wait, each
\* half of the pair behind VFO is sent with what the other is at that moment, and calls time
\* out.  The offset's number is one of hertz, whichever of the two closures sent it.
SettledTwinAgrees ==
  /\ Quiet({"hpf"}) => twin.hpf = lastSent["hpf"]
  /\ Quiet({"vfo", "osd", "qsd"}) =>
       twin.vfo = lastSent["vfo"] /\ twin.osd = ToHertz(lastSent["osd"])

\* "OSD offset in kHz" (config/settings.lua:48), kept by the twin as osdOffsetKHz
\* (ControlHandler.hpp:116): once no command is on its way, the twin has the Model's offset.
\* It has a thousand times that, and multiplies it by 1000 again (SignalGen.cpp:599).
OffsetArrives == Quiet({"vfo", "osd", "qsd"}) => twin.osd = lastSent["osd"]

\* "Synchronize Model changes to Hardware in a single transaction" (Hardware.lua:46): once
\* no AGC command is on its way, the twin's AGC mode is the one sync() asked for last.  It
\* is not when enabling and mode are posted in one frame: the map runs AGC before AGC_EN.
SettledAgcAgrees == Quiet({"agc", "en"}) => twin.agc = lastSent["agc"]

\* "Update Filter status from hardware (not usually needed but for consistency)"
\* (AppController.lua:387): the Model and the twin come to agree on the HPF bypass.  They
\* need not: pollState() goes by an answer older than the last change, undoes it, and with
\* every poll answered before the undoing is sent the two values chase one another.
HpfSettles ==
  <>[](model.hpf = twin.hpf) \/ <>(link = "down" \/ ui \in {"quit", "bye", "exited", "killed"})

\* A change of the AGC mode leaves the Model, and does not stay in the queue, however often
\* the other settings and the polls are posted.
AgcIsSent ==
  (lastSent["agc"] # model.agc) ~>
    \/ lastSent["agc"] = model.agc /\ pending["AGC"] = None
    \/ ui \in {"quit", "bye", "exited", "killed"}

\* Closing the window ends the program, whatever the command thread and the twin are at.
QuitEnds == (ui = "quit") ~> ~Alive
=============================================================================
