------------------------- MODULE ControlPathProofs -------------------------
(***************************************************************************)
(* The control path: types, the lag of answers, states polled, and that    *)
(* coalescing loses no setting, for every set of frequencies, offsets and  *)
(* modes and every number of changes and timeouts.                         *)
(***************************************************************************)
EXTENDS ControlPath, SequenceTheorems, TLAPS

Answers == {<<"OK">>, <<"ERROR">>} \cup ({"STATE"} \X {0, 1})

----------------------------------------------------------------------------
(* The inductive invariant.                                                *)

PathTypes ==
  /\ ui \in {"version", "start", "frame", "posting", "polling", "quit", "bye", "exited", "killed"}
  /\ DOMAIN model = Setting /\ \A s \in Setting : model[s] \in Values[s]
  /\ dirty \subseteq {DirtyOf[k] : k \in Key}
  /\ DOMAIN lastSent = Key
  /\ \A s \in Setting : lastSent[s] = None \/ lastSent[s] \in Values[s]
  /\ lastSent["en"] = None \/ lastSent["en"] \in BOOLEAN
  /\ lastSent["qsd"] = None \/ lastSent["qsd"] \in Offsets
  /\ posting \subseteq Key /\ \A k \in posting : lastSent[k] # None
  /\ lastVFO \in Int /\ osdOffset \in Int
  /\ pending \in [ToSet(Names) -> Commands \cup {None}]
  /\ \A n \in ToSet(Names) : pending[n] # None => NameOf[pending[n].key] = n
  /\ cmd \in Commands \cup {None} /\ waiting \in Requests \cup {None}
  /\ toTwin \in Seq(Requests) /\ toApp \in Seq(Answers) /\ link \in {"up", "down"}
  /\ cached \in Answers \cup {None}
  /\ twin \in [vfo : Int, osd : Int, agc : Modes \cup {1}, hpf : {0, 1}]
  /\ changes \in 0 .. MaxChanges /\ timeouts \in 0 .. MaxTimeouts

\* The UI thread calls while the command thread has nothing to run.
CallInv ==
  /\ UiCalls => cmd = None
  /\ ui \in {"version", "start"} => \A n \in ToSet(Names) : pending[n] = None
  /\ ui \notin {"posting", "killed"} => posting = {}
  /\ waiting # None => IF UiCalls THEN waiting = UiRequest[ui]
                       ELSE cmd # None /\ (cmd.key = "poll" => waiting[1] = "GET_STATE")

\* At most one request is on its way ahead of those given up.
LagInv == /\ AnswersLag
          /\ Len(toTwin) + Len(toApp) <= timeouts + (IF waiting = None THEN 0 ELSE 1)
          /\ link = "down" => toTwin = <<>>

\* Until one is given up, what is on its way is the request awaited or its answer.
PollInv ==
  /\ PollsGetStates
  /\ timeouts = 0 /\ waiting # None =>
       /\ toTwin # <<>> => toTwin[1] = waiting
       /\ toApp # <<>> /\ waiting[1] = "GET_STATE" => toApp[1][1] = "STATE"

\* The last request of a kind among those on their way is this one.
NoneOf(q, tag) == \A i \in DOMAIN q : q[i][1] # tag
LastIs(q, r) == \A i \in DOMAIN q :
  q[i][1] = r[1] /\ (\A j \in DOMAIN q : j > i => q[j][1] # r[1]) => q[i] = r

\* The two halves of the pair behind VFO are what was last posted of each, ...
HalvesInv ==
  /\ lastSent["vfo"] # None /\ "vfo" \notin posting => lastVFO = lastSent["vfo"]
  /\ lastSent["osd"] # None /\ "osd" \notin posting => osdOffset = lastSent["osd"]
  /\ "qsd" \in posting => lastSent["osd"] # None /\ lastSent["qsd"] = lastSent["osd"] /\ "osd" \notin posting

\* ... and the newest command of the pair, wherever it is by now, will set both, if it has not.
Both(c) == (c.key = "vfo" => c.val = lastVFO) /\ (c.key \in {"osd", "qsd"} => c.val = osdOffset)
VfoInv ==
  link = "up" /\ lastSent["vfo"] # None /\ "vfo" \notin posting =>
    \/ pending["VFO"] # None /\ Both(pending["VFO"])
    \/ pending["VFO"] = None /\ waiting = None /\ cmd # None /\ NameOf[cmd.key] = "VFO" /\ Both(cmd)
    \/ /\ pending["VFO"] = None /\ LastIs(toTwin, <<"SET_VFO", lastVFO, ToHertz(osdOffset)>>)
       /\ waiting = None => cmd = None \/ NameOf[cmd.key] # "VFO"
       /\ NoneOf(toTwin, "SET_VFO") => twin.vfo = lastVFO /\ twin.osd = ToHertz(osdOffset)

HpfInv ==
  link = "up" /\ lastSent["hpf"] # None /\ "hpf" \notin posting =>
    \/ pending["HPF_BYPASS"] # None /\ pending["HPF_BYPASS"].val = lastSent["hpf"]
    \/ pending["HPF_BYPASS"] = None /\ waiting = None /\ cmd # None /\ cmd.key = "hpf" /\ cmd.val = lastSent["hpf"]
    \/ /\ pending["HPF_BYPASS"] = None /\ LastIs(toTwin, <<"SET_HPF_BYPASS", lastSent["hpf"]>>)
       /\ waiting = None => cmd = None \/ cmd.key # "hpf"
       /\ NoneOf(toTwin, "SET_HPF_BYPASS") => twin.hpf = lastSent["hpf"]

----------------------------------------------------------------------------
(* Names, requests, and sequences of them.                                 *)

LEMMA NamesAre == ToSet(Names) = {"AGC", "AGC_EN", "HPF_BYPASS", "POLL_STATE", "VFO"}
<1>1. DOMAIN Names = 1..5
  BY DEF Names
<1> QED BY <1>1 DEF ToSet, Names

LEMMA NamesOfKeys ==
  /\ \A k \in Key \cup {"poll"} : NameOf[k] \in ToSet(Names)
  /\ \A k \in Key \cup {"poll"} : NameOf[k] = "HPF_BYPASS" <=> k = "hpf"
  /\ \A k \in Key \cup {"poll"} : NameOf[k] = "VFO" <=> k \in {"vfo", "osd", "qsd"}
BY NamesAre DEF NameOf, Key, Setting

LEMMA ValuesAreNumbers ==
  /\ \A s \in Setting : Values[s] \subseteq Int
  /\ Values["vfo"] = Frequencies /\ Values["osd"] = Offsets /\ Values["agc"] = Modes
  /\ Values["hpf"] = {0, 1}
BY PathAssumption DEF Values, Setting

\* An offset in hertz is a number.
LEMMA HertzAreNumbers == \A k \in Int : ToHertz(k) \in Int
BY DEF ToHertz

\* What a command asks for.
LEMMA RequestOf ==
  ASSUME NEW c \in Commands, lastVFO \in Int, osdOffset \in Int
  PROVE  /\ Request(c) \in Requests /\ Request(c) # None
         /\ c.key = "hpf" => Request(c) = <<"SET_HPF_BYPASS", c.val>>
         /\ c.key # "hpf" => Request(c)[1] # "SET_HPF_BYPASS"
         /\ NameOf[c.key] = "VFO" /\ Both(c) => Request(c) = <<"SET_VFO", lastVFO, ToHertz(osdOffset)>>
         /\ NameOf[c.key] # "VFO" => Request(c)[1] # "SET_VFO"
         /\ c.key = "poll" => Request(c)[1] = "GET_STATE"
<1>1. CASE c.key = "vfo"
  <2>1. c.val \in Int /\ Request(c) = <<"SET_VFO", c.val, ToHertz(osdOffset)>>
    BY <1>1 DEF Commands, Request
  <2>2. Request(c) \in Requests
    BY <2>1, HertzAreNumbers DEF Requests
  <2> QED BY <1>1, <2>1, <2>2, NoneAssumption DEF NameOf, Both
<1>2. CASE c.key \in {"osd", "qsd"}
  <2>1. c.val \in Int /\ Request(c) = <<"SET_VFO", lastVFO, ToHertz(c.val)>>
    BY <1>2 DEF Commands, Request
  <2>2. Request(c) \in Requests
    BY <2>1, HertzAreNumbers DEF Requests
  <2> QED BY <1>2, <2>1, <2>2, NoneAssumption DEF NameOf, Both
<1>3. CASE c.key = "agc"
  <2>1. c.val \in Modes /\ Request(c) = <<"SET_AGC_MODE", c.val>>
    BY <1>3 DEF Commands, Request
  <2>2. Request(c) \in Requests
    BY <2>1 DEF Requests
  <2> QED BY <1>3, <2>1, <2>2, NoneAssumption DEF NameOf
<1>4. CASE c.key = "en"
  <2>1. Request(c) = <<"SET_AGC_MODE", IF c.val THEN 1 ELSE 0>>
    BY <1>4 DEF Request
  <2>2. Request(c) \in Requests
    BY <2>1, PathAssumption DEF Requests
  <2> QED BY <1>4, <2>1, <2>2, NoneAssumption DEF NameOf
<1>5. CASE c.key = "hpf"
  <2>1. c.val \in {0, 1} /\ Request(c) = <<"SET_HPF_BYPASS", c.val>>
    BY <1>5 DEF Commands, Request
  <2>2. Request(c) \in Requests
    BY <2>1 DEF Requests
  <2> QED BY <1>5, <2>1, <2>2, NoneAssumption DEF NameOf
<1>6. CASE c.key = "poll"
  <2>1. Request(c) = <<"GET_STATE">>
    BY <1>6 DEF Request
  <2>2. Request(c) \in Requests
    BY <2>1 DEF Requests
  <2> QED BY <1>6, <2>1, <2>2, NoneAssumption DEF NameOf
<1> QED BY <1>1, <1>2, <1>3, <1>4, <1>5, <1>6 DEF Commands, Key, Setting

LEMMA UiRequestOf ==
  ASSUME UiCalls
  PROVE  /\ UiRequest[ui] \in Requests /\ UiRequest[ui] # None
         /\ UiRequest[ui][1] \notin {"SET_VFO", "SET_HPF_BYPASS", "GET_STATE"}
         /\ ui \in {"version", "start", "bye"}
<1>1. ui \in {"version", "start", "bye"}
  BY DEF UiCalls, UiRequest
<1>2. UiRequest[ui] \in {<<"GET_VERSION">>, <<"START_STREAM">>, <<"GBYE">>}
  BY <1>1 DEF UiRequest
<1>3. UiRequest[ui] \in Requests
  BY <1>2 DEF Requests
<1> QED BY <1>1, <1>2, <1>3, NoneAssumption

\* A request that is sent is the last of its kind; others stay what they are.
LEMMA SendLast ==
  ASSUME NEW q \in Seq(Requests), NEW r \in Requests
  PROVE  LastIs(Append(q, r), r) /\ ~NoneOf(Append(q, r), r[1])
<1>1. /\ Append(q, r) \in Seq(Requests) /\ Len(Append(q, r)) = Len(q) + 1
      /\ Append(q, r)[Len(q) + 1] = r /\ Len(q) \in Nat
      /\ DOMAIN Append(q, r) = 1..Len(q) + 1
  BY AppendProperties, LenProperties
<1> QED BY <1>1 DEF LastIs, NoneOf

LEMMA SendOther ==
  ASSUME NEW q \in Seq(Requests), NEW r \in Requests, NEW s, s[1] # r[1], LastIs(q, s)
  PROVE  LastIs(Append(q, r), s) /\ (NoneOf(Append(q, r), s[1]) => NoneOf(q, s[1]))
<1>1. /\ Append(q, r) \in Seq(Requests) /\ Len(Append(q, r)) = Len(q) + 1
      /\ Append(q, r)[Len(q) + 1] = r /\ Len(q) \in Nat
      /\ DOMAIN Append(q, r) = 1..Len(q) + 1 /\ DOMAIN q = 1..Len(q)
      /\ \A i \in 1..Len(q) : Append(q, r)[i] = q[i]
  BY AppendProperties, LenProperties
<1>2. ASSUME NEW i \in DOMAIN Append(q, r), Append(q, r)[i][1] = s[1],
             \A j \in DOMAIN Append(q, r) : j > i => Append(q, r)[j][1] # s[1]
      PROVE  Append(q, r)[i] = s
  <2>1. i \in DOMAIN q
    BY <1>1, <1>2
  <2>2. \A j \in DOMAIN q : j > i => q[j][1] # s[1]
    BY <1>1, <1>2
  <2> QED BY <1>1, <1>2, <2>1, <2>2 DEF LastIs
<1>3. NoneOf(Append(q, r), s[1]) => NoneOf(q, s[1])
  BY <1>1 DEF NoneOf
<1> QED BY <1>2, <1>3 DEF LastIs

\* What is served first leaves the last of each kind; if none is left it was the last.
LEMMA ServeFirst ==
  ASSUME NEW q \in Seq(Requests), q # <<>>, NEW s, LastIs(q, s)
  PROVE  /\ LastIs(Tail(q), s)
         /\ NoneOf(Tail(q), s[1]) /\ Head(q)[1] = s[1] => Head(q) = s
         /\ NoneOf(Tail(q), s[1]) /\ Head(q)[1] # s[1] => NoneOf(q, s[1])
<1>1. /\ Tail(q) \in Seq(Requests) /\ Len(Tail(q)) = Len(q) - 1 /\ Len(q) \in Nat \ {0}
      /\ Head(q) = q[1] /\ DOMAIN q = 1..Len(q) /\ DOMAIN Tail(q) = 1..Len(q) - 1
      /\ \A i \in 1..Len(q) - 1 : Tail(q)[i] = q[i + 1]
  BY HeadTailProperties, LenProperties, EmptySeq
<1>2. ASSUME NEW i \in DOMAIN Tail(q), Tail(q)[i][1] = s[1],
             \A j \in DOMAIN Tail(q) : j > i => Tail(q)[j][1] # s[1]
      PROVE  Tail(q)[i] = s
  <2>1. i + 1 \in DOMAIN q /\ q[i + 1][1] = s[1]
    BY <1>1, <1>2
  <2>2. ASSUME NEW j \in DOMAIN q, j > i + 1 PROVE q[j][1] # s[1]
    <3>1. j - 1 \in DOMAIN Tail(q) /\ j - 1 > i /\ Tail(q)[j - 1] = q[(j - 1) + 1] /\ (j - 1) + 1 = j
      BY <1>1, <1>2, <2>2
    <3> QED BY <1>2, <3>1
  <2>3. q[i + 1] = s
    BY <2>1, <2>2 DEF LastIs
  <2> QED BY <1>1, <1>2, <2>3
<1>3. ASSUME NoneOf(Tail(q), s[1]) PROVE \A j \in DOMAIN q : j > 1 => q[j][1] # s[1]
  <2> TAKE j \in DOMAIN q
  <2> HAVE j > 1
  <2>1. j - 1 \in DOMAIN Tail(q) /\ Tail(q)[j - 1] = q[(j - 1) + 1] /\ (j - 1) + 1 = j
    BY <1>1
  <2> QED BY <1>3, <2>1 DEF NoneOf
<1>4. NoneOf(Tail(q), s[1]) /\ Head(q)[1] = s[1] => Head(q) = s
  BY <1>1, <1>3 DEF LastIs
<1>5. NoneOf(Tail(q), s[1]) /\ Head(q)[1] # s[1] => NoneOf(q, s[1])
  BY <1>1, <1>3 DEF NoneOf
<1> QED BY <1>2, <1>4, <1>5 DEF LastIs

----------------------------------------------------------------------------
(* What the parts of a step do.                                            *)

\* What sync() asks for has the type of the setting.
LEMMA WantedTypes ==
  ASSUME PathTypes
  PROVE  /\ \A k \in Setting : Wanted(k) = model[k] /\ Wanted(k) \in Values[k]
         /\ Wanted("en") \in BOOLEAN /\ Wanted("qsd") = model["osd"] /\ Wanted("qsd") \in Offsets
         /\ \A k \in Key : Wanted(k) # None
<1>1. \A k \in Setting : Wanted(k) = model[k] /\ Wanted(k) \in Values[k]
  BY DEF PathTypes, Wanted, Setting
<1>2. Wanted("en") \in BOOLEAN /\ Wanted("qsd") = model["osd"] /\ Wanted("qsd") \in Offsets
  BY ValuesAreNumbers DEF PathTypes, Wanted, Setting, Enabled
<1>3. \A k \in Key : Wanted(k) \in Int \/ Wanted(k) \in BOOLEAN
  BY <1>1, <1>2, ValuesAreNumbers, PathAssumption DEF Key
<1> QED BY <1>1, <1>2, <1>3, NoneAssumption

\* A call returns to whom it was made by.
LEMMA Finished ==
  ASSUME PathTypes, NEW a \in Answers \cup {None}, Finish(a), UiCalls \/ cmd # None
  PROVE  /\ UiCalls => /\ ui' \in {"start", "frame", "exited"} /\ cmd' = cmd /\ cached' = cached
                       /\ ui' = "start" <=> ui = "version"
         /\ ~UiCalls => /\ ui' = ui /\ cmd' = None
                        /\ cached' = cached \/ (cached' = a /\ a # None /\ cmd.key = "poll")
         /\ cmd' \in Commands \cup {None} /\ cached' \in Answers \cup {None}
<1>1. CASE UiCalls
  BY <1>1 DEF Finish, UiCalls, UiNext, UiRequest, PathTypes
<1>2. CASE ~UiCalls
  <2>1. /\ ui' = ui /\ cmd' = None
        /\ cached' = IF cmd.key = "poll" /\ a # None THEN a ELSE cached
    BY <1>2 DEF Finish
  <2>2. cached \in Answers \cup {None}
    BY DEF PathTypes
  <2> QED BY <1>2, <2>1, <2>2
<1> QED BY <1>1, <1>2

\* Asking sends the request, or fails at once.
LEMMA Asked ==
  ASSUME PathTypes, NEW r \in Requests, Ask(r), UiCalls \/ cmd # None, waiting = None
  PROVE  \/ /\ link = "up" /\ toTwin' = Append(toTwin, r) /\ waiting' = r
            /\ UNCHANGED <<ui, cmd, cached>>
         \/ /\ link = "down" /\ UNCHANGED <<toTwin, waiting>>
            /\ \/ ui' = "killed" /\ UNCHANGED <<cmd, cached>>
               \/ Finish(None)
BY DEF Ask

----------------------------------------------------------------------------
(* Types.                                                                  *)

LEMMA TypesInit == ASSUME Init PROVE PathTypes
<1>1. /\ DOMAIN model = Setting /\ \A s \in Setting : model[s] \in Values[s]
      /\ twin \in [vfo : Int, osd : Int, agc : Modes \cup {1}, hpf : {0, 1}]
  BY PathAssumption DEF Init, Setting, Values
<1>2. pending \in [ToSet(Names) -> Commands \cup {None}] /\ \A n \in ToSet(Names) : pending[n] = None
  BY DEF Init
<1>3. toTwin \in Seq(Requests) /\ toApp \in Seq(Answers)
  BY DEF Init
<1>4. \A s \in Key : lastSent[s] = None /\ DOMAIN lastSent = Key
  BY DEF Init
<1> QED BY <1>1, <1>2, <1>3, <1>4, PathAssumption DEF Init, PathTypes, Key, Setting

LEMMA TypesStep ==
  ASSUME PathTypes, CallInv, [Next]_vars
  PROVE  PathTypes'
<1> USE DEF modelVars, engineVars, callVars, wires, vars
<1>1. CASE UiAsks
  <2>1. UiRequest[ui] \in Requests /\ waiting = None
    BY <1>1, UiRequestOf DEF UiAsks
  <2>2. Ask(UiRequest[ui]) /\ (UiCalls \/ cmd # None)
    BY <1>1 DEF UiAsks
  <2>3. CASE link = "up"
    <3>1. toTwin' \in Seq(Requests)
      <4>1. toTwin \in Seq(Requests) /\ toTwin' = Append(toTwin, UiRequest[ui])
        BY <2>2, <2>3 DEF PathTypes, Ask
      <4> QED BY <2>1, <4>1, AppendProperties
    <3> QED BY <1>1, <2>1, <2>2, <2>3, <3>1 DEF PathTypes, UiAsks, Ask
  <2>4. CASE link = "down"
    <3>1. CASE Finish(None)
      <4>1. ui' \in {"start", "frame", "exited"} /\ cmd' = cmd /\ cached' = cached
        BY <1>1, <2>2, <3>1, Finished DEF UiAsks
      <4> QED BY <1>1, <2>1, <2>2, <2>4, <4>1 DEF PathTypes, UiAsks, Ask
    <3> QED BY <1>1, <2>1, <2>2, <2>4, <3>1 DEF PathTypes, UiAsks, Ask
  <2> QED BY <2>3, <2>4 DEF PathTypes
<1>2. CASE Sync
  <2>1. /\ DOMAIN lastSent' = Key /\ posting' \subseteq Key
        /\ \A k \in Key : lastSent'[k] = lastSent[k] \/ lastSent'[k] = Wanted(k)
        /\ \A k \in posting' : lastSent'[k] = Wanted(k)
    BY <1>2 DEF Sync
  <2>2. /\ \A k \in Setting : lastSent'[k] = None \/ lastSent'[k] \in Values[k]
        /\ lastSent'["en"] = None \/ lastSent'["en"] \in BOOLEAN
        /\ lastSent'["qsd"] = None \/ lastSent'["qsd"] \in Offsets
        /\ \A k \in posting' : lastSent'[k] # None
    BY <2>1, WantedTypes DEF PathTypes, Key
  <2>3. dirty' \subseteq {DirtyOf[k] : k \in Key} /\ ui' = "posting"
    BY <1>2 DEF Sync
  <2> QED BY <1>2, <2>1, <2>2, <2>3 DEF PathTypes, Sync
<1>3. CASE Post
  <2>1. PICK i \in DOMAIN SyncOrder :
          /\ SyncOrder[i] \in posting
          /\ pending' = Posted(SyncOrder[i], lastSent[SyncOrder[i]])
          /\ Keep(SyncOrder[i], lastSent[SyncOrder[i]])
          /\ posting' = posting \ {SyncOrder[i]}
    BY <1>3 DEF Post
  <2> DEFINE k == SyncOrder[i]
  <2>2. k \in Key /\ k \in posting /\ lastSent[k] # None
    BY <2>1 DEF PathTypes
  <2>3. /\ k \in {"vfo", "osd", "qsd"} => lastSent[k] \in Int
        /\ k = "hpf" => lastSent[k] \in {0, 1}
        /\ k = "agc" => lastSent[k] \in Modes
        /\ k = "en" => lastSent[k] \in BOOLEAN
    BY <2>2, ValuesAreNumbers, PathAssumption DEF PathTypes, Key, Setting
  <2>4. Command(k, lastSent[k]) \in Commands /\ Command(k, lastSent[k]).key = k
    BY <2>2, <2>3 DEF Command, Commands, Key, Setting
  <2>5. NameOf[k] \in ToSet(Names)
    BY <2>2, NamesOfKeys
  <2> HIDE DEF k
  <2>6. /\ pending' \in [ToSet(Names) -> Commands \cup {None}]
        /\ \A n \in ToSet(Names) : pending'[n] # None => NameOf[pending'[n].key] = n
    BY <2>1, <2>4, <2>5 DEF Posted, PathTypes, k
  <2>7. lastVFO' \in Int /\ osdOffset' \in Int
    BY <2>1, <2>3 DEF Keep, PathTypes, k
  <2>8. posting' \subseteq Key /\ \A j \in posting' : lastSent[j] # None
    BY <2>1 DEF PathTypes
  <2> QED BY <1>3, <2>6, <2>7, <2>8 DEF PathTypes, Post
<1>4. CASE PollPost
  <2>1. "POLL_STATE" \in ToSet(Names)
    BY NamesAre
  <2>2. Command("poll", 0) \in Commands /\ NameOf[Command("poll", 0).key] = "POLL_STATE"
    BY DEF Command, Commands, NameOf
  <2>3. /\ pending' \in [ToSet(Names) -> Commands \cup {None}]
        /\ \A n \in ToSet(Names) : pending'[n] # None => NameOf[pending'[n].key] = n
    BY <1>4, <2>1, <2>2 DEF PollPost, PathTypes
  <2> QED BY <1>4, <2>3 DEF PathTypes, PollPost
<1>5. CASE SkipPoll \/ Quit \/ QuitJoin
  BY <1>5 DEF PathTypes, SkipPoll, Quit, QuitJoin
<1>6. CASE PollRead
  <2>1. /\ ui' = "frame" /\ UNCHANGED <<lastSent, changes, posting, engineVars, callVars, wires, twin>>
        /\ DOMAIN model' = Setting /\ dirty' \subseteq {DirtyOf[k] : k \in Key}
        /\ \A s \in Setting \ {"hpf"} : model'[s] = model[s]
        /\ model'["hpf"] = model["hpf"] \/ (IsState(cached) /\ model'["hpf"] = cached[2])
    BY <1>6 DEF PollRead, PathTypes, Key, Setting, DirtyOf
  <2>2. IsState(cached) => cached[2] \in {0, 1}
    BY DEF IsState, PathTypes, Answers
  <2> QED BY <2>1, <2>2, ValuesAreNumbers DEF PathTypes
<1>7. ASSUME NEW s \in Setting, NEW v \in Values[s], Change(s, v) PROVE PathTypes'
  <2>1. DirtyOf[s] \in {DirtyOf[k] : k \in Key}
    BY DEF Key
  <2>2. changes' \in 0 .. MaxChanges
    BY <1>7, PathAssumption DEF Change, PathTypes
  <2>3. DOMAIN model' = Setting /\ \A t \in Setting : model'[t] \in Values[t]
    BY <1>7 DEF Change, PathTypes
  <2> QED BY <1>7, <2>1, <2>2, <2>3 DEF PathTypes, Change
<1>8. CASE Take
  <2>1. PICK i \in DOMAIN Names :
          /\ pending[Names[i]] # None /\ cmd' = pending[Names[i]]
          /\ pending' = [pending EXCEPT ![Names[i]] = None]
    BY <1>8 DEF Take
  <2>2. Names[i] \in ToSet(Names)
    BY DEF ToSet
  <2> QED BY <1>8, <2>1, <2>2 DEF PathTypes, Take
<1>9. CASE Run
  <2>1. cmd \in Commands /\ Request(cmd) \in Requests /\ Ask(Request(cmd)) /\ waiting = None
    BY <1>9, RequestOf DEF Run, PathTypes
  <2>2. CASE link = "up"
    <3>1. toTwin' \in Seq(Requests)
      <4>1. toTwin \in Seq(Requests) /\ toTwin' = Append(toTwin, Request(cmd))
        BY <2>1, <2>2 DEF PathTypes, Ask
      <4> QED BY <2>1, <4>1, AppendProperties
    <3> QED BY <1>9, <2>1, <2>2, <3>1 DEF PathTypes, Run, Ask
  <2>3. CASE link = "down"
    <3>1. CASE Finish(None)
      <4>1. ui' \in {ui, "start", "frame", "exited"} /\ cmd' \in Commands \cup {None} /\ cached' \in Answers \cup {None}
        BY <1>9, <3>1, Finished DEF Run
      <4> QED BY <1>9, <2>1, <2>3, <4>1 DEF PathTypes, Run, Ask
    <3> QED BY <1>9, <2>1, <2>3, <3>1 DEF PathTypes, Run, Ask
  <2> QED BY <2>2, <2>3 DEF PathTypes
<1>10. CASE Answer
  <2>1. toApp' \in Seq(Answers) /\ Head(toApp) \in Answers
    BY <1>10, HeadTailProperties DEF Answer, PathTypes
  <2>2. PICK a \in Answers \cup {None} : Finish(a)
    BY <1>10, <2>1 DEF Answer
  <2>3. ui' \in {ui, "start", "frame", "exited"} /\ cmd' \in Commands \cup {None} /\ cached' \in Answers \cup {None}
    BY <1>10, <2>2, Finished DEF Answer, CallInv
  <2> QED BY <1>10, <2>1, <2>3 DEF PathTypes, Answer
<1>11. CASE GiveUp
  <2>1. ui' \in {ui, "start", "frame", "exited"} /\ cmd' \in Commands \cup {None} /\ cached' \in Answers \cup {None}
    BY <1>11, Finished DEF GiveUp, CallInv
  <2>2. timeouts' \in 0 .. MaxTimeouts
    BY <1>11, PathAssumption DEF GiveUp, PathTypes
  <2> QED BY <1>11, <2>1, <2>2 DEF PathTypes, GiveUp
<1>12. CASE TwinServes
  <2> DEFINE r == Head(toTwin)
  <2>1. r \in Requests /\ toTwin' \in Seq(Requests)
    BY <1>12, HeadTailProperties DEF TwinServes, PathTypes
  <2>2. toApp' \in Seq(Answers)
    <3>1. twin.hpf \in {0, 1}
      BY DEF PathTypes
    <3>2. PICK a : a \in Answers /\ toApp' = Append(toApp, a)
      BY <1>12, <3>1 DEF TwinServes, Answers
    <3> QED BY <3>2, AppendProperties DEF PathTypes
  <2>3. twin' \in [vfo : Int, osd : Int, agc : Modes \cup {1}, hpf : {0, 1}]
    <3>1. /\ r[1] = "SET_VFO" => r[2] \in Int /\ r[3] \in Int
          /\ r[1] = "SET_AGC_MODE" => r[2] \in Modes \cup {1}
          /\ r[1] = "SET_HPF_BYPASS" => r[2] \in {0, 1}
      BY <2>1 DEF Requests
    <3> QED BY <1>12, <3>1 DEF TwinServes, PathTypes
  <2> QED BY <1>12, <2>1, <2>2, <2>3 DEF PathTypes, TwinServes
<1>13. CASE LinkDrops
  <2>1. toTwin' = <<>> /\ (toApp' = toApp \/ toApp' = <<>>) /\ toApp \in Seq(Answers)
    BY <1>13 DEF PathTypes, LinkDrops
  <2>2. <<>> \in Seq(Requests) /\ <<>> \in Seq(Answers)
    OBVIOUS
  <2>3. toTwin' \in Seq(Requests) /\ toApp' \in Seq(Answers)
    BY <2>1, <2>2
  <2> QED BY <1>13, <2>3 DEF PathTypes, LinkDrops
<1>14. CASE UNCHANGED vars
  BY <1>14 DEF PathTypes
<1> QED BY <1>1, <1>2, <1>3, <1>4, <1>5, <1>6, <1>7, <1>8, <1>9, <1>10, <1>11, <1>12, <1>13, <1>14
        DEF Next, User, Ui, CommandThread

----------------------------------------------------------------------------
(* Who calls, and what is awaited.                                         *)

LEMMA CallStep ==
  ASSUME PathTypes, CallInv, [Next]_vars
  PROVE  CallInv'
<1> USE DEF modelVars, engineVars, callVars, wires, vars
<1>0. UiCalls <=> ui \in {"version", "start", "bye"}
  BY DEF UiCalls, UiRequest
<1>a. UiCalls' <=> ui' \in {"version", "start", "bye"}
  BY DEF UiCalls, UiRequest
<1>1. CASE UiAsks
  <2>1. Ask(UiRequest[ui]) /\ cmd = None /\ waiting = None
    BY <1>1 DEF UiAsks, CallInv
  <2>2. CASE link = "up"
    BY <1>1, <2>1, <2>2, <1>0, <1>a DEF UiAsks, Ask, CallInv
  <2>3. CASE link = "down" /\ Finish(None)
    <3>1. ui' \in {"start", "frame", "exited"} /\ cmd' = cmd /\ (ui' = "start" <=> ui = "version")
      BY <1>1, <2>3, Finished DEF UiAsks
    <3> QED BY <1>1, <2>1, <2>3, <3>1, <1>0, <1>a DEF UiAsks, Ask, CallInv
  <2>4. CASE link = "down" /\ ui' = "killed"
    BY <1>1, <2>1, <2>4, <1>0, <1>a DEF UiAsks, Ask, CallInv
  <2> QED BY <2>1, <2>2, <2>3, <2>4 DEF Ask
<1>2. CASE Sync
  BY <1>2, <1>0, <1>a DEF CallInv, Sync
<1>3. CASE Post
  BY <1>3, <1>0, <1>a DEF CallInv, Post, Keep
<1>4. CASE PollPost \/ SkipPoll
  BY <1>4, <1>0, <1>a DEF CallInv, PollPost, SkipPoll
<1>5. CASE Quit \/ QuitJoin
  BY <1>5, <1>0, <1>a DEF CallInv, Quit, QuitJoin
<1>6. CASE PollRead
  BY <1>6, <1>0, <1>a DEF CallInv, PollRead
<1>7. ASSUME NEW s \in Setting, NEW v \in Values[s], Change(s, v) PROVE CallInv'
  BY <1>7, <1>0, <1>a DEF CallInv, Change
<1>8. CASE Take
  <2>1. PICK i \in DOMAIN Names : pending[Names[i]] # None
    BY <1>8 DEF Take
  <2>2. Names[i] \in ToSet(Names)
    BY DEF ToSet
  <2>3. ~UiCalls /\ waiting = None
    BY <1>8, <2>1, <2>2, <1>0 DEF Take, CallInv
  <2> QED BY <1>8, <2>3, <1>0, <1>a DEF CallInv, Take
<1>9. CASE Run
  <2>1. cmd \in Commands /\ cmd # None /\ Ask(Request(cmd)) /\ ~UiCalls /\ waiting = None
    BY <1>9 DEF Run, PathTypes, CallInv
  <2>2. cmd.key = "poll" => Request(cmd)[1] = "GET_STATE"
    BY <2>1, RequestOf DEF PathTypes
  <2>3. CASE link = "up"
    BY <1>9, <2>1, <2>2, <2>3, <1>0, <1>a DEF Run, Ask, CallInv
  <2>4. CASE link = "down" /\ Finish(None)
    <3>1. ui' = ui /\ waiting' = waiting
      BY <2>1, <2>4, Finished DEF Ask
    <3> QED BY <1>9, <2>1, <3>1, <1>0, <1>a DEF Run, CallInv
  <2>5. CASE link = "down" /\ ui' = "killed"
    BY <1>9, <2>1, <2>5, <1>0, <1>a DEF Run, Ask, CallInv
  <2> QED BY <2>1, <2>3, <2>4, <2>5 DEF Ask
<1>10. ASSUME NEW a \in Answers \cup {None}, Finish(a), waiting # None, waiting' = None,
              UNCHANGED <<posting, pending>>
       PROVE  CallInv'
  <2>1. /\ UiCalls => ui' \in {"start", "frame", "exited"} /\ cmd' = cmd
        /\ UiCalls => (ui' = "start" <=> ui = "version")
        /\ ~UiCalls => ui' = ui /\ cmd' = None
    BY <1>10, Finished DEF CallInv
  <2> QED BY <1>10, <2>1, <1>0, <1>a DEF CallInv
<1>11. CASE Answer
  <2>1. Head(toApp) \in Answers
    BY <1>11, HeadTailProperties DEF Answer, PathTypes
  <2> QED BY <1>10, <1>11, <2>1 DEF Answer
<1>12. CASE GiveUp
  BY <1>10, <1>12 DEF GiveUp
<1>13. CASE TwinServes \/ LinkDrops
  BY <1>13, <1>0, <1>a DEF CallInv, TwinServes, LinkDrops
<1>14. CASE UNCHANGED vars
  BY <1>14, <1>0, <1>a DEF CallInv
<1> QED BY <1>1, <1>2, <1>3, <1>4, <1>5, <1>6, <1>7, <1>8, <1>9, <1>11, <1>12, <1>13, <1>14
        DEF Next, User, Ui, CommandThread

----------------------------------------------------------------------------
(* The lag of answers.                                                     *)

LEMMA LagStep ==
  ASSUME PathTypes, CallInv, LagInv, [Next]_vars
  PROVE  LagInv'
<1> USE DEF modelVars, engineVars, callVars, wires, vars
<1>0. Len(toTwin) \in Nat /\ Len(toApp) \in Nat /\ timeouts \in Nat
  BY LenProperties DEF PathTypes
<1>1. ASSUME UNCHANGED <<toTwin, toApp, link, waiting, timeouts>> PROVE LagInv'
  BY <1>1 DEF LagInv, AnswersLag
<1>2. ASSUME NEW r \in Requests, r # None, Ask(r), waiting = None, UNCHANGED <<toApp, link, timeouts>>
      PROVE  LagInv'
  <2>1. CASE link = "up"
    <3>1. Len(toTwin') = Len(toTwin) + 1 /\ waiting' = r
      <4>1. toTwin \in Seq(Requests) /\ toTwin' = Append(toTwin, r)
        BY <1>2, <2>1 DEF PathTypes, Ask
      <4> QED BY <1>2, <2>1, <4>1, AppendProperties DEF Ask
    <3> QED BY <1>0, <1>2, <2>1, <3>1 DEF LagInv, AnswersLag
  <2>2. CASE link = "down"
    BY <1>1, <1>2, <2>2 DEF Ask
  <2> QED BY <2>1, <2>2 DEF PathTypes
<1>3. CASE UiAsks
  BY <1>2, <1>3, UiRequestOf DEF UiAsks
<1>4. CASE Run
  <2>1. Request(cmd) \in Requests /\ Request(cmd) # None
    BY <1>4, RequestOf DEF Run, PathTypes
  <2> QED BY <1>2, <1>4, <2>1 DEF Run
<1>5. CASE Answer
  <2>1. Len(toApp') = Len(toApp) - 1
    BY <1>5, HeadTailProperties DEF Answer, PathTypes
  <2>2. waiting # None /\ waiting' = None /\ UNCHANGED <<toTwin, link, timeouts>>
    BY <1>5 DEF Answer
  <2> QED BY <1>0, <2>1, <2>2 DEF LagInv, AnswersLag
<1>6. CASE GiveUp
  <2>1. Len(toApp) = 0 /\ waiting # None /\ waiting' = None /\ UNCHANGED <<toTwin, toApp, link>>
    BY <1>6 DEF GiveUp
  <2>2. CASE link = "up"
    <3>1. timeouts' = timeouts + 1
      BY <1>6, <2>2 DEF GiveUp
    <3> QED BY <1>0, <2>1, <2>2, <3>1 DEF LagInv, AnswersLag
  <2>3. CASE link = "down"
    <3>1. timeouts' = timeouts /\ Len(toTwin) = 0
      BY <1>6, <2>3 DEF GiveUp, LagInv
    <3> QED BY <1>0, <2>1, <2>3, <3>1 DEF LagInv, AnswersLag
  <2> QED BY <2>2, <2>3 DEF PathTypes
<1>7. CASE TwinServes
  <2>1. Len(toTwin') = Len(toTwin) - 1
    BY <1>7, HeadTailProperties DEF TwinServes, PathTypes
  <2>2. Len(toApp') = Len(toApp) + 1
    BY <1>7 DEF TwinServes, PathTypes
  <2>3. link = "up" /\ UNCHANGED <<waiting, timeouts, link>>
    BY <1>7 DEF TwinServes
  <2> QED BY <1>0, <2>1, <2>2, <2>3 DEF LagInv, AnswersLag
<1>8. CASE LinkDrops
  <2>1. Len(toTwin') = 0 /\ link' = "down" /\ (Len(toApp') = Len(toApp) \/ Len(toApp') = 0)
    BY <1>8 DEF LinkDrops
  <2> QED BY <1>0, <1>8, <2>1 DEF LinkDrops, LagInv, AnswersLag
<1>9. CASE Sync \/ Post \/ PollPost \/ SkipPoll \/ Quit \/ QuitJoin \/ PollRead \/ Take
  BY <1>1, <1>9 DEF Sync, Post, PollPost, SkipPoll, Quit, QuitJoin, PollRead, Take
<1>10. ASSUME NEW s \in Setting, NEW v \in Values[s], Change(s, v) PROVE LagInv'
  BY <1>1, <1>10 DEF Change
<1>11. CASE UNCHANGED vars
  BY <1>1, <1>11
<1> QED BY <1>3, <1>4, <1>5, <1>6, <1>7, <1>8, <1>9, <1>10, <1>11 DEF Next, User, Ui, CommandThread

----------------------------------------------------------------------------
(* States polled.                                                          *)

LEMMA PollStep ==
  ASSUME PathTypes, CallInv, LagInv, PollInv, [Next]_vars
  PROVE  PollInv'
<1> USE DEF modelVars, engineVars, callVars, wires, vars
<1>0. Len(toTwin) \in Nat /\ Len(toApp) \in Nat /\ timeouts \in Nat
  BY LenProperties DEF PathTypes
<1>1. ASSUME UNCHANGED <<toTwin, toApp, waiting, timeouts, cached>> PROVE PollInv'
  BY <1>1 DEF PollInv, PollsGetStates, IsState
<1>2. ASSUME NEW a \in Answers \cup {None}, Finish(a), waiting' = None, UiCalls \/ cmd # None,
             cmd # None /\ ~UiCalls /\ cmd.key = "poll" /\ a # None /\ timeouts' = 0 => a[1] = "STATE",
             timeouts' = 0 => timeouts = 0
      PROVE  PollInv'
  <2>1. cached' = cached \/ (~UiCalls /\ cmd # None /\ cached' = a /\ a # None /\ cmd.key = "poll")
    BY <1>2, Finished
  <2> QED BY <1>2, <2>1 DEF PollInv, PollsGetStates, IsState
<1>3. ASSUME NEW r \in Requests, r # None, Ask(r), waiting = None, UiCalls \/ cmd # None,
             UNCHANGED <<toApp, link, timeouts>>
      PROVE  PollInv'
  <2>1. CASE link = "up"
    <3>1. toTwin' = Append(toTwin, r) /\ waiting' = r /\ cached' = cached
      BY <1>3, <2>1 DEF Ask
    <3>2. ASSUME timeouts = 0 PROVE toTwin' = <<r>> /\ toApp = <<>>
      <4>1. Len(toTwin) = 0 /\ Len(toApp) = 0
        BY <1>0, <1>3, <2>1, <3>2 DEF LagInv, AnswersLag
      <4>2. toTwin = <<>> /\ toApp = <<>>
        BY <4>1, EmptySeq DEF PathTypes
      <4> QED BY <3>1, <4>2
    <3>3. timeouts = 0 => toTwin'[1] = waiting' /\ toApp' = <<>>
      BY <1>3, <3>1, <3>2
    <3> QED BY <1>3, <3>1, <3>3 DEF PollInv, PollsGetStates, IsState
  <2>2. CASE link = "down" /\ Finish(None)
    BY <1>2, <1>3, <2>2 DEF Ask
  <2>3. CASE link = "down" /\ ui' = "killed" /\ UNCHANGED <<cmd, cached>>
    BY <1>1, <1>3, <2>3 DEF Ask
  <2> QED BY <1>3, <2>1, <2>2, <2>3 DEF Ask, PathTypes
<1>4. CASE UiAsks
  BY <1>3, <1>4, UiRequestOf DEF UiAsks
<1>5. CASE Run
  <2>1. Request(cmd) \in Requests /\ Request(cmd) # None
    BY <1>5, RequestOf DEF Run, PathTypes
  <2> QED BY <1>3, <1>5, <2>1 DEF Run
<1>6. CASE Answer
  <2>1. toApp # <<>> /\ waiting # None /\ waiting' = None /\ timeouts' = timeouts
    BY <1>6 DEF Answer
  <2>2. Head(toApp) \in Answers /\ Head(toApp) = toApp[1]
    BY <2>1, HeadTailProperties DEF PathTypes
  <2>3. PICK a \in Answers \cup {None} : Finish(a) /\ a \in {None, Head(toApp)}
    BY <1>6, <2>2 DEF Answer
  <2>4. ASSUME cmd # None, ~UiCalls, cmd.key = "poll", a # None, timeouts' = 0 PROVE a[1] = "STATE"
    <3>1. waiting[1] = "GET_STATE" /\ timeouts = 0
      BY <2>1, <2>4 DEF CallInv
    <3> QED BY <2>1, <2>2, <2>3, <2>4, <3>1 DEF PollInv
  <2>5. UiCalls \/ cmd # None
    BY <2>1 DEF CallInv
  <2> QED BY <1>2, <2>1, <2>3, <2>4, <2>5
<1>7. CASE GiveUp
  <2>1. waiting' = None /\ Finish(None) /\ (timeouts' = 0 => timeouts = 0) /\ (UiCalls \/ cmd # None)
    BY <1>0, <1>7 DEF GiveUp, CallInv
  <2> QED BY <1>2, <2>1
<1>8. CASE TwinServes
  <2>1. UNCHANGED <<cached, waiting, timeouts>> /\ toTwin # <<>> /\ link = "up"
    BY <1>8 DEF TwinServes
  <2>2. Head(toTwin) = toTwin[1] /\ Len(toTwin') = Len(toTwin) - 1 /\ Len(toTwin) > 0
        /\ toTwin' \in Seq(Requests)
    BY <1>8, HeadTailProperties, EmptySeq, <1>0 DEF TwinServes, PathTypes
  <2>3. ASSUME timeouts = 0, waiting # None
        PROVE  toTwin' = <<>> /\ (waiting[1] = "GET_STATE" => toApp'[1][1] = "STATE")
    <3>1. Len(toTwin) = 1 /\ Len(toApp) = 0
      BY <1>0, <2>1, <2>2, <2>3 DEF LagInv
    <3>2. toTwin' = <<>> /\ toApp = <<>>
      BY <2>2, <3>1, EmptySeq DEF PathTypes
    <3>3. toTwin[1] = waiting
      BY <2>1, <2>3 DEF PollInv
    <3>4. ASSUME waiting[1] = "GET_STATE" PROVE toApp' = <<<<"STATE", twin.hpf>>>>
      BY <1>8, <2>2, <3>2, <3>3, <3>4 DEF TwinServes
    <3> QED BY <3>2, <3>4
  <2> QED BY <2>1, <2>3 DEF PollInv, PollsGetStates, IsState
<1>9. CASE LinkDrops
  <2>1. UNCHANGED <<cached, waiting, timeouts>> /\ toTwin' = <<>> /\ (toApp' = toApp \/ toApp' = <<>>)
    BY <1>9 DEF LinkDrops
  <2> QED BY <2>1 DEF PollInv, PollsGetStates, IsState
<1>10. CASE Sync \/ Post \/ PollPost \/ SkipPoll \/ Quit \/ QuitJoin \/ PollRead \/ Take
  BY <1>1, <1>10 DEF Sync, Post, PollPost, SkipPoll, Quit, QuitJoin, PollRead, Take
<1>11. ASSUME NEW s \in Setting, NEW v \in Values[s], Change(s, v) PROVE PollInv'
  BY <1>1, <1>11 DEF Change
<1>12. CASE UNCHANGED vars
  BY <1>1, <1>12
<1> QED BY <1>4, <1>5, <1>6, <1>7, <1>8, <1>9, <1>10, <1>11, <1>12 DEF Next, User, Ui, CommandThread

----------------------------------------------------------------------------
(* Commands and settings.                                                  *)

\* A frame that has nothing to post of a setting leaves what was sent last of it.
LEMMA Synced ==
  ASSUME PathTypes, CallInv, Sync
  PROVE  /\ posting = {} /\ posting' \subseteq Key
         /\ \A k \in Key : k \notin posting' => lastSent'[k] = lastSent[k]
         /\ "qsd" \in posting' => /\ lastSent'["osd"] = lastSent["osd"] /\ "osd" \notin posting'
                                  /\ lastSent'["osd"] # None /\ lastSent'["qsd"] = lastSent'["osd"]
<1>1. posting = {} /\ posting' \subseteq Key /\ \A k \in Key : k \notin posting' => lastSent'[k] = lastSent[k]
  BY DEF Sync, CallInv
<1>2. ASSUME "qsd" \in posting' PROVE lastSent["osd"] = model["osd"] /\ lastSent'["qsd"] = Wanted("qsd")
  BY <1>2 DEF Sync, Key
<1>3. "qsd" \in posting' => "osd" \notin posting'
  BY <1>2, WantedTypes DEF Sync, Setting
<1>4. "osd" \in Key /\ Wanted("qsd") = model["osd"] /\ Wanted("qsd") # None
  BY WantedTypes DEF Key, Setting
<1> QED BY <1>1, <1>2, <1>3, <1>4

\* One key is posted: its name gets the command, and its half of the pair is kept.
LEMMA PostedKey ==
  ASSUME PathTypes, Post
  PROVE  \E k \in posting :
           /\ pending' = [pending EXCEPT ![NameOf[k]] = Command(k, lastSent[k])]
           /\ lastVFO' = IF k = "vfo" THEN lastSent[k] ELSE lastVFO
           /\ osdOffset' = IF k \in {"osd", "qsd"} THEN lastSent[k] ELSE osdOffset
           /\ posting' = posting \ {k} /\ k \in Key
           /\ UNCHANGED <<ui, modelVars, callVars, wires, twin>>
BY DEF Post, Posted, Keep, PathTypes

LEMMA HalvesStep ==
  ASSUME PathTypes, CallInv, HalvesInv, [Next]_vars
  PROVE  HalvesInv'
<1> USE DEF modelVars, engineVars, callVars, wires, vars
<1>1. CASE Sync
  BY <1>1, Synced DEF HalvesInv, Sync, Key, Setting
<1>2. CASE Post
  BY <1>2, PostedKey DEF HalvesInv
<1>3. CASE UNCHANGED <<lastSent, posting, lastVFO, osdOffset>>
  BY <1>3 DEF HalvesInv
<1>4. UNCHANGED <<lastSent, posting, lastVFO, osdOffset>> \/ Sync \/ Post
  BY DEF Next, User, Ui, CommandThread, UiAsks, PollPost, SkipPoll, Quit, QuitJoin, PollRead, Take, Run,
         Answer, GiveUp, TwinServes, LinkDrops, Change
<1> QED BY <1>1, <1>2, <1>3, <1>4

\* The command taken, and what is left pending.
LEMMA Taken ==
  ASSUME PathTypes, CallInv, Take
  PROVE  /\ cmd = None /\ waiting = None /\ waiting' = None
         /\ \E n \in ToSet(Names) :
              /\ pending[n] # None /\ cmd' = pending[n] /\ pending[n] \in Commands
              /\ pending' = [pending EXCEPT ![n] = None] /\ NameOf[cmd'.key] = n
         /\ UNCHANGED <<modelVars, posting, lastVFO, osdOffset, wires, twin>>
<1>1. PICK i \in DOMAIN Names :
        /\ pending[Names[i]] # None /\ cmd' = pending[Names[i]]
        /\ pending' = [pending EXCEPT ![Names[i]] = None]
  BY DEF Take
<1>2. Names[i] \in ToSet(Names)
  BY DEF ToSet
<1>3. ~UiCalls /\ cmd = None
  BY <1>1, <1>2 DEF Take, CallInv, UiCalls, UiRequest
<1>4. waiting = None /\ waiting' = None
  BY <1>3 DEF Take, CallInv
<1>5. NameOf[cmd'.key] = Names[i] /\ pending[Names[i]] \in Commands
  BY <1>1, <1>2 DEF PathTypes
<1> QED BY <1>1, <1>2, <1>3, <1>4, <1>5 DEF Take

LEMMA VfoStep ==
  ASSUME PathTypes, CallInv, VfoInv, [Next]_vars
  PROVE  VfoInv'
<1> USE DEF modelVars, engineVars, callVars, wires, vars
<1> DEFINE s == <<"SET_VFO", lastVFO, ToHertz(osdOffset)>>
<1>1. ASSUME UNCHANGED <<lastSent, posting, lastVFO, osdOffset, pending, cmd, waiting, toTwin, link, twin>>
      PROVE  VfoInv'
  BY <1>1 DEF VfoInv, Both, LastIs, NoneOf
<1>2. CASE Sync
  BY <1>2, Synced DEF VfoInv, Both, LastIs, NoneOf, Sync, Key, Setting
<1>3. CASE Post
  <2>1. PICK k \in posting :
           /\ pending' = [pending EXCEPT ![NameOf[k]] = Command(k, lastSent[k])]
           /\ lastVFO' = IF k = "vfo" THEN lastSent[k] ELSE lastVFO
           /\ osdOffset' = IF k \in {"osd", "qsd"} THEN lastSent[k] ELSE osdOffset
           /\ posting' = posting \ {k} /\ k \in Key
           /\ UNCHANGED <<ui, modelVars, callVars, wires, twin>>
    BY <1>3, PostedKey
  <2>2. NameOf[k] \in ToSet(Names) /\ "VFO" \in ToSet(Names) /\ (NameOf[k] = "VFO" <=> k \in {"vfo", "osd", "qsd"})
    BY <2>1, NamesAre, NamesOfKeys
  <2>3. CASE NameOf[k] = "VFO"
    <3>1. pending'["VFO"] = Command(k, lastSent[k])
      BY <2>1, <2>2, <2>3 DEF PathTypes
    <3>2. lastSent[k] \in Int
      BY <2>1, <2>2, <2>3, ValuesAreNumbers, PathAssumption DEF PathTypes, Setting
    <3>3. Command(k, lastSent[k]) # None
      <4>1. Command(k, lastSent[k]) \in Commands
        BY <2>2, <2>3, <3>2 DEF Command, Commands
      <4> QED BY <4>1, NoneAssumption
    <3>4. (k = "vfo" => lastSent[k] = lastVFO') /\ (k \in {"osd", "qsd"} => lastSent[k] = osdOffset')
      BY <2>1
    <3> QED BY <3>1, <3>3, <3>4 DEF VfoInv, Both, Command
  <2>4. CASE NameOf[k] # "VFO"
    <3>1. pending'["VFO"] = pending["VFO"] /\ lastVFO' = lastVFO /\ osdOffset' = osdOffset
          /\ ("vfo" \in posting' <=> "vfo" \in posting)
      BY <2>1, <2>2, <2>4 DEF PathTypes
    <3> QED BY <2>1, <3>1 DEF VfoInv, Both, LastIs, NoneOf
  <2> QED BY <2>3, <2>4
<1>4. CASE PollPost
  <2>1. pending'["VFO"] = pending["VFO"]
    BY <1>4, NamesAre DEF PollPost, PathTypes
  <2> QED BY <1>4, <2>1 DEF PollPost, VfoInv, Both, LastIs, NoneOf
<1>5. CASE Take
  <2>1. PICK n \in ToSet(Names) :
          /\ pending[n] # None /\ cmd' = pending[n]
          /\ pending' = [pending EXCEPT ![n] = None] /\ NameOf[cmd'.key] = n
    BY <1>5, Taken
  <2>2. /\ cmd = None /\ waiting = None /\ waiting' = None
        /\ UNCHANGED <<lastSent, posting, lastVFO, osdOffset, toTwin, link, twin>>
    BY <1>5, Taken
  <2>3. "VFO" \in ToSet(Names)
    BY NamesAre
  <2>4. CASE n = "VFO"
    <3>1. pending'["VFO"] = None /\ cmd' = pending["VFO"] /\ pending["VFO"] # None
      BY <2>1, <2>3, <2>4 DEF PathTypes
    <3> QED BY <2>1, <2>2, <2>4, <3>1 DEF VfoInv, Both
  <2>5. CASE n # "VFO"
    <3>1. pending'["VFO"] = pending["VFO"]
      BY <2>1, <2>3, <2>5 DEF PathTypes
    <3> QED BY <2>1, <2>2, <2>5, <3>1 DEF VfoInv, Both, LastIs, NoneOf
  <2> QED BY <2>4, <2>5
<1>6. CASE Run
  <2>1. /\ cmd \in Commands /\ cmd # None /\ waiting = None /\ Ask(Request(cmd))
        /\ UNCHANGED <<lastSent, posting, lastVFO, osdOffset, pending, link, twin>>
    BY <1>6 DEF Run, PathTypes
  <2>2. CASE link = "up"
    <3> DEFINE r == Request(cmd)
    <3>1. toTwin' = Append(toTwin, r) /\ waiting' = r /\ cmd' = cmd
      BY <2>1, <2>2 DEF Ask
    <3>2. r \in Requests /\ r # None /\ toTwin \in Seq(Requests)
      BY <2>1, RequestOf DEF PathTypes
    <3>3. CASE NameOf[cmd.key] = "VFO" /\ Both(cmd)
      <4>1. r = s
        BY <2>1, <3>3, RequestOf DEF PathTypes
      <4>2. LastIs(toTwin', s) /\ ~NoneOf(toTwin', "SET_VFO")
        BY <3>1, <3>2, <4>1, SendLast
      <4>3. LastIs(toTwin, s)' /\ ~NoneOf(toTwin, "SET_VFO")'
        BY <2>1, <4>2 DEF LastIs, NoneOf
      <4>4. CASE pending["VFO"] = None
        BY <2>1, <3>1, <3>2, <4>3, <4>4 DEF VfoInv
      <4>5. CASE pending["VFO"] # None
        BY <2>1, <4>5 DEF VfoInv, Both
      <4> QED BY <4>4, <4>5
    <3>4. CASE NameOf[cmd.key] # "VFO"
      <4>1. r[1] # "SET_VFO"
        BY <2>1, <3>4, RequestOf DEF PathTypes
      <4>2. LastIs(toTwin, s) => LastIs(toTwin', s) /\ (NoneOf(toTwin', "SET_VFO") => NoneOf(toTwin, "SET_VFO"))
        BY <3>1, <3>2, <4>1, SendOther
      <4>3. LastIs(toTwin, s) => LastIs(toTwin, s)' /\ (NoneOf(toTwin, "SET_VFO")' => NoneOf(toTwin, "SET_VFO"))
        BY <2>1, <4>2 DEF LastIs, NoneOf
      <4> QED BY <2>1, <3>1, <3>2, <3>4, <4>3 DEF VfoInv, Both
    <3>5. CASE NameOf[cmd.key] = "VFO" /\ ~Both(cmd)
      BY <2>1, <3>5 DEF VfoInv, Both
    <3> HIDE DEF r
    <3> QED BY <3>3, <3>4, <3>5
  <2>3. CASE link = "down"
    BY <2>1, <2>3 DEF VfoInv
  <2> QED BY <2>2, <2>3 DEF PathTypes
<1>7. CASE UiAsks
  <2>1. /\ cmd = None /\ waiting = None /\ Ask(UiRequest[ui])
        /\ UNCHANGED <<lastSent, posting, lastVFO, osdOffset, pending, link, twin>>
    BY <1>7 DEF UiAsks, CallInv
  <2>2. CASE link = "up"
    <3> DEFINE r == UiRequest[ui]
    <3>1. toTwin' = Append(toTwin, r) /\ waiting' = r /\ cmd' = cmd
      BY <2>1, <2>2 DEF Ask
    <3>2. r \in Requests /\ r # None /\ toTwin \in Seq(Requests) /\ r[1] # "SET_VFO"
      BY <1>7, UiRequestOf DEF PathTypes, UiAsks
    <3>3. LastIs(toTwin, s) => LastIs(toTwin', s) /\ (NoneOf(toTwin', "SET_VFO") => NoneOf(toTwin, "SET_VFO"))
      BY <3>1, <3>2, SendOther
    <3>4. LastIs(toTwin, s) => LastIs(toTwin, s)' /\ (NoneOf(toTwin, "SET_VFO")' => NoneOf(toTwin, "SET_VFO"))
      BY <2>1, <3>3 DEF LastIs, NoneOf
    <3> QED BY <2>1, <3>1, <3>2, <3>4 DEF VfoInv, Both
  <2>3. CASE link = "down"
    BY <2>1, <2>3 DEF VfoInv
  <2> QED BY <2>2, <2>3 DEF PathTypes
<1>8. CASE Answer \/ GiveUp
  <2>1. /\ waiting # None /\ waiting' = None /\ \E a : Finish(a)
        /\ UNCHANGED <<lastSent, posting, lastVFO, osdOffset, pending, toTwin, link, twin>>
    BY <1>8 DEF Answer, GiveUp
  <2>2. cmd' = None
    BY <2>1 DEF Finish, CallInv
  <2> QED BY <2>1, <2>2 DEF VfoInv, Both, LastIs, NoneOf
<1>9. CASE TwinServes
  <2>1. /\ toTwin # <<>> /\ toTwin' = Tail(toTwin) /\ toTwin \in Seq(Requests) /\ link = "up"
        /\ UNCHANGED <<lastSent, posting, lastVFO, osdOffset, pending, cmd, waiting, link>>
    BY <1>9 DEF TwinServes, PathTypes
  <2>2. LastIs(toTwin, s) =>
          /\ LastIs(toTwin, s)'
          /\ NoneOf(toTwin, "SET_VFO")' => Head(toTwin) = s \/ (Head(toTwin)[1] # "SET_VFO" /\ NoneOf(toTwin, "SET_VFO"))
    <3>1. LastIs(toTwin, s) =>
            /\ LastIs(Tail(toTwin), s)
            /\ NoneOf(Tail(toTwin), "SET_VFO") =>
                 Head(toTwin) = s \/ (Head(toTwin)[1] # "SET_VFO" /\ NoneOf(toTwin, "SET_VFO"))
      BY <2>1, ServeFirst
    <3> QED BY <2>1, <3>1 DEF LastIs, NoneOf
  <2>3. Head(toTwin)[1] # "SET_VFO" => twin'.vfo = twin.vfo /\ twin'.osd = twin.osd
    BY <1>9 DEF TwinServes, PathTypes
  <2>4. Head(toTwin) = s => twin'.vfo = lastVFO /\ twin'.osd = ToHertz(osdOffset)
    BY <1>9 DEF TwinServes, PathTypes
  <2> QED BY <2>1, <2>2, <2>3, <2>4 DEF VfoInv, Both
<1>10. CASE LinkDrops
  BY <1>10 DEF LinkDrops, VfoInv
<1>11. CASE SkipPoll \/ Quit \/ QuitJoin \/ PollRead
  BY <1>1, <1>11 DEF SkipPoll, Quit, QuitJoin, PollRead
<1>12. ASSUME NEW t \in Setting, NEW v \in Values[t], Change(t, v) PROVE VfoInv'
  BY <1>1, <1>12 DEF Change
<1>13. CASE UNCHANGED vars
  BY <1>1, <1>13
<1> QED BY <1>2, <1>3, <1>4, <1>5, <1>6, <1>7, <1>8, <1>9, <1>10, <1>11, <1>12, <1>13
        DEF Next, User, Ui, CommandThread

LEMMA HpfStep ==
  ASSUME PathTypes, CallInv, HpfInv, [Next]_vars
  PROVE  HpfInv'
<1> USE DEF modelVars, engineVars, callVars, wires, vars
<1> DEFINE s == <<"SET_HPF_BYPASS", lastSent["hpf"]>>
<1>1. ASSUME UNCHANGED <<lastSent, posting, pending, cmd, waiting, toTwin, link, twin>>
      PROVE  HpfInv'
  BY <1>1 DEF HpfInv, LastIs, NoneOf
<1>2. CASE Sync
  BY <1>2, Synced DEF HpfInv, LastIs, NoneOf, Sync, Key, Setting
<1>3. CASE Post
  <2>1. PICK k \in posting :
           /\ pending' = [pending EXCEPT ![NameOf[k]] = Command(k, lastSent[k])]
           /\ posting' = posting \ {k} /\ k \in Key
           /\ UNCHANGED <<ui, modelVars, callVars, wires, twin>>
    BY <1>3, PostedKey
  <2>2. NameOf[k] \in ToSet(Names) /\ "HPF_BYPASS" \in ToSet(Names) /\ (NameOf[k] = "HPF_BYPASS" <=> k = "hpf")
    BY <2>1, NamesAre, NamesOfKeys
  <2>3. CASE k = "hpf"
    <3>1. pending'["HPF_BYPASS"] = Command(k, lastSent[k])
      BY <2>1, <2>2, <2>3 DEF PathTypes
    <3>2. lastSent[k] \in {0, 1}
      BY <2>1, <2>2, <2>3, ValuesAreNumbers DEF PathTypes, Setting
    <3>3. Command(k, lastSent[k]) # None
      <4>1. Command(k, lastSent[k]) \in Commands
        BY <2>3, <3>2 DEF Command, Commands
      <4> QED BY <4>1, NoneAssumption
    <3> QED BY <2>1, <2>3, <3>1, <3>3 DEF HpfInv, Command
  <2>4. CASE k # "hpf"
    <3>1. pending'["HPF_BYPASS"] = pending["HPF_BYPASS"] /\ ("hpf" \in posting' <=> "hpf" \in posting)
      BY <2>1, <2>2, <2>4 DEF PathTypes
    <3> QED BY <2>1, <3>1 DEF HpfInv, LastIs, NoneOf
  <2> QED BY <2>3, <2>4
<1>4. CASE PollPost
  <2>1. pending'["HPF_BYPASS"] = pending["HPF_BYPASS"]
    BY <1>4, NamesAre DEF PollPost, PathTypes
  <2> QED BY <1>4, <2>1 DEF PollPost, HpfInv, LastIs, NoneOf
<1>5. CASE Take
  <2>1. PICK n \in ToSet(Names) :
          /\ pending[n] # None /\ cmd' = pending[n] /\ pending[n] \in Commands
          /\ pending' = [pending EXCEPT ![n] = None] /\ NameOf[cmd'.key] = n
    BY <1>5, Taken
  <2>2. /\ cmd = None /\ waiting = None /\ waiting' = None
        /\ UNCHANGED <<lastSent, posting, toTwin, link, twin>>
    BY <1>5, Taken
  <2>3. "HPF_BYPASS" \in ToSet(Names) /\ (n = "HPF_BYPASS" <=> cmd'.key = "hpf")
    <3>1. cmd'.key \in Key \cup {"poll"}
      BY <2>1 DEF Commands, Key, Setting
    <3> QED BY <2>1, <3>1, NamesAre, NamesOfKeys
  <2>4. CASE n = "HPF_BYPASS"
    <3>1. pending'["HPF_BYPASS"] = None /\ cmd' = pending["HPF_BYPASS"] /\ pending["HPF_BYPASS"] # None
      BY <2>1, <2>3, <2>4 DEF PathTypes
    <3> QED BY <2>1, <2>2, <2>3, <2>4, <3>1 DEF HpfInv
  <2>5. CASE n # "HPF_BYPASS"
    <3>1. pending'["HPF_BYPASS"] = pending["HPF_BYPASS"]
      BY <2>1, <2>3, <2>5 DEF PathTypes
    <3> QED BY <2>1, <2>2, <2>3, <2>5, <3>1 DEF HpfInv, LastIs, NoneOf
  <2> QED BY <2>4, <2>5
<1>6. CASE Run
  <2>1. /\ cmd \in Commands /\ cmd # None /\ waiting = None /\ Ask(Request(cmd))
        /\ UNCHANGED <<lastSent, posting, pending, link, twin>>
    BY <1>6 DEF Run, PathTypes
  <2>2. CASE link = "up"
    <3> DEFINE r == Request(cmd)
    <3>1. toTwin' = Append(toTwin, r) /\ waiting' = r /\ cmd' = cmd
      BY <2>1, <2>2 DEF Ask
    <3>2. r \in Requests /\ r # None /\ toTwin \in Seq(Requests)
      BY <2>1, RequestOf DEF PathTypes
    <3>3. CASE cmd.key = "hpf" /\ cmd.val = lastSent["hpf"]
      <4>1. r = s
        BY <2>1, <3>3, RequestOf DEF PathTypes
      <4>2. LastIs(toTwin', s) /\ ~NoneOf(toTwin', "SET_HPF_BYPASS")
        BY <3>1, <3>2, <4>1, SendLast
      <4>3. LastIs(toTwin, s)' /\ ~NoneOf(toTwin, "SET_HPF_BYPASS")'
        BY <2>1, <4>2 DEF LastIs, NoneOf
      <4>4. CASE pending["HPF_BYPASS"] = None
        BY <2>1, <3>1, <3>2, <4>3, <4>4 DEF HpfInv
      <4>5. CASE pending["HPF_BYPASS"] # None
        BY <2>1, <4>5 DEF HpfInv
      <4> QED BY <4>4, <4>5
    <3>4. CASE cmd.key # "hpf"
      <4>1. r[1] # "SET_HPF_BYPASS"
        BY <2>1, <3>4, RequestOf DEF PathTypes
      <4>2. LastIs(toTwin, s) =>
              LastIs(toTwin', s) /\ (NoneOf(toTwin', "SET_HPF_BYPASS") => NoneOf(toTwin, "SET_HPF_BYPASS"))
        BY <3>1, <3>2, <4>1, SendOther
      <4>3. LastIs(toTwin, s) =>
              LastIs(toTwin, s)' /\ (NoneOf(toTwin, "SET_HPF_BYPASS")' => NoneOf(toTwin, "SET_HPF_BYPASS"))
        BY <2>1, <4>2 DEF LastIs, NoneOf
      <4> QED BY <2>1, <3>1, <3>2, <3>4, <4>3 DEF HpfInv
    <3>5. CASE cmd.key = "hpf" /\ cmd.val # lastSent["hpf"]
      BY <2>1, <3>5 DEF HpfInv
    <3> HIDE DEF r
    <3> QED BY <3>3, <3>4, <3>5
  <2>3. CASE link = "down"
    BY <2>1, <2>3 DEF HpfInv
  <2> QED BY <2>2, <2>3 DEF PathTypes
<1>7. CASE UiAsks
  <2>1. /\ cmd = None /\ waiting = None /\ Ask(UiRequest[ui])
        /\ UNCHANGED <<lastSent, posting, pending, link, twin>>
    BY <1>7 DEF UiAsks, CallInv
  <2>2. CASE link = "up"
    <3> DEFINE r == UiRequest[ui]
    <3>1. toTwin' = Append(toTwin, r) /\ waiting' = r /\ cmd' = cmd
      BY <2>1, <2>2 DEF Ask
    <3>2. r \in Requests /\ r # None /\ toTwin \in Seq(Requests) /\ r[1] # "SET_HPF_BYPASS"
      BY <1>7, UiRequestOf DEF PathTypes, UiAsks
    <3>3. LastIs(toTwin, s) =>
            LastIs(toTwin', s) /\ (NoneOf(toTwin', "SET_HPF_BYPASS") => NoneOf(toTwin, "SET_HPF_BYPASS"))
      BY <3>1, <3>2, SendOther
    <3>4. LastIs(toTwin, s) =>
            LastIs(toTwin, s)' /\ (NoneOf(toTwin, "SET_HPF_BYPASS")' => NoneOf(toTwin, "SET_HPF_BYPASS"))
      BY <2>1, <3>3 DEF LastIs, NoneOf
    <3> QED BY <2>1, <3>1, <3>2, <3>4 DEF HpfInv
  <2>3. CASE link = "down"
    BY <2>1, <2>3 DEF HpfInv
  <2> QED BY <2>2, <2>3 DEF PathTypes
<1>8. CASE Answer \/ GiveUp
  <2>1. /\ waiting # None /\ waiting' = None /\ \E a : Finish(a)
        /\ UNCHANGED <<lastSent, posting, pending, toTwin, link, twin>>
    BY <1>8 DEF Answer, GiveUp
  <2>2. cmd' = None
    BY <2>1 DEF Finish, CallInv
  <2> QED BY <2>1, <2>2 DEF HpfInv, LastIs, NoneOf
<1>9. CASE TwinServes
  <2>1. /\ toTwin # <<>> /\ toTwin' = Tail(toTwin) /\ toTwin \in Seq(Requests) /\ link = "up"
        /\ UNCHANGED <<lastSent, posting, pending, cmd, waiting, link>>
    BY <1>9 DEF TwinServes, PathTypes
  <2>2. LastIs(toTwin, s) =>
          /\ LastIs(toTwin, s)'
          /\ NoneOf(toTwin, "SET_HPF_BYPASS")' =>
               Head(toTwin) = s \/ (Head(toTwin)[1] # "SET_HPF_BYPASS" /\ NoneOf(toTwin, "SET_HPF_BYPASS"))
    <3>1. LastIs(toTwin, s) =>
            /\ LastIs(Tail(toTwin), s)
            /\ NoneOf(Tail(toTwin), "SET_HPF_BYPASS") =>
                 Head(toTwin) = s \/ (Head(toTwin)[1] # "SET_HPF_BYPASS" /\ NoneOf(toTwin, "SET_HPF_BYPASS"))
      BY <2>1, ServeFirst
    <3> QED BY <2>1, <3>1 DEF LastIs, NoneOf
  <2>3. Head(toTwin)[1] # "SET_HPF_BYPASS" => twin'.hpf = twin.hpf
    BY <1>9 DEF TwinServes, PathTypes
  <2>4. Head(toTwin) = s => twin'.hpf = lastSent["hpf"]
    BY <1>9 DEF TwinServes, PathTypes
  <2> QED BY <2>1, <2>2, <2>3, <2>4 DEF HpfInv
<1>10. CASE LinkDrops
  BY <1>10 DEF LinkDrops, HpfInv
<1>11. CASE SkipPoll \/ Quit \/ QuitJoin \/ PollRead
  BY <1>1, <1>11 DEF SkipPoll, Quit, QuitJoin, PollRead
<1>12. ASSUME NEW t \in Setting, NEW v \in Values[t], Change(t, v) PROVE HpfInv'
  BY <1>1, <1>12 DEF Change
<1>13. CASE UNCHANGED vars
  BY <1>1, <1>13
<1> QED BY <1>2, <1>3, <1>4, <1>5, <1>6, <1>7, <1>8, <1>9, <1>10, <1>11, <1>12, <1>13
        DEF Next, User, Ui, CommandThread

----------------------------------------------------------------------------
(* The theorems.                                                           *)

PathInv == PathTypes /\ CallInv /\ LagInv /\ PollInv /\ HalvesInv /\ VfoInv /\ HpfInv

LEMMA PathStarts == ASSUME Init PROVE PathInv
<1>1. PathTypes
  BY TypesInit
<1>2. CallInv /\ HalvesInv /\ VfoInv /\ HpfInv
  BY NamesAre DEF Init, CallInv, UiCalls, HalvesInv, VfoInv, HpfInv, Key, Setting
<1>3. Len(toTwin) = 0 /\ Len(toApp) = 0
  BY DEF Init
<1>4. LagInv /\ PollInv
  BY <1>3 DEF Init, LagInv, AnswersLag, PollInv, PollsGetStates
<1> QED BY <1>1, <1>2, <1>4 DEF PathInv

\* The invariant of the control path, as a whole inductive: types; who may call and what is
\* awaited (GUIEngine.cpp's controlMutex and joins); what is on the connection; and where the
\* newest command of each setting is.
THEOREM PathInvariant == Spec => []PathInv
<1>1. Init => PathInv
  BY PathStarts
<1>2. PathInv /\ [Next]_vars => PathInv'
  BY TypesStep, CallStep, LagStep, PollStep, HalvesStep, VfoStep, HpfStep DEF PathInv
<1> QED BY <1>1, <1>2, PTL DEF Spec

\* Types, with no more messages on the connection than calls that were given up and one, and
\* never both calls of rx.setNcoFreq in one frame.
THEOREM ControlTypeCorrect == Spec => []TypeOK
<1>1. PathInv => TypeOK
  <2> SUFFICES ASSUME PathInv PROVE TypeOK
    OBVIOUS
  <2>1. ~({"osd", "qsd"} \subseteq posting)
    BY DEF PathInv, HalvesInv
  <2>2. Len(toTwin) + Len(toApp) <= 1 + timeouts
    <3>1. Len(toTwin) \in Nat /\ Len(toApp) \in Nat /\ timeouts \in Nat
      BY LenProperties DEF PathInv, PathTypes
    <3> QED BY <3>1 DEF PathInv, LagInv
  <2>3. DOMAIN pending = ToSet(Names)
    BY DEF PathInv, PathTypes
  <2>4. twin.agc \in Modes \cup {1}
    BY DEF PathInv, PathTypes
  <2> QED BY <2>1, <2>2, <2>3, <2>4 DEF PathInv, PathTypes, TypeOK
<1> QED BY <1>1, PathInvariant, PTL

\* Whatever is asked, answered or given up: while the connection is up, the requests and
\* answers on it are those given up and the one awaited.  Since an answer is taken for the
\* call that waits (TCPControlClient.cpp:52-64), this is by how much answers lag.
THEOREM AnswersAlwaysLag == Spec => []AnswersLag
<1>1. PathInv => AnswersLag
  BY DEF PathInv, LagInv
<1> QED BY <1>1, PathInvariant, PTL

\* What GUIEngine::getTwinState() caches is what the twin answered to GET_STATE, as long as
\* no call has been given up.
THEOREM PollsAreStates == Spec => []PollsGetStates
<1>1. PathInv => PollsGetStates
  BY DEF PathInv, PollInv
<1> QED BY <1>1, PathInvariant, PTL

\* Coalescing commands by name (GUIEngine::postTwinCommand) loses no setting, however the
\* frames, the commands, timeouts and the twin interleave: when no command of the pair VFO
\* and OSD, or of the HPF, is on its way, the twin has the numbers sent for what Hardware.lua believes
\* it has, the offset in hertz.
THEOREM SettledAlwaysAgrees == Spec => []SettledTwinAgrees
<1>1. PathInv => SettledTwinAgrees
  <2> SUFFICES ASSUME PathInv PROVE SettledTwinAgrees
    OBVIOUS
  <2>0. DOMAIN pending = ToSet(Names) /\ {"VFO", "HPF_BYPASS"} \subseteq ToSet(Names)
    BY NamesAre DEF PathInv, PathTypes
  <2>1. ASSUME Quiet({"hpf"}) PROVE twin.hpf = lastSent["hpf"]
    <3>1. link = "up" /\ lastSent["hpf"] # None /\ "hpf" \notin posting
      BY <2>1 DEF Quiet, Setting
    <3>2. pending["HPF_BYPASS"] = None
      <4>1. ASSUME pending["HPF_BYPASS"] # None PROVE FALSE
        <5>1. pending["HPF_BYPASS"] \in Commands /\ NameOf[pending["HPF_BYPASS"].key] = "HPF_BYPASS"
          BY <2>0, <4>1 DEF PathInv, PathTypes
        <5>2. pending["HPF_BYPASS"].key \in Key \cup {"poll"}
          BY <5>1 DEF Commands, Key, Setting
        <5> QED BY <2>0, <2>1, <4>1, <5>1, <5>2, NamesOfKeys DEF Quiet
      <4> QED BY <4>1
    <3>3. NoneOf(toTwin, "SET_HPF_BYPASS")
      BY <2>1 DEF Quiet, NoneOf, AskedBy
    <3> QED BY <2>1, <3>1, <3>2, <3>3 DEF PathInv, HpfInv, Quiet
  <2>2. ASSUME Quiet({"vfo", "osd", "qsd"}) PROVE twin.vfo = lastSent["vfo"] /\ twin.osd = ToHertz(lastSent["osd"])
    <3>1. /\ link = "up" /\ lastSent["vfo"] # None /\ lastSent["osd"] # None
          /\ "vfo" \notin posting /\ "osd" \notin posting
      BY <2>2 DEF Quiet, Setting
    <3>2. pending["VFO"] = None
      <4>1. ASSUME pending["VFO"] # None PROVE FALSE
        <5>1. pending["VFO"] \in Commands /\ NameOf[pending["VFO"].key] = "VFO"
          BY <2>0, <4>1 DEF PathInv, PathTypes
        <5>2. pending["VFO"].key \in Key \cup {"poll"}
          BY <5>1 DEF Commands, Key, Setting
        <5> QED BY <2>0, <2>2, <4>1, <5>1, <5>2, NamesOfKeys DEF Quiet
      <4> QED BY <4>1
    <3>3. cmd = None \/ NameOf[cmd.key] # "VFO"
      <4>1. cmd # None => cmd.key \in Key \cup {"poll"}
        BY DEF PathInv, PathTypes, Commands, Key, Setting
      <4> QED BY <2>2, <4>1, NamesOfKeys DEF Quiet
    <3>4. NoneOf(toTwin, "SET_VFO")
      BY <2>2 DEF Quiet, NoneOf, AskedBy
    <3>5. lastVFO = lastSent["vfo"] /\ osdOffset = lastSent["osd"]
      BY <3>1 DEF PathInv, HalvesInv
    <3> QED BY <3>1, <3>2, <3>3, <3>4, <3>5 DEF PathInv, VfoInv
  <2> QED BY <2>1, <2>2 DEF SettledTwinAgrees
<1> QED BY <1>1, PathInvariant, PTL
=============================================================================
