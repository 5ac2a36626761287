----------------------------- MODULE MCReceive -----------------------------
(***************************************************************************)
(* The application for TLC, but for its control path: its receiving side,  *)
(* and the reactive values and rules its scripts are built on.  These      *)
(* machines share no variable, so one run checks them one after the other: *)
(* the initial state says which of them moves, and the others stay as they *)
(* are.                                                                    *)
(***************************************************************************)
EXTENDS UdpStream, AppSession, AudioBuffer, HistoryRing, RuleBox, FiniteSetsExt

VARIABLE part

received == <<udpVars, sessionVars, audioVars, historyVars>>
scripted == <<reactiveVars, boxVars>>
vars == <<part, received, scripted>>

\* Functions of scripts.  A computed value reads another observable or not, as the first one says; the
\* second fails for one value of the first.  One watch reads an observable and what is computed from it,
\* in this order; one sets an observable, out of dependency tracking; one sets one between two reads.
Answers(value) == [op |-> "return", value |-> value]
Reads(n, then) == [op |-> "get", from |-> n, on |-> then]
Sets(o, value, then) == [op |-> "set", to |-> o, value |-> value, then |-> then]
MCBodies ==
  [c |-> Reads("x", [v \in Known |-> IF v = 1 THEN Reads("y", [u \in Known |-> Answers(u)]) ELSE Answers(0)]),
   d |-> Reads("c", [v \in Known |-> IF v = 1 THEN [op |-> "fail"]
                                     ELSE Reads("x", [u \in Known |-> Answers(u)])]),
   w1 |-> Reads("x", [v \in Known |-> Reads("d", [u \in Known |-> Answers(0)])]),
   w2 |-> Reads("c", [v \in Known |-> [op |-> "untrack", then |->
            Reads("x", [u \in Known |-> Sets("y", v, Answers(0))])]]),
   w3 |-> Reads("y", [v \in Known |-> Sets("x", 0, Reads("d", [u \in Known |-> Answers(0)]))])]

\* A function's points, and how many may come after each.
RECURSIVE After(_), RankOf(_)
After(point) ==
  {point} \cup (CASE point.op = "get" -> UNION {After(point.on[v]) : v \in Known}
                  [] point.op \in {"set", "untrack"} -> After(point.then)
                  [] OTHER -> {})
RankOf(point) ==
  IF point.op # "get" THEN 0
  ELSE 1 + Max({RankOf(point.on[v]) : v \in Known}
               \cup (IF point.from \in Computeds THEN {RankOf(MCBodies[point.from])} ELSE {}))
MCPoints == UNION {After(MCBodies[r]) : r \in Readers}
MCPure == UNION {After(MCBodies[c]) : c \in Computeds}
MCRank == [point \in MCPure |-> RankOf(point)]

\* A rule of default values and one for two tags; then one that takes the values away, one with a
\* condition, and two settings of the user.
Base == [id |-> "base", tags |-> {}, priority |-> 0, when |-> FALSE, apply |-> [p |-> 0, q |-> 0]]
Override(value) == [id |-> "override", tags |-> {}, priority |-> 9, when |-> FALSE, apply |-> [p |-> value]]
MCFirstRules == <<Base, [Base EXCEPT !.id = "tagged", !.tags = {"s", "t"}, !.apply = [p |-> 1]]>>
MCDefinitions ==
  {[Base EXCEPT !.apply = <<>>], [Base EXCEPT !.id = "when", !.tags = {"s"}, !.when = TRUE],
   Override(3), Override(4)}

Init ==
  /\ part \in {"udp", "session", "audio", "history", "reactive", "rules"}
  /\ UdpInit /\ SessionInit /\ AudioInit /\ HistoryInit /\ ReactiveInit /\ BoxInit

OnlyAudio == part = "audio" /\ UNCHANGED <<part, udpVars, sessionVars, historyVars, scripted>>

Next ==
  \/ part = "udp" /\ UdpNext /\ UNCHANGED <<part, sessionVars, audioVars, historyVars, scripted>>
  \/ part = "session" /\ SessionNext /\ UNCHANGED <<part, udpVars, audioVars, historyVars, scripted>>
  \/ AudioNext /\ OnlyAudio
  \/ part = "history" /\ HistoryNext /\ UNCHANGED <<part, udpVars, sessionVars, audioVars, scripted>>
  \/ part = "reactive" /\ ReactiveNext /\ UNCHANGED <<part, received, boxVars>>
  \/ part = "rules" /\ BoxNext /\ UNCHANGED <<part, received, reactiveVars>>

Spec == Init /\ [][Next]_vars /\ WF_vars(Write /\ OnlyAudio)

\* Silence ends while samples come, unless buffering began on a full ring or the user clears
\* the ring (AudioBuffer's property, where that is the machine that moves).
SilenceEnds == part = "audio" => SilenceEndsUnlessStranded
=============================================================================
