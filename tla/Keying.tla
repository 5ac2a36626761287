------------------------------- MODULE Keying -------------------------------
(***************************************************************************)
(* MorseGenerator.cpp: a text as a sequence of key events, looked up with  *)
(* the index of the last one found; the text and the speed may be set, and *)
(* time may go on, stand still, or go back, between two look-ups.          *)
(*                                                                         *)
(* Time is counted in integer units, a dit being several.  An envelope is  *)
(* where on its edge it is, "full", or "off"; its cosine is left out.      *)
(***************************************************************************)
EXTENDS Integers, SequencesExt

CONSTANTS Texts,       \* texts set, sequences of characters
          Speeds,      \* words per minute asked for
          MinuteUnits, \* time units of a dit at one word per minute
          EdgeUnits,   \* envelopeTime_ms_
          LastLookUp   \* bound: times looked up

ASSUME KeyingAssumption ==
  /\ Texts \subseteq Seq(STRING) /\ Speeds \subseteq Int
  /\ {MinuteUnits, EdgeUnits, LastLookUp} \subseteq Nat \ {0}

VARIABLES
  morse,    \* text_, ditDuration_s_, repeat_, sequence_, totalDuration_s_, lastEventIdx_ (from 1)
  lookedUp  \* history: the time of the latest getEnvelope() and what it returned

morseVars == <<morse, lookedUp>>

\* morseTable, the characters the model uses; nullptr for any other.
Table == [E |-> <<1>>, T |-> <<3>>, A |-> <<1, 3>>, I |-> <<1, 1>>, S |-> <<1, 1, 1>>,
          R |-> <<1, 3, 1>>, P |-> <<1, 3, 3, 1>>]
Known(c) == c \in DOMAIN Table

\* One event after those so far.
Then(built, units, down) ==
  [built EXCEPT !.events = Append(@, [start |-> built.time, units |-> units, down |-> down]),
                !.time = @ + units]

\* The elements of a character, a dit of silence between them.
Elements(built, pattern) ==
  FoldLeftDomain(LAMBDA b, i : Then(IF i = 1 THEN b ELSE Then(b, 1, FALSE), pattern[i], TRUE),
                 built, pattern)

\* One character: the gap before it, unless it is the first; four more dits for a space.
Character(built, c) ==
  CASE c = " " -> IF built.first THEN built ELSE Then(built, 4, FALSE)
    [] c # " " /\ ~Known(c) -> built
    [] OTHER -> [Elements(IF built.first THEN built ELSE Then(built, 3, FALSE), Table[c])
                   EXCEPT !.first = FALSE]

\* The sequence in dits.
BuildSequence(text) ==
  FoldLeft(Character, [events |-> <<>>, time |-> 0, first |-> TRUE], text)

\* The constructor's, setText()'s and setWpm()'s: the index stays.
Rebuild(m, text, dit) ==
  LET built == BuildSequence(text) IN
  [m EXCEPT !.text = text, !.dit = dit, !.total = built.time * dit,
            !.events = [i \in DOMAIN built.events |->
                          [start |-> built.events[i].start * dit,
                           end |-> (built.events[i].start + built.events[i].units) * dit,
                           down |-> built.events[i].down]]]

NotLookedUp == [is |-> FALSE, at |-> 0, as |-> <<"off", 0>>]

SetText(text) == morse' = Rebuild(morse, text, morse.dit) /\ lookedUp' = NotLookedUp

\* At least one word per minute.
SetWpm(wpm) ==
  /\ morse' = Rebuild(morse, morse.text, MinuteUnits \div (IF wpm < 1 THEN 1 ELSE wpm))
  /\ lookedUp' = NotLookedUp

ResetMorse == morse' = [morse EXCEPT !.index = 1] /\ UNCHANGED lookedUp

Keyers ==
  {Rebuild([text |-> <<>>, dit |-> 1, repeat |-> repeat, events |-> <<>>, total |-> 0, index |-> 1],
           text, MinuteUnits) : repeat \in BOOLEAN, text \in Texts}

MorseInit ==
  /\ morse \in Keyers
  /\ lookedUp = NotLookedUp

----------------------------------------------------------------------------
Smaller(a, b) == IF a < b THEN a ELSE b

\* The edges take at most half the element.
EdgeAt(pos, duration) ==
  LET edge == Smaller(2 * EdgeUnits, duration) IN
  CASE 2 * pos < edge -> <<"up", pos>>
    [] 2 * pos >= edge /\ 2 * (duration - pos) < edge -> <<"down", duration - pos>>
    [] OTHER -> <<"full", 0>>

\* The end belongs to the event as well.
CoversEnd(event, t) == event.start <= t /\ t <= event.end
Covers(event, t) == event.start <= t /\ t < event.end
Shape(event, t) == IF event.down THEN EdgeAt(t - event.start, event.end - event.start)
                   ELSE <<"off", 0>>

\* A word gap before the text starts again.
EffectiveTime(t) ==
  IF morse.repeat /\ morse.total > 0 THEN t % (morse.total + 7 * morse.dit) ELSE t

\* From the beginning, as getSample() looks; 0 when no event covers the time.
FirstCovering(t) == SelectInSeq(morse.events, LAMBDA event : Covers(event, t))

\* Where the search begins: at the last index, unless that is past the end or later than the time.
SearchFrom(t) ==
  IF morse.index > Len(morse.events) \/ t < morse.events[morse.index].start THEN 1 ELSE morse.index

\* The event found and the index left behind.
Found(t) ==
  LET from == SearchFrom(t)
      ahead == {i \in from..Len(morse.events) : Covers(morse.events[i], t)}
      behind == {i \in 1..from-1 : Covers(morse.events[i], t)}
      fast == morse.index <= Len(morse.events) /\ Covers(morse.events[morse.index], t)
  IN CASE fast -> [event |-> morse.index, index |-> morse.index]
       [] ~fast /\ ahead # {} -> LET i == CHOOSE k \in ahead : \A l \in ahead : k <= l
                                 IN [event |-> i, index |-> i]
       [] ~fast /\ ahead = {} /\ behind # {} ->
            LET i == CHOOSE k \in behind : \A l \in behind : k <= l IN [event |-> i, index |-> i]
       [] OTHER -> [event |-> 0, index |-> from]

\* getEnvelope(timeS), for getRfIQ() and generateBatch().
LookUp(t) ==
  /\ IF morse.events = <<>>
     THEN lookedUp' = [is |-> TRUE, at |-> t, as |-> <<"off", 0>>] /\ UNCHANGED morse
     ELSE LET found == Found(EffectiveTime(t)) IN
          /\ lookedUp' = [is |-> TRUE, at |-> t,
                          as |-> IF found.event = 0 THEN <<"off", 0>>
                                 ELSE Shape(morse.events[found.event], EffectiveTime(t))]
          /\ morse' = [morse EXCEPT !.index = found.index]

MorseNext ==
  \/ \E text \in Texts : SetText(text)
  \/ \E wpm \in Speeds : SetWpm(wpm)
  \/ ResetMorse
  \/ \E t \in 0..LastLookUp : LookUp(t)

----------------------------------------------------------------------------
\* The key's dits by the rules of the code: an element's dits down, one dit up between elements,
\* three between characters, seven between words.
Dits(pattern) ==
  FoldLeftDomain(LAMBDA dits, i : dits \o (IF i = 1 THEN <<>> ELSE <<0>>)
                                       \o [k \in 1..pattern[i] |-> 1], <<>>, pattern)
KeyDits(text) ==
  LET sent == SelectSeq(text, LAMBDA c : c = " " \/ Known(c))
      gap(i) == IF i = 1 THEN 0 ELSE IF sent[i - 1] = " " THEN 7 ELSE 3
  IN FoldLeftDomain(LAMBDA dits, i : IF sent[i] = " " THEN dits
                                     ELSE dits \o [k \in 1..gap(i) |-> 0] \o Dits(Table[sent[i]]),
                    <<>>, sent)

\* No space at an end or after another (a text of spaces alone is silent either way).
WellSpaced(text) ==
  LET sent == SelectSeq(text, LAMBDA c : c = " " \/ Known(c)) IN
  /\ sent # <<>> => Head(sent) # " " /\ Last(sent) # " "
  /\ \A i \in 1..Len(sent)-1 : ~(sent[i] = " " /\ sent[i + 1] = " ")

\* Whatever was looked up before, and through changes of text and speed, the envelope at a time is
\* that of the event at that time, and the key is down exactly as the code of the text says.
KeyedAsWritten ==
  lookedUp.is =>
    LET t == EffectiveTime(lookedUp.at)
        first == FirstCovering(t)
        dits == KeyDits(morse.text)
        dit == t \div morse.dit + 1
    IN /\ lookedUp.as = IF first = 0 THEN <<"off", 0>> ELSE Shape(morse.events[first], t)
       /\ WellSpaced(morse.text) =>
            (lookedUp.as[1] # "off" <=> dit <= Len(dits) /\ dits[dit] = 1)

\* At W words per minute the word PARIS and the gap after it take a W-th of a minute: 50 dits.
ParisIsFifty == BuildSequence(<<"P", "A", "R", "I", "S">>).time + 7 = 50

\* The keyed carrier says its text at its speed.
KeyingRight == KeyedAsWritten /\ ParisIsFifty
=============================================================================
