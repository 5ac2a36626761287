------------------------------ MODULE Reactive ------------------------------
(***************************************************************************)
(* Reactive.lua: observables, computed values that recompute when read,    *)
(* watches that run when what they read changes, and batches that put      *)
(* their runs off.  One thread, but calls within calls: set() runs through *)
(* the dependents in the order of a hash table, a watch it runs sets       *)
(* further observables, and so on, with the first loop half done.          *)
(*                                                                         *)
(* The functions it runs put themselves into the very tables these loops   *)
(* run through, and then Lua does not say what next() gives: a table may   *)
(* have moved its keys, and a loop over it may come to one again, end      *)
(* early or raise an error.                                                *)
(*                                                                         *)
(* A function is a tree: what it reads and, for each answer, what it does  *)
(* next.  The stack holds the functions and loops that have not returned.  *)
(* peek() and the calls that only ask are left out.                        *)
(***************************************************************************)
EXTENDS Naturals, Sequences

CONSTANTS
  Observables, Computeds, Watches,
  FirstValue,  \* values at the start
  Values,      \* values the user sets
  Nothing,     \* nil
  Known,       \* all values
  Points,      \* what may be left of a function
  Pure, Rank,  \* the points of computed values' functions; how many more there can be
  Bodies,      \* the function of each computed value and of each watch
  MaxUses      \* bound

Nodes == Observables \cup Computeds
Readers == Computeds \cup Watches

\* What a point does, and that it goes on at one of these.
GoesOnIn(point, points) ==
  CASE point.op = "get" -> point.from \in Nodes /\ point.on \in [Known -> points]
    [] point.op = "set" -> point.to \in Observables /\ point.value \in Known /\ point.then \in points
    [] point.op = "untrack" -> point.then \in points
    [] point.op = "return" -> point.value \in Known
    [] OTHER -> point.op = "fail"

\* Watches do what they like.  The functions of computed values only read, and in no circle.
ASSUME ReactiveAssumption ==
  /\ Observables \cap Computeds = {} /\ Nodes \cap Watches = {}
  /\ {FirstValue, Nothing} \cup Values \subseteq Known
  /\ Bodies \in [Readers -> Points] /\ \A point \in Points : GoesOnIn(point, Points)
  /\ Rank \in [Pure -> Nat] /\ \A c \in Computeds : Bodies[c] \in Pure
  /\ \A point \in Pure :
       /\ point.op \in {"get", "return", "fail"} /\ GoesOnIn(point, Pure)
       /\ point.op = "get" =>
            /\ \A v \in Known : Rank[point.on[v]] < Rank[point]
            /\ point.from \in Computeds => Rank[Bodies[point.from]] < Rank[point]

VARIABLES
  cells,    \* value, cached, dirty, and both sides of the dependencies
  watchers, \* running, disposed and live watches; batchDepth and pendingNotifications
  calls,    \* the stack, innermost first
  noted,    \* what each watch saw in its last run, and those that missed a change while they ran
  tables,   \* the loops, by their height in the stack, whose table has moved its keys; whether one of
            \* them was cut short
  uses      \* calls of the user so far

reactiveVars == <<cells, watchers, calls, noted, tables, uses>>

ReactiveInit ==
  /\ cells = [value |-> [o \in Observables |-> FirstValue], cached |-> [c \in Computeds |-> Nothing],
              dirty |-> Computeds, dependents |-> [n \in Nodes |-> {}], dependencies |-> [r \in Readers |-> {}]]
  /\ watchers = [live |-> {}, running |-> {}, disposed |-> {}, depth |-> 0, pending |-> {}]
  /\ calls = <<>>
  /\ noted = [saw |-> [w \in Watches |-> {}], missed |-> {}]
  /\ tables = [moved |-> {}, cut |-> FALSE]
  /\ uses = 0

----------------------------------------------------------------------------
Inner == Head(calls)
Running(kind) == calls # <<>> /\ Inner.kind = kind
Body(op) == Running("body") /\ Inner.rest.op = op
Becomes(call) == <<call>> \o Tail(calls)
GoesOn(rest) == [Inner EXCEPT !.rest = rest]

\* What reading or marking calls.
Begins(r) == [kind |-> "body", who |-> r, rest |-> Bodies[r], tracked |-> TRUE]
Marks(n) == [kind |-> "mark", of |-> n, among |-> cells.dependents[n], done |-> {}]

\* Before it runs, a reader forgets what it depended on.
Forgotten(r) ==
  [cells EXCEPT !.dependents = [n \in Nodes |-> IF n \in cells.dependencies[r] THEN @[n] \ {r} ELSE @[n]],
                !.dependencies[r] = {}]

\* A plausible slip: a value that need not be computed anew is returned before the reader is registered.
RegisteredIfDirty(n) ==
  IF Inner.tracked /\ (n \in Computeds => n \in cells.dirty)
  THEN [cells EXCEPT !.dependents[n] = @ \cup {Inner.who}, !.dependencies[Inner.who] = @ \cup {n}]
  ELSE cells

\* get() registers whoever runs: currentComputed, unless it was put aside.
Registered(n) ==
  IF Inner.tracked
  THEN [cells EXCEPT !.dependents[n] = @ \cup {Inner.who}, !.dependencies[Inner.who] = @ \cup {n}]
  ELSE cells

\* The loops over the dependents of n that have not ended.
Over(n) == {Len(calls) - i + 1 : i \in {j \in DOMAIN calls : calls[j].kind = "mark" /\ calls[j].of = n}}

\* A key that is put into a table may move the others, or not.
MayMove(n) ==
  IF Inner.tracked /\ Inner.who \notin cells.dependents[n]
  THEN {tables, [tables EXCEPT !.moved = @ \cup Over(n)]} ELSE {tables}

Answer(n) == IF n \in Observables THEN cells.value[n] ELSE cells.cached[n]

----------------------------------------------------------------------------
(* A body, step by step.                                                   *)

Get ==
  /\ Body("get")
  /\ LET n == Inner.rest.from
     IN IF n \in cells.dirty
        THEN /\ cells' = LET told == Registered(n)
                         IN [told EXCEPT !.dependencies[n] = {},
                                         !.dependents = [m \in Nodes |-> @[m] \ (IF m \in told.dependencies[n]
                                                                                 THEN {n} ELSE {})]]
             /\ calls' = <<Begins(n)>> \o calls
             /\ UNCHANGED noted
        ELSE /\ cells' = Registered(n)
             /\ calls' = Becomes(GoesOn(Inner.rest.on[Answer(n)]))
             /\ noted' = IF Inner.tracked /\ Inner.who \in Watches
                         THEN [noted EXCEPT !.saw[Inner.who] = @ \cup {<<n, Answer(n)>>}] ELSE noted
  /\ tables' \in MayMove(Inner.rest.from)
  /\ UNCHANGED <<watchers, uses>>

\* What calls set(): it stores a value that is new and goes through the dependents.
Stored(o, v) == [cells EXCEPT !.value[o] = v]

Set ==
  /\ Body("set")
  /\ LET o == Inner.rest.to
         same == cells.value[o] = Inner.rest.value
         after == Becomes(GoesOn(Inner.rest.then))
     IN /\ cells' = Stored(o, Inner.rest.value)
        /\ calls' = IF same THEN after ELSE <<Marks(o)>> \o after
  /\ UNCHANGED <<watchers, noted, tables, uses>>

\* untrack(), and a watch() of one value: what follows is not depended on.
Untrack ==
  /\ Body("untrack")
  /\ calls' = Becomes([Inner EXCEPT !.rest = Inner.rest.then, !.tracked = FALSE])
  /\ UNCHANGED <<cells, watchers, noted, tables, uses>>

\* A computed value whose function fails is nil; a watch that fails is done.
Return ==
  /\ Running("body") /\ Inner.rest.op \in {"return", "fail"}
  /\ IF Inner.who \in Computeds
     THEN /\ cells' = [cells EXCEPT !.dirty = @ \ {Inner.who},
                                    !.cached[Inner.who] = IF Inner.rest.op = "fail" THEN Nothing
                                                          ELSE Inner.rest.value]
          /\ UNCHANGED watchers
     ELSE /\ watchers' = [watchers EXCEPT !.running = @ \ {Inner.who}]
          /\ UNCHANGED cells
  /\ calls' = Tail(calls)
  /\ UNCHANGED <<noted, tables, uses>>

----------------------------------------------------------------------------
(* The loops: _markDirty() of each dependent, and the flush of a batch.    *)

\* run(), called by what is left of the stack.
Run(w, left) ==
  IF w \in watchers.disposed \cup watchers.running
  THEN calls' = left /\ UNCHANGED <<cells, watchers, noted>>
  ELSE /\ calls' = <<Begins(w)>> \o left
       /\ cells' = Forgotten(w)
       /\ watchers' = [watchers EXCEPT !.running = @ \cup {w}]
       /\ noted' = [saw |-> [noted.saw EXCEPT ![w] = {}], missed |-> noted.missed \ {w}]

MarkWatch(w, left) ==
  CASE w \in watchers.running ->
         calls' = left /\ noted' = [noted EXCEPT !.missed = @ \cup {w}] /\ UNCHANGED <<cells, watchers>>
    [] w \notin watchers.running /\ watchers.depth > 0 ->
         calls' = left /\ watchers' = [watchers EXCEPT !.pending = @ \cup {w}] /\ UNCHANGED <<cells, noted>>
    [] OTHER -> Run(w, left)

MarkComputed(c, left) ==
  /\ cells' = [cells EXCEPT !.dirty = @ \cup {c}]
  /\ calls' = IF c \in cells.dirty THEN left ELSE <<Marks(c)>> \o left
  /\ UNCHANGED <<watchers, noted>>

\* pairs() yields in any order what is in the table and has not been yielded; what was put in since the
\* loop began it may yield or not, and out of a table that has moved what it has yielded before.
TableMoved == Len(calls) \in tables.moved

Mark(d) ==
  /\ Running("mark") /\ d \in cells.dependents[Inner.of]
  /\ d \notin Inner.done \/ TableMoved
  /\ LET left == Becomes([Inner EXCEPT !.done = @ \cup {d}])
     IN IF d \in Watches THEN MarkWatch(d, left) ELSE MarkComputed(d, left)
  /\ UNCHANGED <<tables, uses>>

EndMark ==
  /\ Running("mark")
  /\ LET all == cells.dependents[Inner.of] \cap Inner.among \subseteq Inner.done
     IN /\ all \/ TableMoved
        /\ tables' = [moved |-> tables.moved \ {Len(calls)}, cut |-> tables.cut \/ ~all]
  /\ calls' = Tail(calls)
  /\ UNCHANGED <<cells, watchers, noted, uses>>

\* next() may find its key gone: the function that called set() fails, or the user's call does.
Unwound ==
  LET bodies == {i \in DOMAIN calls : calls[i].kind = "body"}
      nearest == CHOOSE i \in bodies : \A j \in bodies : i <= j
  IN IF bodies = {} THEN <<>>
     ELSE <<[calls[nearest] EXCEPT !.rest = [op |-> "fail"]]>> \o SubSeq(calls, nearest + 1, Len(calls))

NextFails ==
  /\ Running("mark") /\ TableMoved
  /\ calls' = Unwound
  /\ tables' = [moved |-> {h \in tables.moved : h <= Len(Unwound)}, cut |-> TRUE]
  /\ UNCHANGED <<cells, watchers, noted, uses>>

Flush(w) ==
  /\ Running("flush") /\ w \in Inner.todo
  /\ Run(w, Becomes([Inner EXCEPT !.todo = @ \ {w}]))
  /\ UNCHANGED <<tables, uses>>

EndFlush ==
  /\ Running("flush") /\ Inner.todo = {}
  /\ calls' = Tail(calls)
  /\ UNCHANGED <<cells, watchers, noted, tables, uses>>

----------------------------------------------------------------------------
(* What is called from outside, in and out of a batch.                     *)

\* What comes after a loop that was cut short is not followed.
Use ==
  /\ calls = <<>> /\ ~tables.cut /\ UNCHANGED tables
  /\ uses < MaxUses /\ uses' = uses + 1

UserSet(o, v) ==
  /\ Use /\ v # cells.value[o]
  /\ cells' = Stored(o, v)
  /\ calls' = <<Marks(o)>>
  /\ UNCHANGED <<watchers, noted>>

UserGet(c) ==
  /\ Use /\ c \in cells.dirty
  /\ cells' = Forgotten(c)
  /\ calls' = <<Begins(c)>>
  /\ UNCHANGED <<watchers, noted>>

Watch(w) ==
  /\ Use /\ w \notin watchers.live \cup watchers.disposed
  /\ calls' = <<Begins(w)>>
  /\ watchers' = [watchers EXCEPT !.live = @ \cup {w}, !.running = {w}]
  /\ UNCHANGED <<cells, noted>>

Dispose(w) ==
  /\ Use /\ w \in watchers.live
  /\ watchers' = [watchers EXCEPT !.live = @ \ {w}, !.disposed = @ \cup {w}]
  /\ cells' = Forgotten(w)
  /\ UNCHANGED <<calls, noted>>

BatchBegins ==
  /\ Use /\ watchers.depth < 2
  /\ watchers' = [watchers EXCEPT !.depth = @ + 1]
  /\ UNCHANGED <<cells, calls, noted>>

\* Its function has returned or failed.
BatchEnds ==
  /\ calls = <<>> /\ watchers.depth > 0
  /\ watchers' = [watchers EXCEPT !.depth = @ - 1, !.pending = IF watchers.depth = 1 THEN {} ELSE @]
  /\ calls' = IF watchers.depth = 1 THEN <<[kind |-> "flush", todo |-> watchers.pending]>> ELSE <<>>
  /\ UNCHANGED <<cells, noted, tables, uses>>

ReactiveNext ==
  \/ Get \/ Set \/ Untrack \/ Return
  \/ (\E d \in Readers : Mark(d)) \/ EndMark \/ NextFails
  \/ (\E w \in Watches : Flush(w)) \/ EndFlush
  \/ (\E o \in Observables, v \in Values : UserSet(o, v)) \/ (\E c \in Computeds : UserGet(c))
  \/ (\E w \in Watches : Watch(w) \/ Dispose(w)) \/ BatchBegins \/ BatchEnds

ReactiveSpec == ReactiveInit /\ [][ReactiveNext]_reactiveVars

----------------------------------------------------------------------------
\* What a function answers if all is computed anew.
Result[point \in Pure] ==
  CASE point.op = "get" -> Result[point.on[IF point.from \in Observables THEN cells.value[point.from]
                                           ELSE Result[Bodies[point.from]]]]
    [] point.op = "return" -> point.value
    [] OTHER -> Nothing

Fresh(n) == IF n \in Observables THEN cells.value[n] ELSE Result[Bodies[n]]

Marking == \E i \in DOMAIN calls : calls[i].kind = "mark"

\* A computed value that is not dirty is what computing it anew would give, except while a change is
\* still on its way through the dependents; a batch puts off the watches, not this.
CleanIsFresh == ~Marking => \A c \in Computeds \ cells.dirty : cells.cached[c] = Fresh(c)

\* When all is quiet each watch has seen what holds now, in whatever order the changes reached it and
\* the values it reads; unless it missed a change because it was running, which nothing makes up for.
WatchesSawLatest ==
  calls = <<>> /\ watchers.depth = 0 =>
    \A w \in watchers.live \ noted.missed :
      /\ \A note \in noted.saw[w] : note[2] = Fresh(note[1])
      /\ {note[1] : note \in noted.saw[w]} = cells.dependencies[w]

\* Both, of Reactive.lua, though tables move and loops come to a dependent again: unless a loop was cut
\* short, which Lua does not rule out and nothing makes up for.
ReactiveRight == ~tables.cut => CleanIsFresh /\ WatchesSawLatest
=============================================================================
