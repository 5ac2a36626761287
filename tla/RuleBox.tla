------------------------------ MODULE RuleBox -------------------------------
(***************************************************************************)
(* SetBox.lua: rules give properties values while their tags are active    *)
(* and their condition holds; of the rules that match, the one with most   *)
(* tags wins, then the higher priority, then the later.  A value that is   *)
(* asked for again is cached in a computed value that depends on the       *)
(* property's version and on the tags that were looked at (Model.lua's     *)
(* projections, a widget's properties); all values together are cached by  *)
(* resolve().  Replacing a rule takes many steps, and at each of them      *)
(* whoever watches a version may read.                                     *)
(*                                                                         *)
(* Reactive has how a version or a tag reaches those values, and that a    *)
(* loop may skip one; here all are dirty at once.  Values that are         *)
(* functions, the priorities of single tags, conversions and the loading   *)
(* of scripts are left out, and so is _clear(), which only tests call.     *)
(***************************************************************************)
EXTENDS Reactive, Integers, FiniteSets

CONSTANTS
  Names, Viewed, \* properties, and those of which a cached value is kept
  Tags,
  FirstRules,    \* what the scripts of start-up have given it
  Definitions,   \* what rule() may be given: id, tags, priority, when, apply (names to values)
  NoValue,       \* no rule matches
  MaxEdits       \* bound

Given == Definitions \cup {FirstRules[i] : i \in DOMAIN FirstRules}

\* A rule that is given anew replaces the one of its name; what Model.set() gives comes first.
ASSUME RuleBoxAssumption ==
  /\ \A i, j \in DOMAIN FirstRules : FirstRules[i].id = FirstRules[j].id => i = j
  /\ Viewed \subseteq Names /\ \A d \in Given : d.priority \in Int
  /\ \A d, e \in Given :
       d.id = "override" => d.tags = {} /\ ~d.when /\ (e.id # "override" => e.priority < d.priority)

VARIABLES
  box,      \* rules, rulesByKey, the active tags, lastTagsSet, the local tags of one context, globalContext
  edit,     \* a call of rule() that has not returned
  views,    \* cached values, in that context
  resolved, \* cachedProperties, and whether there are callbacks
  edits     \* calls so far

boxVars == <<box, edit, views, resolved, edits>>

Returned == [at |-> "idle"]

FirstList == {[rule |-> FirstRules[i], order |-> i] : i \in DOMAIN FirstRules}
Listed(list, n) == {r \in list : n \in DOMAIN r.rule.apply}

BoxInit ==
  /\ box = [rules |-> FirstList,
            byKey |-> [n \in Names |-> Listed(FirstList, n)],
            tags |-> {}, last |-> {}, byHand |-> FALSE, locals |-> {}, context |-> FALSE]
  /\ edit = Returned
  /\ views = [n \in Viewed |-> [dirty |-> TRUE, answer |-> NoValue, on |-> {}, context |-> FALSE]]
  /\ resolved = [valid |-> FALSE, all |-> {}, heard |-> FALSE, emptied |-> FALSE]
  /\ edits = 0

----------------------------------------------------------------------------
(* Looking up.                                                             *)

Active(b, local) == b.tags \cup (IF local THEN b.locals ELSE {})

Matches(rule, active, context) == rule.tags \subseteq active /\ (rule.when => context)

\* A plausible slip: priority before the number of tags.
PriorityFirst(r, s) ==
  \/ r.rule.priority > s.rule.priority
  \/ /\ r.rule.priority = s.rule.priority
     /\ \/ Cardinality(r.rule.tags) > Cardinality(s.rule.tags)
        \/ Cardinality(r.rule.tags) = Cardinality(s.rule.tags) /\ r.order > s.order

\* The comparison of getMatchingRules().
Before(r, s) ==
  \/ Cardinality(r.rule.tags) > Cardinality(s.rule.tags)
  \/ /\ Cardinality(r.rule.tags) = Cardinality(s.rule.tags)
     /\ \/ r.rule.priority > s.rule.priority
        \/ r.rule.priority = s.rule.priority /\ r.order > s.order

\* Of the rules in a list that match, the first one with a value of the name.
Best(list, n, active, context) ==
  LET matching == {r \in Listed(list, n) : Matches(r.rule, active, context)}
      first == {r \in matching : \A s \in matching \ {r} : Before(r, s)}
  IN IF matching = {} THEN NoValue ELSE (CHOOSE r \in first : TRUE).rule.apply[n]

\* A property is looked for in the rules that are listed under its name.
Lookup(n, local, context) == Best(box.byKey[n], n, Active(box, local), context)

\* All of them, from the rules themselves.
Resolved(b) ==
  {<<n, Best(b.rules, n, Active(b, FALSE), b.context)>> : n \in Names} \ {<<n, NoValue>> : n \in Names}

\* What hasTag() reads of a tag: a local tag that is active hides the global one.
Observed(t) == {<<"local", t>>} \cup (IF t \in box.locals THEN {} ELSE {<<"global", t>>})
LookedAt(tags) == UNION {Observed(t) : t \in tags}

\* A rule's tags are asked in any order, up to the first that is not active.
Asked(rule) ==
  LET active == rule.tags \cap Active(box, TRUE)
  IN IF active = rule.tags THEN {LookedAt(active)}
     ELSE UNION {{LookedAt(some \cup {no}) : some \in SUBSET active} : no \in rule.tags \ active}

\* What a view of a property may come to depend on.
Dependencies(n) ==
  LET list == box.byKey[n]
  IN {UNION {choice[r] : r \in list} :
        choice \in {f \in [list -> UNION {Asked(r.rule) : r \in list}] :
                      \A r \in list : f[r] \in Asked(r.rule)}}

View(n) ==
  /\ views[n].dirty
  /\ \E on \in Dependencies(n) :
       views' = [views EXCEPT ![n] = [dirty |-> FALSE, answer |-> Lookup(n, TRUE, box.context), on |-> on,
                                      context |-> box.context]]
  /\ UNCHANGED <<box, edit, resolved, edits>>

\* resolve(), with the global context.
AskResolve ==
  /\ ~resolved.valid
  /\ resolved' = [resolved EXCEPT !.valid = TRUE, !.all = Resolved(box)]
  /\ UNCHANGED <<box, edit, views, edits>>

----------------------------------------------------------------------------
(* _invalidateCache(): the cache of all, and at once anew if there are     *)
(* callbacks to tell.                                                      *)

Invalidated(after) ==
  IF resolved.heard THEN [valid |-> TRUE, all |-> Resolved(after), heard |-> TRUE, emptied |-> FALSE]
  ELSE [resolved EXCEPT !.valid = FALSE, !.emptied = FALSE]

Touched(changed) ==
  [n \in Viewed |-> [views[n] EXCEPT !.dirty = @ \/ views[n].on \cap changed # {}]]

Edit == edit = Returned /\ edits < MaxEdits /\ edits' = edits + 1

\* addTag() and removeTag().
ToggleTag(t) ==
  /\ Edit
  /\ box' = [box EXCEPT !.tags = IF t \in @ THEN @ \ {t} ELSE @ \cup {t}, !.byHand = TRUE]
  /\ views' = Touched({<<"global", t>>})
  /\ resolved' = Invalidated(box')
  /\ UNCHANGED edit

\* setActiveTags() compares with what it last set, whatever addTag() and removeTag() did since.
SetActiveTags(set) ==
  /\ Edit /\ set # box.last
  /\ box' = [box EXCEPT !.tags = set, !.last = set, !.byHand = FALSE]
  /\ views' = Touched({"global"} \X ((set \ box.tags) \cup (box.tags \ set)))
  /\ resolved' = Invalidated(box')
  /\ UNCHANGED edit

\* A context's setTag().
ToggleLocal(t) ==
  /\ Edit
  /\ box' = [box EXCEPT !.locals = IF t \in @ THEN @ \ {t} ELSE @ \cup {t}]
  /\ views' = Touched({<<"local", t>>})
  /\ UNCHANGED <<edit, resolved>>

\* setContext() touches no property's version.
SetContext ==
  /\ Edit
  /\ box' = [box EXCEPT !.context = ~@]
  /\ resolved' = Invalidated(box')
  /\ UNCHANGED <<edit, views>>

OnPropertyChange ==
  /\ Edit /\ ~resolved.heard
  /\ resolved' = [resolved EXCEPT !.heard = TRUE]
  /\ UNCHANGED <<box, edit, views>>

----------------------------------------------------------------------------
(* rule(), name by name.                                                   *)

Same(id) == {r \in box.rules : r.rule.id = id}
Without(list, id) == {r \in list : r.rule.id # id}

Rule(definition) ==
  /\ Edit
  /\ LET old == Same(definition.id)
         new == [rule |-> definition, order |-> Len(FirstRules) + edits']
     IN edit' = [at |-> "drop", new |-> new,
                 names |-> UNION {DOMAIN r.rule.apply : r \in old}]
  /\ UNCHANGED <<box, views, resolved>>

\* The property's version.
Bumped(n) == IF n \in Viewed THEN [views EXCEPT ![n].dirty = TRUE] ELSE views

\* A plausible slip: a rule that is replaced stays listed under the names it had.
StillListed(n) == box.byKey
Unlisted(n) == [box.byKey EXCEPT ![n] = Without(@, edit.new.rule.id)]

DropName(n) ==
  /\ edit.at = "drop" /\ n \in edit.names
  /\ box' = [box EXCEPT !.byKey = Unlisted(n)]
  /\ edit' = [edit EXCEPT !.names = @ \ {n}]
  /\ views' = Bumped(n)
  /\ resolved' = Invalidated(box')
  /\ UNCHANGED edits

Replace ==
  /\ edit.at = "drop" /\ edit.names = {}
  /\ LET names == DOMAIN edit.new.rule.apply
     IN /\ box' = [box EXCEPT !.rules = Without(@, edit.new.rule.id) \cup {edit.new}]
        /\ edit' = IF names = {} THEN Returned ELSE [edit EXCEPT !.at = "add", !.names = names]
        /\ resolved' = [resolved EXCEPT !.emptied = names = {} /\ resolved.valid]
  /\ UNCHANGED <<views, edits>>

AddName(n) ==
  /\ edit.at = "add" /\ n \in edit.names
  /\ box' = [box EXCEPT !.byKey[n] = @ \cup {edit.new}]
  /\ edit' = IF edit.names = {n} THEN Returned ELSE [edit EXCEPT !.names = @ \ {n}]
  /\ views' = Bumped(n)
  /\ resolved' = Invalidated(box')
  /\ UNCHANGED edits

BoxNext ==
  \/ (\E n \in Viewed : View(n)) \/ (\E n \in Names : DropName(n) \/ AddName(n)) \/ AskResolve
  \/ (\E t \in Tags : ToggleTag(t) \/ ToggleLocal(t)) \/ (\E set \in SUBSET Tags : SetActiveTags(set))
  \/ SetContext \/ OnPropertyChange \/ (\E d \in Definitions : Rule(d)) \/ Replace

BoxSpec == BoxInit /\ [][BoxNext]_boxVars

----------------------------------------------------------------------------
\* A cached value is what looking up now would give, for the context it was looked up in: no change of a
\* rule or of a tag it depends on goes by, whichever tags were asked and whatever was read half-way.
ViewsFresh ==
  edit = Returned => \A n \in Viewed : ~views[n].dirty => views[n].answer = Lookup(n, TRUE, views[n].context)

\* So are all of them together, unless the last rule replaced left none of its names to invalidate.
AllFresh == edit = Returned /\ resolved.valid /\ ~resolved.emptied => resolved.all = Resolved(box)

\* The two ways of looking agree, and setActiveTags() knows what is active unless a tag was toggled.
WaysAgree ==
  edit = Returned =>
    /\ \A n \in Names : box.byKey[n] = Listed(box.rules, n)
    /\ box.byHand \/ box.tags = box.last

\* What Model.set() sets, a rule of high priority and no tags, is read, unless a rule with tags matches.
OverridesRead ==
  edit = Returned =>
    \A r \in box.rules, n \in Names :
      r.rule.id = "override" /\ n \in DOMAIN r.rule.apply /\ Lookup(n, TRUE, box.context) # r.rule.apply[n] =>
        \E s \in box.byKey[n] : s.rule.tags # {} /\ Matches(s.rule, Active(box, TRUE), box.context)

\* All of these, of SetBox.lua.
RuleBoxRight == ViewsFresh /\ AllFresh /\ WaysAgree /\ OverridesRead

\* What is computed is right when it is read, each watch ends up with what holds, and the rules answer
\* alike by every way they are asked: Reactive.lua, SetBox.lua.
ModelRight == ReactiveRight /\ RuleBoxRight
=============================================================================
