-------------------------------- MODULE Page --------------------------------
(***************************************************************************)
(* frontend/client/ui.js: the control page, a client whose spec is also in *)
(* the state of its sliders and flow widgets.  It gets the file every      *)
(* second and sends it with every edit, and awaits neither: answers and    *)
(* requests may overtake each other.  A slider has steps: Snap(v) is what  *)
(* it shows and sends for the value v.  Labels are such that "#label" is a *)
(* CSS selector; the page throws on one that begins with a digit.          *)
(***************************************************************************)
EXTENDS Client

CONSTANTS Snap, MaxAnswers,  \* bound: answers under way to a page
          SliderDefault      \* the value of a new slider

Steps == {Snap[v] : v \in Value}

ASSUME SnapAssumption == /\ Snap \in [Value -> Value]
                         /\ \A v \in Value : Snap[Snap[v]] = Snap[v]
                         /\ SliderDefault \in Steps

VARIABLES widgets,    \* page -> CONTROLS: [default, flows]
          mousedown,  \* page -> BOOLEAN
          typed,      \* page -> a label the form found free, or Absent
          clicked     \* page -> the label whose Remove button's handlers run, or Absent

pageVars == <<widgets, mousedown, typed, clicked>>

\* No event handler runs: a page's handlers do not interrupt each other.
Idle(p) == clicked[p] = Absent

Snapped(spec) == [default |-> Snap[spec.default],
                  flows |-> [i \in DOMAIN spec.flows |-> [spec.flows[i] EXCEPT !.val = Snap[@]]]]

Init == /\ ClientInit
        /\ widgets = [p \in Page |-> [default |-> SliderDefault, flows |-> << >>]]
        /\ mousedown = [p \in Page |-> FALSE]
        /\ typed = [p \in Page |-> Absent]
        /\ clicked = [p \in Page |-> Absent]

-----------------------------------------------------------------------------
(* sync                                                                    *)

\* Mutant: the periodic sync does not look at the file any more.
sync_Once(p) == /\ Idle(p) /\ ~mousedown[p] /\ base[p] = 0
                /\ Cardinality({g \in gets : g.to = p}) < MaxAnswers
                /\ Answer(p)
                /\ UNCHANGED <<netVars, posts, file, historyVars, pageVars>>
\* The initial sync, and every second unless a mouse button is down.
sync(p) == /\ Idle(p) /\ ~mousedown[p]
           /\ Cardinality({g \in gets : g.to = p}) < MaxAnswers
           /\ Answer(p)
           /\ UNCHANGED <<netVars, posts, file, historyVars, pageVars>>

\* The answer comes, at any time: the SyntheticNetwork and then the widgets are
\* updated, unless the former throws.
Synced(g) ==
  /\ Idle(g.to)
  /\ gets' = gets \ {g}
  /\ net' = [net EXCEPT ![g.to] = update(@, g.spec)]
  /\ IF Throws(g.spec) THEN UNCHANGED <<widgets, base>>
     ELSE /\ widgets' = [widgets EXCEPT ![g.to] = Snapped(g.spec)]
          /\ base' = [base EXCEPT ![g.to] = g.id]
  /\ edits' = [edits EXCEPT ![g.to] = NoEdits]
  /\ UNCHANGED <<pc, posts, file, ids, last, raced, misspliced, mousedown, typed, clicked>>

-----------------------------------------------------------------------------
(* Edits                                                                   *)

\* What a spec says of a target.
FlowAt(w, l) == SelectInSeq(Labels(w.flows), LAMBDA e : e = l)
Says(spec, t) == CASE t = Default -> spec.default
                   [] OTHER -> IF FlowAt(spec, t) = 0 THEN Absent ELSE spec.flows[FlowAt(spec, t)].val

\* Mutant: the SyntheticNetwork is not updated before it is sent.
apply_Stale(p, w, t, v) ==
  /\ ids < MaxCommits
  /\ widgets' = [widgets EXCEPT ![p] = w]
  /\ Send(p, config(net[p]), Noted(NoEdits, t, v))
  /\ UNCHANGED <<netVars, gets, file, raced, misspliced>>
\* apply, with the widgets w, in which t is edited to v: the SyntheticNetwork is
\* updated from them and, unless that throws on a label that is there twice, sent,
\* with what earlier such edits had changed.
apply(p, w, t, v) ==
  /\ widgets' = [widgets EXCEPT ![p] = w]
  /\ net' = [net EXCEPT ![p] = update(@, w)]
  /\ IF Throws(w)
       THEN /\ edits' = [edits EXCEPT ![p] = Noted(@, t, v)]
            /\ UNCHANGED <<ids, posts, base, last>>
       ELSE /\ ids < MaxCommits \/ ~Idle(p)
            /\ Send(p, config(update(net[p], w)),
                    Noted([e \in DOMAIN edits[p] |-> Says(w, e)], t, v))
  /\ UNCHANGED <<pc, gets, file, raced, misspliced>>

Press(p) == /\ Idle(p)
            /\ mousedown' = [mousedown EXCEPT ![p] = ~@]
            /\ UNCHANGED <<vars, widgets, typed, clicked>>

\* A slider is released at a step.  Widgets of the same label share their inputs.
Moved(w, t, v) ==
  IF t = Default THEN [w EXCEPT !.default = v]
  ELSE [w EXCEPT !.flows = [i \in DOMAIN @ |->
                              IF @[i].label = t THEN [@[i] EXCEPT !.val = v] ELSE @[i]]]
Change(p, t, v) ==
  /\ Idle(p)
  /\ mousedown[p] /\ mousedown' = [mousedown EXCEPT ![p] = FALSE]
  /\ t = Default \/ FlowAt(widgets[p], t) # 0
  /\ apply(p, Moved(widgets[p], t, v), t, v)
  /\ UNCHANGED <<typed, clicked>>

\* The form checks the label as it is typed, and not again when the button is clicked.
Type(p, l) == /\ Idle(p)
              /\ ~InTable(net[p], l)
              /\ typed' = [typed EXCEPT ![p] = l]
              /\ UNCHANGED <<vars, widgets, mousedown, clicked>>

ClickAdd(p) ==
  LET w == widgets[p]
      v == IF FlowAt(w, typed[p]) = 0 THEN SliderDefault ELSE Says(w, typed[p])
  IN /\ Idle(p)
     /\ typed[p] # Absent /\ typed' = [typed EXCEPT ![p] = Absent]
     /\ Len(w.flows) < MaxFlows
     /\ apply(p, [w EXCEPT !.flows = Append(@, [label |-> typed[p], val |-> v])], typed[p], v)
     /\ UNCHANGED <<mousedown, clicked>>

\* A click on the Remove button of l.  It has a handler for every widget of the label,
\* each of which removes the first one and applies, so that they run until there is
\* none; this is one of them.
ClickRemove(p, l) ==
  LET w == widgets[p]
      cut == [w EXCEPT !.flows = RemoveAt(@, FlowAt(w, l))]
  IN /\ Idle(p) \/ clicked[p] = l
     /\ FlowAt(w, l) # 0
     /\ apply(p, cut, l, Says(cut, l))
     /\ clicked' = [clicked EXCEPT ![p] = IF FlowAt(cut, l) # 0 THEN l ELSE Absent]
     /\ UNCHANGED <<mousedown, typed>>

\* The traffic table's arrows set the rate in the SyntheticNetwork, from there
\* in the widgets, and apply those.
Bump(p, t, v) ==
  /\ Idle(p)
  /\ t = Default \/ InTable(net[p], t)
  /\ apply(p, Snapped(config(SetValue(net[p], t, v))), t, v)
  /\ UNCHANGED <<mousedown, typed, clicked>>

PageNext ==
  \/ \E p \in Page :
       \/ sync(p) \/ Press(p) \/ ClickAdd(p)
       \/ \E l \in Label : Type(p, l) \/ ClickRemove(p, l)
       \/ \E t \in Settable, v \in Steps : Change(p, t, v)
       \/ \E t \in Settable, v \in Value : Bump(p, t, v)
  \/ \E g \in gets : Synced(g)

Next == PageNext \/ (ScriptNext /\ UNCHANGED pageVars)

\* The timer runs, all handlers of a click do, and requests and answers arrive.
Fairness == /\ \A p \in Page : WF_<<vars, pageVars>>(sync(p))
            /\ \A p \in Page : WF_<<vars, pageVars>>(\E l \in Label : clicked[p] = l /\ ClickRemove(p, l))
            /\ \A p \in Page : WF_<<vars, pageVars>>(\E g \in gets : g.to = p /\ Synced(g))
            /\ WF_<<vars, pageVars>>((\E r \in posts : Posted(r)) /\ UNCHANGED pageVars)

Spec == Init /\ [][Next]_<<vars, pageVars>> /\ Fairness

-----------------------------------------------------------------------------

\* No edit gets lost unless a POST overwrites a spec that it was not derived from
\* (client.js: post checks nothing, so two clients, or a page on a late answer,
\* may undo each other's edits) or removeFlow cut the wrong flow: otherwise, with
\* no POST under way, the file says of every link and flow what the last edit of
\* it said, as it was said or as a slider rounds it.
EditsStickUnlessRaced ==
  (posts = {} /\ ~raced /\ ~misspliced) =>
    \A t \in Target : Says(file.spec, t) \in
                        {last[t]} \cup {Snap[v] : v \in Value \cap {last[t]}}

\* When the edits end, every page comes to show what is in the file and stays
\* there, however late an answer comes, unless its user keeps a mouse button down
\* or the file may name a label twice (ui.js: sync).
PagesConverge ==
  \A p \in Page : <>[](~mousedown[p]) =>
    <>[](misspliced \/ widgets[p] = Snapped(file.spec))
=============================================================================
