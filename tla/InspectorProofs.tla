--------------------------- MODULE InspectorProofs ---------------------------
(***************************************************************************)
(* Theorems of Inspector, for any screens of the application and any       *)
(* number of gestures, refreshes, failed calls and dialogs.                *)
(***************************************************************************)
EXTENDS MCInspector, SequenceTheorems, FiniteSetTheorems, TLAPS

-----------------------------------------------------------------------------
(* What a step touches *)

\* Both kinds of step, without the count of the gestures.
Happens ==
  \/ Toolbar \/ Canvas \/ Actions \/ RecorderPanel \/ CloseEvent
  \/ AppChanges \/ Connect \/ RefreshImage \/ RefreshTree \/ TimerFires \/ Answers

LEMMA StepsHappen == Next => Happens /\ (UNCHANGED gestures \/ gestures' = gestures + 1)
BY DEF Next, Gesture, ByItself, Happens

\* The two halves of a refresh, and everything else.
LEMMA ViewSteps ==
  ASSUME Happens
  PROVE  \/ RefreshImage \/ RefreshTree
         \/ /\ UNCHANGED <<image, tree, shot>>
            /\ refresh' = "image" \/ refresh' = "no" \/ UNCHANGED refresh
            /\ UNCHANGED screen \/ AppChanges
<1> USE DEF StartRefresh, CallWorks, CallFails, app, view, control
<1>1. CASE Toolbar
  BY <1>1 DEF Toolbar, RefreshButton, SetIncludeInvisible, UpdateAutoRefresh, LaunchApp,
         RunAndRecord, EditBundle
<1>2. CASE Canvas
  BY <1>2 DEF Canvas, SelectAtPoint, TreeSelectionChanged, Select
<1>3. CASE Actions
  <2>1. CASE \E code, ran : RunAndRecord(code, ran)
    BY <2>1 DEF RunAndRecord
  <2>2. CASE ActionAssertVisible
    BY <2>2 DEF ActionAssertVisible
  <2>3. ASSUME NEW kind, OpenDialog(kind)
        PROVE  UNCHANGED <<image, tree, shot, refresh, screen>>
    BY <2>3 DEF OpenDialog, Open
  <2>4. QED
    BY <1>3, <2>1, <2>2, <2>3 DEF Actions, ActionTap, ActionLongPress, ActionClear, ActionSwipe
<1>4. CASE RecorderPanel
  BY <1>4 DEF RecorderPanel, ToggleRecording, RecorderUndo, RecorderClear, EditTitle, OpenPlain,
         Open
<1>5. CASE CloseEvent
  BY <1>5 DEF CloseEvent, CloseWindow, Open
<1>6. CASE AppChanges \/ Connect \/ RefreshImage \/ RefreshTree \/ TimerFires
  BY <1>6 DEF AppChanges, Connect, TimerFires
<1>7. CASE Answers
  <2>1. CASE \E code, ran : RunAndRecord(code, ran)
    BY <2>1 DEF RunAndRecord
  <2>2. ASSUME NEW state, WaitForAccepted(state)
        PROVE  UNCHANGED <<image, tree, shot, refresh, screen>>
    BY <2>2 DEF WaitForAccepted
  <2>3. QED
    BY <1>7, <2>1, <2>2 DEF Answers, DialogCancelled, TypeAccepted, AssertTextAccepted,
           ScreenshotAccepted, ClearAccepted, SaveAccepted, CloseAnswered, ClosingSave,
           CloseWindow, Open
<1> QED
  BY <1>1, <1>2, <1>3, <1>4, <1>5, <1>6, <1>7 DEF Happens

\* A node of the tree is selected, or nothing changes in the selection.
LEMMA SelectionSteps ==
  ASSUME Happens
  PROVE  UNCHANGED <<selected, shown>> \/ \E node \in Range(tree.nodes) : Select(node)
<1> USE DEF view
<1>1. \A code, ran : RunAndRecord(code, ran) => UNCHANGED <<selected, shown>>
  BY DEF RunAndRecord
<1>2. Toolbar => UNCHANGED <<selected, shown>>
  BY <1>1 DEF Toolbar, RefreshButton, SetIncludeInvisible, UpdateAutoRefresh, LaunchApp,
         EditBundle
<1>3. Canvas => \E node \in Range(tree.nodes) : Select(node)
  BY DEF Canvas, SelectAtPoint, TreeSelectionChanged, HitTest, FindByPath, Range
<1>4. Actions => UNCHANGED <<selected, shown>>
  BY <1>1 DEF Actions, ActionTap, ActionLongPress, ActionClear, ActionSwipe,
         ActionAssertVisible, OpenDialog, Open
<1>5. RecorderPanel \/ CloseEvent => UNCHANGED <<selected, shown>>
  BY DEF RecorderPanel, ToggleRecording, RecorderUndo, RecorderClear, EditTitle, OpenPlain,
         Open, CloseEvent, CloseWindow
<1>6. AppChanges \/ Connect \/ RefreshImage \/ RefreshTree \/ TimerFires
        => UNCHANGED <<selected, shown>>
  BY DEF AppChanges, Connect, RefreshImage, RefreshTree, TimerFires
<1>7. Answers => UNCHANGED <<selected, shown>>
  BY <1>1 DEF Answers, DialogCancelled, TypeAccepted, AssertTextAccepted,
         ScreenshotAccepted, WaitForAccepted, ClearAccepted, SaveAccepted, CloseAnswered,
         ClosingSave, CloseWindow, Open
<1> QED
  BY <1>2, <1>3, <1>4, <1>5, <1>6, <1>7 DEF Happens

-----------------------------------------------------------------------------
(* What a suggestion's code means *)

\* Of one locator's code, what Writable and WrittenAsIs say of a step's.
HasNoApostrophe(l) == \A text \in PredicateTexts(l) : "apostrophe" \notin text

KeptWhole(l) ==
  /\ \A text \in PlainTexts(l) \cup PredicateTexts(l) : "respaced" \notin text
  /\ \A text \in PredicateTexts(l) : "escaped" \notin text

\* Code l is Python, and evaluates to locator e if all its texts are kept.
Means(l, e) ==
  /\ HasNoApostrophe(l) => Compiles(l)
  /\ KeptWhole(l) => Evaluate(l) = e

\* No escaped and inlined text ends a literal between double quotes; in one that
\* is kept, the escaping is undone by the parser.
LEMMA TextIsLiteral ==
  ASSUME NEW t
  PROVE  IsLiteral("special", Escape(t)) <=> "break" \notin t
BY DEF IsLiteral, Escape, Replaced

LEMMA InlinedIsLiteral ==
  ASSUME NEW t
  PROVE  IsLiteral("special", Inlined(Escape(t)))
BY DEF IsLiteral, Inlined, Escape, Replaced

LEMMA TextUnescaped ==
  ASSUME NEW t, "escaped" \notin t
  PROVE  Unescape(Escape(t)) = t
BY DEF Unescape, Escape, Replaced

LEMMA InlinedKept ==
  ASSUME NEW t, "respaced" \notin Inlined(t)
  PROVE  Inlined(t) = t
BY DEF Inlined

LEMMA InlinedHasNoBreak == \A t : "break" \notin Inlined(t)
BY DEF Inlined

LEMMA EscapedTwice ==
  ASSUME NEW t, "escaped" \notin Escape(t)
  PROVE  Unescape(Escape(t)) = Escape(t)
BY DEF Unescape, Escape, Replaced

IsFcn(p) == p = [f \in DOMAIN p |-> p[f]]

\* The code l of a call with the texts of c, and what its parser makes of them.
IsWritten(l, call, c) == l = <<call, OnTexts(Inlined, OnTexts(Escape, c))>>

Parsed(given) == OnTexts(Unescape, given)

\* A call without a predicate: its texts are escaped, then inlined.
LEMMA PlainCall ==
  ASSUME NEW c, "predicate" \notin DOMAIN c, NEW call, NEW l,
         IsWritten(l, call, c)
  PROVE  /\ PredicateTexts(l) = {}
         /\ PlainTexts(l) = {Inlined(Escape(c[k])) : k \in DOMAIN c \ {"type", "index"}}
         /\ l[1] = call /\ DOMAIN l[2] = DOMAIN c
         /\ \A k \in DOMAIN c :
              l[2][k] = IF k \in {"type", "index"} THEN c[k] ELSE Inlined(Escape(c[k]))
<1> DEFINE escaped == OnTexts(Escape, c)
           inlined == OnTexts(Inlined, escaped)
<1>1. /\ DOMAIN escaped = DOMAIN c
      /\ \A k \in DOMAIN c : escaped[k] = IF k \in {"type", "index"} THEN c[k] ELSE Escape(c[k])
  BY DEF OnTexts
<1> HIDE DEF escaped
<1>2. /\ DOMAIN inlined = DOMAIN escaped
      /\ \A k \in DOMAIN escaped :
           k # "predicate" =>
             inlined[k] = IF k \in {"type", "index"} THEN escaped[k] ELSE Inlined(escaped[k])
  BY DEF OnTexts
<1>3. l = <<call, inlined>>
  BY DEF IsWritten, escaped
<1> HIDE DEF inlined
<1>4. l[1] = call /\ l[2] = inlined
  BY <1>3
<1>5. \A k \in DOMAIN c :
        inlined[k] = IF k \in {"type", "index"} THEN c[k] ELSE Inlined(Escape(c[k]))
  BY <1>1, <1>2
<1>6. PredicateTexts(l) = {}
  BY <1>1, <1>2, <1>4 DEF PredicateTexts
<1>7. PlainTexts(l) = {inlined[k] : k \in DOMAIN c \ {"type", "index"}}
  BY <1>1, <1>2, <1>4 DEF PlainTexts
<1>8. {inlined[k] : k \in DOMAIN c \ {"type", "index"}}
        = {Inlined(Escape(c[k])) : k \in DOMAIN c \ {"type", "index"}}
  BY <1>5
<1> QED
  BY <1>1, <1>2, <1>4, <1>5, <1>6, <1>7, <1>8

LEMMA PlainCallKept ==
  ASSUME NEW c, "predicate" \notin DOMAIN c, IsFcn(c), NEW call, NEW l,
         IsWritten(l, call, c),
         \A k \in DOMAIN c \ {"type", "index"} : "escaped" \notin c[k]
  PROVE  /\ Compiles(l)
         /\ KeptWhole(l) => Parsed(l[2]) = c
<1>1. Compiles(l)
  <2>1. \A text \in PlainTexts(l) : \E t : text = Inlined(Escape(t))
    BY PlainCall
  <2>2. PredicateTexts(l) = {}
    BY PlainCall
  <2>3. QED
    BY <2>1, <2>2, InlinedIsLiteral DEF Compiles
<1>2. ASSUME KeptWhole(l) PROVE Parsed(l[2]) = c
  <2>1. \A k \in DOMAIN c \ {"type", "index"} : "respaced" \notin Inlined(Escape(c[k]))
    BY <1>2, PlainCall DEF KeptWhole
  <2>2. \A k \in DOMAIN c \ {"type", "index"} : Unescape(Inlined(Escape(c[k]))) = c[k]
    BY <2>1, InlinedKept, TextUnescaped
  <2>3. /\ DOMAIN l[2] = DOMAIN c
        /\ \A k \in DOMAIN c :
             l[2][k] = IF k \in {"type", "index"} THEN c[k] ELSE Inlined(Escape(c[k]))
    BY PlainCall
  <2> DEFINE given == l[2]
  <2> HIDE DEF given
  <2>4. /\ DOMAIN Parsed(given) = DOMAIN given
        /\ Parsed(given) = [k \in DOMAIN given |-> Parsed(given)[k]]
        /\ \A k \in DOMAIN given : k # "predicate" =>
             Parsed(given)[k] = IF k \in {"type", "index"} THEN given[k]
                                           ELSE Unescape(given[k])
    BY DEF Parsed, OnTexts
  <2>5. \A k \in DOMAIN c : Parsed(given)[k] = c[k]
    BY <2>2, <2>3, <2>4 DEF given
  <2>6. Parsed(given) = c
    BY <2>3, <2>4, <2>5 DEF given, IsFcn
  <2>7. QED
    BY <2>6 DEF given
<1> QED
  BY <1>1, <1>2

\* A predicate's texts are escaped in its own language only, in code and criteria.
LEMMA PredicateCall ==
  ASSUME NEW p, IsFcn(p), \A f \in DOMAIN p : \E t : p[f] = Escape(t),
         NEW l, l = <<"get_by_predicate", OnTexts(Inlined, [predicate |-> p])>>
  PROVE  /\ HasNoApostrophe(l) => Compiles(l)
         /\ KeptWhole(l) => Evaluate(l) = [predicate |-> p]
<1> DEFINE q == [f \in DOMAIN p |-> Inlined(p[f])]
<1>1. OnTexts(Inlined, [predicate |-> p]) = [predicate |-> q]
  <2>1. OnTexts(Inlined, [predicate |-> p])
          = [k \in {"predicate"} |-> [g \in DOMAIN p |-> Inlined(p[g])]]
    BY DEF OnTexts
  <2>2. QED
    BY <2>1
<1>2. l = <<"get_by_predicate", [predicate |-> q]>>
  BY <1>1
<1> HIDE DEF q
<1>3. l[1] = "get_by_predicate" /\ l[2] = [predicate |-> q]
  BY <1>2
<1>4. PlainTexts(l) = {} /\ PredicateTexts(l) = {q[f] : f \in DOMAIN q}
  BY <1>3 DEF PlainTexts, PredicateTexts
<1>5. DOMAIN q = DOMAIN p /\ \A f \in DOMAIN p : q[f] = Inlined(p[f])
  BY DEF q
<1>6. ASSUME HasNoApostrophe(l) PROVE Compiles(l)
  <2>1. \A f \in DOMAIN p : IsLiteral("apostrophe", q[f])
    <3>1. ASSUME NEW f \in DOMAIN p PROVE IsLiteral("apostrophe", q[f])
      <4>1. q[f] \in PredicateTexts(l)
        BY <1>4, <1>5
      <4>2. "apostrophe" \notin q[f]
        BY <1>6, <4>1 DEF HasNoApostrophe
      <4>3. "break" \notin q[f]
        BY <1>5, InlinedHasNoBreak
      <4>4. QED
        BY <4>2, <4>3 DEF IsLiteral
    <3>2. QED
      BY <3>1
  <2>2. QED
    BY <1>4, <1>5, <2>1 DEF Compiles
<1>7. ASSUME KeptWhole(l) PROVE Evaluate(l) = [predicate |-> p]
  <2>1. \A f \in DOMAIN p : "respaced" \notin q[f] /\ "escaped" \notin q[f]
    BY <1>4, <1>5, <1>7 DEF KeptWhole
  <2>2. \A f \in DOMAIN p : q[f] = p[f]
    BY <1>5, <2>1, InlinedKept
  <2>3. \A f \in DOMAIN p : Unescape(q[f]) = p[f]
    <3>1. ASSUME NEW f \in DOMAIN p PROVE Unescape(q[f]) = p[f]
      <4>1. PICK t : p[f] = Escape(t)
        OBVIOUS
      <4>2. "escaped" \notin Escape(t)
        BY <2>1, <2>2, <4>1
      <4>3. QED
        BY <2>2, <4>1, <4>2, EscapedTwice
    <3>2. QED
      BY <3>1
  <2>4. [f \in DOMAIN q |-> Unescape(q[f])] = p
    BY <1>5, <2>3 DEF IsFcn
  <2>5. OnTexts(Unescape, [predicate |-> q]).predicate = [f \in DOMAIN q |-> Unescape(q[f])]
    BY DEF OnTexts
  <2>6. Evaluate(l) = [predicate |-> OnTexts(Unescape, l[2]).predicate]
    BY <1>3 DEF Evaluate, GetByPredicate, Locator
  <2>7. QED
    BY <1>3, <2>4, <2>5, <2>6
<1> QED
  BY <1>6, <1>7

\* The texts of a node are texts of the application.
TextsOK(node) == \A f \in {"identifier", "label", "value"} : "escaped" \notin node[f]

\* The ways a suggestion is written, and what it is built from: the criteria, a
\* text escaped, or a predicate.
Escaped(given) == OnTexts(Escape, given)

SameCriteria(s, call, c) == s.code = <<call, Escaped(c)>> /\ s.criteria = c

SamePredicate(s, p) ==
  s.code = <<"get_by_predicate", [predicate |-> p]>> /\ s.criteria = [predicate |-> p]

LEMMA SuggestionShapes ==
  ASSUME NEW node, TextsOK(node), NEW nodes, NEW s \in Recommend(node, nodes)
  PROVE  \/ \E t : "escaped" \notin t /\
              \/ SameCriteria(s, "get_by_id", [identifier |-> t])
              \/ SameCriteria(s, "get_by_label", [label |-> t])
              \/ SameCriteria(s, "get_by_text", [text |-> t])
              \/ \E type : SameCriteria(s, "locator", [type |-> type, identifier |-> t])
              \/ \E type : SameCriteria(s, "locator", [type |-> type, label |-> t])
         \/ \E p : IsFcn(p) /\ (\A f \in DOMAIN p : \E t : p[f] = Escape(t))
              /\ SamePredicate(s, p)
         \/ \E type, i : SameCriteria(s, "get_by_type_nth", [type |-> type, index |-> i])
<1> DEFINE id == Strip(node.identifier)
           label == Strip(node.label)
           texts == [identifier |-> id, label |-> label]
           both == [f \in {g \in DOMAIN texts : texts[g] # NoText} |-> Escape(texts[f])]
<1>1. IsFcn(both) /\ \A f \in DOMAIN both : \E t : both[f] = Escape(t)
  BY DEF IsFcn
<1>2. "escaped" \notin id /\ "escaped" \notin label /\ "escaped" \notin node.value
  <2>1. \A t : "escaped" \notin t => "escaped" \notin Strip(t)
    BY DEF Strip, NoText
  <2>2. QED
    BY <2>1 DEF TextsOK
<1> HIDE DEF both
<1>3. \/ \E n, u : s = Suggest("Accessibility ID", n, u, [identifier |-> id],
                               <<"get_by_id", [identifier |-> Escape(id)]>>)
      \/ \E n, u : s = Suggest("Identifier + type", n, u, [type |-> node.type, identifier |-> id],
                               <<"locator", [type |-> node.type, identifier |-> Escape(id)]>>)
      \/ \E n, u : s = Suggest("Label", n, u, [label |-> label],
                               <<"get_by_label", [label |-> Escape(label)]>>)
      \/ \E n, u : s = Suggest("Type + label", n, u, [type |-> node.type, label |-> label],
                               <<"locator", [type |-> node.type, label |-> Escape(label)]>>)
      \/ \E n, u : s = Suggest("Text", n, u, [text |-> node.value],
                               <<"get_by_text", [text |-> Escape(node.value)]>>)
      \/ \E n, u : s = Suggest("Predicate", n, u, [predicate |-> both],
                               <<"get_by_predicate", [predicate |-> both]>>)
      \/ \E n, u, i : s = Suggest("Index", n, u, [type |-> node.type, index |-> i],
                               <<"get_by_type_nth", [type |-> node.type, index |-> i]>>)
  BY DEF Recommend, both
<1> HIDE DEF id, label
<1>4. \A strategy, n, u, c, code :
        s = Suggest(strategy, n, u, c, code) => s.code = code /\ s.criteria = c
  BY DEF Suggest
<1>5. \A t, type, i :
        /\ Escaped([identifier |-> t]) = [identifier |-> Escape(t)]
        /\ Escaped([label |-> t]) = [label |-> Escape(t)]
        /\ Escaped([text |-> t]) = [text |-> Escape(t)]
        /\ Escaped([type |-> type, identifier |-> t])
             = [type |-> type, identifier |-> Escape(t)]
        /\ Escaped([type |-> type, label |-> t]) = [type |-> type, label |-> Escape(t)]
        /\ Escaped([type |-> type, index |-> i]) = [type |-> type, index |-> i]
  BY DEF Escaped, OnTexts
<1>6. \/ s.code = <<"get_by_id", [identifier |-> Escape(id)]>> /\ s.criteria = [identifier |-> id]
      \/ /\ s.code = <<"locator", [type |-> node.type, identifier |-> Escape(id)]>>
         /\ s.criteria = [type |-> node.type, identifier |-> id]
      \/ s.code = <<"get_by_label", [label |-> Escape(label)]>> /\ s.criteria = [label |-> label]
      \/ /\ s.code = <<"locator", [type |-> node.type, label |-> Escape(label)]>>
         /\ s.criteria = [type |-> node.type, label |-> label]
      \/ /\ s.code = <<"get_by_text", [text |-> Escape(node.value)]>>
         /\ s.criteria = [text |-> node.value]
      \/ /\ s.code = <<"get_by_predicate", [predicate |-> both]>>
         /\ s.criteria = [predicate |-> both]
      \/ \E i : /\ s.code = <<"get_by_type_nth", [type |-> node.type, index |-> i]>>
                /\ s.criteria = [type |-> node.type, index |-> i]
  BY <1>3, <1>4
<1>7. \/ SameCriteria(s, "get_by_id", [identifier |-> id])
      \/ SameCriteria(s, "locator", [type |-> node.type, identifier |-> id])
      \/ SameCriteria(s, "get_by_label", [label |-> label])
      \/ SameCriteria(s, "locator", [type |-> node.type, label |-> label])
      \/ SameCriteria(s, "get_by_text", [text |-> node.value])
      \/ SamePredicate(s, both)
      \/ \E i : SameCriteria(s, "get_by_type_nth", [type |-> node.type, index |-> i])
  BY <1>5, <1>6, Zenon DEF SameCriteria, SamePredicate
<1>8. QED
  BY <1>1, <1>2, <1>7

\* What is written and what is executed are two things built side by side, a
\* line of code and the criteria of a locator.  Whatever element of the application
\* it is for, a suggestion's code is Python unless a predicate has an apostrophe,
\* and evaluates to the very locator the inspector builds from its criteria, unless
\* lines of it were joined or gaps closed or a quote or backslash stands in a
\* predicate (locators.py:32-44, 61-68, 169-180).
THEOREM SuggestionMeans ==
  ASSUME NEW node, TextsOK(node), NEW nodes, NEW s \in Recommend(node, nodes)
  PROVE  Means(InlineCode(s), Build(s))
<1>1. ASSUME NEW call, NEW c, SameCriteria(s, call, c)
      PROVE  IsWritten(InlineCode(s), call, c)
  BY <1>1 DEF InlineCode, SameCriteria, Escaped, IsWritten
<1>2. ASSUME NEW call, NEW c, SameCriteria(s, call, c), "predicate" \notin DOMAIN c, IsFcn(c),
             \A k \in DOMAIN c \ {"type", "index"} : "escaped" \notin c[k]
      PROVE  /\ Compiles(InlineCode(s)) /\ InlineCode(s)[1] = call
             /\ KeptWhole(InlineCode(s)) => Parsed(InlineCode(s)[2]) = c
  <2>1. IsWritten(InlineCode(s), call, c)
    BY <1>1, <1>2
  <2>2. QED
    BY <1>2, <2>1, PlainCall, PlainCallKept
<1>3. \A l : Evaluate(l) =
        CASE l[1] = "get_by_id"        -> GetById(Parsed(l[2]).identifier)
          [] l[1] = "get_by_label"     -> GetByLabel(Parsed(l[2]).label)
          [] l[1] = "get_by_text"      -> GetByText(Parsed(l[2]).text)
          [] l[1] = "get_by_predicate" -> GetByPredicate(Parsed(l[2]).predicate)
          [] l[1] = "get_by_type_nth"  -> Nth(GetByType(Parsed(l[2]).type), Parsed(l[2]).index)
          [] l[1] = "locator"          -> Locator(Parsed(l[2]))
  BY DEF Evaluate, Parsed
<1>4. \A call, c : SameCriteria(s, call, c) /\ "index" \notin DOMAIN c => Build(s) = c
  BY DEF SameCriteria, Build, Locator
<1>5. ASSUME NEW t, "escaped" \notin t, SameCriteria(s, "get_by_id", [identifier |-> t])
      PROVE  Means(InlineCode(s), Build(s))
  BY <1>2, <1>3, <1>4, <1>5 DEF Means, IsFcn, GetById, Locator
<1>6. ASSUME NEW t, "escaped" \notin t, SameCriteria(s, "get_by_label", [label |-> t])
      PROVE  Means(InlineCode(s), Build(s))
  BY <1>2, <1>3, <1>4, <1>6 DEF Means, IsFcn, GetByLabel, Locator
<1>7. ASSUME NEW t, "escaped" \notin t, SameCriteria(s, "get_by_text", [text |-> t])
      PROVE  Means(InlineCode(s), Build(s))
  BY <1>2, <1>3, <1>4, <1>7 DEF Means, IsFcn, GetByText, Locator
<1>8. ASSUME NEW t, "escaped" \notin t, NEW type,
             \/ SameCriteria(s, "locator", [type |-> type, identifier |-> t])
             \/ SameCriteria(s, "locator", [type |-> type, label |-> t])
      PROVE  Means(InlineCode(s), Build(s))
  BY <1>2, <1>3, <1>4, <1>8 DEF Means, IsFcn, Locator
<1>9. ASSUME NEW type, NEW i,
             SameCriteria(s, "get_by_type_nth", [type |-> type, index |-> i])
      PROVE  Means(InlineCode(s), Build(s))
  <2>1. Build(s) = Nth([type |-> type], i)
    BY <1>9 DEF SameCriteria, Build, Locator
  <2>2. QED
    BY <1>2, <1>3, <1>9, <2>1 DEF Means, IsFcn, GetByType, Locator
<1>10. ASSUME NEW p, IsFcn(p), \A f \in DOMAIN p : \E t : p[f] = Escape(t), SamePredicate(s, p)
       PROVE  Means(InlineCode(s), Build(s))
  <2>1. Build(s) = [predicate |-> p]
    BY <1>10 DEF SamePredicate, Build, Locator
  <2>2. InlineCode(s) = <<"get_by_predicate", OnTexts(Inlined, [predicate |-> p])>>
    BY <1>10 DEF SamePredicate, InlineCode
  <2>3. QED
    BY <1>10, <2>1, <2>2, PredicateCall DEF Means
<1> QED
  BY <1>5, <1>6, <1>7, <1>8, <1>9, <1>10, SuggestionShapes

LEMMA BestMeans ==
  ASSUME NEW node, TextsOK(node), NEW nodes, NEW s \in BestLocator(node, nodes)
  PROVE  Means(InlineCode(s), Build(s))
BY SuggestionMeans DEF BestLocator

\* Only elements of the application are selected.
SelectedTextsOK == \A n \in selected : TextsOK(n)

LEMMA SelectedMeans ==
  ASSUME SelectedTextsOK, NEW s \in SelectedSuggestion
  PROVE  Means(InlineCode(s), Build(s))
BY BestMeans DEF SelectedSuggestion, SelectedTextsOK


-----------------------------------------------------------------------------
(* What a recorded step does when the script is run *)

\* A step that lets the file be Python.
StepIsPython(step) ==
  Writable(step.code) =>
    /\ \A l \in step.code.locator : Compiles(l)
    /\ \A text \in Quoted(step.code) : IsLiteral("special", text)

\* Run with bundle identifier b, the step sends the request that ran when it
\* was recorded - or it is one of those that cannot.
ReplaysAs(b, step) ==
  \/ step.code.method \in {"assert_visible", "assert_text", "page.screenshot"}
  \/ ~WrittenAsIs(step.code)
  \/ step.code.method = "launch" /\ \A r \in step.ran : r.args[1] # b
  \/ Replay([bundle |-> b], step.code) = step.ran /\ step.ran # {}

Honest(step) == StepIsPython(step) /\ \A b : ReplaysAs(b, step)

\* A step of the test that asks for element e by code l.
Did(step, l, e, t, u) ==
  \/ step.code = Code("tap", {l}, <<>>) /\ step.ran = {Tap(e)}
  \/ step.code = Code("long_press", {l}, <<t>>) /\ step.ran = {LongPress(e, t)}
  \/ step.code = Code("clear", {l}, <<>>) /\ step.ran = {Clear(e)}
  \/ /\ step.code = Code("fill", {l}, <<Escape(t)>>) /\ step.ran = {Fill(e, t)}
     /\ "escaped" \notin t
  \/ step.code = Code("wait_for", {l}, <<t, u>>) /\ step.ran = {WaitFor(e, t, u)}

LEMMA CodeFields ==
  \A method, locator, args :
    LET code == Code(method, locator, args)
    IN  code.method = method /\ code.locator = locator /\ code.args = args
BY DEF Code

LEMMA QuotedTexts ==
  ASSUME NEW method, NEW locator, NEW args
  PROVE  \/ Quoted(Code(method, locator, args)) = {}
         \/ /\ method \in {"fill", "assert_visible", "assert_text", "page.screenshot"}
            /\ Quoted(Code(method, locator, args)) = {args[1]}
BY CodeFields DEF Quoted

\* An element's code and an escaped text, or none, leave the file Python.
LEMMA StepPython ==
  ASSUME NEW step, NEW method, NEW args, NEW l, HasNoApostrophe(l) => Compiles(l),
         step.code = Code(method, {l}, args) \/ step.code = Code(method, {}, args),
         method \in {"fill", "assert_visible", "assert_text", "page.screenshot"} =>
           \E t : args[1] = Escape(t)
  PROVE  StepIsPython(step)
<1> SUFFICES ASSUME Writable(step.code)
             PROVE  /\ \A k \in step.code.locator : Compiles(k)
                    /\ \A text \in Quoted(step.code) : IsLiteral("special", text)
  BY DEF StepIsPython
<1>1. step.code.locator \subseteq {l}
  BY CodeFields
<1>2. \A k \in step.code.locator : Compiles(k)
  BY <1>1 DEF Writable, HasNoApostrophe
<1>3. ASSUME NEW text \in Quoted(step.code) PROVE IsLiteral("special", text)
  <2>1. \E t : text = Escape(t)
    BY <1>3, QuotedTexts
  <2>2. "break" \notin text
    BY <1>3 DEF Writable
  <2>3. QED
    BY <2>1, <2>2 DEF IsLiteral, Escape, Replaced
<1> QED
  BY <1>2, <1>3

LEMMA ElementStepHonest ==
  ASSUME NEW l, NEW e, Means(l, e), NEW t, NEW u, NEW step, Did(step, l, e, t, u)
  PROVE  Honest(step)
<1>1. step.code.locator = {l} /\ step.ran # {}
  <2>1. \E method, args : step.code = Code(method, {l}, args)
    BY DEF Did
  <2>2. step.ran # {}
    BY DEF Did
  <2>3. QED
    BY <2>1, <2>2, CodeFields
<1>2. StepIsPython(step)
  <2>1. HasNoApostrophe(l) => Compiles(l)
    BY DEF Means
  <2>2. CASE step.code = Code("fill", {l}, <<Escape(t)>>)
    <3>1. \E x : <<Escape(t)>>[1] = Escape(x)
      OBVIOUS
    <3>2. QED
      BY <2>1, <2>2, <3>1, StepPython
  <2>3. CASE \E method \in {"tap", "long_press", "clear", "wait_for"} :
               \E args : step.code = Code(method, {l}, args)
    BY <2>1, <2>3, StepPython
  <2>4. QED
    BY <2>2, <2>3 DEF Did
<1>3. WrittenAsIs(step.code) => KeptWhole(l)
  BY <1>1 DEF WrittenAsIs, KeptWhole
<1>4. CASE Evaluate(l) = e
  <2>1. ASSUME NEW b PROVE Replay([bundle |-> b], step.code) = step.ran
    <3>1. /\ Replay([bundle |-> b], Code("tap", {l}, <<>>)) = {Tap(Evaluate(l))}
          /\ Replay([bundle |-> b], Code("long_press", {l}, <<t>>)) = {LongPress(Evaluate(l), t)}
          /\ Replay([bundle |-> b], Code("clear", {l}, <<>>)) = {Clear(Evaluate(l))}
          /\ Replay([bundle |-> b], Code("fill", {l}, <<Escape(t)>>))
               = {Fill(Evaluate(l), Unescape(Escape(t)))}
          /\ Replay([bundle |-> b], Code("wait_for", {l}, <<t, u>>))
               = {WaitFor(Evaluate(l), t, u)}
      <4>1. {Evaluate(k) : k \in {l}} = {Evaluate(l)}
        OBVIOUS
      <4>2. QED
        BY <4>1 DEF Replay, Code
    <3>2. "escaped" \notin t => Unescape(Escape(t)) = t
      BY TextUnescaped
    <3>3. QED
      BY <1>4, <3>1, <3>2 DEF Did
  <2>2. QED
    BY <1>1, <1>2, <2>1 DEF Honest, ReplaysAs
<1>5. CASE ~KeptWhole(l)
  BY <1>2, <1>3, <1>5 DEF Honest, ReplaysAs
<1> QED
  BY <1>4, <1>5 DEF Means

LEMMA StepFields == \A code, ran : Step(code, ran).code = code /\ Step(code, ran).ran = ran
BY DEF Step

\* A step without an element or a text.
LEMMA BareStep ==
  ASSUME NEW step, NEW method, method \in {"launch", "page.tap", "page.long_press", "page.swipe"},
         NEW args, step.code = Code(method, {}, args)
  PROVE  StepIsPython(step)
<1>1. step.code.locator = {} /\ Quoted(step.code) = {}
  BY CodeFields, QuotedTexts
<1> QED
  BY <1>1 DEF StepIsPython

\* A launch names the one bundle identifier of the script, which is the one
\* that was launched as long as the App field is not edited.
LEMMA LaunchHonest ==
  ASSUME NEW b, NEW relaunch, NEW step, step.code = Code("launch", {}, <<relaunch>>),
         step.ran = {Launch(b, relaunch)}
  PROVE  Honest(step)
<1>1. step.code.method = "launch" /\ step.code.args = <<relaunch>>
  BY DEF Code
<1>2. Launch(b, relaunch).args[1] = b
  BY DEF Launch, Request
<1>3. ASSUME NEW a, a # b PROVE ReplaysAs(a, step)
  BY <1>1, <1>2, <1>3 DEF ReplaysAs
<1>4. Replay([bundle |-> b], step.code) = {Launch(b, relaunch)}
  BY <1>1 DEF Replay
<1>5. ReplaysAs(b, step)
  BY <1>1, <1>4 DEF ReplaysAs
<1> QED
  BY <1>3, <1>5, BareStep DEF Honest

\* A step of the test on the page.
LEMMA PageHonest ==
  ASSUME NEW p, NEW q, NEW t
  PROVE  /\ Honest(Step(Code("page.tap", {}, <<p>>), {TapAt(p)}))
         /\ Honest(Step(Code("page.long_press", {}, <<p, t>>), {LongPressAt(p, t)}))
         /\ Honest(Step(Code("page.swipe", {}, <<p, q, t>>), {Swipe(p, q, t)}))
<1>1. \A b :
        /\ ReplaysAs(b, Step(Code("page.tap", {}, <<p>>), {TapAt(p)}))
        /\ ReplaysAs(b, Step(Code("page.long_press", {}, <<p, t>>), {LongPressAt(p, t)}))
        /\ ReplaysAs(b, Step(Code("page.swipe", {}, <<p, q, t>>), {Swipe(p, q, t)}))
  BY DEF ReplaysAs, Replay, Step, Code
<1>2. /\ StepIsPython(Step(Code("page.tap", {}, <<p>>), {TapAt(p)}))
      /\ StepIsPython(Step(Code("page.long_press", {}, <<p, t>>), {LongPressAt(p, t)}))
      /\ StepIsPython(Step(Code("page.swipe", {}, <<p, q, t>>), {Swipe(p, q, t)}))
  BY BareStep, StepFields
<1> QED
  BY <1>1, <1>2 DEF Honest

\* An assertion or a screenshot sends nothing that was sent before; its text is
\* escaped all the same.
LEMMA ReadsHonest ==
  ASSUME NEW method \in {"assert_visible", "assert_text", "page.screenshot"},
         NEW l, HasNoApostrophe(l) => Compiles(l), NEW locator \in {{}, {l}}, NEW t, NEW ran
  PROVE  Honest(Step(Code(method, locator, <<Escape(t)>>), ran))
<1> DEFINE step == Step(Code(method, locator, <<Escape(t)>>), ran)
<1>1. step.code = Code(method, locator, <<Escape(t)>>)
  BY StepFields
<1>2. step.code.method = method
  BY <1>1, CodeFields
<1> HIDE DEF step
<1>3. \E x : <<Escape(t)>>[1] = Escape(x)
  OBVIOUS
<1>4. StepIsPython(step)
  BY <1>1, <1>3, StepPython
<1>5. \A b : ReplaysAs(b, step)
  BY <1>2 DEF ReplaysAs
<1>6. QED
  BY <1>4, <1>5 DEF Honest, step

-----------------------------------------------------------------------------
(* Whose texts are selected *)

TextsInv ==
  /\ screen \in DOMAIN Screens
  /\ \A n \in Range(tree.nodes) : TextsOK(n)
  /\ SelectedTextsOK

LEMMA SnapshotTexts ==
  ASSUME NEW scr, IsScreen(scr), NEW inv, NEW n \in Range(Serialize(scr, inv))
  PROVE  TextsOK(n)
<1>1. PICK i \in DOMAIN scr : n = Node(scr[i])
  BY DEF Serialize, Range
<1>2. \A f \in {"identifier", "label", "value"} : n[f] = scr[i][f]
  BY <1>1 DEF Node
<1>3. \A f \in {"identifier", "label", "value"} : scr[i][f] \in Texts
  BY DEF IsScreen, TextFields
<1> QED
  BY <1>2, <1>3 DEF TextsOK, Texts, Marks

LEMMA TextsNext == TextsInv /\ [Next]_vars => TextsInv'
<1> SUFFICES ASSUME TextsInv, [Next]_vars PROVE TextsInv'
  OBVIOUS
<1>1. CASE UNCHANGED vars
  BY <1>1 DEF vars, app, view, TextsInv, SelectedTextsOK
<1>2. CASE Happens
  <2>1. screen' \in DOMAIN Screens
    <3>1. UNCHANGED screen \/ AppChanges
      BY <1>2, ViewSteps DEF RefreshImage, RefreshTree, CallWorks, CallFails, app
    <3>2. QED
      BY <3>1, InspectorAssumption DEF AppChanges, TextsInv
  <2>2. \A n \in Range(tree'.nodes) : TextsOK(n)
    <3>1. \/ UNCHANGED tree
          \/ tree' = [screen |-> screen, nodes |-> Serialize(Screens[screen], invisible)]
      BY <1>2, ViewSteps DEF RefreshImage, RefreshTree, view
    <3>2. IsScreen(Screens[screen])
      BY InspectorAssumption DEF TextsInv
    <3>3. QED
      BY <3>1, <3>2, SnapshotTexts DEF TextsInv
  <2>3. SelectedTextsOK'
    BY <1>2, SelectionSteps DEF Select, TextsInv, SelectedTextsOK
  <2>4. QED
    BY <2>1, <2>2, <2>3 DEF TextsInv
<1> QED
  BY <1>1, <1>2, StepsHappen

LEMMA TextsInvariant == Spec => []TextsInv
<1>1. Init => TextsInv
  <2> SUFFICES ASSUME Init PROVE TextsInv
    OBVIOUS
  <2>1. screen \in DOMAIN Screens
    BY InspectorAssumption DEF Init
  <2>2. Range(tree.nodes) = {} /\ selected = {}
    BY DEF Init, NoView, Range
  <2>3. QED
    BY <2>1, <2>2 DEF TextsInv, SelectedTextsOK
<1> QED
  BY <1>1, TextsNext, PTL DEF Spec

-----------------------------------------------------------------------------
(* What a step does to the recording *)

\* A dialog holds a suggestion whose code means what the inspector builds.
ModalMeans ==
  modal.kind \in {"fill", "wait_for", "assert_text"} =>
    Means(InlineCode(modal.suggestion), Build(modal.suggestion))

RecordsHonestly == \E step : Honest(step) /\ Record(step)

Left    == UNCHANGED <<steps, list, saved, preview, title>>
Redrawn == UNCHANGED <<steps, list, saved>> /\ preview' = Script(bundle, title', steps)

Undone ==
  /\ steps # <<>>
  /\ steps' = Front(steps) /\ list' = Front(list)
  /\ preview' = Script(bundle, title, steps')
  /\ UNCHANGED <<saved, title>>

\* What may happen to the steps, the list and the preview.
PanelStep ==
  \/ Left
  \/ Redrawn
  \/ RecordsHonestly /\ UNCHANGED <<bundle, title>>
  \/ Undone
  \/ Discard /\ UNCHANGED title
  \/ UNCHANGED <<steps, list, preview, title>> /\ WriteText

LEMMA RunHonest ==
  ASSUME NEW code, NEW ran, Honest(Step(code, ran)), RunAndRecord(code, ran)
  PROVE  PanelStep
BY DEF RunAndRecord, PanelStep, RecordsHonestly, Left, panel, fields

\* What is done with an element, by a suggestion for it.
LEMMA ElementRuns ==
  ASSUME NEW s, Means(InlineCode(s), Build(s)), NEW t,
         \/ RunAndRecord(Code("tap", {InlineCode(s)}, <<>>), {Tap(Build(s))})
         \/ RunAndRecord(Code("long_press", {InlineCode(s)}, <<t>>), {LongPress(Build(s), t)})
         \/ RunAndRecord(Code("clear", {InlineCode(s)}, <<>>), {Clear(Build(s))})
         \/ /\ RunAndRecord(Code("fill", {InlineCode(s)}, <<Escape(t)>>), {Fill(Build(s), t)})
            /\ "escaped" \notin t
  PROVE  PanelStep
<1>1. PICK l : l = InlineCode(s)
  OBVIOUS
<1>2. PICK e : e = Build(s)
  OBVIOUS
<1>3. Means(l, e)
  BY <1>1, <1>2
<1>4. CASE RunAndRecord(Code("tap", {l}, <<>>), {Tap(e)})
  <2>1. Did(Step(Code("tap", {l}, <<>>), {Tap(e)}), l, e, t, t)
    BY StepFields DEF Did
  <2>2. Honest(Step(Code("tap", {l}, <<>>), {Tap(e)}))
    BY <1>3, <2>1, ElementStepHonest
  <2>3. QED
    BY <1>4, <2>2, RunHonest
<1>5. CASE RunAndRecord(Code("long_press", {l}, <<t>>), {LongPress(e, t)})
  <2>1. Did(Step(Code("long_press", {l}, <<t>>), {LongPress(e, t)}), l, e, t, t)
    BY StepFields DEF Did
  <2>2. Honest(Step(Code("long_press", {l}, <<t>>), {LongPress(e, t)}))
    BY <1>3, <2>1, ElementStepHonest
  <2>3. QED
    BY <1>5, <2>2, RunHonest
<1>6. CASE RunAndRecord(Code("clear", {l}, <<>>), {Clear(e)})
  <2>1. Did(Step(Code("clear", {l}, <<>>), {Clear(e)}), l, e, t, t)
    BY StepFields DEF Did
  <2>2. Honest(Step(Code("clear", {l}, <<>>), {Clear(e)}))
    BY <1>3, <2>1, ElementStepHonest
  <2>3. QED
    BY <1>6, <2>2, RunHonest
<1>7. CASE /\ RunAndRecord(Code("fill", {l}, <<Escape(t)>>), {Fill(e, t)})
           /\ "escaped" \notin t
  <2>1. Did(Step(Code("fill", {l}, <<Escape(t)>>), {Fill(e, t)}), l, e, t, t)
    BY <1>7, StepFields DEF Did
  <2>2. Honest(Step(Code("fill", {l}, <<Escape(t)>>), {Fill(e, t)}))
    BY <1>3, <2>1, ElementStepHonest
  <2>3. QED
    BY <1>7, <2>2, RunHonest
<1> QED
  BY <1>1, <1>2, <1>4, <1>5, <1>6, <1>7

LEMMA ToolbarKeeps ==
  ASSUME Toolbar
  PROVE  PanelStep /\ UNCHANGED modal
<1>1. CASE RefreshButton
  BY <1>1 DEF RefreshButton, PanelStep, Left, panel, fields
<1>2. CASE SetIncludeInvisible
  BY <1>2 DEF SetIncludeInvisible, PanelStep, Left, panel
<1>3. CASE UpdateAutoRefresh
  BY <1>3 DEF UpdateAutoRefresh, PanelStep, Left, panel, control
<1>4. ASSUME NEW relaunch \in BOOLEAN, LaunchApp(relaunch)
      PROVE  PanelStep /\ UNCHANGED modal
  <2>1. Honest(Step(Code("launch", {}, <<relaunch>>), {Launch(bundle, relaunch)}))
    BY StepFields, LaunchHonest
  <2>2. RunAndRecord(Code("launch", {}, <<relaunch>>), {Launch(bundle, relaunch)})
    BY <1>4 DEF LaunchApp
  <2>3. PanelStep
    BY <2>1, <2>2, RunHonest
  <2>4. QED
    BY <1>4, <2>3 DEF LaunchApp
<1>5. ASSUME NEW b \in Bundles, EditBundle(b)
      PROVE  PanelStep /\ UNCHANGED modal
  BY <1>5 DEF EditBundle, PanelStep, Left, panel, control
<1> QED
  BY <1>1, <1>2, <1>3, <1>4, <1>5 DEF Toolbar

LEMMA CanvasKeeps ==
  ASSUME Canvas
  PROVE  PanelStep /\ UNCHANGED modal
BY DEF Canvas, SelectAtPoint, TreeSelectionChanged, Select, PanelStep, Left, panel, fields, control

LEMMA RecorderPanelKeeps ==
  ASSUME RecorderPanel, ModalMeans
  PROVE  PanelStep /\ ModalMeans'
<1>1. CASE ToggleRecording
  BY <1>1 DEF ToggleRecording, PanelStep, Redrawn, GeneratedCode, ModalMeans, fields, control
<1>2. CASE RecorderUndo
  BY <1>2 DEF RecorderUndo, PanelStep, Undone, ModalMeans, fields, control
<1>3. ASSUME NEW t \in Titles, EditTitle(t)
      PROVE  PanelStep /\ ModalMeans'
  BY <1>3 DEF EditTitle, PanelStep, Redrawn, ModalMeans, control
<1>4. ASSUME NEW kind, OpenPlain(kind), kind \notin {"fill", "wait_for", "assert_text"}
      PROVE  PanelStep /\ ModalMeans'
  BY <1>4 DEF OpenPlain, Open, PanelStep, Left, ModalMeans, panel, fields
<1>5. CASE RecorderClear
  BY <1>4, <1>5 DEF RecorderClear
<1> QED
  BY <1>1, <1>2, <1>3, <1>4, <1>5 DEF RecorderPanel

LEMMA CloseEventKeeps ==
  ASSUME CloseEvent
  PROVE  PanelStep /\ ModalMeans'
BY DEF CloseEvent, CloseWindow, Open, PanelStep, Left, ModalMeans, NoModal, panel, fields

LEMMA EnvironmentKeeps ==
  ASSUME AppChanges \/ Connect \/ RefreshImage \/ RefreshTree \/ TimerFires
  PROVE  PanelStep /\ UNCHANGED modal
BY DEF AppChanges, Connect, RefreshImage, RefreshTree, TimerFires, PanelStep, Left,
       panel, fields, control

LEMMA ActionsKeep ==
  ASSUME Actions, ModalMeans, SelectedTextsOK
  PROVE  PanelStep /\ ModalMeans'
<1>1. CASE ActionTap
  <2>1. ASSUME NEW p \in NormalizedCenter, RunAndRecord(Code("page.tap", {}, <<p>>), {TapAt(p)})
        PROVE  PanelStep
    BY <2>1, PageHonest, RunHonest
  <2>2. ASSUME NEW s \in SelectedSuggestion,
               RunAndRecord(Code("tap", {InlineCode(s)}, <<>>), {Tap(Build(s))})
        PROVE  PanelStep
    BY <2>2, SelectedMeans, ElementRuns
  <2>3. QED
    BY <1>1, <2>1, <2>2 DEF ActionTap, ModalMeans
<1>2. CASE ActionLongPress
  <2>1. ASSUME NEW p \in NormalizedCenter,
               RunAndRecord(Code("page.long_press", {}, <<p, 1>>), {LongPressAt(p, 1)})
        PROVE  PanelStep
    BY <2>1, PageHonest, RunHonest
  <2>2. ASSUME NEW s \in SelectedSuggestion,
               RunAndRecord(Code("long_press", {InlineCode(s)}, << 1 >>), {LongPress(Build(s), 1)})
        PROVE  PanelStep
    BY <2>2, SelectedMeans, ElementRuns
  <2>3. QED
    BY <1>2, <2>1, <2>2 DEF ActionLongPress, ModalMeans
<1>3. CASE ActionClear
  <2>1. ASSUME NEW s \in SelectedSuggestion,
               RunAndRecord(Code("clear", {InlineCode(s)}, <<>>), {Clear(Build(s))})
        PROVE  PanelStep
    BY <2>1, SelectedMeans, ElementRuns
  <2>2. QED
    BY <1>3, <2>1 DEF ActionClear, ModalMeans
<1>4. CASE ActionSwipe
  <2>1. RunAndRecord(Code("page.swipe", {}, <<"low", "high", "0.3 s">>),
                     {Swipe("low", "high", "0.3 s")})
    BY <1>4 DEF ActionSwipe
  <2>2. PanelStep
    BY <2>1, PageHonest, RunHonest
  <2>3. QED
    BY <1>4, <2>2 DEF ActionSwipe, ModalMeans
<1>5. CASE ActionAssertVisible
  <2>1. PICK n \in selected, s \in SelectedSuggestion :
          \/ Record(Step(Code("assert_visible", {InlineCode(s)}, <<Escape(DescribeTarget(n))>>), {}))
          \/ UNCHANGED panel
    BY <1>5 DEF ActionAssertVisible
  <2>2. Honest(Step(Code("assert_visible", {InlineCode(s)}, <<Escape(DescribeTarget(n))>>), {}))
    BY SelectedMeans, ReadsHonest DEF Means
  <2>3. UNCHANGED fields /\ UNCHANGED modal
    BY <1>5 DEF ActionAssertVisible, control
  <2>4. PanelStep
    BY <2>1, <2>2, <2>3 DEF PanelStep, RecordsHonestly, Left, panel, fields
  <2>5. QED
    BY <2>3, <2>4 DEF ModalMeans
<1>6. ASSUME NEW kind \in {"fill", "wait_for", "assert_text"}, OpenDialog(kind)
      PROVE  PanelStep /\ ModalMeans'
  <2>1. UNCHANGED panel /\ UNCHANGED fields
    BY <1>6 DEF OpenDialog, Open
  <2>2. \/ UNCHANGED modal
        \/ \E s \in SelectedSuggestion : modal' = [kind |-> kind, suggestion |-> s]
    BY <1>6 DEF OpenDialog, Open, control
  <2>3. ModalMeans'
    BY <2>2, SelectedMeans DEF ModalMeans
  <2>4. QED
    BY <2>1, <2>3 DEF PanelStep, Left, panel, fields
<1> QED
  BY <1>1, <1>2, <1>3, <1>4, <1>5, <1>6 DEF Actions

LEMMA AnswersKeep ==
  ASSUME Answers, ModalMeans
  PROVE  PanelStep /\ ModalMeans'
<1>1. ModalMeans'
  <2>1. CASE Closed
    BY <2>1 DEF Closed, ModalMeans, NoModal
  <2>2. CASE CloseAnswered \/ ClosingSave
    <3>1. modal'.kind \in {"none", "closing save"}
      <4>1. modal' = NoModal \/ modal' = [kind |-> "closing save"]
        BY <2>2 DEF CloseAnswered, ClosingSave, CloseWindow, Open
      <4>2. CASE modal' = NoModal
        BY <4>2 DEF NoModal
      <4>3. CASE modal' = [kind |-> "closing save"]
        BY <4>3
      <4>4. QED
        BY <4>1, <4>2, <4>3
    <3>2. QED
      BY <3>1 DEF ModalMeans
  <2>3. Closed \/ CloseAnswered \/ ClosingSave
    BY DEF Answers, DialogCancelled, TypeAccepted, AssertTextAccepted, ScreenshotAccepted,
           WaitForAccepted, ClearAccepted, SaveAccepted
  <2>4. QED
    BY <2>1, <2>2, <2>3
<1> SUFFICES PanelStep
  BY <1>1
<1>2. CASE DialogCancelled
  BY <1>2 DEF DialogCancelled, PanelStep, Left, panel, fields
<1>3. ASSUME NEW text \in Inputs, TypeAccepted(text) PROVE PanelStep
  <2> DEFINE s == modal.suggestion
  <2>1. Means(InlineCode(s), Build(s))
    BY <1>3 DEF TypeAccepted, ModalMeans
  <2>2. RunAndRecord(Code("fill", {InlineCode(s)}, <<Escape(text)>>), {Fill(Build(s), text)})
    BY <1>3 DEF TypeAccepted
  <2>3. "escaped" \notin text
    BY InspectorAssumption DEF Texts, Marks
  <2>4. QED
    BY <2>1, <2>2, <2>3, ElementRuns
<1>4. ASSUME NEW text, AssertTextAccepted(text) PROVE PanelStep
  <2> DEFINE l == InlineCode(modal.suggestion)
             step == Step(Code("assert_text", {l}, <<Escape(text)>>), {})
  <2>1. HasNoApostrophe(l) => Compiles(l)
    BY <1>4 DEF AssertTextAccepted, ModalMeans, Means
  <2>2. Record(step) /\ UNCHANGED fields
    BY <1>4 DEF AssertTextAccepted
  <2> HIDE DEF l
  <2>3. Honest(step)
    BY <2>1, ReadsHonest
  <2>4. QED
    BY <2>2, <2>3 DEF PanelStep, RecordsHonestly, fields
<1>5. ASSUME NEW name, ScreenshotAccepted(name) PROVE PanelStep
  <2> DEFINE step == Step(Code("page.screenshot", {}, <<Escape(name)>>), {})
  <2>1. Compiles(<<"none", << >> >>)
    BY DEF Compiles, PlainTexts, PredicateTexts
  <2>2. Honest(step)
    BY <2>1, ReadsHonest
  <2>3. Record(step) /\ UNCHANGED fields
    BY <1>5 DEF ScreenshotAccepted
  <2>4. QED
    BY <2>2, <2>3 DEF PanelStep, RecordsHonestly, fields
<1>6. ASSUME NEW state, WaitForAccepted(state) PROVE PanelStep
  <2>1. PICK l : l = InlineCode(modal.suggestion)
    OBVIOUS
  <2>2. PICK e : e = Build(modal.suggestion)
    OBVIOUS
  <2>3. Means(l, e)
    BY <1>6, <2>1, <2>2 DEF WaitForAccepted, ModalMeans
  <2> DEFINE step == Step(Code("wait_for", {l}, <<state, 10>>), {WaitFor(e, state, 10)})
  <2>4. Did(step, l, e, state, 10)
    BY StepFields DEF Did
  <2>5. Honest(step)
    BY <2>3, <2>4, ElementStepHonest
  <2>6. UNCHANGED fields /\ (Record(step) \/ UNCHANGED panel)
    BY <1>6, <2>1, <2>2 DEF WaitForAccepted
  <2>7. QED
    BY <2>5, <2>6 DEF PanelStep, RecordsHonestly, Left, panel, fields
<1>7. CASE ClearAccepted
  BY <1>7 DEF ClearAccepted, PanelStep, fields
<1>8. CASE SaveAccepted
  BY <1>8 DEF SaveAccepted, PanelStep, fields
<1>9. CASE CloseAnswered
  BY <1>9 DEF CloseAnswered, CloseWindow, Open, PanelStep, Left, panel, fields
<1>10. CASE ClosingSave
  BY <1>10 DEF ClosingSave, CloseWindow, PanelStep
<1> QED
  BY <1>1, <1>2, <1>3, <1>4, <1>5, <1>6, <1>7, <1>8, <1>9, <1>10 DEF Answers

LEMMA Recorded ==
  ASSUME Happens, ModalMeans, SelectedTextsOK
  PROVE  PanelStep /\ ModalMeans'
BY ToolbarKeeps, CanvasKeeps, ActionsKeep, RecorderPanelKeeps, CloseEventKeeps, EnvironmentKeeps,
   AnswersKeep DEF Happens, ModalMeans

-----------------------------------------------------------------------------
(* The panel and the steps *)

StepsAreASequence == \E S : steps \in Seq(S)

\* The preview may name an identifier that the App field has no longer.
PanelInv == list = steps /\ \E b : preview = Script(b, title, steps)

StepsHonest == \A i \in DOMAIN steps : Honest(steps[i])

\* Why what will be recorded next replays is in the dialog that is open, and
\* what is recorded replays for every identifier the script may get.
RecorderInv == ModalMeans /\ StepsAreASequence /\ PanelInv /\ StepsHonest

LEMMA RecorderInit == Init => RecorderInv
<1> SUFFICES ASSUME Init PROVE RecorderInv
  OBVIOUS
<1>1. steps = <<>> /\ list = <<>> /\ modal = NoModal /\ preview = Script(bundle, title, steps)
  BY DEF Init, GeneratedCode
<1>2. steps \in Seq({})
  BY <1>1
<1>3. ModalMeans
  BY <1>1 DEF ModalMeans, NoModal
<1>4. StepsHonest
  BY <1>1 DEF StepsHonest
<1> QED
  BY <1>1, <1>2, <1>3, <1>4 DEF RecorderInv, StepsAreASequence, PanelInv

\* The steps of now, one more that replays, all but the last, or none.
StepsGrowOrShrink ==
  \/ UNCHANGED steps
  \/ \E step : Honest(step) /\ steps' = Append(steps, step)
  \/ steps # <<>> /\ steps' = Front(steps)
  \/ steps' = <<>>

LEMMA PanelStepsSteps == PanelStep => StepsGrowOrShrink
BY DEF PanelStep, Left, Redrawn, RecordsHonestly, Record, Undone, Discard, StepsGrowOrShrink

LEMMA StepsKept ==
  ASSUME StepsAreASequence, StepsHonest, StepsGrowOrShrink
  PROVE  StepsAreASequence' /\ StepsHonest'
<1>1. PICK S : steps \in Seq(S)
  BY DEF StepsAreASequence
<1>2. CASE UNCHANGED steps
  BY <1>2 DEF StepsAreASequence, StepsHonest
<1>3. ASSUME NEW step, Honest(step), steps' = Append(steps, step)
      PROVE  StepsAreASequence' /\ StepsHonest'
  <2>1. PICK T : T = S \cup {step}
    OBVIOUS
  <2>2. steps \in Seq(T) /\ step \in T
    BY <1>1, <2>1
  <2>3. steps' \in Seq(T)
    BY <1>3, <2>2
  <2>4. \A i \in DOMAIN steps' : steps'[i] = step \/ (i \in DOMAIN steps /\ steps'[i] = steps[i])
    BY <1>3, <2>2
  <2>5. QED
    BY <1>3, <2>3, <2>4 DEF StepsAreASequence, StepsHonest
<1>4. CASE steps # <<>> /\ steps' = Front(steps)
  <2>1. steps' \in Seq(S) /\ \A i \in DOMAIN steps' : i \in DOMAIN steps /\ steps'[i] = steps[i]
    <3>1. steps' = SubSeq(steps, 1, Len(steps) - 1) /\ Len(steps) \in Nat \ {0}
      BY <1>1, <1>4 DEF Front
    <3>2. QED
      BY <1>1, <3>1
  <2>2. QED
    BY <2>1 DEF StepsAreASequence, StepsHonest
<1>5. CASE steps' = <<>>
  <2>1. steps' \in Seq(S) /\ DOMAIN steps' = {}
    BY <1>5
  <2>2. QED
    BY <2>1 DEF StepsAreASequence, StepsHonest
<1> QED
  BY <1>2, <1>3, <1>4, <1>5 DEF StepsGrowOrShrink

LEMMA PanelKept ==
  ASSUME PanelInv, PanelStep
  PROVE  PanelInv'
BY DEF PanelInv, PanelStep, Left, Redrawn, RecordsHonestly, Record, Undone, Discard

LEMMA RecorderNext == TextsInv /\ RecorderInv /\ [Next]_vars => RecorderInv'
<1> SUFFICES ASSUME TextsInv, RecorderInv, [Next]_vars PROVE RecorderInv'
  OBVIOUS
<1>1. CASE Next
  <2>1. PanelStep /\ ModalMeans'
    BY <1>1, StepsHappen, Recorded DEF RecorderInv, TextsInv
  <2>2. StepsAreASequence' /\ StepsHonest'
    BY <2>1, PanelStepsSteps, StepsKept DEF RecorderInv
  <2>3. PanelInv'
    BY <2>1, PanelKept DEF RecorderInv
  <2>4. QED
    BY <2>1, <2>2, <2>3 DEF RecorderInv
<1>2. CASE UNCHANGED vars
  BY <1>2 DEF vars, panel, control, fields, RecorderInv, ModalMeans, StepsAreASequence,
         PanelInv, StepsHonest
<1> QED
  BY <1>1, <1>2

LEMMA RecorderInvariant == Spec => []RecorderInv
BY RecorderInit, RecorderNext, TextsInvariant, PTL DEF Spec

\* The panel shows the steps that will be saved, in their order, whatever was
\* recorded, undone, cleared or renamed before: each handler of
\* app.py:315-340 brings list and preview up to date (recorder.py:73-91).
THEOREM ThePanelIsUpToDate == Spec => []PanelShowsTheRecording
<1>1. RecorderInv => PanelShowsTheRecording
  BY DEF RecorderInv, PanelInv, PanelShowsTheRecording, GeneratedCode, Script
<1> QED
  BY <1>1, RecorderInvariant, PTL

\* The script is Python and each step of it does when it is run what was done when
\* it was recorded, whatever the application showed by then and however long the
\* dialog in between was open, for any texts of the application and any text the
\* user types, but for what the code cannot carry: line breaks, gaps in brackets,
\* apostrophes, quotes and backslashes of a predicate, and the App field edited
\* since (app.py:394-692, recorder.py:77-205).
THEOREM ScriptsReplayWhatRan == Spec => []ReplaysWhatRan
<1>1. ASSUME RecorderInv PROVE ReplaysWhatRan
  <2>1. \A code : Replay(GeneratedCode, code) = Replay([bundle |-> bundle], code)
    BY DEF Replay, GeneratedCode, Script
  <2>2. \A i \in DOMAIN steps : StepIsPython(steps[i]) /\ ReplaysAs(bundle, steps[i])
    BY <1>1 DEF RecorderInv, StepsHonest, Honest
  <2>3. DOMAIN GeneratedCode.body = DOMAIN steps
        /\ \A i \in DOMAIN steps : GeneratedCode.body[i] = steps[i].code
    BY DEF GeneratedCode, Script
  <2>4. (\A i \in DOMAIN steps : Writable(steps[i].code)) => IsPython(GeneratedCode)
    BY <2>2, <2>3 DEF StepIsPython, IsPython
  <2>5. QED
    BY <2>1, <2>2, <2>4 DEF ReplaysWhatRan, ReplaysAs
<1> QED
  BY <1>1, RecorderInvariant, PTL

-----------------------------------------------------------------------------
(* The view *)

\* The screenshot that waits for its tree is of a screen that is not to come.
ViewInv ==
  /\ screen \in Nat /\ image \in Nat /\ tree.screen \in Nat
  /\ image <= tree.screen /\ tree.screen <= screen
  /\ refresh = "tree" => shot \in Nat /\ shot <= screen

LEMMA ViewNext == ViewInv /\ [Next]_vars => ViewInv'
<1> SUFFICES ASSUME ViewInv, [Next]_vars PROVE ViewInv'
  OBVIOUS
<1>1. CASE UNCHANGED vars
  BY <1>1 DEF vars, app, view, control, ViewInv
<1>2. CASE RefreshImage
  BY <1>2 DEF RefreshImage, CallWorks, CallFails, app, view, ViewInv
<1>3. CASE RefreshTree
  <2>1. CASE UNCHANGED <<tree, image>>
    BY <1>3, <2>1 DEF RefreshTree, CallWorks, CallFails, app, ViewInv
  <2>2. CASE /\ UNCHANGED app /\ image' = shot
             /\ tree' = [screen |-> screen, nodes |-> Serialize(Screens[screen], invisible)]
    <3>1. tree'.screen = screen
      BY <2>2
    <3>2. QED
      BY <1>3, <2>2, <3>1 DEF RefreshTree, app, ViewInv
  <2>3. QED
    BY <1>3, <2>1, <2>2 DEF RefreshTree, CallWorks
<1>4. CASE /\ UNCHANGED <<image, tree, shot>>
           /\ refresh' = "image" \/ refresh' = "no" \/ UNCHANGED refresh
           /\ UNCHANGED screen \/ AppChanges
  <2>1. screen' \in Nat /\ screen <= screen'
    BY <1>4 DEF AppChanges, ViewInv
  <2>2. QED
    BY <1>4, <2>1 DEF ViewInv
<1> QED
  BY <1>1, <1>2, <1>3, <1>4, StepsHappen, ViewSteps

\* The screenshot is never of a later screen than the tree it is shown with,
\* whatever changes between the two calls of a refresh and whichever of them
\* fails (app.py:403).
THEOREM NoImageIsAheadOfItsTree == Spec => []ImageNotNewerThanTree
<1>1. Init => ViewInv
  BY DEF Init, NoView, ViewInv
<1>2. ViewInv => ImageNotNewerThanTree
  BY DEF ViewInv, ImageNotNewerThanTree
<1> QED
  BY <1>1, <1>2, ViewNext, PTL DEF Spec

-----------------------------------------------------------------------------
(* Types *)

AtMostOne(S) == \E x : S \subseteq {x}

LEMMA AtMostOneCounts ==
  ASSUME NEW S, AtMostOne(S)
  PROVE  Cardinality(S) <= 1
<1>1. PICK x : S \subseteq {x}
  BY DEF AtMostOne
<1>2. CASE S = {}
  BY <1>2, FS_EmptySet
<1>3. CASE S = {x}
  <2>1. Cardinality({x}) = 1
    BY FS_Singleton, Zenon
  <2>2. QED
    BY <1>3, <2>1
<1> QED
  BY <1>1, <1>2, <1>3

Names == {"Accessibility ID", "Identifier + type", "Index", "Label", "Predicate", "Text",
          "Type + label"}

LEMMA SuggestionsAreRanked ==
  ASSUME NEW node, NEW nodes, NEW s \in Recommend(node, nodes)
  PROVE  s.score \in Int /\ \E i \in DOMAIN Strategies : Strategies[i] = s.strategy
<1>1. PICK strategy \in Names, score \in {2, 3, 4, 5} :
        \E unique, criteria, code : s = Suggest(strategy, score, unique, criteria, code)
  BY DEF Recommend, Names
<1>2. s.score = score /\ s.strategy = strategy
  BY <1>1 DEF Suggest
<1>3. \A n \in Names : \E i \in 1 .. 7 : Strategies[i] = n
  <2>1. /\ Strategies[1] = "Accessibility ID" /\ Strategies[2] = "Identifier + type"
        /\ Strategies[3] = "Index" /\ Strategies[4] = "Label" /\ Strategies[5] = "Predicate"
        /\ Strategies[6] = "Text" /\ Strategies[7] = "Type + label"
    BY DEF Strategies
  <2>2. /\ 1 \in 1 .. 7 /\ 2 \in 1 .. 7 /\ 3 \in 1 .. 7 /\ 4 \in 1 .. 7
        /\ 5 \in 1 .. 7 /\ 6 \in 1 .. 7 /\ 7 \in 1 .. 7
    OBVIOUS
  <2>3. QED
    BY <2>1, <2>2, Zenon DEF Names
<1>4. DOMAIN Strategies = 1 .. 7
  BY DEF Strategies
<1> QED
  BY <1>2, <1>3, <1>4

\* The sort tells any two suggestions for a node apart: one is first.
LEMMA AboveIsAsymmetric ==
  ASSUME NEW node, NEW nodes, NEW s \in Recommend(node, nodes), NEW t \in Recommend(node, nodes)
  PROVE  ~(Above(s, t) /\ Above(t, s))
<1> DEFINE rank(x) == CHOOSE i \in DOMAIN Strategies : Strategies[i] = x.strategy
<1>1. ASSUME NEW x \in Recommend(node, nodes) PROVE rank(x) \in Int
  <2>1. \E i \in DOMAIN Strategies : Strategies[i] = x.strategy
    BY SuggestionsAreRanked
  <2>2. rank(x) \in DOMAIN Strategies
    BY <2>1, Zenon
  <2>3. DOMAIN Strategies = 1 .. 7
    BY DEF Strategies
  <2>4. QED
    <3> HIDE DEF rank
    <3> QED
      BY <2>2, <2>3
<1>2. \A x, y : Above(x, y) <=>
        \/ x.score > y.score
        \/ x.score = y.score /\ x.unique /\ ~y.unique
        \/ x.score = y.score /\ x.unique = y.unique /\ rank(x) < rank(y)
  BY DEF Above
<1>3. rank(s) \in Int /\ rank(t) \in Int /\ s.score \in Int /\ t.score \in Int
  BY <1>1, SuggestionsAreRanked
<1> HIDE DEF rank
<1> QED
  BY <1>2, <1>3

LEMMA OneIsBest ==
  ASSUME NEW node, NEW nodes
  PROVE  AtMostOne(BestLocator(node, nodes))
<1>1. ASSUME NEW s \in BestLocator(node, nodes), NEW t \in BestLocator(node, nodes)
      PROVE  s = t
  BY AboveIsAsymmetric DEF BestLocator
<1> QED
  BY <1>1 DEF AtMostOne

\* The types without what RecorderInv says of the steps.
AppOK ==
  /\ screen \in DOMAIN Screens
  /\ failures \in 0 .. MaxFailures
  /\ session \in {"none", "up", "lost"}

FieldsOK ==
  /\ auto \in BOOLEAN /\ invisible \in BOOLEAN /\ recording \in BOOLEAN
  /\ bundle \in Bundles
  /\ title \in Titles

ScreensOK ==
  /\ refresh \in {"no", "image", "tree"}
  /\ shot \in 0 .. Len(Screens)
  /\ image \in 0 .. Len(Screens)
  /\ tree.screen \in 0 .. Len(Screens)

PicksOK == AtMostOne(selected) /\ AtMostOne(shown) /\ AtMostOne(saved)

StepsOK == Len(steps) <= MaxSteps

WindowOK == window \in {"starting", "open", "closed"}

GesturesOK == gestures \in 0 .. MaxGestures

TypeInv == AppOK /\ FieldsOK /\ ScreensOK /\ PicksOK /\ StepsOK /\ WindowOK /\ GesturesOK

LEMMA ScreenNumbers ==
  /\ Len(Screens) \in Nat \ {0} /\ DOMAIN Screens = 1 .. Len(Screens)
  /\ DOMAIN Screens \subseteq 0 .. Len(Screens)
BY InspectorAssumption

LEMMA AppCalls ==
  ASSUME AppOK, UNCHANGED app \/ CallWorks \/ CallFails \/ AppChanges
  PROVE  AppOK'
<1>1. CASE UNCHANGED app \/ CallWorks
  BY <1>1 DEF CallWorks, AppOK, app
<1>2. CASE CallFails
  BY <1>2, InspectorAssumption DEF CallFails, AppOK
<1>3. CASE AppChanges
  BY <1>3, ScreenNumbers DEF AppChanges, AppOK
<1> QED
  BY <1>1, <1>2, <1>3

LEMMA AppKept ==
  ASSUME AppOK, Happens
  PROVE  AppOK'
<1>1. CASE UNCHANGED app \/ CallWorks \/ CallFails \/ AppChanges
  BY <1>1, AppCalls
<1>2. CASE Connect \/ CloseWindow
  BY <1>2 DEF Connect, CloseWindow, AppOK
<1>3. \/ UNCHANGED app \/ CallWorks \/ CallFails \/ AppChanges
      \/ Connect \/ CloseWindow
  <2>1. \A code, ran : RunAndRecord(code, ran) => CallWorks \/ CallFails
    BY DEF RunAndRecord
  <2>2. Toolbar => UNCHANGED app \/ CallWorks \/ CallFails
    BY <2>1 DEF Toolbar, RefreshButton, SetIncludeInvisible, UpdateAutoRefresh, LaunchApp,
           EditBundle
  <2>3. Canvas => UNCHANGED app
    BY DEF Canvas, SelectAtPoint, TreeSelectionChanged, Select
  <2>4. Actions => UNCHANGED app \/ CallWorks \/ CallFails
    BY <2>1 DEF Actions, ActionTap, ActionLongPress, ActionClear, ActionSwipe,
           ActionAssertVisible, OpenDialog
  <2>5. RecorderPanel => UNCHANGED app
    BY DEF RecorderPanel, ToggleRecording, RecorderUndo, RecorderClear, EditTitle, OpenPlain
  <2>6. CloseEvent => UNCHANGED app \/ CloseWindow
    BY DEF CloseEvent
  <2>7. RefreshImage \/ RefreshTree \/ TimerFires => UNCHANGED app \/ CallWorks \/ CallFails
    BY DEF RefreshImage, RefreshTree, TimerFires
  <2>8. Answers => UNCHANGED app \/ CallWorks \/ CallFails \/ CloseWindow
    BY <2>1 DEF Answers, DialogCancelled, TypeAccepted, AssertTextAccepted, ScreenshotAccepted,
           WaitForAccepted, ClearAccepted, SaveAccepted, CloseAnswered, ClosingSave
  <2>9. QED
    BY <2>2, <2>3, <2>4, <2>5, <2>6, <2>7, <2>8 DEF Happens
<1> QED
  BY <1>1, <1>2, <1>3

\* The fields and the recording switch have a handler of their own each.
LEMMA FieldsKept ==
  ASSUME FieldsOK, Happens
  PROVE  FieldsOK'
<1> USE DEF fields, panel
<1>1. CASE UNCHANGED <<fields, recording>>
  BY <1>1 DEF FieldsOK
<1>2. CASE SetIncludeInvisible \/ UpdateAutoRefresh \/ ToggleRecording
  <2>1. invisible' \in BOOLEAN /\ auto' \in BOOLEAN /\ recording' \in BOOLEAN
    BY <1>2, Zenon DEF SetIncludeInvisible, UpdateAutoRefresh, ToggleRecording, FieldsOK
  <2>2. UNCHANGED <<bundle, title>>
    BY <1>2 DEF SetIncludeInvisible, UpdateAutoRefresh, ToggleRecording
  <2>3. QED
    BY <2>1, <2>2 DEF FieldsOK
<1>3. CASE \E b \in Bundles : EditBundle(b)
  BY <1>3 DEF EditBundle, FieldsOK
<1>4. CASE \E t \in Titles : EditTitle(t)
  BY <1>4 DEF EditTitle, FieldsOK
<1>5. CASE CloseWindow
  BY <1>5 DEF CloseWindow, FieldsOK
<1>6. \A code, ran : RunAndRecord(code, ran) => UNCHANGED <<fields, recording>>
  BY DEF RunAndRecord, Record
<1>7. \/ UNCHANGED <<fields, recording>>
      \/ SetIncludeInvisible \/ UpdateAutoRefresh \/ ToggleRecording
      \/ \E b \in Bundles : EditBundle(b)
      \/ \E t \in Titles : EditTitle(t)
      \/ CloseWindow
  <2>1. Toolbar => \/ UNCHANGED <<fields, recording>>
                   \/ SetIncludeInvisible \/ UpdateAutoRefresh
                   \/ \E b \in Bundles : EditBundle(b)
    BY <1>6 DEF Toolbar, RefreshButton, LaunchApp
  <2>2. Canvas => UNCHANGED <<fields, recording>>
    BY DEF Canvas, SelectAtPoint, TreeSelectionChanged, Select
  <2>3. Actions => UNCHANGED <<fields, recording>>
    BY <1>6 DEF Actions, ActionTap, ActionLongPress, ActionClear, ActionSwipe,
           ActionAssertVisible, OpenDialog, Open, Record
  <2>4. RecorderPanel => \/ UNCHANGED <<fields, recording>>
                         \/ ToggleRecording
                         \/ \E t \in Titles : EditTitle(t)
    BY DEF RecorderPanel, RecorderUndo, RecorderClear, OpenPlain, Open
  <2>5. CloseEvent => UNCHANGED <<fields, recording>> \/ CloseWindow
    BY DEF CloseEvent, Open
  <2>6. AppChanges \/ Connect \/ RefreshImage \/ RefreshTree \/ TimerFires
          => UNCHANGED <<fields, recording>>
    BY DEF AppChanges, Connect, RefreshImage, RefreshTree, TimerFires
  <2>7. Answers => UNCHANGED <<fields, recording>> \/ CloseWindow
    BY <1>6 DEF Answers, DialogCancelled, TypeAccepted, AssertTextAccepted, ScreenshotAccepted,
           WaitForAccepted, ClearAccepted, Discard, SaveAccepted, CloseAnswered, ClosingSave,
           Open, Record
  <2>8. QED
    BY <2>1, <2>2, <2>3, <2>4, <2>5, <2>6, <2>7 DEF Happens
<1> QED
  BY <1>1, <1>2, <1>3, <1>4, <1>5, <1>7

LEMMA ScreensKept ==
  ASSUME AppOK, ScreensOK, Happens
  PROVE  ScreensOK'
<1>1. CASE RefreshImage
  BY <1>1, ScreenNumbers DEF RefreshImage, view, AppOK, ScreensOK
<1>2. CASE RefreshTree
  <2>1. refresh' = "no" /\ shot' = 0
    BY <1>2 DEF RefreshTree
  <2>2. image' \in 0 .. Len(Screens)
    BY <1>2 DEF RefreshTree, ScreensOK
  <2>3. tree' = tree \/ tree' = [screen |-> screen, nodes |-> Serialize(Screens[screen], invisible)]
    BY <1>2 DEF RefreshTree
  <2>4. tree'.screen \in 0 .. Len(Screens)
    BY <2>3, ScreenNumbers DEF AppOK, ScreensOK
  <2>5. QED
    BY <2>1, <2>2, <2>4, ScreenNumbers DEF ScreensOK
<1>3. CASE /\ UNCHANGED <<image, tree, shot>>
           /\ refresh' = "image" \/ refresh' = "no" \/ UNCHANGED refresh
  BY <1>3 DEF ScreensOK
<1> QED
  BY <1>1, <1>2, <1>3, ViewSteps

LEMMA PicksKept ==
  ASSUME PicksOK, Happens, PanelStep
  PROVE  PicksOK'
<1>1. AtMostOne(saved')
  <2>1. saved' = saved \/ saved' = {GeneratedCode} \/ saved' = {}
    BY DEF PanelStep, Left, Redrawn, RecordsHonestly, Record, Undone, Discard, WriteText
  <2>2. QED
    BY <2>1 DEF PicksOK, AtMostOne
<1>2. AtMostOne(selected') /\ AtMostOne(shown')
  <2>1. CASE UNCHANGED <<selected, shown>>
    BY <2>1 DEF PicksOK
  <2>2. ASSUME NEW node, Select(node)
        PROVE  AtMostOne(selected') /\ AtMostOne(shown')
    BY <2>2, OneIsBest DEF Select, AtMostOne
  <2>3. QED
    BY <2>1, <2>2, SelectionSteps
<1> QED
  BY <1>1, <1>2 DEF PicksOK

LEMMA StepsOKKept ==
  ASSUME StepsAreASequence, StepsOK, PanelStep
  PROVE  StepsOK'
<1>1. PICK S : steps \in Seq(S)
  BY DEF StepsAreASequence
<1>2. MaxSteps \in Nat
  BY InspectorAssumption
<1>3. CASE UNCHANGED steps
  BY <1>3 DEF StepsOK
<1>4. ASSUME NEW step, Record(step) PROVE StepsOK'
  <2>1. CASE UNCHANGED steps
    BY <1>3, <2>1
  <2>2. CASE Len(steps) < MaxSteps /\ steps' = Append(steps, step)
    <3>1. PICK T : T = S \cup {step}
      OBVIOUS
    <3>2. steps \in Seq(T) /\ step \in T
      BY <1>1, <3>1
    <3>3. Len(steps') = Len(steps) + 1 /\ Len(steps) \in Nat
      BY <2>2, <3>2
    <3>4. QED
      BY <1>2, <2>2, <3>3 DEF StepsOK
  <2>3. QED
    BY <1>4, <2>1, <2>2 DEF Record
<1>5. CASE steps # <<>> /\ steps' = Front(steps)
  <2>1. steps' = SubSeq(steps, 1, Len(steps) - 1) /\ Len(steps) \in Nat \ {0}
    BY <1>1, <1>5 DEF Front
  <2>2. PICK n \in Int : n = Len(steps) - 1
    BY <2>1
  <2>3. \A i \in 1 .. n : steps[i] \in S
    BY <1>1, <2>1, <2>2
  <2>4. Len(SubSeq(steps, 1, n)) = IF 1 <= n THEN n - 1 + 1 ELSE 0
    BY <2>3, SubSeqProperties
  <2>5. Len(steps') <= Len(steps)
    BY <2>1, <2>2, <2>4
  <2>6. QED
    BY <1>2, <2>1, <2>5 DEF StepsOK
<1>6. CASE steps' = <<>>
  BY <1>2, <1>6 DEF StepsOK
<1> QED
  BY <1>3, <1>4, <1>5, <1>6 DEF PanelStep, Left, Redrawn, RecordsHonestly, Undone, Discard

LEMMA WindowKept ==
  ASSUME WindowOK, Happens
  PROVE  WindowOK'
<1> USE DEF WindowOK, control
<1>1. \A code, ran : RunAndRecord(code, ran) => UNCHANGED window
  BY DEF RunAndRecord
<1>2. CASE Toolbar
  BY <1>1, <1>2 DEF Toolbar, RefreshButton, SetIncludeInvisible, UpdateAutoRefresh, LaunchApp,
         EditBundle
<1>3. CASE Canvas
  BY <1>3 DEF Canvas, SelectAtPoint, TreeSelectionChanged, Select
<1>4. CASE Actions
  BY <1>1, <1>4 DEF Actions, ActionTap, ActionLongPress, ActionClear, ActionSwipe,
         ActionAssertVisible, OpenDialog, Open
<1>5. CASE RecorderPanel
  BY <1>5 DEF RecorderPanel, ToggleRecording, RecorderUndo, RecorderClear, EditTitle, OpenPlain,
         Open
<1>6. CASE CloseEvent
  BY <1>6 DEF CloseEvent, CloseWindow, Open
<1>7. CASE AppChanges \/ Connect \/ RefreshImage \/ RefreshTree \/ TimerFires
  BY <1>7 DEF AppChanges, Connect, RefreshImage, RefreshTree, TimerFires
<1>8. CASE Answers
  BY <1>1, <1>8 DEF Answers, DialogCancelled, TypeAccepted, AssertTextAccepted,
         ScreenshotAccepted, WaitForAccepted, ClearAccepted, SaveAccepted, CloseAnswered,
         ClosingSave, CloseWindow, Open
<1> QED
  BY <1>2, <1>3, <1>4, <1>5, <1>6, <1>7, <1>8 DEF Happens

LEMMA GesturesKept ==
  ASSUME GesturesOK, Next
  PROVE  GesturesOK'
BY InspectorAssumption DEF Next, Gesture, ByItself, GesturesOK

LEMMA TypeInit == Init => TypeInv
<1> SUFFICES ASSUME Init PROVE TypeInv
  OBVIOUS
<1>1. AppOK
  BY ScreenNumbers, InspectorAssumption DEF Init, AppOK
<1>2. FieldsOK
  BY InspectorAssumption DEF Init, FieldsOK
<1>3. ScreensOK
  BY ScreenNumbers DEF Init, NoView, ScreensOK
<1>4. PicksOK
  BY DEF Init, PicksOK, AtMostOne
<1>5. StepsOK /\ WindowOK /\ GesturesOK
  BY InspectorAssumption DEF Init, StepsOK, WindowOK, GesturesOK
<1> QED
  BY <1>1, <1>2, <1>3, <1>4, <1>5 DEF TypeInv

LEMMA TypeNext == TextsInv /\ RecorderInv /\ TypeInv /\ [Next]_vars => TypeInv'
<1> SUFFICES ASSUME TextsInv, RecorderInv, TypeInv, [Next]_vars PROVE TypeInv'
  OBVIOUS
<1>1. CASE Next
  <2>1. Happens /\ PanelStep
    BY <1>1, StepsHappen, Recorded DEF RecorderInv, TextsInv
  <2>2. QED
    BY <1>1, <2>1, AppKept, FieldsKept, ScreensKept, PicksKept, StepsOKKept, WindowKept,
       GesturesKept DEF TypeInv, RecorderInv
<1>2. CASE UNCHANGED vars
  BY <1>2 DEF vars, app, fields, view, panel, control, TypeInv, AppOK, FieldsOK, ScreensOK,
         PicksOK, StepsOK, WindowOK, GesturesOK
<1> QED
  BY <1>1, <1>2

\* Every variable keeps its type: among others, one element at most is
\* selected and one locator shown as the best, for any tree - the sort of
\* recommend leaves no tie (locators.py:199-219).
THEOREM InspectorTypeCorrect == Spec => []TypeOK
<1>1. TypeInv => TypeOK
  BY AtMostOneCounts DEF TypeInv, AppOK, FieldsOK, ScreensOK, PicksOK, StepsOK, WindowOK,
     GesturesOK, TypeOK
<1> QED
  BY <1>1, TypeInit, TypeNext, TextsInvariant, RecorderInvariant, PTL DEF Spec

-----------------------------------------------------------------------------
(* The inspector's count and the agent's search *)

\* The index among some places tells them apart.
LEMMA BeforeGrows ==
  ASSUME NEW places \in SUBSET Nat, NEW i \in places, NEW j \in places, i < j
  PROVE  Before(places, i) < Before(places, j)
<1> DEFINE lower == {x \in places : x < i}
           upper == {x \in places : x < j}
<1>0. i \in Nat /\ j \in Nat /\ \A x \in places : x \in Nat
  OBVIOUS
<1>1. IsFiniteSet(upper)
  <2>0. \A x \in upper : x \in Nat /\ x <= j
    BY <1>0
  <2>1. upper \in SUBSET Nat /\ \A x \in upper : x <= j
    BY <2>0
  <2>2. QED
    BY <2>1, FS_BoundedSetOfNaturals
<1>2. lower \cup {i} \subseteq upper /\ i \notin lower /\ lower \subseteq upper
  <2>1. \A x \in lower : x \in upper
    BY <1>0
  <2>2. i \in upper /\ i \notin lower
    BY <1>0
  <2> HIDE DEF lower, upper
  <2>3. QED
    BY <2>1, <2>2
<1>3. IsFiniteSet(lower)
  BY <1>1, <1>2, FS_Subset
<1> HIDE DEF lower, upper
<1>4. Cardinality(lower \cup {i}) = Cardinality(lower) + 1
  BY <1>2, <1>3, FS_AddElement
<1>5. Cardinality(lower \cup {i}) <= Cardinality(upper)
  BY <1>1, <1>2, FS_Subset
<1>6. Cardinality(lower) \in Nat /\ Cardinality(upper) \in Nat
  BY <1>1, <1>3, FS_CardinalityType
<1>7. Before(places, i) = Cardinality(lower) /\ Before(places, j) = Cardinality(upper)
  BY DEF Before, lower, upper
<1> QED
  BY <1>4, <1>5, <1>6, <1>7

LEMMA BeforeNumber ==
  ASSUME NEW places \in SUBSET Nat, NEW i \in places
  PROVE  Before(places, i) \in Nat
<1> DEFINE lower == {x \in places : x < i}
<1>1. lower \in SUBSET Nat /\ \A x \in lower : x <= i
  <2>1. i \in Nat /\ \A x \in places : x \in Nat
    OBVIOUS
  <2>2. \A x \in lower : x \in Nat /\ x <= i
    BY <2>1
  <2>3. QED
    BY <2>2
<1>2. IsFiniteSet(lower)
  BY <1>1, FS_BoundedSetOfNaturals
<1> QED
  BY <1>2, FS_CardinalityType DEF Before

LEMMA BeforeTells ==
  ASSUME NEW places \in SUBSET Nat, NEW m \in places
  PROVE  {j \in places : Before(places, j) = Before(places, m)} = {m}
<1>1. ASSUME NEW j \in places, Before(places, j) = Before(places, m), j # m PROVE FALSE
  <2>1. CASE j < m
    <3>1. Before(places, j) < Before(places, m)
      BY <2>1, BeforeGrows
    <3>2. Before(places, m) < Before(places, m)
      BY <1>1, <3>1
    <3>3. QED
      BY <3>2, BeforeNumber
  <2>2. CASE m < j
    <3>1. Before(places, m) < Before(places, j)
      BY <2>2, BeforeGrows
    <3>2. Before(places, m) < Before(places, m)
      BY <1>1, <3>1
    <3>3. QED
      BY <3>2, BeforeNumber
  <2>3. j \in Nat /\ m \in Nat
    OBVIOUS
  <2>4. QED
    BY <1>1, <2>1, <2>2, <2>3
<1> QED
  BY <1>1

\* One element of the application satisfies the selector: it is the one found.
LEMMA OneFound ==
  ASSUME NEW scr, IsScreen(scr), NEW sel, "index" \notin DOMAIN sel, NEW m \in 2 .. Len(scr),
         \A i \in 2 .. Len(scr) : Satisfies(scr[i], sel) <=> i = m
  PROVE  {e.path : e \in Resolve(scr, sel)} = {scr[m].path}
<1> DEFINE found == {i \in 2 .. Len(scr) : Satisfies(scr[i], sel)}
<1>1. found = {m}
  OBVIOUS
<1>2. m \in Nat
  BY DEF IsScreen
<1>3. Before(found, m) = 0
  <2>1. {j \in found : j < m} = {}
    BY <1>1, <1>2
  <2>2. QED
    BY <2>1, FS_EmptySet DEF Before
<1>4. Resolve(scr, sel) = {scr[i] : i \in {j \in found : Before(found, j) = 0}}
  BY DEF Resolve
<1> HIDE DEF found
<1>5. {j \in found : Before(found, j) = 0} = {m}
  BY <1>1, <1>3
<1>6. Resolve(scr, sel) = {scr[m]}
  BY <1>4, <1>5
<1> QED
  BY <1>6

\* A count of one is the count of the node the criteria are from.
LEMMA OnlyOneMatches ==
  ASSUME NEW nodes, IsFiniteSet(DOMAIN nodes), NEW c, Unique(nodes, c),
         NEW m \in DOMAIN nodes, \A k \in DOMAIN c : nodes[m][k] = c[k],
         NEW i \in DOMAIN nodes, \A k \in DOMAIN c : nodes[i][k] = c[k]
  PROVE  i = m
<1> DEFINE matches == {j \in DOMAIN nodes : \A k \in DOMAIN c : nodes[j][k] = c[k]}
<1>1. IsFiniteSet(matches) /\ Cardinality(matches) = 1
  <2>1. matches \in SUBSET DOMAIN nodes
    OBVIOUS
  <2>2. QED
    BY <2>1, FS_Subset DEF Unique, CountMatches
<1>2. m \in matches /\ i \in matches
  OBVIOUS
<1> HIDE DEF matches
<1>3. PICK x : matches = {x}
  BY <1>1, FS_Singleton
<1> QED
  BY <1>2, <1>3

\* What a snapshot has is what the screen has, some of it.
LEMMA SnapshotOf ==
  ASSUME NEW scr, IsScreen(scr), NEW inv
  PROVE  /\ DOMAIN Serialize(scr, inv) \subseteq 1 .. Len(scr)
         /\ IsFiniteSet(DOMAIN Serialize(scr, inv))
         /\ \A i \in DOMAIN Serialize(scr, inv) : Serialize(scr, inv)[i] = Node(scr[i])
<1>1. IsFiniteSet(1 .. Len(scr))
  BY FS_Interval DEF IsScreen
<1>2. DOMAIN Serialize(scr, inv) \subseteq 1 .. Len(scr)
  BY DEF Serialize, IsScreen
<1>3. \A i \in DOMAIN Serialize(scr, inv) : Serialize(scr, inv)[i] = Node(scr[i])
  BY DEF Serialize
<1> QED
  BY <1>1, <1>2, <1>3, FS_Subset

\* No element the snapshot leaves out is one the agent may find.
NoneLeftOut(scr, inv, sel) ==
  \A i \in DOMAIN scr \ DOMAIN Serialize(scr, inv) : ~Satisfies(scr[i], sel)

\* Where the names of the types agree: not on "other".
LEMMA NamesAgree ==
  ASSUME NEW kind, NEW kind2, Name(kind) = "other" => kind2 \in Mapped
  PROVE  Name(kind2) = Name(kind) <=> (Name(kind) \in Mapped => kind2 = Name(kind))
BY DEF Name, Mapped

\* What the snapshot is compared by, and what the agent asks, come to the same
\* for an identifier, a label and a type.
LEMMA SameMatches ==
  ASSUME NEW e, NEW node, NEW c,
         DOMAIN c \subseteq {"identifier", "label", "type"},
         \A k \in DOMAIN c : c[k] = node[k],
         "type" \in DOMAIN c =>
           \E kind : node.type = Name(kind) /\ (Name(kind) = "other" => e.kind \in Mapped)
  PROVE  Satisfies(e, c) <=> \A k \in DOMAIN c : Node(e)[k] = c[k]
<1>1. Node(e)["identifier"] = e["identifier"] /\ Node(e)["label"] = e["label"]
  BY DEF Node
<1>2. Node(e)["type"] = Name(e.kind)
  BY DEF Node
<1>3. "type" \in DOMAIN c => (Name(e.kind) = c["type"] <=> (c["type"] \in Mapped => e.kind = c["type"]))
  BY NamesAgree
<1> DEFINE Test(k) ==
      CASE k = "type"      -> c.type \in Mapped => e.kind = c.type
        [] k = "text"      -> c.text \in {e.label, e.value, e.title, e.placeholder}
        [] k = "predicate" -> \A f \in DOMAIN c.predicate : e[f] = Unescape(c.predicate[f])
        [] k = "index"     -> TRUE
        [] OTHER           -> e[k] = c[k]
<1>4. ASSUME NEW k \in DOMAIN c PROVE Test(k) <=> Node(e)[k] = c[k]
  <2>1. CASE k = "type"
    <3>1. Test(k) <=> (c["type"] \in Mapped => e.kind = c["type"])
      BY <2>1
    <3>2. QED
      BY <1>2, <1>3, <2>1, <3>1
  <2>2. CASE k \in {"identifier", "label"}
    <3>1. Test(k) <=> e[k] = c[k]
      BY <2>2
    <3>2. QED
      BY <1>1, <2>2, <3>1
  <2>3. QED
    BY <2>1, <2>2
<1>5. Satisfies(e, c) <=> \A k \in DOMAIN c : Test(k)
  BY DEF Satisfies
<1> HIDE DEF Test
<1> QED
  BY <1>4, <1>5

\* The criteria are the element's own, and no other node of the snapshot has them.
OwnCriteria(scr, inv, m, c) ==
  /\ m \in 2 .. Len(scr) /\ m \in DOMAIN Serialize(scr, inv)
  /\ DOMAIN c \subseteq {"identifier", "label", "type"}
  /\ \A k \in DOMAIN c : c[k] = Node(scr[m])[k]
  /\ "type" \in DOMAIN c /\ Node(scr[m]).type = "other" =>
       \A i \in DOMAIN scr : scr[i].kind \in Mapped
  /\ Unique(Serialize(scr, inv), c)

LEMMA CriteriaFind ==
  ASSUME NEW scr, IsScreen(scr), NEW inv, NEW m, NEW c, OwnCriteria(scr, inv, m, c),
         NoneLeftOut(scr, inv, c)
  PROVE  {e.path : e \in Resolve(scr, c)} = {scr[m].path}
<1> SUFFICES ASSUME m \in 2 .. Len(scr), m \in DOMAIN Serialize(scr, inv),
                    DOMAIN c \subseteq {"identifier", "label", "type"},
                    \A k \in DOMAIN c : c[k] = Node(scr[m])[k],
                    "type" \in DOMAIN c /\ Node(scr[m]).type = "other" =>
                      \A i \in DOMAIN scr : scr[i].kind \in Mapped,
                    Unique(Serialize(scr, inv), c)
             PROVE  {e.path : e \in Resolve(scr, c)} = {scr[m].path}
  BY DEF OwnCriteria
<1> DEFINE nodes == Serialize(scr, inv)
<1>1. IsFiniteSet(DOMAIN nodes) /\ \A i \in DOMAIN nodes : nodes[i] = Node(scr[i])
  BY SnapshotOf
<1>2. 2 .. Len(scr) \subseteq DOMAIN scr
  BY DEF IsScreen
<1>3. Unique(nodes, c) /\ m \in DOMAIN nodes
  OBVIOUS
<1>4. \A i \in DOMAIN scr : Satisfies(scr[i], c) => i \in DOMAIN nodes
  BY DEF NoneLeftOut
<1> HIDE DEF nodes
<1>5. \A i \in 2 .. Len(scr) : Satisfies(scr[i], c) <=> \A k \in DOMAIN c : Node(scr[i])[k] = c[k]
  <2>1. Node(scr[m]).type = Name(scr[m].kind)
    BY DEF Node
  <2>2. QED
    BY <1>2, <2>1, SameMatches
<1>6. ASSUME NEW i \in 2 .. Len(scr) PROVE Satisfies(scr[i], c) <=> i = m
  <2>1. Satisfies(scr[m], c)
    BY <1>5
  <2>2. ASSUME Satisfies(scr[i], c) PROVE i = m
    <3>1. i \in DOMAIN nodes
      BY <1>2, <1>4, <2>2
    <3>2. nodes[i] = Node(scr[i]) /\ nodes[m] = Node(scr[m])
      BY <1>1, <1>3, <3>1
    <3>3. \A k \in DOMAIN c : nodes[i][k] = c[k]
      BY <1>5, <2>2, <3>2
    <3>4. QED
      BY <1>1, <1>3, <3>1, <3>2, <3>3, OnlyOneMatches
  <2>3. QED
    BY <2>1, <2>2
<1> QED
  BY <1>6, OneFound

\* The criteria the inspector counts as the agent searches.
CountedAlike(id, label, type) ==
  {c \in {[identifier |-> id], [type |-> type, identifier |-> id]} : id # NoText} \cup
  {c \in {[label |-> label], [type |-> type, label |-> label]} : label # NoText}

\* The predicate of a node, over the texts it has.
PredicateOf(node, both) ==
  /\ DOMAIN both \subseteq {"identifier", "label"}
  /\ \A f \in DOMAIN both : both[f] = Escape(Strip(node[f])) /\ Strip(node[f]) # NoText

\* What a suggestion that calls itself unique is, and what was counted for it.
LEMMA UniqueShapes ==
  ASSUME NEW node, NEW nodes, NEW s \in Recommend(node, nodes), s.unique
  PROVE  \/ s.strategy \notin {"Text", "Index"} /\
              \E c \in CountedAlike(Strip(node.identifier), Strip(node.label), node.type) :
                s.criteria = c /\ Unique(nodes, c)
         \/ s.strategy = "Text" /\ s.criteria = [text |-> node.value]
              /\ Unique(nodes, [value |-> node.value])
         \/ s.strategy = "Predicate" /\ \E both :
              PredicateOf(node, both) /\ s.criteria = [predicate |-> both]
         \/ s.strategy = "Index" /\ \E i \in IndexAmongType(nodes, node) :
              s.criteria = [type |-> node.type, index |-> i]
<1> DEFINE id == Strip(node.identifier)
           label == Strip(node.label)
           texts == [identifier |-> id, label |-> label]
           both == [f \in {g \in DOMAIN texts : texts[g] # NoText} |-> Escape(texts[f])]
<1>1. PredicateOf(node, both)
  <2>1. \A f \in DOMAIN both : both[f] = Escape(texts[f]) /\ texts[f] # NoText
                                 /\ f \in {"identifier", "label"}
    OBVIOUS
  <2>2. texts["identifier"] = Strip(node["identifier"]) /\ texts["label"] = Strip(node["label"])
    OBVIOUS
  <2> HIDE DEF both, texts
  <2>3. QED
    BY <2>1, <2>2 DEF PredicateOf
<1> HIDE DEF both
<1>2. \/ \E str, n, call :
           \E c \in CountedAlike(id, label, node.type) :
             str \notin {"Text", "Index"} /\ s = Suggest(str, n, Unique(nodes, c), c, call)
      \/ \E n, call : s = Suggest("Text", n, Unique(nodes, [value |-> node.value]),
                                  [text |-> node.value], call)
      \/ \E n, u, call : s = Suggest("Predicate", n, u, [predicate |-> both], call)
      \/ \E n, u, call : \E i \in IndexAmongType(nodes, node) :
           s = Suggest("Index", n, u, [type |-> node.type, index |-> i], call)
  BY DEF Recommend, CountedAlike, both
<1> HIDE DEF id, label
<1>3. \A str, n, u, c, call : s = Suggest(str, n, u, c, call) =>
        s.strategy = str /\ s.unique = u /\ s.criteria = c
  BY DEF Suggest
<1>4. CASE \E str, n, call : \E c \in CountedAlike(id, label, node.type) :
             str \notin {"Text", "Index"} /\ s = Suggest(str, n, Unique(nodes, c), c, call)
  <2>1. PICK str, n, call : \E c \in CountedAlike(id, label, node.type) :
          str \notin {"Text", "Index"} /\ s = Suggest(str, n, Unique(nodes, c), c, call)
    BY <1>4
  <2>2. PICK c \in CountedAlike(id, label, node.type) :
          str \notin {"Text", "Index"} /\ s = Suggest(str, n, Unique(nodes, c), c, call)
    BY <2>1
  <2>3. s.criteria = c /\ s.unique = Unique(nodes, c) /\ s.strategy = str
    BY <1>3, <2>2
  <2>4. QED
    BY <2>2, <2>3 DEF id, label
<1>5. CASE \E n, call : s = Suggest("Text", n, Unique(nodes, [value |-> node.value]),
                                    [text |-> node.value], call)
  <2>1. PICK n, call : s = Suggest("Text", n, Unique(nodes, [value |-> node.value]),
                                   [text |-> node.value], call)
    BY <1>5
  <2>2. /\ s.strategy = "Text" /\ s.criteria = [text |-> node.value]
        /\ s.unique = Unique(nodes, [value |-> node.value])
    BY <1>3, <2>1
  <2>3. QED
    BY <2>2
<1>6. CASE \E n, u, call : s = Suggest("Predicate", n, u, [predicate |-> both], call)
  <2>1. s.strategy = "Predicate" /\ s.criteria = [predicate |-> both]
    BY <1>3, <1>6
  <2>2. QED
    BY <1>1, <2>1
<1>7. CASE \E n, u, call : \E i \in IndexAmongType(nodes, node) :
             s = Suggest("Index", n, u, [type |-> node.type, index |-> i], call)
  <2>1. PICK n, u, call : \E i \in IndexAmongType(nodes, node) :
          s = Suggest("Index", n, u, [type |-> node.type, index |-> i], call)
    BY <1>7
  <2>2. PICK i \in IndexAmongType(nodes, node) :
          s = Suggest("Index", n, u, [type |-> node.type, index |-> i], call)
    BY <2>1
  <2>3. s.strategy = "Index" /\ s.criteria = [type |-> node.type, index |-> i]
    BY <1>3, <2>2
  <2>4. QED
    BY <2>3
<1> QED
  BY <1>2, <1>4, <1>5, <1>6, <1>7

\* A value is matched over labels, titles and placeholders too.
LEMMA TextFinds ==
  ASSUME NEW scr, IsScreen(scr), NEW inv,
         NEW m \in 2 .. Len(scr), m \in DOMAIN Serialize(scr, inv),
         Unique(Serialize(scr, inv), [value |-> scr[m].value]),
         NoneLeftOut(scr, inv, [text |-> scr[m].value]),
         \A i \in 2 .. Len(scr) : scr[m].value \in {scr[i].label, scr[i].title, scr[i].placeholder}
                                    => i = m
  PROVE  {e.path : e \in Resolve(scr, [text |-> scr[m].value])} = {scr[m].path}
<1> DEFINE nodes == Serialize(scr, inv)
           v == scr[m].value
<1>1. IsFiniteSet(DOMAIN nodes) /\ \A i \in DOMAIN nodes : nodes[i] = Node(scr[i])
  BY SnapshotOf
<1>2. \A i \in 2 .. Len(scr) : i \in DOMAIN scr
  BY DEF IsScreen
<1>3. Unique(nodes, [value |-> v]) /\ m \in DOMAIN nodes
  OBVIOUS
<1>4. \A i \in DOMAIN scr : Satisfies(scr[i], [text |-> v]) => i \in DOMAIN nodes
  BY DEF NoneLeftOut
<1> HIDE DEF nodes
<1>5. ASSUME NEW i \in 2 .. Len(scr) PROVE Satisfies(scr[i], [text |-> v]) <=> i = m
  <2>1. Satisfies(scr[i], [text |-> v])
          <=> v \in {scr[i].label, scr[i].value, scr[i].title, scr[i].placeholder}
    BY DEF Satisfies
  <2>2. v \in {scr[i].label, scr[i].title, scr[i].placeholder} => i = m
    OBVIOUS
  <2>3. ASSUME scr[i].value = v PROVE i = m
    <3>1. i \in DOMAIN nodes
      BY <1>2, <1>4, <2>1, <2>3
    <3>2. nodes[i]["value"] = v /\ nodes[m]["value"] = v
      BY <1>1, <1>3, <2>3, <3>1 DEF Node
    <3>3. QED
      BY <1>1, <1>3, <3>1, <3>2, OnlyOneMatches
  <2>4. i = m => scr[i].value = v
    OBVIOUS
  <2> HIDE DEF v
  <2>5. QED
    BY <2>1, <2>2, <2>3, <2>4
<1> QED
  BY <1>5, OneFound

\* A predicate is escaped by the inspector and parsed by the agent: it compares
\* the element's own texts, and no other node of the snapshot has them.
OwnPredicate(scr, inv, m, both, c) ==
  /\ m \in 2 .. Len(scr) /\ m \in DOMAIN Serialize(scr, inv)
  /\ DOMAIN both \subseteq {"identifier", "label"} /\ DOMAIN c = DOMAIN both
  /\ \A f \in DOMAIN both : both[f] = Escape(scr[m][f]) /\ c[f] = scr[m][f]
  /\ Unique(Serialize(scr, inv), c)

LEMMA PredicateFinds ==
  ASSUME NEW scr, IsScreen(scr), NEW inv, NEW m, NEW both, NEW c,
         OwnPredicate(scr, inv, m, both, c), NoneLeftOut(scr, inv, [predicate |-> both])
  PROVE  {e.path : e \in Resolve(scr, [predicate |-> both])} = {scr[m].path}
<1> SUFFICES ASSUME m \in 2 .. Len(scr), m \in DOMAIN Serialize(scr, inv),
                    DOMAIN both \subseteq {"identifier", "label"}, DOMAIN c = DOMAIN both,
                    \A f \in DOMAIN both : both[f] = Escape(scr[m][f]) /\ c[f] = scr[m][f],
                    Unique(Serialize(scr, inv), c)
             PROVE  {e.path : e \in Resolve(scr, [predicate |-> both])} = {scr[m].path}
  BY DEF OwnPredicate
<1> DEFINE nodes == Serialize(scr, inv)
<1>1. IsFiniteSet(DOMAIN nodes) /\ \A i \in DOMAIN nodes : nodes[i] = Node(scr[i])
  BY SnapshotOf
<1>2. \A i \in 2 .. Len(scr) : i \in DOMAIN scr
  BY DEF IsScreen
<1>3. Unique(nodes, c) /\ m \in DOMAIN nodes
  OBVIOUS
<1>4. \A i \in DOMAIN scr : Satisfies(scr[i], [predicate |-> both]) => i \in DOMAIN nodes
  BY DEF NoneLeftOut
<1>5. \A f \in DOMAIN both : Unescape(both[f]) = c[f]
  <2>1. \A f \in DOMAIN both : "escaped" \notin scr[m][f]
    BY <1>2 DEF IsScreen, Texts, Marks, TextFields
  <2>2. QED
    BY <2>1, TextUnescaped
<1>6. DOMAIN c = DOMAIN both /\ \A f \in DOMAIN c : c[f] = scr[m][f]
  OBVIOUS
<1> HIDE DEF nodes
<1>7. \A i \in DOMAIN nodes : \A f \in DOMAIN c : nodes[i][f] = scr[i][f]
  <2>1. \A i \in DOMAIN nodes : \A f \in {"identifier", "label"} : nodes[i][f] = scr[i][f]
    BY <1>1 DEF Node
  <2>2. QED
    BY <1>6, <2>1
<1>8. ASSUME NEW i \in 2 .. Len(scr) PROVE Satisfies(scr[i], [predicate |-> both]) <=> i = m
  <2>1. Satisfies(scr[i], [predicate |-> both]) <=> \A f \in DOMAIN c : scr[i][f] = c[f]
    <3>1. Satisfies(scr[i], [predicate |-> both])
            <=> \A f \in DOMAIN both : scr[i][f] = Unescape(both[f])
      BY DEF Satisfies
    <3>2. QED
      BY <1>5, <1>6, <3>1
  <2>2. ASSUME Satisfies(scr[i], [predicate |-> both]) PROVE i = m
    <3>1. i \in DOMAIN nodes
      BY <1>2, <1>4, <2>2
    <3>2. /\ \A f \in DOMAIN c : nodes[i][f] = c[f]
          /\ \A f \in DOMAIN c : nodes[m][f] = c[f]
      BY <1>3, <1>6, <1>7, <2>1, <2>2, <3>1
    <3>3. QED
      BY <1>1, <1>3, <3>1, <3>2, OnlyOneMatches
  <2>3. QED
    BY <1>6, <2>1, <2>2
<1> QED
  BY <1>8, OneFound

\* An element's index among those of its type is the same in both trees: the
\* application, which only one of them counts, is of another type, and what the
\* snapshot leaves out comes later.
LEMMA IndexFinds ==
  ASSUME NEW scr, IsScreen(scr), NEW inv,
         NEW m \in 2 .. Len(scr), m \in DOMAIN Serialize(scr, inv),
         Node(scr[m]).type # "application",
         Node(scr[m]).type = "other" => \A i \in DOMAIN scr : scr[i].kind \in Mapped,
         NEW index \in IndexAmongType(Serialize(scr, inv), Node(scr[m])),
         \A i \in DOMAIN scr \ DOMAIN Serialize(scr, inv) :
           Satisfies(scr[i], Nth([type |-> Node(scr[m]).type], index)) => m < i
  PROVE  {e.path : e \in Resolve(scr, Nth([type |-> Node(scr[m]).type], index))} = {scr[m].path}
<1> DEFINE nodes == Serialize(scr, inv)
           type == Node(scr[m]).type
           sel == Nth([type |-> type], index)
           same == {i \in DOMAIN nodes : nodes[i].type = type}
           found == {i \in 2 .. Len(scr) : Satisfies(scr[i], sel)}
<1>1. /\ DOMAIN nodes \subseteq 1 .. Len(scr) /\ DOMAIN scr = 1 .. Len(scr)
      /\ \A i \in DOMAIN nodes : nodes[i] = Node(scr[i])
  BY SnapshotOf DEF IsScreen
<1>2. PICK i \in {j \in same : nodes[j].path = Node(scr[m]).path} : index = Before(same, i)
  BY DEF IndexAmongType
<1>3. sel = [k \in {"index", "type"} |-> IF k = "index" THEN index ELSE type]
  BY DEF Nth
<1>4. \A j \in DOMAIN scr : Satisfies(scr[j], sel) /\ j \notin DOMAIN nodes => m < j
  OBVIOUS
<1>5. m \in DOMAIN nodes
  OBVIOUS
<1> HIDE DEF sel, nodes
<1>6. i = m
  BY <1>1, <1>2 DEF Node, IsScreen
<1> HIDE DEF type
<1>7. ASSUME NEW j \in 2 .. Len(scr), j \in DOMAIN nodes
      PROVE  Satisfies(scr[j], sel) <=> nodes[j].type = type
  <2>1. DOMAIN sel = {"index", "type"} /\ sel["type"] = type
    BY <1>3
  <2>2. Satisfies(scr[j], sel) <=> (type \in Mapped => scr[j].kind = type)
    BY <2>1 DEF Satisfies
  <2>3. type = Name(scr[m].kind) /\ nodes[j].type = Name(scr[j].kind)
    BY <1>1, <1>7 DEF Node, type
  <2>4. type = "other" => scr[j].kind \in Mapped
    BY <1>1 DEF type
  <2>5. QED
    BY <2>2, <2>3, <2>4, NamesAgree
<1>8. 1 \in DOMAIN nodes => nodes[1].type # type
  BY <1>1 DEF Node, Name, Mapped, IsScreen, type
<1>9. Len(scr) \in Nat /\ m \in Nat
  BY DEF IsScreen
<1>10. nodes[m].type = type
  BY <1>1, <1>5 DEF type
<1>11. found \in SUBSET Nat /\ m \in found
  BY <1>5, <1>7, <1>9, <1>10
<1>12. {j \in found : j < m} = {j \in same : j < m}
  <2>1. ASSUME NEW j \in found, j < m PROVE j \in same
    <3>1. j \in DOMAIN nodes
      BY <1>1, <1>4, <1>9, <2>1
    <3>2. QED
      BY <1>7, <2>1, <3>1
  <2>2. ASSUME NEW j \in same, j < m PROVE j \in found
    <3>1. j \in DOMAIN nodes /\ nodes[j].type = type
      OBVIOUS
    <3>2. j # 1
      BY <1>8, <3>1
    <3>3. j \in 2 .. Len(scr)
      BY <1>1, <1>9, <3>1, <3>2
    <3>4. QED
      BY <1>7, <3>1, <3>3
  <2>3. QED
    BY <2>1, <2>2
<1>13. index = Before(found, m)
  BY <1>2, <1>6, <1>12 DEF Before
<1>14. Resolve(scr, sel) = {scr[j] : j \in {k \in found : Before(found, k) = index}}
  <2>1. "index" \in DOMAIN sel /\ sel.index = index
    BY <1>3
  <2>2. QED
    BY <2>1 DEF Resolve
<1> HIDE DEF found, same
<1>15. Resolve(scr, sel) = {scr[m]}
  BY <1>11, <1>13, <1>14, BeforeTells
<1> QED
  BY <1>15 DEF sel, type

\* On any screen at all, of any size and depth and with any texts: an element
\* that a suggestion calls unique is the one the agent finds for it, whatever the
\* snapshot leaves out, unless what the inspector's count does not see is there
\* (Counted: an element that matches outside the snapshot, one whose label, title
\* or placeholder is the text searched for) - two programs that were written in
\* two languages (locators.py:60, ElementSelector.swift:82, ElementResolver.swift:15).
THEOREM UniqueSuggestionsFindTheirElement ==
  \A scr : IsScreen(scr) => \A inv \in BOOLEAN : UniqueFinds(scr, Serialize(scr, inv))
<1> SUFFICES ASSUME NEW scr, IsScreen(scr), NEW inv \in BOOLEAN,
                    NEW node \in Range(Serialize(scr, inv)),
                    NEW s \in Recommend(node, Serialize(scr, inv)), s.unique,
                    Counted(scr, Serialize(scr, inv), node, s)
             PROVE  {e.path : e \in Resolve(scr, Build(s))} = {node.path}
  BY DEF UniqueFinds
<1> DEFINE nodes == Serialize(scr, inv)
<1>1. PICK m \in DOMAIN nodes : node = nodes[m]
  BY DEF Range
<1>2. DOMAIN nodes \subseteq 1 .. Len(scr) /\ DOMAIN scr = 1 .. Len(scr)
  BY SnapshotOf DEF IsScreen
<1>3. node = Node(scr[m]) /\ node.path = scr[m].path
  <2>1. node = Node(scr[m])
    BY <1>1, SnapshotOf
  <2>2. QED
    BY <2>1 DEF Node
<1>4. m \in 2 .. Len(scr)
  <2>1. m # 1
    BY <1>3 DEF Counted, IsScreen
  <2>2. QED
    BY <1>1, <1>2, <2>1 DEF IsScreen
<1>5. "type" \in DOMAIN s.criteria /\ node.type = "other" => \A i \in DOMAIN scr : scr[i].kind \in Mapped
  BY DEF Counted, Range
<1>6. s.strategy # "Index" => NoneLeftOut(scr, inv, Build(s))
  BY DEF Counted, NoneLeftOut
<1>7. /\ node["identifier"] = scr[m]["identifier"] /\ node["label"] = scr[m]["label"]
      /\ node["value"] = scr[m]["value"]
  BY <1>3 DEF Node
<1>8. \A f \in {"identifier", "label"} :
        s.strategy \notin {"Text", "Index"} /\ Strip(node[f]) # NoText => Strip(node[f]) = node[f]
  BY DEF Strip, Counted, NoText
<1> DEFINE id == Strip(node.identifier)
           label == Strip(node.label)
<1>9. ASSUME NEW c \in CountedAlike(id, label, node.type), s.criteria = c, Unique(nodes, c),
             s.strategy \notin {"Text", "Index"}
      PROVE  {e.path : e \in Resolve(scr, Build(s))} = {node.path}
  <2>1. /\ DOMAIN c \subseteq {"identifier", "label", "type"}
        /\ \A k \in DOMAIN c : c[k] = node[k]
    <3>1. /\ id # NoText => id = node["identifier"]
          /\ label # NoText => label = node["label"]
      BY <1>8, <1>9
    <3> HIDE DEF id, label
    <3>2. QED
      BY <3>1 DEF CountedAlike
  <2>2. Build(s) = c
    BY <1>9, <2>1 DEF Build, Locator
  <2>3. \A k \in DOMAIN c : c[k] = Node(scr[m])[k]
    BY <1>3, <2>1
  <2>4. "type" \in DOMAIN c /\ Node(scr[m]).type = "other" =>
          \A i \in DOMAIN scr : scr[i].kind \in Mapped
    BY <1>3, <1>5, <1>9
  <2>5. OwnCriteria(scr, inv, m, c)
    BY <1>1, <1>4, <1>9, <2>1, <2>3, <2>4 DEF OwnCriteria
  <2>6. {e.path : e \in Resolve(scr, c)} = {scr[m].path}
    BY <1>6, <1>9, <2>2, <2>5, CriteriaFind
  <2>7. QED
    BY <1>3, <2>2, <2>6
<1>10. CASE s.strategy = "Text" /\ s.criteria = [text |-> node.value]
              /\ Unique(nodes, [value |-> node.value])
  <2>1. Build(s) = [text |-> node.value]
    BY <1>10 DEF Build, Locator
  <2>2. node.value = scr[m].value
    BY <1>7
  <2>3. \A e \in Range(scr) : node.value \in {e.label, e.title, e.placeholder}
                                => e.path \in {<< >>, node.path}
    BY <1>10 DEF Counted
  <2>4. ASSUME NEW i \in 2 .. Len(scr),
               scr[m].value \in {scr[i].label, scr[i].title, scr[i].placeholder}
        PROVE  i = m
    <3>1. i \in DOMAIN scr /\ m \in DOMAIN scr /\ 1 \in DOMAIN scr /\ i # 1
      BY <1>2, <1>4 DEF IsScreen
    <3>2. scr[i].path \in {<< >>, scr[m].path}
      BY <1>3, <2>2, <2>3, <2>4, <3>1 DEF Range
    <3>3. scr[i].path # << >>
      BY <3>1 DEF IsScreen
    <3>4. QED
      BY <3>1, <3>2, <3>3 DEF IsScreen
  <2>5. Unique(nodes, [value |-> scr[m].value])
    BY <1>10, <2>2
  <2>6. NoneLeftOut(scr, inv, [text |-> scr[m].value])
    BY <1>6, <1>10, <2>1, <2>2
  <2>7. {e.path : e \in Resolve(scr, [text |-> scr[m].value])} = {scr[m].path}
    BY <1>1, <1>4, <2>4, <2>5, <2>6, TextFinds
  <2>8. QED
    BY <1>3, <2>1, <2>2, <2>7
<1>11. ASSUME s.strategy = "Predicate", NEW both, PredicateOf(node, both),
              s.criteria = [predicate |-> both]
       PROVE  {e.path : e \in Resolve(scr, Build(s))} = {node.path}
  <2>1. Build(s) = [predicate |-> both]
    BY <1>11 DEF Build, Locator
  <2>2. /\ DOMAIN both \subseteq {"identifier", "label"}
        /\ \A f \in DOMAIN both : both[f] = Escape(Strip(node[f])) /\ Strip(node[f]) # NoText
    BY <1>11 DEF PredicateOf
  <2>3. \A f \in DOMAIN both : Strip(node[f]) = scr[m][f]
    BY <1>7, <1>8, <1>11, <2>2
  <2>4. \A f \in DOMAIN both : both[f] = Escape(scr[m][f])
    BY <2>2, <2>3
  <2>5. s.criteria.predicate = both
    BY <1>11
  <2> DEFINE c == [f \in DOMAIN both |-> Strip(node[f])]
  <2>6. Unique(nodes, c)
    BY <1>11, <2>5 DEF Counted
  <2>7. DOMAIN c = DOMAIN both /\ \A f \in DOMAIN both : c[f] = scr[m][f]
    BY <2>3
  <2>8. NoneLeftOut(scr, inv, [predicate |-> both])
    BY <1>6, <1>11, <2>1
  <2> HIDE DEF c
  <2>9. OwnPredicate(scr, inv, m, both, c)
    BY <1>1, <1>4, <2>2, <2>4, <2>6, <2>7 DEF OwnPredicate
  <2>10. {e.path : e \in Resolve(scr, [predicate |-> both])} = {scr[m].path}
    BY <2>8, <2>9, PredicateFinds
  <2>11. QED
    BY <1>3, <2>1, <2>10
<1>12. ASSUME s.strategy = "Index", NEW i \in IndexAmongType(nodes, node),
              s.criteria = [type |-> node.type, index |-> i]
       PROVE  {e.path : e \in Resolve(scr, Build(s))} = {node.path}
  <2>1. Build(s) = Nth([type |-> Node(scr[m]).type], i)
    <3>1. Build(s) = Nth([type |-> node.type], i)
      BY <1>12 DEF Build, Locator
    <3>2. QED
      BY <1>3, <3>1
  <2>2. node.type # "application"
    BY <1>12 DEF Counted
  <2>3. node.type = "other" => \A j \in DOMAIN scr : scr[j].kind \in Mapped
    BY <1>5, <1>12
  <2>4. \A j \in DOMAIN scr \ DOMAIN Serialize(scr, inv) :
          Satisfies(scr[j], Nth([type |-> Node(scr[m]).type], i)) => m < j
    <3>1. \A j \in DOMAIN scr \ DOMAIN Serialize(scr, inv) :
            Satisfies(scr[j], Build(s)) => m < j
      BY <1>1 DEF Counted
    <3>2. QED
      BY <2>1, <3>1
  <2>5. i \in IndexAmongType(nodes, Node(scr[m]))
    BY <1>3
  <2>6. Node(scr[m]).type # "application" /\
        (Node(scr[m]).type = "other" => \A j \in DOMAIN scr : scr[j].kind \in Mapped)
    BY <1>3, <2>2, <2>3
  <2>7. {e.path : e \in Resolve(scr, Nth([type |-> Node(scr[m]).type], i))} = {scr[m].path}
    BY <1>1, <1>4, <2>4, <2>5, <2>6, IndexFinds
  <2>8. QED
    BY <1>3, <2>1, <2>7
<1>13. \/ s.strategy \notin {"Text", "Index"} /\
            \E c \in CountedAlike(id, label, node.type) : s.criteria = c /\ Unique(nodes, c)
       \/ s.strategy = "Text" /\ s.criteria = [text |-> node.value]
            /\ Unique(nodes, [value |-> node.value])
       \/ s.strategy = "Predicate" /\ \E both :
            PredicateOf(node, both) /\ s.criteria = [predicate |-> both]
       \/ s.strategy = "Index" /\ \E i \in IndexAmongType(nodes, node) :
            s.criteria = [type |-> node.type, index |-> i]
  <2> HIDE DEF nodes
  <2>1. s \in Recommend(node, nodes)
    BY DEF nodes
  <2>2. QED
    BY <2>1, UniqueShapes
<1> HIDE DEF nodes, id, label
<1> QED
  BY <1>9, <1>10, <1>11, <1>12, <1>13

\* The screens TLC compares the two over are screens.
LEMMA ElementTexts ==
  ASSUME NEW path, NEW kind, NEW area, NEW id \in Texts, NEW l \in Texts, NEW v \in Texts,
         NEW t \in Texts, NEW q \in Texts, NEW f \in TextFields
  PROVE  Element(path, kind, Named(id, l, v, t, q), area)[f] \in Texts
<1>1. f = "identifier" \/ f = "label" \/ f = "value" \/ f = "title" \/ f = "placeholder"
  BY DEF TextFields
<1> QED
  BY <1>1 DEF Element, Named

LEMMA SmallScreensAreScreens ==
  ASSUME NEW scr \in SmallScreens PROVE IsScreen(scr)
<1>1. PICK a \in Firsts, b \in Seconds, p \in {<< 1 >>, << 0, 0 >>} :
        scr = << Root(Word), Make(<< 0 >>, a), Make(p, b) >>
  BY DEF SmallScreens
<1>2. Len(scr) = 3 /\ DOMAIN scr = 1 .. 3
  BY <1>1
<1>3. scr[1] = Root(Word) /\ scr[2] = Make(<< 0 >>, a) /\ scr[3] = Make(p, b)
  BY <1>1
<1>4. /\ scr[1].path = << >> /\ scr[1].kind = "application"
      /\ scr[2].path = << 0 >> /\ scr[3].path = p
  BY <1>3 DEF Root, Make, Element
<1>5. << >> # << 0 >> /\ << >> # p /\ << 0 >> # p
  <2>1. Len(<< >>) = 0 /\ Len(<< 0 >>) = 1 /\ Len(<< 1 >>) = 1 /\ Len(<< 0, 0 >>) = 2
    OBVIOUS
  <2>2. << 0 >>[1] = 0 /\ << 1 >>[1] = 1
    OBVIOUS
  <2>3. QED
    BY <2>1, <2>2
<1>6. \A i \in 1 .. 3 : i = 1 \/ i = 2 \/ i = 3
  OBVIOUS
<1>7. ASSUME NEW i \in 1 .. 3, NEW j \in 1 .. 3, i # j PROVE scr[i].path # scr[j].path
  <2>1. CASE i = 1
    BY <1>4, <1>5, <1>6, <1>7, <2>1
  <2>2. CASE i = 2
    BY <1>4, <1>5, <1>6, <1>7, <2>2
  <2>3. CASE i = 3
    BY <1>4, <1>5, <1>6, <1>7, <2>3
  <2>4. QED
    BY <1>6, <2>1, <2>2, <2>3
<1>8. Len(scr) \in Nat \ {0} /\ DOMAIN scr = 1 .. Len(scr)
  BY <1>2
<1>9. ASSUME NEW i \in 1 .. 3, NEW f \in TextFields PROVE scr[i][f] \in Texts
  <2>1. NoText \in Texts /\ Word \in Texts /\ Quoted1 \in Texts /\ Padded1 \in Texts
    BY DEF NoText, Word, Quoted1, Padded1, Texts, Marks
  <2>2. CASE i = 1
    <3>1. scr[1] = Element(<< >>, "application", Named(NoText, Word, NoText, NoText, NoText), {1, 2, 3})
      BY <1>3 DEF Root
    <3>2. QED
      BY <2>1, <2>2, <3>1, ElementTexts
  <2>3. CASE i = 2
    <3>1. PICK k, id, l, v, t, q, area :
            /\ a = [kind |-> k, texts |-> Named(id, l, v, t, q), frame |-> area]
            /\ {id, l, v, t, q} \subseteq {NoText, Word, Quoted1}
      BY DEF Firsts
    <3>2. scr[2] = Element(<< 0 >>, k, Named(id, l, v, t, q), area)
      BY <1>3, <3>1 DEF Make
    <3>3. QED
      BY <2>1, <2>3, <3>1, <3>2, ElementTexts
  <2>4. CASE i = 3
    <3>1. PICK k, id, l, v, area :
            /\ b = [kind |-> k, texts |-> Named(id, l, v, NoText, NoText), frame |-> area]
            /\ {id, l, v} \subseteq {NoText, Word, Padded1, Quoted1}
      BY DEF Seconds
    <3>2. scr[3] = Element(p, k, Named(id, l, v, NoText, NoText), area)
      BY <1>3, <3>1 DEF Make
    <3>3. QED
      BY <2>1, <2>4, <3>1, <3>2, ElementTexts
  <2>5. QED
    BY <1>6, <2>2, <2>3, <2>4
<1> QED
  BY <1>2, <1>4, <1>7, <1>8, <1>9 DEF IsScreen

\* The theorem for the screens the run looks at.
THEOREM SuggestionsAgreeWithTheAgent == Spec => []UniqueFindsIt
<1>1. UniqueFindsIt
  BY UniqueSuggestionsFindTheirElement, SmallScreensAreScreens DEF UniqueFindsIt
<1> QED
  BY <1>1, PTL

\* What the window has of the application is a snapshot of one of its screens.
SnapshotInv ==
  tree # NoView =>
    /\ tree.screen \in DOMAIN Screens
    /\ \E inv \in BOOLEAN : tree.nodes = Serialize(Screens[tree.screen], inv)

LEMMA SnapshotNext == TypeInv /\ SnapshotInv /\ [Next]_vars => SnapshotInv'
<1> SUFFICES ASSUME TypeInv, SnapshotInv, [Next]_vars PROVE SnapshotInv'
  OBVIOUS
<1>1. CASE UNCHANGED tree
  BY <1>1 DEF SnapshotInv
<1>2. CASE tree' = [screen |-> screen, nodes |-> Serialize(Screens[screen], invisible)]
  <2>1. screen \in DOMAIN Screens /\ invisible \in BOOLEAN
    BY DEF TypeInv, AppOK, FieldsOK
  <2>2. tree'.screen = screen /\ tree'.nodes = Serialize(Screens[screen], invisible)
    BY <1>2
  <2>3. QED
    BY <2>1, <2>2 DEF SnapshotInv
<1>3. CASE Next
  BY <1>1, <1>2, <1>3, StepsHappen, ViewSteps DEF RefreshImage, RefreshTree, view
<1> QED
  BY <1>1, <1>3 DEF vars, view

\* What is acted on is what is selected, on any screens and after any number of
\* refreshes, selections and failed calls: the node is looked up in a snapshot
\* of the very screen (app.py:525), where a unique locator finds it.
THEOREM WhatIsActedOnIsSelected == Spec => []ActionsHitTheSelection
<1>1. Init => SnapshotInv
  BY DEF Init, SnapshotInv
<1>2. TypeInv /\ SnapshotInv => ActionsHitTheSelection
  <2> SUFFICES ASSUME TypeInv, SnapshotInv, NEW n \in selected \cap Range(tree.nodes),
                      NEW s \in SelectedSuggestion, s.unique,
                      Counted(Screens[tree.screen], tree.nodes, n, s)
               PROVE  {e.path : e \in Resolve(Screens[tree.screen], Build(s))} = {n.path}
    BY DEF ActionsHitTheSelection
  <2>1. tree # NoView
    BY DEF SelectedSuggestion
  <2>2. PICK inv \in BOOLEAN : tree.nodes = Serialize(Screens[tree.screen], inv)
    BY <2>1 DEF SnapshotInv
  <2>3. IsScreen(Screens[tree.screen])
    BY <2>1, InspectorAssumption DEF SnapshotInv
  <2>4. s \in BestLocator(n, tree.nodes)
    BY <2>1 DEF SelectedSuggestion, TypeInv, PicksOK, AtMostOne
  <2>5. s \in Recommend(n, tree.nodes)
    BY <2>4 DEF BestLocator
  <2>6. UniqueFinds(Screens[tree.screen], tree.nodes)
    BY <2>2, <2>3, UniqueSuggestionsFindTheirElement
  <2>7. QED
    BY <2>5, <2>6 DEF UniqueFinds
<1> QED
  BY <1>1, <1>2, SnapshotNext, TypeInit, TypeNext, TextsInvariant, RecorderInvariant, PTL
     DEF Spec
=============================================================================
