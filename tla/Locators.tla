------------------------------- MODULE Locators -------------------------------
(***************************************************************************)
(* Which element a locator means.  The inspector ranks the ways to address *)
(* a node by counting matches in a snapshot (locators.py), the agent looks *)
(* the element up in the application (ElementSelector, ElementResolver):   *)
(* two programs, two trees, two notions of matching.                       *)
(*                                                                         *)
(* A screen is the accessibility tree of the application as the sequence   *)
(* of its elements, depth first; the first is the application itself.  A   *)
(* path is the sequence of child positions from the root.  A frame is the  *)
(* set of points it covers.                                                *)
(***************************************************************************)
EXTENDS SdkCalls, Sequences, SequencesExt, FiniteSets

CONSTANTS
  ScreenPoints,  \* the points of the screen
  MaxDepth       \* depth at which the inspector's snapshots are cut

(***************************************************************************)
(* A text is the set of the marks it has: that it has a visible character  *)
(* ("word"), blanks around it ("space"), a line break ("break"), a blank   *)
(* on the inner side of a bracket ("gap"), an apostrophe, or a double      *)
(* quote or backslash ("special").  The conversions on the way into the    *)
(* code and back give it others: joined lines or closed gaps ("respaced"), *)
(* quotes and backslashes behind a backslash ("escaped"), and what is      *)
(* parsed without one ("garbled").                                         *)
(***************************************************************************)
Marks  == {"word", "space", "break", "gap", "apostrophe", "special"}
Texts  == SUBSET Marks
NoText == {}

\* The element types the wire has names for, and one that it has none for.
Mapped == {"application", "other", "button"}
Kinds  == Mapped \cup {"webView"}

TextFields == {"identifier", "label", "value", "title", "placeholder"}

Element(path, kind, texts, frame) ==
  [path |-> path, kind |-> kind, frame |-> frame, identifier |-> texts.identifier,
   label |-> texts.label, value |-> texts.value, title |-> texts.title,
   placeholder |-> texts.placeholder]

\* A screen: its first element is the application, and no two are at one path.
IsScreen(screen) ==
  /\ Len(screen) \in Nat \ {0} /\ DOMAIN screen = 1 .. Len(screen)
  /\ screen[1].path = <<>> /\ screen[1].kind = "application"
  /\ \A i, j \in DOMAIN screen : screen[i].path = screen[j].path => i = j
  /\ \A i \in DOMAIN screen : \A f \in TextFields : screen[i][f] \in Texts

(***************************************************************************)
(* SnapshotSerializer: types without a name become "other", a node that is *)
(* not visible takes its children with it, and so does the depth limit.  A *)
(* snapshot is a function too: each node at the place of its element in    *)
(* the screen, which keeps the order and shows what is left out.           *)
(***************************************************************************)
Name(kind) == IF kind \in Mapped THEN kind ELSE "other"

Visible(e) == e.frame \cap ScreenPoints # {}

Node(e) == [path |-> e.path, type |-> Name(e.kind), visible |-> Visible(e),
            frame |-> e.frame, identifier |-> e.identifier, label |-> e.label,
            value |-> e.value, title |-> e.title, placeholder |-> e.placeholder]

Serialize(screen, includeInvisible) ==
  LET Kept(e) ==
        /\ Len(e.path) <= MaxDepth
        /\ \/ includeInvisible
           \/ \A a \in Range(screen) : IsPrefix(a.path, e.path) => Visible(a)
  IN  [i \in {j \in DOMAIN screen : Kept(screen[j])} |-> Node(screen[i])]

\* How many of these places come before one: its index among them.
Before(places, i) == Cardinality({j \in places : j < i})

(***************************************************************************)
(* hierarchy.py over a snapshot, whose order is that of iter_nodes.        *)
(***************************************************************************)
HitTest(tree, point) ==
  LET hits == {i \in DOMAIN tree : tree[i].visible /\ point \in tree[i].frame}
      Area(i) == Cardinality(tree[i].frame)
  IN  {tree[i] : i \in {j \in hits : \A k \in hits :
          Area(j) < Area(k) \/ (Area(j) = Area(k) /\ j <= k)}}

FindByPath(tree, path) == {n \in Range(tree) : n.path = path}

(***************************************************************************)
(* locators.py                                                             *)
(***************************************************************************)
Strip(text) == IF text \subseteq {"space", "break"} THEN NoText ELSE text \ {"space"}

Replaced(text, mark, by) == IF mark \in text THEN (text \ {mark}) \cup {by} ELSE text

\* Mutant: quotes and backslashes are left as they are.
EscapeNothing(text) == text

\* _escape, for a text between double quotes.
Escape(text) == Replaced(text, "special", "escaped")

\* What a parser makes of a text between quotes, Python's or NSPredicate's.
Unescape(text) == Replaced(Replaced(text, "special", "garbled"), "escaped", "special")

\* inline() works on the whole call: it joins its lines by a space and closes
\* the gap inside brackets, also within a text.
Inlined(text) ==
  IF text \cap {"break", "gap"} = {} THEN text
  ELSE (text \ {"break", "gap"}) \cup {"respaced"}

CountMatches(tree, criteria) ==
  Cardinality({i \in DOMAIN tree : \A k \in DOMAIN criteria : tree[i][k] = criteria[k]})

Unique(tree, criteria) == CountMatches(tree, criteria) = 1

\* Mutant: the index counts the nodes of every type.
IndexAmongAll(tree, node) ==
  {Before(DOMAIN tree, i) : i \in {j \in DOMAIN tree : tree[j].path = node.path}}

\* The position of the node among the nodes of its type: none if its path is
\* not in the tree under that type.
IndexAmongType(tree, node) ==
  LET same == {i \in DOMAIN tree : tree[i].type = node.type}
  IN  {Before(same, i) : i \in {j \in same : tree[j].path = node.path}}

Suggest(strategy, score, unique, criteria, code) ==
  [strategy |-> strategy, score |-> score, unique |-> unique,
   criteria |-> criteria, code |-> code]

\* A suggestion's code is the call it is written as: a factory of the page and
\* the texts it is given, escaped.  Its criteria are what the inspector itself
\* builds the locator from.  A predicate is the fields it compares and the texts
\* it compares them with, which are escaped in its own language, in both.
Recommend(node, tree) ==
  LET id    == Strip(node.identifier)
      label == Strip(node.label)
      byId      == [identifier |-> id]
      byIdType  == [type |-> node.type, identifier |-> id]
      byLabel   == [label |-> label]
      byLabelType == [type |-> node.type, label |-> label]
      texts     == [identifier |-> id, label |-> label]
      both      == [f \in {g \in DOMAIN texts : texts[g] # NoText} |-> Escape(texts[f])]
      If(condition, suggestions) == IF condition THEN suggestions ELSE {}
  IN  If(id # NoText,
        {Suggest("Accessibility ID", IF Unique(tree, byId) THEN 5 ELSE 3,
                 Unique(tree, byId), byId,
                 <<"get_by_id", [identifier |-> Escape(id)]>>)}) \cup
      If(id # NoText /\ ~Unique(tree, byId),
        {Suggest("Identifier + type", 4, Unique(tree, byIdType), byIdType,
                 <<"locator", [type |-> node.type, identifier |-> Escape(id)]>>)}) \cup
      If(label # NoText,
        {Suggest("Label", IF Unique(tree, byLabel) THEN 4 ELSE 2,
                 Unique(tree, byLabel), byLabel,
                 <<"get_by_label", [label |-> Escape(label)]>>),
         Suggest("Type + label", IF Unique(tree, byLabelType) THEN 4 ELSE 3,
                 Unique(tree, byLabelType), byLabelType,
                 <<"locator", [type |-> node.type, label |-> Escape(label)]>>)}) \cup
      If(Strip(node.value) # NoText,
        {Suggest("Text", 3, Unique(tree, [value |-> node.value]), [text |-> node.value],
                 <<"get_by_text", [text |-> Escape(node.value)]>>)}) \cup
      If(id # NoText \/ label # NoText,
        {Suggest("Predicate", 3, TRUE, [predicate |-> both],
                 <<"get_by_predicate", [predicate |-> both]>>)}) \cup
      {Suggest("Index", 2, TRUE, [type |-> node.type, index |-> i],
               <<"get_by_type_nth", [type |-> node.type, index |-> i]>>) :
          i \in IndexAmongType(tree, node)}

Strategies == <<"Accessibility ID", "Identifier + type", "Index", "Label",
                "Predicate", "Text", "Type + label">>

\* Mutant: the sort breaks no tie of the scores.
AboveByScore(a, b) == a.score >= b.score

\* The order of recommend's sort: score, then unique ones, then the name.
Above(a, b) ==
  LET rank(s) == CHOOSE i \in DOMAIN Strategies : Strategies[i] = s.strategy
  IN  \/ a.score > b.score
      \/ a.score = b.score /\ a.unique /\ ~b.unique
      \/ a.score = b.score /\ a.unique = b.unique /\ rank(a) < rank(b)

\* At most one suggestion: the first of the list.
BestLocator(node, tree) ==
  LET all == Recommend(node, tree)
  IN  {s \in all : \A t \in all \ {s} : Above(s, t)}

\* LocatorSuggestion.build
Build(suggestion) ==
  LET c == suggestion.criteria
  IN  IF "index" \in DOMAIN c
      THEN Nth(Locator([type |-> c.type]), c.index)
      ELSE Locator(c)

\* The arguments of a call, with what f does to its texts.  OnTexts is where
\* they are: all but the type and the index, in a predicate each it compares.
OnTexts(f(_), given) ==
  [k \in DOMAIN given |->
     CASE k \in {"type", "index"} -> given[k]
       [] k = "predicate" -> [g \in DOMAIN given[k] |-> f(given[k][g])]
       [] OTHER -> f(given[k])]

InlineCode(suggestion) == <<suggestion.code[1], OnTexts(Inlined, suggestion.code[2])>>

\* A text between quotes is one Python literal.  The mark of the quote itself, or
\* a line break, ends it early: the file is a syntax error.
IsLiteral(quote, text) == text \cap {quote, "break"} = {}

\* All texts of a call are between double quotes, but those of the predicate,
\* which is between apostrophes, where nothing has escaped an apostrophe.
PlainTexts(code) == {code[2][k] : k \in DOMAIN code[2] \ {"type", "index", "predicate"}}

PredicateTexts(code) ==
  UNION {{code[2][k][f] : f \in DOMAIN code[2][k]} : k \in DOMAIN code[2] \cap {"predicate"}}

Compiles(code) ==
  /\ \A text \in PlainTexts(code) : IsLiteral("special", text)
  /\ \A text \in PredicateTexts(code) : IsLiteral("apostrophe", text)

\* What a call that compiles evaluates to when it is run.
Evaluate(code) ==
  LET given == OnTexts(Unescape, code[2])
  IN  CASE code[1] = "get_by_id"        -> GetById(given.identifier)
        [] code[1] = "get_by_label"     -> GetByLabel(given.label)
        [] code[1] = "get_by_text"      -> GetByText(given.text)
        [] code[1] = "get_by_predicate" -> GetByPredicate(given.predicate)
        [] code[1] = "get_by_type_nth"  -> Nth(GetByType(given.type), given.index)
        [] code[1] = "locator"          -> Locator(given)

(***************************************************************************)
(* The agent: the criteria become one predicate on the descendants of the  *)
(* application, which are not the application itself; a type that has no   *)
(* name matches any, and a predicate is parsed before it is compared.      *)
(***************************************************************************)
Satisfies(e, selector) ==
  \A k \in DOMAIN selector :
    CASE k = "type"      -> selector.type \in Mapped => e.kind = selector.type
      [] k = "text"      -> selector.text \in {e.label, e.value, e.title, e.placeholder}
      [] k = "predicate" -> \A f \in DOMAIN selector.predicate :
                              e[f] = Unescape(selector.predicate[f])
      [] k = "index"     -> TRUE
      [] OTHER           -> e[k] = selector[k]

\* The element a selector resolves to: none, or one.
Resolve(screen, selector) ==
  LET found == {i \in 2 .. Len(screen) : Satisfies(screen[i], selector)}
      index == IF "index" \in DOMAIN selector THEN selector.index ELSE 0
  IN  {screen[i] : i \in {j \in found : Before(found, j) = index}}

(***************************************************************************)
(* The two notions of matching.                                            *)
(***************************************************************************)

\* What the inspector's count does not see: an element the snapshot leaves out,
\* off screen or too deep, that matches too, for "Index" one that comes before;
\* that the application is none of its own descendants; that a text strip()
\* changes is another text; that a type without a name is exported as "other";
\* that "Text" is matched over labels, titles and placeholders too; "Predicate"
\* does not count at all.
Counted(screen, tree, node, s) ==
  /\ \A i \in DOMAIN screen \ DOMAIN tree :
       Satisfies(screen[i], Build(s)) =>
         s.strategy = "Index" /\ \A j \in DOMAIN tree : tree[j] = node => j < i
  /\ node.path # <<>>
  /\ s.strategy \notin {"Text", "Index"} => "space" \notin node.identifier \cup node.label
  /\ s.strategy = "Index" => node.type # "application"
  /\ "type" \in DOMAIN s.criteria /\ node.type = "other" =>
       \A e \in Range(screen) : e.kind \in Mapped
  /\ s.strategy = "Text" => \A e \in Range(screen) :
       node.value \in {e.label, e.title, e.placeholder} => e.path \in {<<>>, node.path}
  /\ s.strategy = "Predicate" =>
       Unique(tree, [f \in DOMAIN s.criteria.predicate |-> Strip(node[f])])

\* A suggestion that says it is unique finds the element it was made for, and no
\* other: the count over the snapshot agrees with what the agent finds in the
\* application (locators.py:60, ElementResolver.swift:15).
UniqueFinds(screen, tree) ==
  \A node \in Range(tree) : \A s \in Recommend(node, tree) :
    s.unique /\ Counted(screen, tree, node, s) =>
      {e.path : e \in Resolve(screen, Build(s))} = {node.path}
=============================================================================
