----------------------------- MODULE MCInspector -----------------------------
(***************************************************************************)
(* An instance of Inspector for TLC: what the application shows, and the   *)
(* small screens the ranking of locators is compared with the agent over.  *)
(***************************************************************************)
EXTENDS Inspector

\* The five texts of an element, in the order of their names here.
Named(i, l, v, t, p) ==
  [identifier |-> i, label |-> l, value |-> v, title |-> t, placeholder |-> p]

Word == {"word"}

Root(label) ==
  Element(<<>>, "application", Named(NoText, label, NoText, NoText, NoText), {1, 2, 3})

\* A button with nothing to go by, and one with a label of two lines.
LoginScreen ==
  <<Root(NoText),
    Element(<<0>>, "button", Named(NoText, NoText, NoText, NoText, NoText), {1}),
    Element(<<1>>, "button", Named(NoText, {"word", "break"}, NoText, NoText, NoText), {2})>>

\* A web view with only a value, and a label with an apostrophe, which a second button
\* outside the screen has too.
Dont == {"word", "apostrophe"}
WebScreen ==
  <<Root(NoText),
    Element(<<0>>, "webView", Named(NoText, NoText, {"word", "special"}, NoText, Word), {1}),
    Element(<<1>>, "button", Named(NoText, Dont, NoText, NoText, NoText), {2}),
    Element(<<2>>, "button", Named(NoText, Dont, NoText, NoText, NoText), {9})>>

MCScreens == <<LoginScreen, WebScreen>>

\* The dialogs' fields are of one line.
MCInputs == {{"word", "special", "apostrophe"}, {"word"}}

\* Every screen of two elements, beside or below each other, that differ in what a
\* locator can tell: the second with every identifier, label and value, the first
\* also with a title or a placeholder.
Quoted1 == {"word", "special"}
Padded1 == {"word", "space"}

Firsts ==
  {[kind |-> k, texts |-> Named(id, l, v, t, p), frame |-> f] :
     k \in {"button", "webView"}, id \in {NoText, Word}, l \in {NoText, Quoted1},
     v \in {NoText, Word}, t \in {NoText, Word}, p \in {NoText, Word}, f \in {{1}, {9}}}

Seconds ==
  {[kind |-> k, texts |-> Named(id, l, v, NoText, NoText), frame |-> f] :
     k \in {"button", "webView", "other", "application"}, id \in {NoText, Word, Padded1},
     l \in {NoText, Quoted1}, v \in {NoText, Word}, f \in {{1}, {9}}}

Make(path, a) == Element(path, a.kind, a.texts, a.frame)

SmallScreens ==
  {<<Root(Word), Make(<<0>>, a), Make(p, b)>> : a \in Firsts, b \in Seconds,
                                                 p \in {<<1>>, <<0, 0>>}}

\* The inspector's count agrees with what the agent finds (UniqueFinds), on every
\* small screen, with invisible nodes and without.  It is about no state, and
\* evaluated in the first.
UniqueFindsIt ==
  window = "starting" =>
    \A scr \in SmallScreens : \A inv \in BOOLEAN : UniqueFinds(scr, Serialize(scr, inv))
=============================================================================
