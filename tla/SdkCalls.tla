------------------------------- MODULE SdkCalls -------------------------------
(***************************************************************************)
(* The calls of the SDK (ios-sdk/sandstorm_ios/sdk) as values: what a      *)
(* locator says about an element, and what request a method of Locator,    *)
(* IOSPage or IOSApplication sends to the agent.  A selector is a function *)
(* from the criteria that are given (Selector leaves out the others when   *)
(* it goes on the wire) to their values; a request carries, besides its    *)
(* parameters, how long the agent may wait for the element and how long    *)
(* the client waits for the reply.                                         *)
(***************************************************************************)
EXTENDS Naturals

CONSTANTS
  CommandTimeout,   \* IOSDevice(command_timeout=30)
  DefaultTimeout    \* IOSDevice(default_timeout=10)

ASSUME TimeoutsAssumption == CommandTimeout \in Nat /\ DefaultTimeout \in Nat

(***************************************************************************)
(* Locator factories.                                                      *)
(***************************************************************************)
Locator(criteria) == criteria

GetById(text)        == Locator([identifier |-> text])
GetByLabel(text)     == Locator([label |-> text])
GetByText(text)      == Locator([text |-> text])
GetByType(type)      == Locator([type |-> type])
GetByPredicate(text) == Locator([predicate |-> text])

Nth(selector, index) ==
  [k \in {"index"} \cup DOMAIN selector |-> IF k = "index" THEN index ELSE selector[k]]

(***************************************************************************)
(* Requests.  Every method of an element waits for it on the agent for the *)
(* page's default timeout, and sends its request with the client's command *)
(* timeout; wait_for alone asks the client to wait longer than the agent.  *)
(***************************************************************************)
Request(method, selector, args, wait, socket) ==
  [method |-> method, selector |-> selector, args |-> args,
   wait |-> wait, socket |-> socket]

OnElement(method, selector, args) ==
  Request(method, selector, args, DefaultTimeout, CommandTimeout)

Tap(selector)                 == OnElement("element.tap", selector, <<>>)
LongPress(selector, duration) == OnElement("element.longPress", selector, <<duration>>)
Fill(selector, text)          == OnElement("element.typeText", selector, <<text, TRUE>>)
Clear(selector)               == OnElement("element.clear", selector, <<>>)

WaitFor(selector, state, timeout) ==
  Request("element.waitFor", selector, <<state>>, timeout, timeout + 10)

OnPage(method, args) == Request(method, <<>>, args, 0, CommandTimeout)

TapAt(point)                 == OnPage("gesture.tap", <<point>>)
LongPressAt(point, duration) == OnPage("gesture.longPress", <<point, duration>>)
Swipe(from, to, duration)    == OnPage("gesture.swipe", <<from, to, duration>>)

Launch(bundle, relaunch) ==
  Request("app.launch", <<>>, <<bundle, relaunch>>, 30, 45)
=============================================================================
