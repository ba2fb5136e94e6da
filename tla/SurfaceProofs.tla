---------------------------- MODULE SurfaceProofs ----------------------------
(***************************************************************************)
(* Proofs about Surface, for any documents and any grants.  What a server  *)
(* starts with is checked against what it will serve, in one place for a   *)
(* REST guardfile and in two for a proxy; the invariant says what those    *)
(* checks have established by the time each phase is entered, and that a   *)
(* control is configured, or was dropped and reported, until it is wired.  *)
(***************************************************************************)
EXTENDS Surface, FiniteSetTheorems, SequenceTheorems, TLAPS

\* Flags carry no guardfile.
LEMMA FlagsStateNothing ==
    ASSUME doc \in Docs, doc.form = "flags", NEW k
    PROVE  All(k) = {}
<1>1. doc.own = <<>> /\ doc.base = <<>>
    BY DocAssumption
<1>2. Stated = <<>>
    BY <1>1 DEF Stated
<1>3. Range(Stated) = {}
    BY <1>2 DEF Range
<1> QED
    BY <1>3 DEF All, At, Kept

-----------------------------------------------------------------------------
\* A stated control is configured, or reported as dropped from a tool that is not minted.
Remembered(k, n) ==
    \/ Tool(n) \in controls[k]
    \/ <<k, Tool(n)>> \in vacated /\ Tool(n) \in Inherited \ doc.minted
AllRemembered == \A k \in Scoped : \A n \in All(k) : Remembered(k, n)

\* Of a proxy's guardfile: what it states can be wired, and a pin names something.
ProxyParsed == /\ \A s \in Kept : s.node.kind \in Projected
               /\ \A n \in All("pin") : Pinned(n) # {}

\* What the checks of either form have established of what is served.
Fits == InfoIsNew /\ StubsFit /\ ConfirmsFit(controls["confirm"])
RestFits  == ControlsFit /\ AllRemembered
ProxyDone == /\ controls["confirm"] = {Tool(n) : n \in All("confirm")}
             /\ Startable /\ PinsFit(ProxyPins)
             /\ doc.form = "file" => ProxyParsed

\* What is registered.
Handlers == [t \in doc.minted \cup InfoTools \cup Stubs |-> Handler(Registered(t), t)]

PhaseInv ==
    /\ doc \in Docs
    /\ phase \in {"vacate", "validate"} => doc.form = "rest"
    /\ phase = "vacate" => controls = Configured
    /\ phase = "validate" => AllRemembered
    /\ phase = "parse" => doc.form # "flags"
    /\ phase = "build" => /\ doc.form # "rest"
                          /\ controls["confirm"] = {Tool(n) : n \in All("confirm")}
                          /\ doc.form = "file" => ProxyParsed /\ SpecFits /\ controls = Configured
    /\ phase \in {"register", "served"} =>
           /\ Fits /\ listed = Inventory
           /\ IF doc.form = "rest" THEN RestFits ELSE ProxyDone
    /\ phase = "served" => handlers = Handlers

LEMMA InitPhase == Init => PhaseInv
<1> SUFFICES ASSUME Init PROVE PhaseInv
    OBVIOUS
<1>1. doc \in Docs /\ doc.form \in {"rest", "file", "flags"}
    BY DocAssumption DEF Init
<1>2. phase = "build" => doc.form = "flags" /\ controls["confirm"] = {} /\ All("confirm") = {}
    BY <1>1, FlagsStateNothing DEF Init, Scoped
<1> QED
    BY <1>1, <1>2 DEF Init, PhaseInv

\* What a file states does not change while the server starts.
LEMMA DocStays == Next => doc' = doc
BY DEF Next, Parse, Vacate, Validate, ParseUpstreamSpec, NewProxy, Register, Finished, Refuse, vars

LEMMA SameDoc ==
    ASSUME doc' = doc
    PROVE  /\ Stated' = Stated /\ \A k : At(k)' = At(k) /\ All(k)' = All(k)
           /\ FilePins' = FilePins /\ FlagPins' = FlagPins
           /\ Stubs' = Stubs /\ InfoTools' = InfoTools /\ Served' = Served /\ InfoIsNew' = InfoIsNew
           /\ StubsFit' = StubsFit /\ Startable' = Startable /\ ProxyPins' = ProxyPins
           /\ Configured' = Configured /\ ProxyParsed' = ProxyParsed /\ Inherited' = Inherited
           /\ SpecFits' = SpecFits /\ PinsFit(ProxyPins)' = PinsFit(ProxyPins)
           /\ \A cs : ConfirmsFit(cs)' = ConfirmsFit(cs)
<1>1. Stated' = Stated /\ Kept' = Kept
    BY DEF Kept, Stated, Replaced
<1>2. \A k : At(k)' = At(k) /\ All(k)' = All(k) /\ First(k)' = First(k)
    BY <1>1 DEF At, All, First
<1>3. InfoTools' = InfoTools /\ Info' = Info /\ Stubs' = Stubs
    BY <1>2 DEF InfoTools, Info, Stubs
<1>4. Served' = Served /\ InfoIsNew' = InfoIsNew /\ StubsFit' = StubsFit
    BY <1>2, <1>3 DEF Served, InfoIsNew, StubsFit
<1>5. FilePins' = FilePins /\ FlagPins' = FlagPins
    BY <1>2 DEF FilePins, FlagPins
<1>6. Startable' = Startable /\ ProxyPins' = ProxyPins
    BY <1>5 DEF Startable, ProxyPins
<1>7. Configured' = Configured /\ \A cs : ConfirmsFit(cs)' = ConfirmsFit(cs)
    BY <1>2, <1>3, <1>4 DEF Configured, ConfirmsFit
<1>8. PinsFit(FilePins)' = PinsFit(FilePins) /\ PinsFit(ProxyPins)' = PinsFit(ProxyPins)
    BY <1>5, <1>6 DEF PinsFit
<1>9. SpecFits' = SpecFits
    BY <1>4, <1>7, <1>8 DEF SpecFits
<1>10. ProxyParsed' = ProxyParsed /\ Inherited' = Inherited
    BY <1>1, <1>2 DEF ProxyParsed, Inherited
<1> QED
    BY <1>1, <1>2, <1>3, <1>4, <1>5, <1>6, <1>7, <1>8, <1>9, <1>10

\* What is remembered of a REST guardfile once the bases' vacant controls are dropped.
LEMMA VacateRemembers ==
    ASSUME controls = Configured, Vacate
    PROVE  AllRemembered'
<1> SUFFICES ASSUME NEW k \in Scoped, NEW n \in All(k) PROVE Remembered(k, n)'
    BY SameDoc DEF Vacate, AllRemembered
<1>1. Tool(n) \in controls[k]
    BY DEF Configured
<1>2. CASE Tool(n) \in Vacant(k)
  <2>1. <<k, Tool(n)>> \in vacated' /\ Tool(n) \in Inherited \ doc.minted /\ doc' = doc
    <3>1. <<k, Tool(n)>> \in {k} \X Vacant(k)
        BY <1>2
    <3>2. <<k, Tool(n)>> \in vacated'
        BY <3>1 DEF Vacate
    <3> QED
        BY <1>2, <3>2 DEF Vacate, Vacant
  <2> QED
      BY <2>1, SameDoc DEF Remembered
<1>3. CASE Tool(n) \notin Vacant(k)
    BY <1>1, <1>3 DEF Vacate, Remembered
<1> QED
    BY <1>2, <1>3

LEMMA PhaseStep == PhaseInv /\ [Next]_vars => PhaseInv'
<1> SUFFICES ASSUME PhaseInv, [Next]_vars PROVE PhaseInv'
    OBVIOUS
<1>1. ASSUME Refuse PROVE PhaseInv'
    BY <1>1 DEF Refuse, PhaseInv
<1>2. CASE Parse
    BY <1>1, <1>2, SameDoc DEF Parse, PhaseInv
<1>3. CASE Vacate
    BY <1>3, VacateRemembers DEF Vacate, PhaseInv
<1> DEFINE Same == UNCHANGED <<doc, controls, apps, vacated>>
<1>4. ASSUME Same
      PROVE  /\ AllRemembered' = AllRemembered /\ ControlsFit' = ControlsFit /\ Fits' = Fits
             /\ Inventory' = Inventory /\ ProxyDone' = ProxyDone /\ Handlers' = Handlers
  <2>1. AllRemembered' = AllRemembered /\ ControlsFit' = ControlsFit
      BY <1>4, SameDoc DEF AllRemembered, Remembered, ControlsFit
  <2>2. Fits' = Fits /\ ProxyDone' = ProxyDone
      BY <1>4, SameDoc DEF Fits, ProxyDone
  <2>3. \A t : Ui(t)' = Ui(t)
      BY <1>4 DEF Ui
  <2>4. Inventory' = Inventory
      BY <1>4, <2>3, SameDoc DEF Inventory, Entries
  <2>5. \A t : Layers(t)' = Layers(t)
    <3>1. (\A k, t : Stating(k, t)' = Stating(k, t)) /\ Wired' = Wired
        BY <1>4, SameDoc DEF Stating, Wired
    <3>2. \A t : PinLayers(t)' = PinLayers(t)
        BY <1>4, <3>1, SameDoc DEF PinLayers
    <3> QED
        BY <1>4, <3>1, <3>2, SameDoc DEF Layers
  <2>6. \A what, t : Handler(what, t)' = Handler(what, t) /\ Registered(t)' = Registered(t)
      BY <1>4, <2>3, <2>5, SameDoc DEF Handler, Registered
  <2>7. Handlers' = Handlers
      BY <1>4, <2>6, SameDoc DEF Handlers
  <2> QED
      BY <2>1, <2>2, <2>4, <2>7
<1>5. ASSUME Validate, ~Refuse PROVE PhaseInv'
  <2>1. /\ phase = "validate" /\ phase' = "register" /\ Same /\ listed' = Inventory
        /\ ControlsFit /\ Fits
      BY <1>5 DEF Validate, Fits
  <2>2. doc.form = "rest" /\ AllRemembered /\ doc \in Docs
      BY <2>1 DEF PhaseInv
  <2> QED
      BY <1>4, <2>1, <2>2 DEF PhaseInv, RestFits
<1>6. CASE ParseUpstreamSpec
    BY <1>1, <1>6, SameDoc DEF ParseUpstreamSpec, UpstreamParse, Pin, ProxyParsed, PhaseInv, Configured, Scoped
<1>7. CASE NewProxy
    BY <1>1, <1>4, <1>7 DEF NewProxy, PhaseInv, ProxyFits, Fits, ProxyDone
<1>8. CASE Register
  <2>1. /\ phase = "register" /\ phase' = "served" /\ Same /\ listed' = listed /\ handlers' = Handlers
      BY <1>8 DEF Register, Handlers
  <2>2. /\ doc \in Docs /\ Fits /\ listed = Inventory
        /\ IF doc.form = "rest" THEN ControlsFit /\ AllRemembered ELSE ProxyDone
      BY <2>1 DEF PhaseInv, RestFits
  <2>3. doc' = doc /\ handlers' = Handlers' /\ listed' = Inventory'
      BY <1>4, <2>1, <2>2
  <2> QED
      BY <1>4, <2>1, <2>2, <2>3 DEF PhaseInv, RestFits
<1>9. CASE UNCHANGED vars
    BY <1>4, <1>9, SameDoc DEF vars, PhaseInv, RestFits
<1> QED
    BY <1>1, <1>2, <1>3, <1>5, <1>6, <1>7, <1>8, <1>9 DEF Next, Finished, Validate

LEMMA PhaseInvariant == Spec => []PhaseInv
BY InitPhase, PhaseStep, PTL DEF Spec

-----------------------------------------------------------------------------
\* What is registered, when no grant, info tool or stub has another's name.
LEMMA WhatIsRegistered ==
    ASSUME Fits, handlers = Handlers
    PROVE  /\ DOMAIN handlers = doc.minted \cup InfoTools \cup Stubs
           /\ \A t \in doc.minted : handlers[t] = Handler("grant", t)
           /\ \A t \in InfoTools : handlers[t] = Handler("info", t)
           /\ \A t \in Stubs : handlers[t] = Handler("stub", t)
<1>1. Stubs \cap Served = {} /\ InfoTools \cap doc.minted = {}
    BY DEF Fits, StubsFit, InfoIsNew, InfoTools
<1> QED
    BY <1>1 DEF Handlers, Registered, Served

LEMMA AsListed == PhaseInv => ListedIsAnswered
<1> SUFFICES ASSUME PhaseInv, phase = "served"
             PROVE  /\ DOMAIN handlers = Listed
                    /\ \A e \in listed : handlers[e.name].what = e.what /\ handlers[e.name].ui = e.ui
    BY DEF ListedIsAnswered
<1>1. Fits /\ listed = Inventory /\ handlers = Handlers
    BY DEF PhaseInv
<1>2. DOMAIN handlers = Listed
  <2>1. ASSUME NEW what, NEW ts PROVE {e.name : e \in Entries(what, ts)} = ts
    <3>1. \A e \in Entries(what, ts) : e.name \in ts
        BY DEF Entries
    <3>2. \A t \in ts : [name |-> t, what |-> what, ui |-> Ui(t)] \in Entries(what, ts)
        BY DEF Entries
    <3>3. \A t \in ts : \E e \in Entries(what, ts) : e.name = t
        BY <3>2
    <3> QED
        BY <3>1, <3>3
  <2>2. Listed = {e.name : e \in Entries("grant", doc.minted)} \cup {e.name : e \in Entries("info", InfoTools)}
                 \cup {e.name : e \in Entries("stub", Stubs)}
      BY <1>1 DEF Listed, Inventory
  <2>3. Listed = doc.minted \cup InfoTools \cup Stubs
      BY <2>1, <2>2
  <2> QED
      BY <1>1, <2>3, WhatIsRegistered
<1>3. ASSUME NEW what, NEW ts, NEW e \in Entries(what, ts), \A t \in ts : handlers[t] = Handler(what, t)
      PROVE  handlers[e.name].what = e.what /\ handlers[e.name].ui = e.ui
  <2>1. PICK t \in ts : e = [name |-> t, what |-> what, ui |-> Ui(t)]
      BY <1>3 DEF Entries
  <2>2. handlers[t] = [what |-> what, ui |-> Ui(t), layers |-> IF what = "grant" THEN Layers(t) ELSE {}]
      BY <1>3 DEF Handler
  <2> QED
      BY <2>1, <2>2
<1> QED
    BY <1>1, <1>2, <1>3, WhatIsRegistered DEF Inventory

\* What a server lists, it answers as listed: no registration takes the place of another
\* (New and NewProxyWithOptions, server.go:208-297, 362-441).
THEOREM AnswersWhatItLists == Spec => []ListedIsAnswered
BY AsListed, PhaseInvariant, PTL

\* A stub's alternative is a tool that does something (withheldTools, withhold.go:133-159).
THEOREM StubsPointAtTools == Spec => []AlternativesAnswer
<1>1. PhaseInv => AlternativesAnswer
  <2> SUFFICES ASSUME PhaseInv, phase = "served",
                      NEW n \in All("withhold"), NEW c \in Kids(n, "alternative")
               PROVE  c.args[1] \in DOMAIN handlers /\ handlers[c.args[1]].what # "stub"
      BY DEF AlternativesAnswer
  <2>1. Fits /\ handlers = Handlers
      BY DEF PhaseInv
  <2>2. c.args[1] \in doc.minted \cup InfoTools
      BY <2>1 DEF Fits, StubsFit, Served
  <2>3. \E what \in {"grant", "info"} : handlers[c.args[1]] = Handler(what, c.args[1])
      BY <2>1, <2>2, WhatIsRegistered
  <2>4. handlers[c.args[1]].what # "stub"
      BY <2>3 DEF Handler
  <2> QED
      BY <2>1, <2>2, <2>4, WhatIsRegistered
<1> QED
    BY <1>1, PhaseInvariant, PTL

\* What `lint` takes, `serve-upstream` does not refuse, if its headers resolve and the bucket's
\* store has a url (ParseUpstreamSpec, upstreamguardfile.go:168-170; NewProxyWithOptions,
\* server.go:362-404).
THEOREM LintAgrees == Spec => LintedIsServed
<1>1. PhaseInv /\ [Next]_vars => [Unaided /\ BucketBuilt => phase' = "register"]_vars
  <2> SUFFICES ASSUME PhaseInv, Next, Unaided, BucketBuilt
               PROVE  phase' = "register"
      BY DEF vars
  <2>1. SpecFits /\ controls = Configured
      BY DEF PhaseInv, Unaided
  <2>2. Startable
      BY DEF Startable, Range, Unaided
  <2>3. ProxyFits
      BY <2>1 DEF SpecFits, ProxyFits, ProxyPins, Unaided
  <2>4. NewProxy
      BY DEF Next, Parse, Vacate, Validate, ParseUpstreamSpec, Register, Finished, Unaided
  <2> QED
      BY <2>2, <2>3, <2>4 DEF NewProxy
<1> QED
    BY <1>1, PhaseInvariant, PTL DEF Spec, LintedIsServed

-----------------------------------------------------------------------------
\* A scoped control of a proxy is a gate or a pin: ParseUpstreamSpec refuses the others.
LEMMA ProxyControls ==
    ASSUME PhaseInv, phase = "served", doc.form # "rest", NEW k \in Scoped, NEW n \in All(k)
    PROVE  doc.form = "file" /\ ProxyParsed /\ k \in {"confirm", "pin"}
<1>1. doc.form = "file"
    BY FlagsStateNothing, DocAssumption DEF PhaseInv
<1>2. ProxyParsed
    BY <1>1 DEF PhaseInv, ProxyDone
<1>3. k \in Projected
    BY <1>2 DEF ProxyParsed, All, At
<1> QED
    BY <1>1, <1>2, <1>3 DEF Projected, Scoped, Singletons

\* The tool of a control that is wired, and the layer.
LEMMA LayerStated ==
    ASSUME NEW k \in Scoped, NEW n \in All(k), Tool(n) \in controls[k] \/ k \in {"pin", "reject-empty-argument"},
           k = "pin" /\ doc.form # "rest" => Pinned(n) \subseteq {p.arg : p \in {q \in ProxyPins : q.tool = Tool(n)}},
           doc.form # "rest" => k \in {"confirm", "pin"}, n.kind = k
    PROVE  {k} \X Details(n) \subseteq Layers(Tool(n))
<1>1. n \in Stating(k, Tool(n))
    BY DEF Stating
<1>2. CASE k = "pin"
  <2>1. {k} \X Pinned(n) \subseteq PinLayers(Tool(n))
      BY <1>1, <1>2 DEF PinLayers
  <2> QED
      BY <1>2, <2>1 DEF Details, Layers
<1>3. CASE k = "reject-empty-argument"
  <2>1. Details(n) = {n.props["field"]} /\ doc.form = "rest"
      BY <1>3 DEF Details
  <2>2. <<k, n.props["field"]>> \in Layers(Tool(n))
      BY <1>1, <1>3, <2>1 DEF Layers
  <2> QED
      BY <2>1, <2>2
<1>4. CASE k \in {"confirm", "cache", "reject-empty", "extract"}
  <2>1. Details(n) = {""} /\ Tool(n) \in controls[k] /\ k \in Wired
      BY <1>4 DEF Details, Wired
  <2>2. <<k, "">> \in Layers(Tool(n))
      BY <2>1 DEF Layers
  <2>3. {k} \X {""} = {<<k, "">>}
      OBVIOUS
  <2> QED
      BY <2>1, <2>2, <2>3
<1> QED
    BY <1>2, <1>3, <1>4 DEF Scoped

\* Every gate, pin, cache, refusal or extraction that any file of the chain states, and the
\* rate limit, is around its tool's handler, or gates a tool that reaches no upstream, or is a
\* base's and reported as dropped from a tool that is not minted (compose.go:49-53;
\* upstreamguardfile.go:225-246; server.go:261-289).  The one exception is a control of the
\* served file itself on a tool that is not minted and that a base controls too.
THEOREM NothingIsLost == Spec => []NothingStatedIsLost
<1>1. PhaseInv => NothingStatedIsLost
  <2> SUFFICES ASSUME PhaseInv, phase = "served" PROVE NothingStatedIsLost
      BY DEF NothingStatedIsLost
  <2>1. Fits /\ handlers = Handlers
      BY DEF PhaseInv
  <2>2. /\ DOMAIN handlers = doc.minted \cup InfoTools \cup Stubs
        /\ \A t \in doc.minted : handlers[t].layers = Layers(t)
        /\ \A t \in InfoTools \cup Stubs : handlers[t].what # "grant"
    <3>1. \A t \in doc.minted : handlers[t] = Handler("grant", t)
        BY <2>1, WhatIsRegistered
    <3>2. \A t \in InfoTools \cup Stubs : \E what \in {"info", "stub"} : handlers[t] = Handler(what, t)
        BY <2>1, WhatIsRegistered
    <3>3. ASSUME NEW t PROVE Handler("grant", t).layers = Layers(t)
        BY DEF Handler
    <3>4. ASSUME NEW what, NEW t PROVE Handler(what, t).what = what
        BY DEF Handler
    <3> QED
        BY <2>1, <3>3, <3>4, WhatIsRegistered
  <2>3. ASSUME NEW s \in Controlling, ~Overlooked(s) PROVE Accounted(s)
    <3> DEFINE n == s.node
               k == s.node.kind
    <3>1. s \in Kept /\ k \in Scoped /\ n \in All(k)
      <4>1. PICK i \in DOMAIN Stated : Stated[i] = s
          BY DEF Controlling, Kept, Range
      <4>2. i \in At(k)
          BY <4>1 DEF Controlling, At
      <4> QED
          BY <4>1, <4>2 DEF Controlling, All
    <3> HIDE DEF n, k
    <3>0. n = s.node /\ n.kind = k
        BY DEF n, k
    <3>2. CASE doc.form = "rest"
      <4>1. Remembered(k, n) /\ ControlsFit
          BY <3>1, <3>2 DEF PhaseInv, RestFits, AllRemembered
      <4>2. CASE <<k, Tool(n)>> \in vacated /\ Tool(n) \in Inherited \ doc.minted
          BY <2>3, <3>0, <4>2 DEF Accounted, Overlooked
      <4>3. CASE Tool(n) \in controls[k]
        <5>1. {k} \X Details(n) \subseteq Layers(Tool(n))
            BY <3>0, <3>1, <3>2, <4>3, LayerStated
        <5>2. Tool(n) \in doc.minted \/ k = "confirm"
            BY <3>1, <4>1, <4>3 DEF ControlsFit, Scoped
        <5>3. Tool(n) \in doc.minted \cup InfoTools \cup Stubs
            BY <2>1, <4>3, <5>2 DEF Fits, ConfirmsFit, Served
        <5> QED
            BY <2>2, <3>0, <5>1, <5>2, <5>3 DEF Accounted, Wrapped
      <4> QED
          BY <4>1, <4>2, <4>3 DEF Remembered
    <3>3. CASE doc.form # "rest"
      <4>1. doc.form = "file" /\ ProxyParsed /\ k \in {"confirm", "pin"}
          BY <3>1, <3>3, ProxyControls
      <4>2. ProxyDone
          BY <3>3 DEF PhaseInv
      <4>3. CASE k = "confirm"
        <5>1. Tool(n) \in controls[k]
            BY <3>1, <4>2, <4>3 DEF ProxyDone
        <5>2. {k} \X Details(n) \subseteq Layers(Tool(n))
            BY <3>0, <3>1, <4>1, <4>3, <5>1, LayerStated
        <5>3. Tool(n) \in doc.minted \cup InfoTools \cup Stubs
            BY <2>1, <4>3, <5>1 DEF Fits, ConfirmsFit, Served
        <5> QED
            BY <2>2, <3>0, <4>3, <5>2, <5>3 DEF Accounted, Wrapped
      <4>4. CASE k = "pin"
        <5>1. PICK arg \in Pinned(n) : TRUE
            BY <3>1, <4>1, <4>4 DEF ProxyParsed
        <5>2. PICK c \in Range(n.kids) : TRUE
            BY <5>1 DEF Pinned
        <5> DEFINE pinAt(d) == [tool |-> Tool(n), arg |-> d.args[1], from |-> <<d.args[2], d.args[3]>>]
        <5>3. \A d \in Range(n.kids) : pinAt(d) \in FilePins
          <6>1. {pinAt(d) : d \in Range(n.kids)} \subseteq FilePins
              BY <3>1, <4>4 DEF FilePins
          <6> QED
              BY <6>1
        <5>4. ProxyPins = FilePins
            BY <4>2, <5>2, <5>3 DEF ProxyDone, Startable, ProxyPins
        <5>5. Tool(n) \in doc.minted
            BY <4>2, <5>2, <5>3, <5>4 DEF ProxyDone, PinsFit
        <5>6. Pinned(n) \subseteq {p.arg : p \in {q \in ProxyPins : q.tool = Tool(n)}}
          <6>1. \A d \in Range(n.kids) : /\ pinAt(d) \in {q \in ProxyPins : q.tool = Tool(n)}
                                        /\ pinAt(d).arg = d.args[1]
              BY <5>3, <5>4
          <6> QED
              BY <6>1 DEF Pinned
        <5>7. {k} \X Details(n) \subseteq Layers(Tool(n))
            BY <3>0, <3>1, <4>1, <4>4, <5>6, LayerStated
        <5> QED
            BY <2>2, <3>0, <5>5, <5>7 DEF Accounted, Wrapped
      <4> QED
          BY <4>1, <4>3, <4>4
    <3> QED
        BY <3>2, <3>3
  <2>4. ASSUME All("rate-limit") # {}, NEW t \in doc.minted PROVE Wrapped(t, {<<"rate-limit", "">>})
    <3>1. <<"rate-limit", "">> \in Layers(t)
        BY <2>4 DEF Layers
    <3> QED
        BY <2>2, <3>1 DEF Wrapped
  <2> QED
      BY <2>3, <2>4 DEF NothingStatedIsLost
<1> QED
    BY <1>1, PhaseInvariant, PTL

-----------------------------------------------------------------------------
\* What a file states, at each place of the chain.
LEMMA Marked ==
    ASSUME NEW file, file \in Seq(Range(file)), NEW own
    PROVE  [i \in DOMAIN file |-> [own |-> own, node |-> file[i]]] \in Seq([own : {own}, node : Range(file)])
<1> DEFINE m == [i \in DOMAIN file |-> [own |-> own, node |-> file[i]]]
           S == [own : {own}, node : Range(file)]
<1>1. Len(file) \in Nat /\ DOMAIN file = 1 .. Len(file)
    BY LenProperties
<1>2. \A i \in 1 .. Len(file) : file[i] \in Range(file)
    BY <1>1 DEF Range
<1>3. \A i \in 1 .. Len(file) : m[i] \in S
    BY <1>1, <1>2
<1>4. m \in [1 .. Len(file) -> S]
    BY <1>1, <1>3
<1> HIDE DEF m, S
<1>5. m \in Seq(S)
    BY <1>1, <1>4, SeqDef
<1> QED
    BY <1>5 DEF m, S

LEMMA NodesOfFiles ==
    ASSUME doc \in Docs
    PROVE  /\ Stated \in Seq(Range(Stated))
           /\ \A s \in Range(Stated) : s.node \in Range(doc.base) \cup Range(doc.own)
           /\ \A s \in Range(Stated) : ~s.own => s.node \in Range(doc.base)
<1> DEFINE base == [i \in DOMAIN doc.base |-> [own |-> FALSE, node |-> doc.base[i]]]
           own == [i \in DOMAIN doc.own |-> [own |-> TRUE, node |-> doc.own[i]]]
           B == [own : {FALSE}, node : Range(doc.base)]
           O == [own : {TRUE}, node : Range(doc.own)]
<1>1. doc.base \in Seq(Range(doc.base)) /\ doc.own \in Seq(Range(doc.own))
    BY FileAssumption
<1>2. base \in Seq(B)
    BY <1>1, Marked
<1>3. own \in Seq(O)
    BY <1>1, Marked
<1>4. Stated = base \o own
    BY DEF Stated
<1> HIDE DEF base, own
<1>5. base \in Seq(B \cup O) /\ own \in Seq(B \cup O)
  <2> HIDE DEF B, O
  <2> QED
      BY <1>2, <1>3, SeqMonotonic
<1>6. Stated \in Seq(B \cup O)
  <2> HIDE DEF B, O
  <2> QED
      BY <1>4, <1>5, ConcatProperties
<1>7. Range(Stated) \subseteq B \cup O /\ Stated \in [1 .. Len(Stated) -> Range(Stated)] /\ Len(Stated) \in Nat
  <2> HIDE DEF B, O
  <2>1. Stated \in [1 .. Len(Stated) -> B \cup O] /\ Len(Stated) \in Nat
      BY <1>6, LenProperties
  <2> QED
      BY <2>1 DEF Range
<1>8. Stated \in Seq(Range(Stated))
    BY <1>7, SeqDef
<1> QED
    BY <1>7, <1>8

LEMMA NodeOfFile ==
    ASSUME doc \in Docs, NEW k, NEW n \in All(k)
    PROVE  /\ n.kind = k /\ n.kids \in Seq(Range(n.kids))
           /\ n \in Range(doc.base) \cup Range(doc.own)
<1>1. PICK i \in At(k) : n = Stated[i].node
    BY DEF All
<1>2. Stated[i] \in Range(Stated) /\ n.kind = k
    BY <1>1 DEF At, Kept
<1>3. n \in Range(doc.base) \cup Range(doc.own)
    BY <1>1, <1>2, NodesOfFiles
<1> QED
    BY <1>2, <1>3, FileAssumption

\* As many values as children: no two children have the same.
LEMMA PinsDiffer ==
    ASSUME NEW n, n.kids \in Seq(Range(n.kids)), Cardinality(Pinned(n)) = Len(n.kids),
           NEW c \in Range(n.kids), NEW d \in Range(n.kids), c.args[1] = d.args[1]
    PROVE  c = d
<1> DEFINE f == [i \in 1 .. Len(n.kids) |-> n.kids[i].args[1]]
<1>1. Len(n.kids) \in Nat /\ DOMAIN n.kids = 1 .. Len(n.kids)
    OBVIOUS
<1>2. f \in Surjection(1 .. Len(n.kids), Pinned(n))
    BY <1>1 DEF Surjection, Pinned, Range
<1>3. IsFiniteSet(1 .. Len(n.kids)) /\ Cardinality(1 .. Len(n.kids)) = Len(n.kids)
    BY <1>1, FS_Interval
<1>4. f \in Injection(1 .. Len(n.kids), Pinned(n))
    BY <1>2, <1>3, FS_Surjection
<1>5. PICK i \in 1 .. Len(n.kids) : c = n.kids[i]
    BY <1>1 DEF Range
<1>6. PICK j \in 1 .. Len(n.kids) : d = n.kids[j]
    BY <1>1 DEF Range
<1>7. f[i] = f[j] => i = j
    BY <1>4 DEF Injection, IsInjective
<1> QED
    BY <1>5, <1>6, <1>7

-----------------------------------------------------------------------------
\* What the parse of a REST guardfile establishes, and holds while the file is served.
PinsParsed == /\ Once("pin", Tool)
              /\ \A n \in All("pin") : Cardinality(Pinned(n)) = Len(n.kids)
AppsParsed == /\ Once("app", Uri)
              /\ \A n \in All("app") : Uri(n) \in UiUris /\ Linked(n) # {}

\* A widget is what a node states, less what was dropped and reported.
AppAt(i) == [name |-> Tool(Stated[i].node), uri |-> Uri(Stated[i].node),
             tools |-> Linked(Stated[i].node), own |-> Stated[i].own]
ParsedApps == {AppAt(i) : i \in At("app")}
FromNode(a) == \E i \in At("app") : a = [AppAt(i) EXCEPT !.tools = a.tools]
LinkHeld(n, t) ==
    \/ \E a \in apps : a.name = Tool(n) /\ a.uri = Uri(n) /\ t \in a.tools
    \/ <<Tool(n), t>> \in vacated
AppsHeld == /\ \A a \in apps : FromNode(a) /\ a.tools # {}
            /\ \A n \in All("app") : \A t \in Linked(n) : LinkHeld(n, t)

\* What resources/read answers.
Readable == [u \in AppUris \cup ResourceUris |-> Body(u)]

WidgetInv ==
    /\ phase \in {"vacate", "validate", "register", "served"} /\ doc.form = "rest" => PinsParsed /\ AppsParsed
    /\ phase \in {"vacate", "validate", "register", "served"} /\ doc.form = "rest" => AppsHeld
    /\ phase \in {"register", "served"} /\ doc.form = "rest" => AppsFit
    /\ phase = "parse" \/ doc.form # "rest" => apps = {}
    /\ phase \in {"parse", "vacate"} => vacated = {}
    /\ phase = "served" => readable = Readable

LEMMA ParsedFacts ==
    ASSUME RestParse
    PROVE  PinsParsed /\ AppsParsed
<1>1. PinsParsed
    BY DEF RestParse, Pin, PinsParsed
<1>2. Once("app", Uri)
    BY DEF RestParse
<1>3. ASSUME NEW n \in All("app") PROVE Uri(n) \in UiUris /\ Linked(n) # {}
    BY <1>3 DEF RestParse, App, Uri
<1> QED
    BY <1>1, <1>2, <1>3 DEF AppsParsed

LEMMA SameParsed ==
    ASSUME doc' = doc
    PROVE  PinsParsed' = PinsParsed /\ AppsParsed' = AppsParsed
BY SameDoc DEF PinsParsed, AppsParsed, Once

LEMMA SameWidgets ==
    ASSUME doc' = doc, apps' = apps
    PROVE  /\ \A a : FromNode(a)' = FromNode(a)
           /\ vacated' = vacated => AppsHeld' = AppsHeld
           /\ AppsFit' = AppsFit
           /\ Readable' = Readable
<1>1. \A i : AppAt(i)' = AppAt(i)
    BY SameDoc DEF AppAt
<1>2. \A a : FromNode(a)' = FromNode(a)
    BY <1>1, SameDoc DEF FromNode
<1>3. vacated' = vacated => \A n, t : LinkHeld(n, t)' = LinkHeld(n, t)
    BY DEF LinkHeld
<1>4. vacated' = vacated => AppsHeld' = AppsHeld
    BY <1>2, <1>3, SameDoc DEF AppsHeld
<1>5. AppUris' = AppUris /\ ResourceUris' = ResourceUris
    BY SameDoc DEF AppUris, ResourceUris
<1>6. AppsFit' = AppsFit
    BY <1>5, SameDoc DEF AppsFit
<1>7. (\A u : Body(u)' = Body(u)) /\ Readable' = Readable
    BY <1>5 DEF Body, Readable
<1> QED
    BY <1>2, <1>4, <1>6, <1>7

LEMMA ParseHolds ==
    ASSUME Parse, RestParse
    PROVE  AppsHeld'
<1> DEFINE S == {Stated[i] : i \in At("app")}
           Of(s) == [name |-> Tool(s.node), uri |-> Uri(s.node), tools |-> Linked(s.node), own |-> s.own]
<1>1. apps' = {Of(s) : s \in S} /\ doc' = doc
    BY DEF Parse
<1>2. \A i \in At("app") : Of(Stated[i]) = AppAt(i) /\ Stated[i] \in S
    BY DEF AppAt
<1>3. apps' = {AppAt(i) : i \in At("app")}
    BY <1>1, <1>2
<1>4. \A i : AppAt(i)' = AppAt(i)
    BY <1>1, SameDoc DEF AppAt
<1>5. ASSUME NEW a \in apps' PROVE FromNode(a)' /\ a.tools # {}
  <2>1. PICK i \in At("app") : a = AppAt(i)
      BY <1>3
  <2>2. Stated[i].node \in All("app")
      BY DEF All
  <2>3. a.tools # {}
      BY <2>1, <2>2, ParsedFacts DEF AppAt, AppsParsed
  <2>4. a = [AppAt(i) EXCEPT !.tools = a.tools]
      BY <2>1 DEF AppAt
  <2> QED
      BY <1>1, <1>4, <2>3, <2>4, SameDoc DEF FromNode
<1>6. ASSUME NEW n \in All("app"), NEW t \in Linked(n) PROVE LinkHeld(n, t)'
  <2>1. PICK i \in At("app") : n = Stated[i].node
      BY DEF All
  <2>2. AppAt(i) \in apps' /\ AppAt(i).name = Tool(n) /\ AppAt(i).uri = Uri(n) /\ t \in AppAt(i).tools
      BY <1>3, <1>6, <2>1 DEF AppAt
  <2> QED
      BY <2>2 DEF LinkHeld
<1> QED
    BY <1>1, <1>5, <1>6, SameDoc DEF AppsHeld

LEMMA VacateHolds ==
    ASSUME Vacate, AppsHeld, vacated = {}
    PROVE  AppsHeld'
<1>1. doc' = doc /\ apps' = KeptApps
    BY DEF Vacate
<1>2. \A i : AppAt(i)' = AppAt(i)
    BY <1>1, SameDoc DEF AppAt
<1>3. ASSUME NEW a \in apps
      PROVE  \A i \in At("app") : a = [AppAt(i) EXCEPT !.tools = a.tools] =>
                 Narrowed(a) = [AppAt(i) EXCEPT !.tools = Narrowed(a).tools]
    BY DEF Narrowed, AppAt
<1>4. ASSUME NEW a \in apps
      PROVE  /\ Narrowed(a).name = a.name /\ Narrowed(a).uri = a.uri
             /\ Narrowed(a).tools \subseteq a.tools
  <2>1. PICK i \in At("app") : a = [AppAt(i) EXCEPT !.tools = a.tools]
      BY <1>4 DEF AppsHeld, FromNode
  <2> QED
      BY <2>1 DEF Narrowed, AppAt
<1>5. ASSUME NEW a \in apps' PROVE FromNode(a)' /\ a.tools # {}
  <2>1. PICK b \in apps : a = Narrowed(b) /\ a.tools # {}
      BY <1>1 DEF KeptApps
  <2>2. PICK i \in At("app") : b = [AppAt(i) EXCEPT !.tools = b.tools]
      BY DEF AppsHeld, FromNode
  <2>3. a = [AppAt(i) EXCEPT !.tools = a.tools]
      BY <1>3, <2>1, <2>2
  <2> QED
      BY <1>1, <1>2, <2>1, <2>3, SameDoc DEF FromNode
<1>6. ASSUME NEW n \in All("app"), NEW t \in Linked(n) PROVE LinkHeld(n, t)'
  <2>1. PICK a \in apps : a.name = Tool(n) /\ a.uri = Uri(n) /\ t \in a.tools
      BY <1>6 DEF AppsHeld, LinkHeld
  <2>2. CASE t \in Narrowed(a).tools
    <3>1. Narrowed(a) \in apps'
        BY <1>1, <2>2 DEF KeptApps
    <3> QED
        BY <1>4, <2>1, <2>2, <3>1 DEF LinkHeld
  <2>3. CASE t \notin Narrowed(a).tools
    <3>1. <<a.name, t>> \in {a.name} \X (a.tools \ Narrowed(a).tools)
        BY <2>1, <2>3
    <3>2. <<a.name, t>> \in UNION {{b.name} \X (b.tools \ Narrowed(b).tools) : b \in apps}
        BY <3>1
    <3>3. UNION {{b.name} \X (b.tools \ Narrowed(b).tools) : b \in apps} \subseteq vacated'
        BY DEF Vacate
    <3>4. <<a.name, t>> \in vacated'
        BY <3>2, <3>3
    <3> QED
        BY <2>1, <3>4 DEF LinkHeld
  <2> QED
      BY <2>2, <2>3
<1> QED
    BY <1>1, <1>5, <1>6, SameDoc DEF AppsHeld

LEMMA WidgetsInit == Init => WidgetInv
BY DEF Init, WidgetInv

LEMMA WidgetsStep == PhaseInv /\ WidgetInv /\ [Next]_vars => WidgetInv'
<1> SUFFICES ASSUME PhaseInv, WidgetInv, [Next]_vars PROVE WidgetInv'
    OBVIOUS
<1>1. ASSUME Refuse PROVE WidgetInv'
    BY <1>1 DEF Refuse, WidgetInv
<1>2. ASSUME Parse, ~Refuse PROVE WidgetInv'
  <2>1. RestParse /\ phase = "parse" /\ phase' = "vacate" /\ doc' = doc /\ doc.form = "rest" /\ vacated' = vacated
      BY <1>2 DEF Parse
  <2>2. PinsParsed /\ AppsParsed /\ AppsHeld'
      BY <1>2, <2>1, ParsedFacts, ParseHolds
  <2> QED
      BY <2>1, <2>2, SameParsed DEF WidgetInv
<1>3. CASE Vacate
  <2>1. phase = "vacate" /\ phase' = "validate" /\ doc' = doc /\ doc.form = "rest"
      BY <1>3 DEF Vacate, PhaseInv
  <2>2. PinsParsed /\ AppsParsed /\ AppsHeld'
      BY <1>3, <2>1, VacateHolds DEF WidgetInv
  <2> QED
      BY <2>1, <2>2, SameParsed DEF WidgetInv
<1> DEFINE Same == doc' = doc /\ apps' = apps /\ vacated' = vacated
<1>4. ASSUME Validate, ~Refuse PROVE WidgetInv'
  <2>1. phase = "validate" /\ phase' = "register" /\ Same /\ AppsFit
      BY <1>4 DEF Validate
  <2> QED
      BY <2>1, SameParsed, SameWidgets DEF WidgetInv
<1>5. ASSUME ParseUpstreamSpec, ~Refuse PROVE WidgetInv'
  <2>1. phase = "parse" /\ phase' = "build" /\ Same /\ doc.form # "rest"
      BY <1>5 DEF ParseUpstreamSpec
  <2> QED
      BY <2>1 DEF WidgetInv
<1>6. ASSUME NewProxy, ~Refuse PROVE WidgetInv'
  <2>1. phase' = "register" /\ Same /\ doc.form # "rest"
      BY <1>6 DEF NewProxy, PhaseInv
  <2> QED
      BY <2>1 DEF WidgetInv
<1>7. CASE Register
  <2>1. phase = "register" /\ phase' = "served" /\ Same /\ readable' = Readable
      BY <1>7 DEF Register, Readable
  <2>2. readable' = Readable'
      BY <2>1, SameWidgets
  <2> QED
      BY <2>1, <2>2, SameParsed, SameWidgets DEF WidgetInv
<1>8. CASE UNCHANGED vars
  <2>1. phase' = phase /\ Same /\ readable' = readable
      BY <1>8 DEF vars
  <2> QED
      BY <2>1, SameParsed, SameWidgets DEF WidgetInv
<1> QED
    BY <1>1, <1>2, <1>3, <1>4, <1>5, <1>6, <1>7, <1>8
       DEF Next, Parse, Validate, ParseUpstreamSpec, NewProxy, Finished

LEMMA WidgetInvariant == Spec => []WidgetInv
BY WidgetsInit, WidgetsStep, PhaseInvariant, PTL DEF Spec

-----------------------------------------------------------------------------
\* A pin is what answers for its argument: one source, and no input of the tool has its
\* name (parsePins, pin.go; dupPin and validatePins of upstreamguardfile.go and main.go).
THEOREM PinsAnswerAlone == Spec => []PinsUncontested
<1>1. PhaseInv /\ WidgetInv => PinsUncontested
  <2> SUFFICES ASSUME PhaseInv, WidgetInv, phase = "served" PROVE PinsUncontested
      BY DEF PinsUncontested
  <2>0. doc \in Docs
      BY DEF PhaseInv
  <2>1. CASE doc.form = "rest"
    <3> SUFFICES ASSUME NEW m \in All("pin"), NEW n \in All("pin"),
                        NEW c \in Range(m.kids), NEW d \in Range(n.kids),
                        Tool(m) = Tool(n), Tool(m) \in doc.minted
                 PROVE  c.args[1] \notin Queries[Tool(m)] /\ (c.args[1] = d.args[1] => c.args = d.args)
        BY <2>1 DEF PinsUncontested
    <3>1. PinsParsed /\ ControlsFit /\ AllRemembered
        BY <2>1 DEF WidgetInv, PhaseInv, RestFits
    <3>2. Tool(m) \in controls["pin"]
        BY <3>1 DEF AllRemembered, Remembered, Scoped
    <3>3. Pinned(m) \cap Queries[Tool(m)] = {}
        BY <3>1, <3>2 DEF ControlsFit
    <3>4. c.args[1] \in Pinned(m)
        BY DEF Pinned
    <3>5. m = n
        BY <3>1 DEF PinsParsed, Once, All
    <3>6. c.args[1] = d.args[1] => c = d
        BY <2>0, <3>1, <3>5, NodeOfFile, PinsDiffer DEF PinsParsed
    <3> QED
        BY <3>3, <3>4, <3>6
  <2>2. CASE doc.form # "rest"
    <3>1. Startable /\ PinsFit(ProxyPins)
        BY <2>2 DEF PhaseInv, ProxyDone
    <3>2. FilePins \cup FlagPins \subseteq ProxyPins
      <4>1. doc.flags = <<>> => FlagPins = {}
          BY DEF FlagPins, Range
      <4> QED
          BY <3>1, <4>1 DEF Startable, ProxyPins
    <3> QED
        BY <2>2, <3>1, <3>2 DEF PinsFit, PinsUncontested
  <2> QED
      BY <2>1, <2>2
<1> QED
    BY <1>1, PhaseInvariant, WidgetInvariant, PTL

-----------------------------------------------------------------------------
\* A proxy's guardfile states no widget and no resource.
LEMMA ProxyStatesNoUi ==
    ASSUME PhaseInv, phase = "served", doc.form # "rest"
    PROVE  All("app") = {} /\ All("resource") = {}
<1>1. CASE doc.form = "flags"
    BY <1>1, FlagsStateNothing DEF PhaseInv
<1>2. CASE doc.form = "file"
  <2>1. \A k : All(k) # {} => k \in Projected
      BY <1>2 DEF PhaseInv, ProxyDone, ProxyParsed, All, At
  <2> QED
      BY <2>1 DEF Projected, Singletons
<1> QED
    BY <1>1, <1>2, DocAssumption DEF PhaseInv

\* The widget that a tool is linked from, while no two widgets share a tool.
LEMMA LinkingWidget ==
    ASSUME AppsFit, NEW a \in apps, NEW t \in a.tools
    PROVE  Ui(t) = a.uri
<1>1. \A b \in {c \in apps : t \in c.tools} : b = a
    BY DEF AppsFit
<1>2. a \in {c \in apps : t \in c.tools}
    OBVIOUS
<1> QED
    BY <1>1, <1>2 DEF Ui

\* One uri, one name.
LEMMA OneBody ==
    ASSUME AppsHeld, AppsParsed, NEW a \in apps, NEW b \in apps, a.uri = b.uri
    PROVE  a.name = b.name
<1>1. PICK i \in At("app") : a = [AppAt(i) EXCEPT !.tools = a.tools]
    BY DEF AppsHeld, FromNode
<1>2. PICK j \in At("app") : b = [AppAt(j) EXCEPT !.tools = b.tools]
    BY DEF AppsHeld, FromNode
<1>3. a.uri = Uri(Stated[i].node) /\ b.uri = Uri(Stated[j].node)
    BY <1>1, <1>2 DEF AppAt
<1>4. i = j
    BY <1>3 DEF AppsParsed, Once
<1> QED
    BY <1>1, <1>2, <1>4 DEF AppAt

\* A widget that is served is linked from a grant that is listed, unless it names only stubs
\* and the info tool, and answers at its own uri, a resource at its; a link that a file states
\* is on the grant, or was dropped and reported (validateApps and the registration of
\* widgets and resources, app.go, resource.go).
THEOREM WidgetsAreReached == Spec => []WidgetsReachable
<1>1. PhaseInv /\ WidgetInv => WidgetsReachable
  <2> SUFFICES ASSUME PhaseInv, WidgetInv, phase = "served" PROVE WidgetsReachable
      BY DEF WidgetsReachable
  <2>1. CASE doc.form # "rest"
    <3>1. apps = {} /\ All("app") = {} /\ All("resource") = {}
        BY <2>1, ProxyStatesNoUi DEF WidgetInv
    <3> QED
        BY <3>1 DEF WidgetsReachable
  <2>2. CASE doc.form = "rest"
    <3>1. /\ AppsFit /\ AppsHeld /\ AppsParsed /\ readable = Readable
          /\ Fits /\ handlers = Handlers /\ listed = Inventory
        BY <2>2 DEF WidgetInv, PhaseInv
    <3>2. \A u \in AppUris \cup ResourceUris : readable[u] = Body(u)
        BY <3>1 DEF Readable
    <3>3. ASSUME NEW a \in apps
          PROVE  /\ readable[a.uri] = a.name
                 /\ a.tools \subseteq Claimable \/ \E e \in listed : e.what = "grant" /\ e.ui = a.uri
      <4>1. a.uri \in AppUris /\ Body(a.uri) = (CHOOSE b \in apps : b.uri = a.uri).name
          BY DEF AppUris, Body
      <4>2. Body(a.uri) = a.name
          BY <3>1, <4>1, OneBody
      <4>3. readable[a.uri] = a.name
          BY <3>2, <4>1, <4>2
      <4>4. ASSUME NEW t \in a.tools, t \notin Claimable
            PROVE  \E e \in listed : e.what = "grant" /\ e.ui = a.uri
        <5>1. t \in doc.minted
            BY <3>1, <4>4 DEF AppsFit, Served, Claimable
        <5>2. Ui(t) = a.uri
            BY <3>1, LinkingWidget
        <5>3. [name |-> t, what |-> "grant", ui |-> Ui(t)] \in Entries("grant", doc.minted)
            BY <5>1 DEF Entries
        <5> QED
            BY <3>1, <5>2, <5>3 DEF Inventory
      <4> QED
          BY <4>3, <4>4
    <3>4. ASSUME NEW n \in All("resource") PROVE readable[Uri(n)] = "resource"
      <4>1. Uri(n) \in ResourceUris \ AppUris
          BY <3>1 DEF AppsFit, ResourceUris
      <4> QED
          BY <3>2, <4>1 DEF Body
    <3>5. ASSUME NEW n \in All("app"), NEW t \in Linked(n), t \notin Claimable, <<Tool(n), t>> \notin vacated
          PROVE  t \in doc.minted /\ handlers[t].ui = Uri(n)
      <4>1. PICK a \in apps : a.uri = Uri(n) /\ t \in a.tools
          BY <3>1, <3>5 DEF AppsHeld, LinkHeld
      <4>2. Ui(t) = Uri(n)
          BY <3>1, <4>1, LinkingWidget
      <4>3. t \in doc.minted
          BY <3>1, <3>5, <4>1 DEF AppsFit, Served, Claimable
      <4>4. handlers[t] = Handler("grant", t)
          BY <3>1, <4>3, WhatIsRegistered
      <4> QED
          BY <4>2, <4>3, <4>4 DEF Handler
    <3> QED
        BY <3>3, <3>4, <3>5 DEF WidgetsReachable
  <2> QED
      BY <2>1, <2>2
<1> QED
    BY <1>1, PhaseInvariant, WidgetInvariant, PTL

-----------------------------------------------------------------------------
LinkedTools == UNION {Linked(n) : n \in All("app")}

\* What TypeOK says, and that nothing answers before it is registered.
Typed == /\ phase \in {"parse", "vacate", "validate", "build", "register", "served", "refused"}
         /\ \A k \in Scoped : controls[k] \subseteq {Tool(n) : n \in All(k)}
         /\ \A a \in apps : a.tools # {} /\ a.uri \in UiUris /\ a.tools \subseteq LinkedTools
         /\ \A v \in vacated : v[2] \in Inherited \cup LinkedTools
         /\ \A e \in listed : e.what \in {"grant", "info", "stub"}
         /\ phase # "served" => handlers = <<>> /\ readable = <<>>

LEMMA TypedInit == Init => Typed
<1> SUFFICES ASSUME Init PROVE Typed
    OBVIOUS
<1>1. phase \in {"parse", "build"}
    BY DEF Init
<1> QED
    BY <1>1 DEF Init, Typed

LEMMA Kinds == \A e \in Inventory : e.what \in {"grant", "info", "stub"}
BY DEF Inventory, Entries

LEMMA ParseTyped ==
    ASSUME Parse, RestParse, Typed
    PROVE  Typed'
<1>1. /\ doc' = doc /\ controls' = Configured /\ phase = "parse" /\ phase' = "vacate"
      /\ UNCHANGED <<vacated, listed, handlers, readable>>
    BY DEF Parse
<1>2. Inherited' = Inherited /\ LinkedTools' = LinkedTools
    BY <1>1, SameDoc DEF Inherited, LinkedTools
<1>3. ASSUME NEW a \in apps' PROVE a.tools # {} /\ a.uri \in UiUris /\ a.tools \subseteq LinkedTools
  <2>1. PICK i \in At("app") : a.tools = Linked(Stated[i].node) /\ a.uri = Uri(Stated[i].node)
      BY DEF Parse
  <2>2. Stated[i].node \in All("app")
      BY DEF All
  <2> QED
      BY <2>1, <2>2, ParsedFacts DEF AppsParsed, LinkedTools
<1>4. \A k \in Scoped : controls'[k] = {Tool(n) : n \in All(k)}
    BY <1>1 DEF Configured
<1> QED
    BY <1>1, <1>2, <1>3, <1>4, SameDoc DEF Typed

LEMMA VacateTyped ==
    ASSUME Vacate, Typed, AppsHeld
    PROVE  Typed'
<1>1. /\ doc' = doc /\ phase = "vacate" /\ phase' = "validate" /\ apps' = KeptApps
      /\ UNCHANGED <<listed, handlers, readable>>
    BY DEF Vacate
<1>2. Inherited' = Inherited /\ LinkedTools' = LinkedTools
    BY <1>1, SameDoc DEF Inherited, LinkedTools
<1>3. ASSUME NEW a \in apps PROVE Narrowed(a).uri = a.uri /\ Narrowed(a).tools \subseteq a.tools
  <2>1. PICK i \in At("app") : a = [AppAt(i) EXCEPT !.tools = a.tools]
      BY DEF AppsHeld, FromNode
  <2> QED
      BY <2>1 DEF Narrowed, AppAt
<1>4. \A a \in apps' : a.tools # {} /\ a.uri \in UiUris /\ a.tools \subseteq LinkedTools
    BY <1>1, <1>3 DEF KeptApps, Typed
<1>5. \A k \in Scoped : controls'[k] \subseteq controls[k]
    BY DEF Vacate
<1>6. ASSUME NEW v \in vacated' PROVE v[2] \in Inherited \cup LinkedTools
  <2>1. CASE v \in UNION {{k} \X Vacant(k) : k \in Scoped}
      BY <2>1 DEF Vacant
  <2>2. CASE v \in UNION {{a.name} \X (a.tools \ Narrowed(a).tools) : a \in apps}
      BY <2>2 DEF Typed
  <2> QED
      BY <2>1, <2>2 DEF Vacate
<1> QED
    BY <1>1, <1>2, <1>4, <1>5, <1>6, SameDoc DEF Typed

LEMMA TypedStep == PhaseInv /\ WidgetInv /\ Typed /\ [Next]_vars => Typed'
<1> SUFFICES ASSUME PhaseInv, WidgetInv, Typed, [Next]_vars PROVE Typed'
    OBVIOUS
<1> DEFINE Same == UNCHANGED <<doc, apps, vacated>>
<1>0. ASSUME doc' = doc PROVE Inherited' = Inherited /\ LinkedTools' = LinkedTools
    BY <1>0, SameDoc DEF Inherited, LinkedTools
<1>1. ASSUME Refuse, phase # "served" PROVE Typed'
    BY <1>0, <1>1, SameDoc DEF Refuse, Typed
<1>2. ASSUME Parse, ~Refuse PROVE Typed'
    BY <1>2, ParseTyped DEF Parse
<1>3. CASE Vacate
  <2>1. AppsHeld
      BY <1>3 DEF WidgetInv, PhaseInv, Vacate
  <2> QED
      BY <1>3, <2>1, VacateTyped
<1>4. ASSUME Validate \/ NewProxy, ~Refuse PROVE Typed'
  <2>1. phase # "served" /\ phase' = "register" /\ Same /\ UNCHANGED <<controls, handlers, readable>> /\ listed' = Inventory
      BY <1>4 DEF Validate, NewProxy
  <2> QED
      BY <1>0, <2>1, SameDoc, Kinds DEF Typed
<1>5. ASSUME ParseUpstreamSpec, ~Refuse PROVE Typed'
  <2>1. /\ phase # "served" /\ phase' = "build" /\ Same /\ UNCHANGED <<listed, handlers, readable>>
        /\ controls' = Configured
      BY <1>5 DEF ParseUpstreamSpec
  <2>2. \A k \in Scoped : controls'[k] = {Tool(n) : n \in All(k)}
      BY <2>1 DEF Configured
  <2> QED
      BY <1>0, <2>1, <2>2, SameDoc DEF Typed
<1>6. CASE Register
  <2>1. phase' = "served" /\ Same /\ UNCHANGED <<controls, listed>>
      BY <1>6 DEF Register
  <2> QED
      BY <1>0, <2>1, SameDoc DEF Typed
<1>7. CASE UNCHANGED vars
    BY <1>0, <1>7, SameDoc DEF vars, Typed
<1> QED
    BY <1>1, <1>2, <1>3, <1>4, <1>5, <1>6, <1>7
       DEF Next, Parse, Validate, ParseUpstreamSpec, NewProxy, Finished

\* The type invariant: what is configured was stated, what was dropped was inherited or
\* linked, a widget keeps a tool and its ui:// uri, and nothing answers that is not listed.
THEOREM TypeCorrect == Spec => []TypeOK
<1>1. Spec => []Typed
    BY TypedInit, TypedStep, PhaseInvariant, WidgetInvariant, PTL DEF Spec
<1>2. PhaseInv /\ WidgetInv /\ Typed => TypeOK
  <2> SUFFICES ASSUME PhaseInv, WidgetInv, Typed PROVE TypeOK
      OBVIOUS
  <2>1. DOMAIN handlers \subseteq Listed
    <3>1. CASE phase = "served"
        BY <3>1, AsListed DEF ListedIsAnswered
    <3>2. CASE phase # "served"
        BY <3>2 DEF Typed
    <3> QED
        BY <3>1, <3>2
  <2>2. DOMAIN readable \subseteq AppUris \cup ResourceUris
      BY DEF Typed, WidgetInv, Readable
  <2> QED
      BY <2>1, <2>2 DEF Typed, TypeOK, LinkedTools
<1> QED
    BY <1>1, <1>2, PhaseInvariant, WidgetInvariant, PTL
=============================================================================
