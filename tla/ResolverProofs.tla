--------------------------- MODULE ResolverProofs ---------------------------
(***************************************************************************)
(* Proofs that the address Resolve returns for a handle is bound to it in   *)
(* both directions, whatever is published and however it changes during the *)
(* call.                                                                    *)
(*                                                                         *)
(* The argument: the histories record what is published now (Recorded), and *)
(* orderly owners keep it consistent.  The DID that a call goes on with was *)
(* named when it was read, so it still is or its name was withdrawn         *)
(* (ReadIsNamed).  The document is fetched once for the endpoint and the    *)
(* alsoKnownAs; if it lists the handle while the name stands, the DID is    *)
(* bound now, and if it does not, orderly owners no longer name the DID.    *)
(***************************************************************************)
EXTENDS Resolver, TLAPS

(* The histories include the present.                                       *)
Recorded ==
    /\ \A u \in URL : <<u, docs[u]>> \in published
    /\ Named(txt, wellKnown) \subseteq named
    /\ \A d \in Named(txt, wellKnown) : Lists(docs, d) => d \in bound
    /\ orderly => Consistent(txt, wellKnown, docs)

(* A call for the handle that has a DID has read it where it was named.     *)
ReadIsNamed ==
    pc = "document" /\ ref = Handle => did \in named /\ did \in Named(txt, wellKnown) \cup withdrawn

ReadHasURL == pc = "document" => Method[did] = "web"

Running == pc # "done" => result = "none"

Answers == BoundBothWays /\ BoundUnlessWithdrawn /\ MismatchMeansWithdrawn

IInv == TypeOK /\ Recorded /\ ReadIsNamed /\ ReadHasURL /\ Running /\ Answers

-----------------------------------------------------------------------------
(* When the call begins, the invariant holds.                               *)
LEMMA InitIInv == Init => IInv
<1> SUFFICES ASSUME Init PROVE IInv
  OBVIOUS
<1>1. TypeOK
  BY DEF Init, TypeOK
<1>2. Recorded
  BY DEF Init, Recorded
<1> QED
  BY <1>1, <1>2 DEF Init, IInv, ReadIsNamed, ReadHasURL, Running, Answers, BoundBothWays, BoundUnlessWithdrawn,
                    MismatchMeansWithdrawn

(* A change of what is published is recorded, and takes nothing from the    *)
(* histories.                                                               *)
LEMMA PublishIInv == IInv /\ Publish => IInv'
<1> SUFFICES ASSUME IInv, Publish PROVE IInv'
  OBVIOUS
<1>1. /\ UNCHANGED <<orderly, ref, pc, did, result, addr>>
      /\ published \subseteq published' /\ named \subseteq named' /\ bound \subseteq bound'
      /\ result = "none"
  BY DEF Publish, call, IInv, Running
<1>2. TypeOK'
  <2>1. TypeOK /\ edits' = edits + 1
    BY DEF IInv, Publish
  <2>2. /\ txt' \in TXTRecords /\ wellKnown' \in DID \cup {Junk}
        /\ docs' \in [URL -> Document \cup {NoDocument}]
    BY <2>1 DEF Publish, TypeOK
  <2>3. edits' \in Nat
    <3>1. edits \in Nat
      BY <2>1, Zenon DEF TypeOK
    <3> QED
      BY <2>1, <3>1
  <2> QED
    BY <1>1, <2>1, <2>2, <2>3, Zenon DEF TypeOK
<1>3. Recorded'
  <2>1. \A u \in URL : <<u, docs'[u]>> \in published'
    BY DEF Publish
  <2>2. /\ Named(txt', wellKnown') \subseteq named'
        /\ \A d \in Named(txt', wellKnown') : Lists(docs', d) => d \in bound'
        /\ orderly' => Consistent(txt', wellKnown', docs')
    BY <1>1 DEF Publish
  <2> QED
    BY <2>1, <2>2 DEF Recorded, Named, Lists, Consistent, Listed
<1>4. ReadIsNamed' /\ ReadHasURL' /\ Running'
  <2>1. withdrawn' = withdrawn \cup (Named(txt, wellKnown) \ Named(txt', wellKnown'))
    BY DEF Publish
  <2>2. ReadIsNamed /\ ReadHasURL /\ Running
    BY DEF IInv
  <2> QED
    BY <1>1, <2>1, <2>2 DEF ReadIsNamed, ReadHasURL, Running, Named
<1>5. Answers'
  BY <1>1 DEF Answers, BoundBothWays, BoundUnlessWithdrawn, MismatchMeansWithdrawn
<1> QED
  BY <1>2, <1>3, <1>4, <1>5 DEF IInv

(* Going on with a DID, or failing because it has no document.              *)
LEMMA ResolveDIDStep ==
    ASSUME IInv, NEW d \in DID, ResolveDID(d), UNCHANGED <<world, ref, history>>, pc # "done",
           ref = Handle => d \in named /\ d \in Named(txt, wellKnown)
    PROVE  IInv'
<1>1. /\ did' = d /\ UNCHANGED <<world, ref, history, addr>>
      /\ \/ pc' = "done" /\ result' \in {"ErrUnsupportedDIDMethod", "ErrMalformedDIDWeb"}
         \/ pc' = "document" /\ result' = "none" /\ URLOf[d] \in URL /\ Method[d] = "web"
  BY ResolverAssumption DEF ResolveDID, Fail, Continue, IInv, Running
<1>2. TypeOK'
  BY <1>1 DEF IInv, TypeOK, Errors, world
<1>3. Recorded'
  BY <1>1 DEF IInv, Recorded, world, history, Named, Lists, Consistent, Listed
<1>4. ReadIsNamed' /\ ReadHasURL' /\ Running'
  BY <1>1 DEF IInv, ReadIsNamed, ReadHasURL, Running, world, history, Named
<1>5. Answers'
  BY <1>1 DEF Answers, BoundBothWays, BoundUnlessWithdrawn, MismatchMeansWithdrawn
<1> QED
  BY <1>2, <1>3, <1>4, <1>5 DEF IInv

(* Going on to a lookup that needs no DID, or failing with an error that no *)
(* property is about.                                                       *)
LEMMA PlainStep ==
    ASSUME IInv, UNCHANGED <<world, ref, did, history, addr>>,
           \/ pc' \in {"txt", "well-known"} /\ result' = "none"
           \/ pc' = "done" /\ result' \in {"ErrMalformedHandle", "lookup failed", "ErrNoAIREv1Service"}
    PROVE  IInv'
<1>1. TypeOK'
  BY DEF IInv, TypeOK, Errors, world
<1>2. Recorded'
  BY DEF IInv, Recorded, world, history, Named, Lists, Consistent, Listed
<1>3. ReadIsNamed' /\ ReadHasURL' /\ Running' /\ Answers'
  BY DEF IInv, ReadIsNamed, ReadHasURL, Running, Answers, BoundBothWays, BoundUnlessWithdrawn, MismatchMeansWithdrawn
<1> QED
  BY <1>1, <1>2, <1>3 DEF IInv

(* A DID that a source of the domain gives has been recorded as named.      *)
LEMMA ReadNamed ==
    ASSUME IInv, NEW d \in Named(txt, wellKnown)
    PROVE  d \in named
BY DEF IInv, Recorded

(* Fetching the document keeps the invariant.                               *)
LEMMA DocumentIInv == IInv /\ FetchDocument => IInv'
<1> SUFFICES ASSUME IInv, FetchDocument PROVE IInv'
  OBVIOUS
<1> DEFINE doc == docs[URLOf[did]]
<1>1. /\ pc = "document" /\ result = "none"
      /\ did \in DID /\ URLOf[did] \in URL
      /\ UNCHANGED <<world, ref, did, history>>
  BY DEF FetchDocument, IInv, Running, TypeOK
<1>2. CASE Fail("lookup failed") \/ Fail("ErrNoAIREv1Service")
  BY <1>1, <1>2, PlainStep DEF Fail
<1>3. Recorded'
  BY <1>1 DEF IInv, Recorded, world, history, Named, Lists, Consistent, Listed
<1>4. CASE doc # NoDocument /\ ref = Handle /\ ~VerifyAlsoKnownAs(doc, Handle)
           /\ Fail("ErrAlsoKnownAsMismatch")
  <2>1. pc' = "done" /\ result' = "ErrAlsoKnownAsMismatch" /\ UNCHANGED addr
    BY <1>4 DEF Fail
  <2>2. orderly => did \in withdrawn
    <3>1. ~Lists(docs, did)
      BY <1>4 DEF Lists, Listed, VerifyAlsoKnownAs
    <3> QED
      BY <1>1, <1>4, <3>1 DEF IInv, Recorded, ReadIsNamed, Consistent
  <2>3. TypeOK' /\ ReadIsNamed' /\ ReadHasURL' /\ Running'
    BY <1>1, <2>1 DEF IInv, TypeOK, ReadIsNamed, ReadHasURL, Running, Errors, world
  <2>4. Answers'
    BY <1>1, <2>1, <2>2 DEF Answers, BoundBothWays, BoundUnlessWithdrawn, MismatchMeansWithdrawn,
                            world, history
  <2> QED
    BY <1>3, <2>3, <2>4 DEF IInv
<1>5. CASE /\ doc # NoDocument /\ HasAIREv1(doc)
           /\ ref = Handle => VerifyAlsoKnownAs(doc, Handle)
           /\ LET a == PickAIREv1(doc, IF ref = Handle THEN Handle ELSE "")
              IN  addr' = [did |-> did, endpoint |-> a.endpoint, agentID |-> a.agentID]
           /\ pc' = "done" /\ result' = "ok"
  <2>1. TypeOK' /\ ReadIsNamed' /\ ReadHasURL' /\ Running'
    BY <1>1, <1>5 DEF IInv, TypeOK, ReadIsNamed, ReadHasURL, Running, Errors, world
  <2>2. ASSUME ref = Handle
        PROVE  /\ addr'.did = did
               /\ [endpoint |-> addr'.endpoint, agentID |-> addr'.agentID] = PickAIREv1(doc, Handle)
    <3>1. PickAIREv1(doc, Handle)
            = [endpoint |-> PickAIREv1(doc, Handle).endpoint, agentID |-> PickAIREv1(doc, Handle).agentID]
      <4>1. PICK endpoint, agentID :
              PickAIREv1(doc, Handle) = [endpoint |-> endpoint, agentID |-> agentID]
        BY Zenon DEF PickAIREv1
      <4> QED  BY <4>1
    <3>2. addr' = [did |-> did, endpoint |-> PickAIREv1(doc, Handle).endpoint,
                   agentID |-> PickAIREv1(doc, Handle).agentID]
      BY <1>5, <2>2
    <3> QED
      BY <3>1, <3>2
  <2>3. BoundBothWays'
    <3> SUFFICES ASSUME ref = Handle
                 PROVE  /\ addr'.did \in named
                        /\ \E p \in published :
                             /\ p[1] = URLOf[addr'.did] /\ Listed(p[2], Handle) /\ HasAIREv1(p[2])
                             /\ [endpoint |-> addr'.endpoint, agentID |-> addr'.agentID]
                                  = PickAIREv1(p[2], Handle)
      BY <1>1 DEF BoundBothWays, history
    <3>1. did \in named
      BY <1>1 DEF IInv, ReadIsNamed
    <3>2. <<URLOf[did], doc>> \in published
      BY <1>1 DEF IInv, Recorded
    <3>3. Listed(doc, Handle) /\ HasAIREv1(doc)
      BY <1>5 DEF Listed, VerifyAlsoKnownAs
    <3> HIDE DEF doc
    <3> DEFINE p == <<URLOf[did], doc>>
    <3>4. p[1] = URLOf[did] /\ p[2] = doc /\ p \in published
      BY <3>2
    <3> HIDE DEF p
    <3> QED
      BY <2>2, <3>1, <3>3, <3>4, Zenon
  <2>4. BoundUnlessWithdrawn'
    <3> SUFFICES ASSUME ref = Handle PROVE did \in bound \cup withdrawn
      BY <1>1, <2>2 DEF BoundUnlessWithdrawn, history
    <3>1. did \in Named(txt, wellKnown) \cup withdrawn
      BY <1>1 DEF IInv, ReadIsNamed
    <3>2. ASSUME did \in Named(txt, wellKnown) PROVE did \in bound
      <4>1. Method[did] = "web" /\ Listed(doc, Handle)
        BY <1>1, <1>5 DEF IInv, ReadHasURL, Listed, VerifyAlsoKnownAs
      <4> QED
        BY <1>1, <3>2, <4>1, ResolverAssumption DEF IInv, Recorded, Lists
    <3> QED
      BY <3>1, <3>2
  <2>5. MismatchMeansWithdrawn'
    BY <1>5 DEF MismatchMeansWithdrawn
  <2> QED
    BY <1>3, <2>1, <2>3, <2>4, <2>5 DEF IInv, Answers
<1> QED
  BY <1>2, <1>4, <1>5 DEF FetchDocument, UseDocument

(* Every step keeps the invariant.                                          *)
LEMMA NextIInv == IInv /\ [Next]_vars => IInv'
<1> SUFFICES ASSUME IInv, [Next]_vars PROVE IInv'
  OBVIOUS
<1>1. CASE UNCHANGED vars
  <2>1. TypeOK' /\ ReadIsNamed' /\ ReadHasURL' /\ Running'
    BY <1>1 DEF vars, world, call, history, IInv, TypeOK, ReadIsNamed, ReadHasURL, Running
  <2>2. Recorded'
    BY <1>1 DEF vars, world, call, history, IInv, Recorded, Named, Lists, Consistent, Listed
  <2>3. BoundBothWays'
    BY <1>1, Zenon DEF vars, world, call, history, IInv, Answers, BoundBothWays, Listed, HasAIREv1, PickAIREv1
  <2>4. BoundUnlessWithdrawn' /\ MismatchMeansWithdrawn'
    BY <1>1 DEF vars, world, call, history, IInv, Answers, BoundUnlessWithdrawn, MismatchMeansWithdrawn
  <2> QED
    BY <2>1, <2>2, <2>3, <2>4 DEF IInv, Answers
<1>2. CASE Publish
  BY <1>2, PublishIInv
<1>3. CASE Start
  <2>1. pc = "start" /\ result = "none" /\ UNCHANGED <<world, ref, history>>
    BY <1>3 DEF Start, IInv, Running
  <2>2. CASE ref \in DID /\ ResolveDID(ref)
    BY <2>1, <2>2, ResolveDIDStep, ResolverAssumption
  <2>3. CASE (Continue("txt") \/ Fail("ErrMalformedHandle")) /\ UNCHANGED did
    BY <2>1, <2>3, PlainStep DEF Continue, Fail
  <2> QED
    BY <1>3, <2>2, <2>3 DEF Start
<1>4. CASE LookupTXT
  <2>1. pc = "txt" /\ result = "none" /\ UNCHANGED <<world, ref, history>>
    BY <1>4 DEF LookupTXT, IInv, Running
  <2>2. CASE Len(txt) = 1 /\ txt[1] \in DID /\ ResolveDID(txt[1])
    <3>1. txt[1] \in Named(txt, wellKnown)
      BY <2>2, ResolverAssumption DEF Named
    <3> QED
      BY <2>1, <2>2, <3>1, ReadNamed, ResolveDIDStep
  <2>3. CASE Continue("well-known") /\ UNCHANGED did
    BY <2>1, <2>3, PlainStep DEF Continue
  <2> QED
    BY <1>4, <2>2, <2>3 DEF LookupTXT
<1>5. CASE FetchWellKnown
  <2>1. pc = "well-known" /\ result = "none" /\ UNCHANGED <<world, ref, history>>
    BY <1>5 DEF FetchWellKnown, IInv, Running
  <2>2. CASE wellKnown \in DID /\ ResolveDID(wellKnown)
    <3>1. wellKnown \in Named(txt, wellKnown)
      BY <2>2, ResolverAssumption DEF Named
    <3> QED
      BY <2>1, <2>2, <3>1, ReadNamed, ResolveDIDStep
  <2>3. CASE Fail("lookup failed") /\ UNCHANGED did
    BY <2>1, <2>3, PlainStep DEF Fail
  <2> QED
    BY <1>5, <2>2, <2>3 DEF FetchWellKnown
<1>6. CASE FetchDocument
  BY <1>6, DocumentIInv
<1> QED
  BY <1>1, <1>2, <1>3, <1>4, <1>5, <1>6 DEF Next

(* IInv holds throughout every call.                                        *)
LEMMA Invariance == Spec => []IInv
<1>1. Init => IInv
  BY InitIInv
<1>2. IInv /\ [Next]_vars => IInv'
  BY NextIInv
<1> QED
  BY <1>1, <1>2, PTL DEF Spec

-----------------------------------------------------------------------------
(* The published records and the call always have their types.              *)
THEOREM TypeCorrect == Spec => []TypeOK
<1>1. IInv => TypeOK
  BY DEF IInv
<1> QED
  BY <1>1, Invariance, PTL

(* For any documents, records and changes, an address returned for a handle *)
(* has a DID the domain has named and comes from one version of its         *)
(* document, which lists the handle (addressing.go:46-67).                  *)
THEOREM HandlesAreBoundBothWays == Spec => []BoundBothWays
<1>1. IInv => BoundBothWays
  BY DEF IInv, Answers
<1> QED
  BY <1>1, Invariance, PTL

(* For any documents, records and changes, orderly or not, the DID that a   *)
(* call returns was bound to the handle both ways at one moment, or its     *)
(* name was withdrawn while the call made its lookups                       *)
(* (addressing.go:141-146, 248-256).                                        *)
THEOREM BindingHeldAtOneMoment == Spec => []BoundUnlessWithdrawn
<1>1. IInv => BoundUnlessWithdrawn
  BY DEF IInv, Answers
<1> QED
  BY <1>1, Invariance, PTL

(* With orderly owners ErrAlsoKnownAsMismatch is only returned by a call    *)
(* during which the domain took a name back (addressing.go:250-256).        *)
THEOREM MismatchIsNeverSpurious == Spec => []MismatchMeansWithdrawn
<1>1. IInv => MismatchMeansWithdrawn
  BY DEF IInv, Answers
<1> QED
  BY <1>1, Invariance, PTL

=============================================================================
